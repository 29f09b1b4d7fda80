SPECIFICATION TasksSpec
CONSTANTS
    LessonId <- MCKeys
    NoRow = NoRow
    MaxEdits = 2
PROPERTIES
    NoOrderConflict
CHECK_DEADLOCK FALSE
