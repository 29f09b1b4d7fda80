SPECIFICATION Spec
CONSTANTS
    e1 = e1
    Editor = {e1}
    LessonId = {1, 2, 3, 4}
    MaxSteps = 3
    NoRow = NoRow
    None = None
PROPERTIES
    SaveLosesNoEdit
CHECK_DEADLOCK FALSE
