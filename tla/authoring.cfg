SPECIFICATION AuthoringSpec
CONSTANTS
    e1 = e1
    Editor = {e1}
    LessonId = {1, 2, 3}
    MaxSteps = 3
    NoRow = NoRow
    None = None
    w1 = w1
    w2 = w2
    Word = {w1, w2}
    Short = Short
    SaveSlot = {1, 2}
    MaxLessons = 2
    MaxCourses = 2
    MaxChanges = 5
    fine = fine
    lacking = lacking
    refused = refused
    Content = {fine, lacking, refused}
    Lacking = {lacking}
    Invalid = {lacking, refused}
    Press = {1, 2}
    Odd = Odd
    MaxVersion = 3
    MaxMoves = 3
    c1 = c1
    c2 = c2
    Competency = {c1, c2}
    CourseType = {"foundation", "practice"}
    Unlinked = Unlinked
    Text = {w1, w2, Blank, Brief}
    Blank = Blank
    Brief = Brief
    Tab = {1, 2}
    MaxPatches = 2
    MaxPuts = 2
    MaxActs = 3
    MaxEdits = 2
INVARIANTS
    SavedAtRest
    PressSubmitsOnce
    SavedTextsAreStored
PROPERTIES
    SaveKeepsOrder
    UnlistedLinkStays
    SaveKeepsTasks
    AutosaveRetries
    AutosaveSettles
CHECK_DEADLOCK FALSE
