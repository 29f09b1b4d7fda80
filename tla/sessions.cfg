SPECIFICATION AuthSpec
CONSTANTS
    c1 = c1
    c2 = c2
    rival = rival
    Call = {c1, c2}
    Rival = rival
    MaxTokens = 3
INVARIANTS
    SpentOnce
    DeadPairIsHandled
    NoOrphanSession
PROPERTIES
    StaysSignedIn
    CallsEnd
CHECK_DEADLOCK FALSE
