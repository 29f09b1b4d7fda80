SPECIFICATION Spec
CONSTANTS
    v1 = v1
    v2 = v2
    c1 = c1
    c2 = c2
    Version = {v1, v2}
    Client = {c1, c2}
    MaxRequests = 5
    NoRelease = NoRelease
SYMMETRY Symmetry
INVARIANTS
    DecisionOnRecord
    NothingOutlivesCourse
PROPERTIES
    TrailOnlyGrows
    ArchivedStaysArchived
CHECK_DEADLOCK FALSE
