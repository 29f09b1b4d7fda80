SPECIFICATION Spec
CONSTANTS
    v1 = v1
    v2 = v2
    c1 = c1
    c2 = c2
    Version = {v1, v2}
    Client = {c1}
    MaxRequests = 7
    NoRelease = NoRelease
INVARIANTS
    PublishedIffDated
PROPERTIES
    PublishingServes
    ImplementsWorkflow
CHECK_DEADLOCK FALSE
