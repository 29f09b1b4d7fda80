SPECIFICATION GroupsSpec
CONSTANTS
    Group = {g1, g2}
    Person = {u1}
    Plan = {p1}
    Name = {n1, n2}
    Call = {1, 2}
    Blank = Blank
    MaxClicks = 4
INVARIANT RosterSavedForItsGroup
CHECK_DEADLOCK FALSE
