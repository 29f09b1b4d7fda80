SPECIFICATION StudioSpec
CONSTANTS
    Full = 6
    Least = {1, 2}
    Title = {t1}
    Version = {v1, v2}
    Picture = {1, 2}
    Write = {1, 2}
    Unset = Unset
    MaxTouches = 4
    Item = {1, 2}
    Target = {a1, a2}
    AnyApp = AnyApp
    MaxTurns = 3
    Screens = 3
    Spots <- MCSpots
    Cells <- MCCells
    Given <- MCGiven
    Apps = {a1}
    Unbound = Unbound
    MaxScreens = 3
    MaxWork = 3
    MaxPast = 2
    None = None
INVARIANTS
    HotspotInside
    DialogShowsItsVersion
    
    CheckedScenarioIsAccepted
    NamedByTheStore
    LinksStayInside
    HistoryFollows
    SavedTogether
    OneLibraryItem
PROPERTIES
    NoDrift
    SubmitMovesTogether
CHECK_DEADLOCK FALSE
