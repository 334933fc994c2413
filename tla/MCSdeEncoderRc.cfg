SPECIFICATION FairSpec
CONSTANTS
    p1 = p1
    p2 = p2
    Phys = {p1, p2}
    HasIdlePc = TRUE
    Scenarios <- AllScenarios
INVARIANTS
    TypeOK
    ReferencesBalanced
    FrameHasResources
    PendingWhileBusy
PROPERTIES
    ReturnsToIdle
