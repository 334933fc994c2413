SPECIFICATION FairSpec
CONSTANTS
    s0 = s0
    s1 = s1
    Streams = {s0, s1}
    Scenarios <- AllScenarios
INVARIANTS
    OffIsInactive
CHECK_DEADLOCK FALSE
