SPECIFICATION RotSpec
CONSTANTS
    c1 = c1
    c2 = c2
    Ctxs = {c1, c2}
    Requests <- Two
    MaxActive = 2
    Scenarios <- AllScenarios
    None = None
CHECK_DEADLOCK FALSE
INVARIANTS RotTypeOK SlotsBalanced FramesHonest
PROPERTY FramesReturn
