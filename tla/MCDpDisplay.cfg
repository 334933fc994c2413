SPECIFICATION FairSpec
CONSTANTS
    s0 = s0
    s1 = s1
    Streams = {s0, s1}
    Scenarios <- AllScenarios
INVARIANTS
    TypeOK
    ConnectionSettled
    AuthNeedsHost
PROPERTIES
    LinkOutlivesStreams
    UnplugCompletes
CHECK_DEADLOCK FALSE
