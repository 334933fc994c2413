SPECIFICATION Spec
CONSTANTS
    p1 = p1
    p2 = p2
    Phys = {p1, p2}
    Master = p1
    PoolSize = 4
    MaxFrames <- Frames
    FaultModes <- Modes
    None = None
INVARIANTS
    TypeOK
    FencesNotEarly
    QuietSignaled
PROPERTIES
    FramesReported
