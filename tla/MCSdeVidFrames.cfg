SPECIFICATION Spec
CHECK_DEADLOCK FALSE
CONSTANTS
    Master = m
    Slave = s
    PoolSize = 4
    None = None
    Scenarios <- Panels
INVARIANTS
    TypeOK
    ReportsNotEarly
    OffIsLatched
PROPERTIES
    FramesReported
