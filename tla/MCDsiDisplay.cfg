CONSTANTS
    Client = {"mdp", "dsi"}
    Fault <- AllFaults
    MaxFaults = 1
    MaxRef = 4
    Configs <- AllConfigs
SPECIFICATION Spec
INVARIANTS
    TypeOK
    ClkPromise
    LanesFollowClocks
    
    IdleReleasesAll
