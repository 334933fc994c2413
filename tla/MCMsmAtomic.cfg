SPECIFICATION Spec
CONSTANTS
    d1 = d1
    d2 = d2
    l1 = l1
    l2 = l2
    l3 = l3
    g1 = g1
    g2 = g2
    g3 = g3
    q1 = q1
    k1 = k1
    k2 = k2
    None = None
    t1 = t1
    t2 = t2
    p1 = p1
    Display = {d1, d2}
    Displays <- Order
    LmList <- Lms
    LmCfg <- Mixers
    CtlList <- Ctls
    CtlCfg <- CtlsPlain
    DscList <- NoDsc
    DscPair <- NoPairs
    CdmList <- NoDsc
    NeedsCdm = {}
    WantsDspp = {}
    WantsDs = {}
    Primary = {d1}
    TopologyTbl <- Tops
    Plane = {p1}
    Caller = {t1, t2}
    MaxCommits = 3
    MaxObjects = 2
INVARIANTS
    TypeOK
    HwFollowsState
    RsvpFits
PROPERTIES
    Exclusive
    CommitReturns
CHECK_DEADLOCK FALSE
