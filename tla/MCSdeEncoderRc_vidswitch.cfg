SPECIFICATION Spec
CONSTANTS
    p1 = p1
    p2 = p2
    Phys = {p1, p2}
    HasIdlePc = TRUE
    Scenarios <- VidSwitch
INVARIANTS
    OffHoldsNothing
