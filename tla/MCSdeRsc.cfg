SPECIFICATION RscSpec
CONSTANTS
  Primary = pri
  External = {x1, x2}
  PowerHandle = ph
  Versions = {2, 3}
  FaultModes <- Modes
  MaxFreeze = 1
  NoClient = NoClient
INVARIANTS RscTypeOK BlockFollowsVotes VsyncWaitDrained
PROPERTY LockReleased
