SPECIFICATION MCSpec
CONSTANTS
  Fence = {f1, f2}
  Creator = {ioctl}
  Signaler = {event}
  Modulus = 16
  Offset = {1, 2}
  Start = {14}
  MaxCommits = 17
  MaxOutstanding = 2
  NoFence = NoFence
SYMMETRY Symmetry
INVARIANTS TypeOK References NeverEarly SerialSignaled
CHECK_DEADLOCK FALSE
