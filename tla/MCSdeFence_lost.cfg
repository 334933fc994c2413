SPECIFICATION MCSpec
CONSTANTS
  Fence = {f1, f2}
  Creator = {ioctl}
  Signaler = {event}
  Modulus = 16
  Offset = {1, 2}
  Start = {0}
  MaxCommits = 3
  MaxOutstanding = 2
  NoFence = NoFence
SYMMETRY Symmetry
INVARIANTS QuiescentSignaled
CHECK_DEADLOCK FALSE
