\* Two processes whose operations and clocks keep to the timing.
SPECIFICATION Spec
CONSTANTS
  Proc = {p1, p2}
  NoProc = NoProc
  Lease = 5
  Renew = 2
  Interval = 2
  StuckAfter = 1
  JoinTimeout = 2
  MaxSkew = 1
  MaxDelay = 1
  Horizon = 6
SYMMETRY Symmetry
INVARIANTS StepsDownFirst CleanHandover BoundedLockout
PROPERTY ElectsOne
\* Time stops at the horizon.
CHECK_DEADLOCK FALSE
