SPECIFICATION Spec
CONSTANTS
  Issuer = {i1, i2}
  Redeemer = {r1, r2}
  TicksPerSecond = 1
  ValiditySec = 0
  ValidityNsec = 0
  ClockStepsBack = TRUE
  MaxSec = 1
  MaxCounter = 2
  MaxKey = 2
SYMMETRY GoroutineSymmetry
INVARIANT StrictOnce
INVARIANT OutstandingNeverWraps
PROPERTY ImplementsService
CHECK_DEADLOCK FALSE
