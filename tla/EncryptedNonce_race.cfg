SPECIFICATION Spec
CONSTANTS
  Issuer = {i1, i2}
  Redeemer = {r1}
  TicksPerSecond = 1
  ValiditySec = 1
  ValidityNsec = 0
  ClockStepsBack = FALSE
  MaxSec = 3
  MaxCounter = 2
  MaxKey = 1
INVARIANT HonoursUnexpired
CHECK_DEADLOCK FALSE
