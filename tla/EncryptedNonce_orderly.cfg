SPECIFICATION FairSpec
CONSTANTS
  Issuer = {i1}
  Redeemer = {r1, r2}
  TicksPerSecond = 2
  ValiditySec = 0
  ValidityNsec = 1
  ClockStepsBack = FALSE
  MaxSec = 2
  MaxCounter = 3
  MaxKey = 1
INVARIANT HonoursUnexpired
INVARIANT DrainedByTidy
PROPERTY Reclaimed
CHECK_DEADLOCK FALSE
