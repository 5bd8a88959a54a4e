SPECIFICATION MCSpec
CONSTANTS
  Image = {m1, m2}
  NoPin = none
  MaxLines = 1
  MaxSources = 2
  Nonce = {n1, n2}
  Issuer = {i1, i2}
  Redeemer = {r1, r2}
  TicksPerSecond = 2
  Validity = 1
  MaxTime = 3
INVARIANT TypesOK
INVARIANT PinnedRuns
INVARIANT KilledIsGone
INVARIANT TornDown
INVARIANT HonoursReturnedExpiry
PROPERTY KillReleasesAll
PROPERTY ImplementsService
CHECK_DEADLOCK FALSE
