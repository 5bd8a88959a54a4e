SPECIFICATION Spec
CONSTANTS
  Nonce = {n1, n2}
  Issuer = {i1}
  Redeemer = {r1}
  TicksPerSecond = 1
  Validity = 1
  MaxTime = 3
PROPERTY TidyFreesExpired
CHECK_DEADLOCK FALSE
