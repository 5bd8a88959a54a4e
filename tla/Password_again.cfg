SPECIFICATION Spec
CONSTANTS
  MaxCalls = 2
  MaxKeys = 4
  AfterInterrupt = TRUE
INVARIANT NotEchoed
CHECK_DEADLOCK FALSE
