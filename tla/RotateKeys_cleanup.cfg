SPECIFICATION Spec
CONSTANTS
  Timeout = 3
  Delay = 2
  KeyLimit = 3
  MaxKey = 4
  MaxCall = 1
PROPERTY NewKeyCleanedUp
CHECK_DEADLOCK FALSE
