SPECIFICATION MCSpec
CONSTANTS
  Worker = {w1, w2, w3, w4, w5}
  Requested = 2
  Timeout = 3
  Delay = 2
  KeyLimit = 3
  MaxKey = 4
  MaxCall = 1
  Caller = {c1, c2}
  maxCharsetLen = 3
  Charset = {{1, 2}, {2, 3, 4}, {5}}
  NonPrintable = {5}
  MaxMinChars = 1
  MaxLength = 2
  Base62 = 2
  MaxCalls = 2
  MaxKeys = 3
  AfterInterrupt = FALSE
INVARIANT TypesOK
INVARIANT CurrentPermitsExact
INVARIANT WorkingCredentials
INVARIANT OverwrittenAfterDeletion
INVARIANT GeneratedSound
INVARIANT PasswordSound
PROPERTY EveryWaitEnds
PROPERTY EveryRotationEnds
CHECK_DEADLOCK FALSE
