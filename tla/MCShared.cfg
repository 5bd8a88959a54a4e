SPECIFICATION MCSpec
CONSTANTS
  Client = {c1, c2}
  Pattern = {p}
  Kind = {re, posix}
  MaxObjects = 4
  MaxWrite = 2
  MaxByte = 6
  Reader = {r1, r2}
  Ttl = 1
  MaxReadTime = 1
  MaxTime = 5
  MaxVersion = 2
  Reloader = {r1, r2}
  MaxRenewal = 2
  Listener = {l1, l2}
INVARIANT TypesOK
INVARIANT SameAnswer
INVARIANT NothingLostOrDoubled
INVARIANT BoundedStaleness
INVARIANT MonotonicReads
INVARIANT SocketSound
PROPERTY EventuallyEmptied
PROPERTY InstalledWasWhole
PROPERTY NeverOlderThanAtStart
PROPERTY NewestServed
CHECK_DEADLOCK FALSE
