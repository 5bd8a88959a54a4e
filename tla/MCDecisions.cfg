SPECIFICATION MCSpec
CONSTANTS
  Half64 = 16
  Half32 = 2
  Second = 3
  Day = 6
  Unit = {1, 3, 5}
  MaxLen = 2
  Words = 2
  MaxItems = 3
  MaxLength = 3
  MaxListeners = 2
  MaxTokens = 5
  MaxExtra = 1
  Host = {h1, h2}
  Authorized = {h1}
  Port = {p1, p2}
  MaxHopSkips = 2
  MaxLines = 2
  MaxValues = 2
  Csp = csp
  Standard = {csp}
  Other = {x}
  Hundreds = {0, 2}
  Exact = {200, 600}
  Status = {103, 200, 404, 700}
  Key = {k1, k2}
  MaxArgs = 3
INVARIANT ExactOrRefused
INVARIANT ListsAreSets
 
INVARIANT ConfigSound
INVARIANT RoundTrip
INVARIANT CredentialsSound
INVARIANT LastEntriesDecide
INVARIANT HeadersAsConfigured
INVARIANT NothingForgotten
CHECK_DEADLOCK FALSE
