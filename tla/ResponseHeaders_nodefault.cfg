SPECIFICATION Spec
CONSTANTS
  Csp = csp
  Standard = {csp}
  Other = {x}
  Hundreds = {0, 2}
  Exact = {200, 600}
  Status = {103, 200, 404, 700}
INVARIANT DefaultsAdded
CHECK_DEADLOCK FALSE
