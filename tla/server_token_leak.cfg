SPECIFICATION Spec
CONSTANTS
  Requests = {r1, r2}
  Kinds = {"go", "missing"}
  LatePanics = {}
  Limits = {1}
  MaxSubs = 0
  None = None
INVARIANTS
  WaitsOnlyAtLimit
CHECK_DEADLOCK FALSE
