SPECIFICATION FairSpec
CONSTANTS
  Requests = {r1, r2}
  Kinds = {"go", "sync", "missing", "goArity", "syncArity"}
  LatePanics = {r2}
  Limits = {0, 1}
  MaxSubs = 1
  None = None
INVARIANTS
  AnsweredOnce
PROPERTIES
  NothingTakenAfterDone
  DoneReturns
CHECK_DEADLOCK FALSE
