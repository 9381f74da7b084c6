SPECIFICATION FairSpec
CONSTANTS
  Calls = {c1, c2}
  Closers = {d1}
  ChanCap = 1
  MaxSubs = 1
  MaxReplies = 2
  None = None
INVARIANTS
  CallbackClosedOnce
  ReleasedOnStop
PROPERTIES
  RefinesLifecycle
  QuietAfterStop
  DoneCompletes
  WaiterFreed
CHECK_DEADLOCK FALSE
