SPECIFICATION FairSpec
CONSTANTS
  SlotNum = 3
  Delays = {0, 2, 3, 7}
  Keys = {"k"}
  MaxAcc = 1
  MaxTasks = 2
  Callers = {c1, c2}
  UniqueKeys = TRUE
  NoKey = NoKey
PROPERTIES
  Refines
  TimersExpire
CHECK_DEADLOCK FALSE
