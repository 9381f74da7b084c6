SPECIFICATION FairSpec
CONSTANTS
  n1 = n1
  n2 = n2
  Nodes = {n1, n2}
  VersionOf <- TwoVersions
  TTL = 1
  Runs = {1, 2}
  MaxStale = 1
  MaxStream = 2
  MaxLate = 1
  Ops = {"close", "reset", "init"}
INVARIANT
  EntryFollows
PROPERTIES
  OnlyLeaversNotified
  CacheConverges
  CloseEndsRuns
CHECK_DEADLOCK FALSE
