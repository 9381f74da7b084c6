SPECIFICATION FairSpec
CONSTANTS
  Workers = {w1}
  Pushers = {}
  Reader = reader
  Cap = 1
  BufSize = 2
  MaxTopics = 2
  MaxInbox = 2
INVARIANTS
  TokenForBuffered
PROPERTIES
  FlushedOrBroken
  CloseReleases
  SendReturns
CHECK_DEADLOCK FALSE
