SPECIFICATION RequestSpec
CONSTANTS
  MaxPackLength = 200
  Radix = 4
  Connects <- MCConnects
  Packs <- MCPacks
  TopicOf <- MCTopicOf
  Results <- MCResults
  MaxTasks = 2
  MaxPacks = 3
INVARIANTS
  PacksArrive
  FramesReadable
  OneAnswer
  HandlerSees
  
CHECK_DEADLOCK FALSE
