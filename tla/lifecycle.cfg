SPECIFICATION FairSpec
CONSTANTS
  N = 3
  B = 1
  CanCrash = TRUE
INVARIANTS
  RegisteredIsServed
  EntryAfterReady
  LaterModulesDown
PROPERTIES
  DestroyCompletes
CHECK_DEADLOCK FALSE
