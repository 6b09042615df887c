SPECIFICATION PFairSpec
CONSTANTS
  Settings <- Started
  Outputs <- Programs
  Inputs <- Typed
  Obeys <- OnlyKill
  max_batch = 3
  MaxResizes = 2
INVARIANTS
  NothingLost
PROPERTIES
  UpdatesHeld
  TimersServe
  SessionEnds
\* A session ends.
CHECK_DEADLOCK FALSE
