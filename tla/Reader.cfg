SPECIFICATION FairSpec
CONSTANTS
  limit = 2
  Input <- SomeInputs
  MaxChunk = 3
  Calls <- AllCalls
  MaxCalls = 2
  Queued = FALSE
INVARIANTS
  NothingLost
PROPERTIES
  Served
\* The stream ends, and so do the calls.
CHECK_DEADLOCK FALSE
