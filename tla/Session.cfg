SPECIFICATION FairSpec
CONSTANTS
  limit = 1
  Input <- SomeInputs
  MaxChunk = 2
  Burst = 3
  quantum = 1
  _read_low = 2
  _read_high = 3
  HasShell = TRUE
INVARIANTS
  NeverRaises
  InOrder
PROPERTIES
  SessionEnds
\* The session ends.
CHECK_DEADLOCK FALSE
