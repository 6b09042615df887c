SPECIFICATION Spec
CONSTANTS
  limit = 2
  Input <- SomeInputs
  Calls = {"readline", "wait_for", "flush"}
  MaxCalls = 3
  MaxWrites = 1
  Timeouts = "running"
INVARIANTS
  ReleasedByClose
  WritesKept
  ReadsInOrder
\* The calls are bounded, and a caller may be left waiting.
CHECK_DEADLOCK FALSE
