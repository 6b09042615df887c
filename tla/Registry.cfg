SPECIFICATION FairSpec
CONSTANTS
  Conns = {p1, p2}
  maxsize = 1
  limit = 1
  robot_check = TRUE
INVARIANTS
  SlotsCounted
  HandedOnce
  GivenOnce
PROPERTIES
  Served
\* The connections are bounded.
CHECK_DEADLOCK FALSE
