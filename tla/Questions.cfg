SPECIFICATION FairSpec
CONSTANTS
  Options = {"TTYPE", "NEW_ENVIRON", "NAWS", "LFLOW", "CHARSET", "GMCP"}
  always_will <- Nobody
  always_do <- Nobody
  always_wont <- NoLFLOW
  always_dont <- Nobody
  passive_do <- OnlyGMCP
  NoCompression = {}
  EnvironBatches <- ThreeBatches
  CharsetAnswer <- Accepts
  AppCalls <- QueriesAndGMCP
  AppSubs <- Questions
  Resizes = TRUE
  MaxCalls = 4
INVARIANTS
  Answered
  RefusalsHold
PROPERTIES
  Settles
\* Behaviours end: the calls are bounded and a closed connection stops.
CHECK_DEADLOCK FALSE
