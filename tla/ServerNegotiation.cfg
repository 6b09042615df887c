SPECIFICATION FFairSpec
CONSTANTS
  Options = {"TTYPE", "NEW_ENVIRON", "ECHO", "BINARY", "CHARSET", "LOGOUT",
             "NAWS", "GMCP"}
  always_will <- Nobody
  always_do <- Nobody
  always_wont <- Nobody
  always_dont <- Nobody
  passive_do <- Nobody
  NoCompression = {}
  EnvironBatches <- OneBatch
  CharsetAnswer <- Accepts
  Clients <- SomeClients
  MudTerminals = {"MUDLET"}
  TTYPE_LOOPMAX = 3
  line_mode = FALSE
  force_binary = FALSE
  default_encoding = TRUE
  MaxChunk = 2
  CORE_OPTIONS <- Core
  EXTENDED_OPTIONS <- Extended
  LEGACY_OPTIONS <- Legacy
INVARIANTS
  NeverRaises
  DeferredRight
  ProbeTruthful
PROPERTIES
  ShellAnswered
  Decides
\* A connection ends.
CHECK_DEADLOCK FALSE
