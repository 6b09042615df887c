SPECIFICATION Spec
CONSTANTS
  Options = {"BINARY", "ECHO", "LOGOUT"}
  always_will <- Nobody
  always_do <- Nobody
  always_wont <- Nobody
  always_dont <- Nobody
  passive_do <- Nobody
  NoCompression = {}
  EnvironBatches <- NoBatches
  CharsetAnswer <- Accepts
  AppCalls <- LegitimateOrLogout
  AppSubs <- NoSubs
  Resizes = FALSE
  MaxCalls = 6
INVARIANTS
  TypeOK
  Consent
  Agreement
  Answered
PROPERTIES
  SilentAfterClose
\* Behaviours end: the calls are bounded and a closed connection stops.
CHECK_DEADLOCK FALSE
