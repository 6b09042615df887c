SPECIFICATION FairSpec
CONSTANTS
  Funcs <- TwoFuncs
  Defaults <- Tables
  Bits = {"EDIT", "LIT_ECHO"}
  default_linemode = {"LIT_ECHO"}
  Calls <- SendsAndToggle
  MaxCalls = 3
INVARIANTS
  ModesAgree
  CharactersAgree
PROPERTIES
  Settles
\* Behaviours end: the calls are bounded.
CHECK_DEADLOCK FALSE
