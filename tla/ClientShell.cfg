SPECIFICATION CFairSpec
CONSTANTS
  Configurations <- Started
  Offered <- NothingOrEdit
  Commands <- EchoAndMode
  Texts <- Typing
  MaxOutput = 3
INVARIANTS
  KeysInOrder
  NotDoubled
  LineEndings
PROPERTIES
  ShellReturns
\* A shell ends.
CHECK_DEADLOCK FALSE
