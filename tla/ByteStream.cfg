SPECIFICATION Spec
CONSTANTS
  Receiver = "client"
  Items <- SomeItems
  Compresses = TRUE
  MaxItems = 4
PROPERTIES
  InOrder
  AllReceived
\* Everything has been written and received.
CHECK_DEADLOCK FALSE
