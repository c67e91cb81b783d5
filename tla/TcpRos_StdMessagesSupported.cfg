SPECIFICATION Spec
CONSTANTS
  MaxMsg = 1
  Lengths = {0, 127}
INVARIANT StdMessagesSupported
CHECK_DEADLOCK FALSE
