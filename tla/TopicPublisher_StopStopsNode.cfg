SPECIFICATION FairSpec
CONSTANTS
  Conns = {c1, c2}
  MaxMsg = 2
PROPERTY StopStopsNode
CHECK_DEADLOCK FALSE
