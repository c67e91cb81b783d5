SPECIFICATION Spec
CONSTANTS
  MaxUpdates = 3
  Empty <- EmptyAtTwo
INVARIANT NoNullPeer
CHECK_DEADLOCK FALSE
