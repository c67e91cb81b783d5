SPECIFICATION FairSpec
CONSTANTS
  MaxUpdates = 4
  Empty <- EmptyAtThree
INVARIANT TypeOK
INVARIANT AddressConsistent
INVARIANT StaleOnlyByRace
INVARIANT OneLateCallback
INVARIANT LastListOrReply
PROPERTY StopEndsListener
PROPERTY RefreshEndsConnection
PROPERTY UpdateRequestedUnlessRaced
CHECK_DEADLOCK FALSE
