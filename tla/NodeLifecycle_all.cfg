SPECIFICATION FairSpec
CONSTANTS
  Topics = {t1, t2}
  Peers = {p1}
INVARIANT TypeOK
INVARIANT EndpointListens
INVARIANT RegisteredHasListener
INVARIANT StopUnregisters
PROPERTY RegistrationServed
PROPERTY StopEndsThreads
CHECK_DEADLOCK FALSE
