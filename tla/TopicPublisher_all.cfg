SPECIFICATION FairSpec
CONSTANTS
  Conns = {c1, c2, c3}
  MaxMsg = 3
INVARIANT TypeOK
INVARIANT LatestTaken
INVARIANT CopiesBounded
INVARIANT NoPlaceholderWhileRunning
PROPERTY StopEndsThreads
PROPERTY FlagIsTaken
PROPERTY ImplementsTopic
CHECK_DEADLOCK FALSE
