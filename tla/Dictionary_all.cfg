SPECIFICATION FairSpec
CONSTANTS
  Keys = {1, 3, 5}
  Values = {v1, v2}
  DHASHSIZE = 2
  HASHSIZE = 3
  MaxPuts = 3
  MaxRemoves = 1
INVARIANTS
  TypeOK
  LookupCurrent
  EachTopicOnce
PROPERTIES
  ImplementsMap
  LookupEnds
CHECK_DEADLOCK FALSE
