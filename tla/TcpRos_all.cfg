SPECIFICATION FairSpec
CONSTANTS
  MaxMsg = 2
  Lengths = {0, 127, 200, 1100}
INVARIANTS
  TypeOK
  HeadersJudged
  WholeInOrder
PROPERTY SilenceEnds
CHECK_DEADLOCK FALSE
