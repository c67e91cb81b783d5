SPECIFICATION FairSpec
CONSTANTS
  Clients = {c1, c2}
  Browsers = {c2}
  MayAsk <- AnyBesideBrowsers
  UsesUpTimeout = TRUE
INVARIANT TypeOK
 
 
PROPERTY LoopEnds
 
CHECK_DEADLOCK FALSE
