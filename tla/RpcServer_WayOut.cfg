SPECIFICATION FairSpec
CONSTANTS
  Clients = {c1}
  Browsers = {}
  MayAsk <- AnyBesideBrowsers
  UsesUpTimeout = TRUE
PROPERTY WayOut
CHECK_DEADLOCK FALSE
