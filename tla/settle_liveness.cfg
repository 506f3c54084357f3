SPECIFICATION FairSpec
CONSTANTS
  Bundles = {b1, b2}
  Legs = 1
  Victims = {}
  FinalityDepth = 1
  Limit = 1
  MaxReorg = 1
  Lateness = 0
  MaxBlock = 4
  MaxIds = 5
  MaxCrashes = 0
  Faults = {"rpc"}
PROPERTIES
  EveryBundleIsSettled
