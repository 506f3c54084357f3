SPECIFICATION Spec
CONSTANTS
  Bundles = {b1}
  Legs = 2
  Victims = {1}
  FinalityDepth = 2
  Limit = 1
  MaxReorg = 2
  Lateness = 0
  MaxBlock = 5
  MaxIds = 7
  MaxCrashes = 1
  Faults = {"db_write"}
INVARIANTS
  VerdictIsRight
  OutcomesAreCanonical
PROPERTIES
  VerdictIsFinal
