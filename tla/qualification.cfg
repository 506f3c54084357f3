SPECIFICATION FairSpec
CONSTANTS
  Capacity = 1
  BatchMax = 1
  Faults = {"write", "incident"}
  Hours = {0, 1}
  BootHours = 1
  AnyRow = AnyRow
INVARIANTS
  PassIsInformed
  ThresholdIsNotLost
PROPERTIES
  DropIsNoted
  ThresholdTakesEffect
