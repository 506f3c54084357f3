SPECIFICATION FairSpec
CONSTANTS
  Bundles = {b1, b2}
  Relays = {r1}
  Legs = {1}
  TargetOffset = 1
  FinalityDepth = 1
  SmokeMax = 1
  MaxBlock = 2
  Faults = {}
  Nobody = Nobody
  Cancel = Cancel
PROPERTIES
  TripCancelsEverything
  QueuedCandidateIsServed
