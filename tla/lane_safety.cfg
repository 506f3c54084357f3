SPECIFICATION Spec
CONSTANTS
  Bundles = {b1, b2}
  Relays = {r1, r2}
  Legs = {1}
  TargetOffset = 1
  FinalityDepth = 1
  SmokeMax = 1
  MaxBlock = 3
  Faults = {"db_write"}
  Nobody = Nobody
  Cancel = Cancel
SYMMETRY Symmetry
INVARIANTS
  NoncesNeverReused
  LivePayloadIsRecoverable
  PausedIsQuiet
  TripIsQuiet
  SmokeBudgetHolds
PROPERTIES
  SentNonceIsFresh
