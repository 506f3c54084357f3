SPECIFICATION Spec
CONSTANTS
  Tasks = {t1, t2, t3}
  Patches = {p1, p2}
  Nets <- LossOrGain
  DrawdownLimit = 1
  MaxInflight = 2
  Faults = {"db_read", "db_write"}
  Operator = Operator
  Nobody = Nobody
SYMMETRY Symmetry
INVARIANTS
  InflightIsBalanced
  PatchesAreNotLost
  RecheckIsUnmixed
  RowMatchesSwitch
