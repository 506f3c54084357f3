SPECIFICATION Spec
CONSTANTS
  Capacity = 1
  BatchMax = 1
  Faults = {"write", "rpc"}
  Samples = {s1}
  MaxPending = 1
  MaxAge = 1
  MaxDepth = 2
  MaxBlock = 3
  MaxIds = 5
  BlockRow = BlockRow
INVARIANTS
  EvidenceReachesTheGate
