SPECIFICATION Spec
CONSTANTS
  Capacity = 1
  BatchMax = 1
  Faults = {"write", "rpc"}
  Samples = {s1, s2}
  MaxPending = 1
  MaxAge = 0
  MaxDepth = 2
  MaxBlock = 3
  MaxIds = 4
  BlockRow = BlockRow
SYMMETRY Symmetry
INVARIANTS
  SamplesAreConserved
  EvidenceIsOnChain
