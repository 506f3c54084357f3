SPECIFICATION SimSpec
CONSTANTS
  Candidates = {c1, c2}
  NoCandidate = NoCandidate
  SimLastBlock = 2
  ReforkEvery = 2
  SimFaults = {"timeout"}
INVARIANTS
  ForkIsRolledBack
CHECK_DEADLOCK FALSE
