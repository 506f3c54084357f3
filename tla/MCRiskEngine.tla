--------------------------- MODULE MCRiskEngine ---------------------------
(* Instances of RiskEngine for TLC. *)
EXTENDS RiskEngine, TLC

LossOrGain == {-2, 1}

Symmetry == Permutations(Tasks) \cup Permutations(Patches)
=============================================================================
