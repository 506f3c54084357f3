------------------------- MODULE MCStateComparisons -------------------------
EXTENDS StateComparisons, TLC

(* Samples are told apart by nothing but their place. *)
Symmetry == Permutations(Samples)
=============================================================================
