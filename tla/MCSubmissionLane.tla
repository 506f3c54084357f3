------------------------- MODULE MCSubmissionLane -------------------------
(* Instances of SubmissionLane for TLC. *)
EXTENDS SubmissionLane, TLC

Symmetry == Permutations(Bundles) \cup Permutations(Relays)
=============================================================================
