------------------------- MODULE MCLocationSnapshot -------------------------
(* Instances of LocationSnapshot for TLC. *)
EXTENDS LocationSnapshot, TLC

TaskSymmetry == Permutations(Callers)
=============================================================================
