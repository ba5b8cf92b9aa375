---------------------------- MODULE MCAsyncCache ----------------------------
(* Instances of AsyncCache for TLC. *)
EXTENDS AsyncCache, TLC

TaskSymmetry == Permutations(Tasks)
=============================================================================
