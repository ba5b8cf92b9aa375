--------------------------- MODULE MCBearerToken ---------------------------
(* Instances of BearerToken for TLC. *)
EXTENDS BearerToken, TLC

\* Requests are interchangeable.
RequestSymmetry == Permutations(Requests)
=============================================================================
