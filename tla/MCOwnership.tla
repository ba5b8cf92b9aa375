----------------------------- MODULE MCOwnership -----------------------------
(* Instances of Ownership for TLC. *)
EXTENDS Ownership, TLC

\* Partitions and processors are interchangeable.
Symmetric == Permutations(Partitions) \cup Permutations(Processors)
=============================================================================
