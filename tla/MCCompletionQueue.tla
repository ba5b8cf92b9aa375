-------------------------- MODULE MCCompletionQueue --------------------------
(* Instances of CompletionQueue for TLC. *)
EXTENDS CompletionQueue, TLC

\* Unbounded, the smallest bound, and one that lets the deque hold two.
AllCapacities == 0..2
=============================================================================
