----------------------------- MODULE MCRebalance -----------------------------
(* Instances of Rebalance for TLC. *)
EXTENDS Rebalance, TLC
=============================================================================
