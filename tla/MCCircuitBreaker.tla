-------------------------- MODULE MCCircuitBreaker --------------------------
(***************************************************************************)
(* Two accounts: three regions, where an override is moved on, exhausted   *)
(* and raced around by reads and writes, and two regions, where failures   *)
(* and alternate wins add up before they trip the partition.               *)
(***************************************************************************)
EXTENDS CircuitBreaker, TLC

CONSTANTS a, b

ThreeRegions ==
  [preferred |-> <<"east", "west", "north">>, read_threshold |-> 1, write_threshold |-> 1,
   hedge_threshold |-> 1, max_retries |-> 2, enabled |-> BOOLEAN,
   kinds |-> a :> {"hedged", "write"} @@ b :> {"read"}]

TwoRegions ==
  [preferred |-> <<"east", "west">>, read_threshold |-> 2, write_threshold |-> 1,
   hedge_threshold |-> 2, max_retries |-> 1, enabled |-> BOOLEAN,
   kinds |-> a :> {"hedged"} @@ b :> {"hedged", "read"}]

Accounts == {ThreeRegions, TwoRegions}

=============================================================================
