------------------------------ MODULE Delivery ------------------------------
(***************************************************************************)
(* What a completion queue promises its host: an operation admitted while  *)
(* the gate is open is settled exactly once, by delivery or by being       *)
(* dropped; it is dropped only by a bounded queue that owes the host a     *)
(* full capacity of other operations at that moment, so an unbounded queue *)
(* drops none, nor does one whose host never has more than its capacity    *)
(* outstanding.  Once the gate is closed nothing more is admitted, and the *)
(* queue is done from the very step that settles the last operation, never *)
(* earlier and never later.                                                *)
(***************************************************************************)
EXTENDS Naturals, FiniteSets

CONSTANTS
  Ops,         \* operations the host may submit
  Capacities   \* the capacities a queue may have; 0 is unbounded

VARIABLES
  capacity,  \* fixed
  gate,      \* "open", "closed" once shutdown is requested, "done"
  fate       \* fate[o]: "none", "owed", "delivered" or "dropped"

vars == <<capacity, gate, fate>>

Owed(f) == {o \in Ops : f[o] = "owed"}

\* A closed gate is done when nothing is owed.
Settled(g, f) == IF g # "open" /\ Owed(f) = {} THEN "done" ELSE g

Init ==
  /\ capacity \in Capacities
  /\ gate = "open"
  /\ fate = [o \in Ops |-> "none"]

Admit(o) ==
  /\ gate = "open"
  /\ fate[o] = "none"
  /\ fate' = [fate EXCEPT ![o] = "owed"]
  /\ UNCHANGED <<capacity, gate>>

Deliver(o) ==
  /\ fate[o] = "owed"
  /\ fate' = [fate EXCEPT ![o] = "delivered"]
  /\ gate' = Settled(gate, fate')
  /\ UNCHANGED capacity

Drop(o) ==
  /\ fate[o] = "owed"
  /\ capacity > 0
  /\ Cardinality(Owed(fate) \ {o}) >= capacity
  /\ fate' = [fate EXCEPT ![o] = "dropped"]
  /\ gate' = Settled(gate, fate')
  /\ UNCHANGED capacity

Close ==
  /\ gate = "open"
  /\ gate' = Settled("closed", fate)
  /\ UNCHANGED <<capacity, fate>>

Next ==
  \/ \E o \in Ops : Admit(o) \/ Deliver(o) \/ Drop(o)
  \/ Close

Spec == Init /\ [][Next]_vars
=============================================================================
