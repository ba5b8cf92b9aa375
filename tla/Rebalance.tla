------------------------------ MODULE Rebalance ------------------------------
(***************************************************************************)
(* A group of event processors that share the partitions of an event hub:  *)
(* the long-run effect of their load-balancing cycles.  A cycle - list the *)
(* ownerships, decide, claim - is one step here; EventProcessor takes it   *)
(* apart.  Processors start, stop without releasing what they own, and     *)
(* ownerships that nobody renews expire.                                   *)
(***************************************************************************)
EXTENDS LoadBalancer

CONSTANT
  MaxTurnover  \* bound: how many processors may start or stop

ASSUME MaxTurnoverAssumption == MaxTurnover \in Nat

VARIABLES
  strategy, \* the ProcessorStrategy each of them was built with
  holder,   \* the unexpired owner of each partition
  running,  \* processors whose run() loop is active
  turnover  \* starts and stops so far

groupVars == <<strategy, holder, running, turnover>>

GroupInit ==
  /\ strategy \in [Processors -> Strategies]
  /\ holder = [p \in Partitions |-> Unowned]
  /\ running \in SUBSET Processors
  /\ turnover = 0

\* One dispatch of x: EventProcessor::dispatch calls load_balance.
Cycle(x) ==
  /\ x \in running
  /\ \E C \in Claims(holder, x, strategy[x]) :
       holder' = [p \in Partitions |-> IF p \in C THEN x ELSE holder[p]]
  /\ UNCHANGED <<strategy, running, turnover>>

\* last_modified_time + duration < now: only of one who renews no more, since
\* the builder requires the expiration to exceed the update interval.
HolderExpires(p) ==
  /\ holder[p] \notin running \cup {Unowned}
  /\ holder' = [holder EXCEPT ![p] = Unowned]
  /\ UNCHANGED <<strategy, running, turnover>>

Joins(x) ==
  /\ x \notin running /\ turnover < MaxTurnover
  /\ running' = running \cup {x}
  /\ turnover' = turnover + 1
  /\ UNCHANGED <<strategy, holder>>

\* Shutdown, failure of run() or crash: nothing is released.
Leaves(x) ==
  /\ x \in running /\ turnover < MaxTurnover
  /\ running' = running \ {x}
  /\ turnover' = turnover + 1
  /\ UNCHANGED <<strategy, holder>>

GroupNext ==
  \/ \E x \in Processors : Cycle(x) \/ Joins(x) \/ Leaves(x)
  \/ \E p \in Partitions : HolderExpires(p)

GroupSpec == GroupInit /\ [][GroupNext]_groupVars

\* Every running processor keeps dispatching (run() loops after a sleep) and
\* time passes; starts and stops need not happen.
GroupFairness ==
  /\ \A x \in Processors : WF_groupVars(Cycle(x))
  /\ \A p \in Partitions : WF_groupVars(HolderExpires(p))

FairGroupSpec == GroupSpec /\ GroupFairness

-----------------------------------------------------------------------------
GroupTypeOK ==
  /\ strategy \in [Processors -> Strategies]
  /\ holder \in Views
  /\ running \subseteq Processors
  /\ turnover \in 0..MaxTurnover

\* The group converges: once processors stop coming and going, every
\* partition ends up with a running owner, evenly spread, and stays there,
\* also when processors of different strategies share the event hub.
Converges == <>[](running = {} \/ BalancedOver(holder, running))

\* A balanced group is left alone: no cycle moves a partition between running
\* processors that are balanced already.
NoThrash ==
  [][BalancedOver(holder, running) /\ UNCHANGED running => UNCHANGED holder]_groupVars

\* A partition is stolen only from a processor that owns at least two more
\* than the thief, so every theft makes the group more even.
StealsFromRicher ==
  [][\A p \in Partitions :
       holder[p] # Unowned /\ holder'[p] \notin {holder[p], Unowned}
         => Count(holder, holder[p]) >= Count(holder, holder'[p]) + 2]_groupVars
=============================================================================
