---------------------------- MODULE LoadBalancer ----------------------------
(***************************************************************************)
(* The decision an event processor takes in one load-balancing cycle       *)
(* (load_balancer.rs), as operators on the ownerships it has listed.       *)
(*                                                                         *)
(* A view maps each partition to its owner; Unowned stands for a partition *)
(* without an ownership record or whose record is older than the           *)
(* expiration, which the code treats alike.  Random choices of the code    *)
(* are sets of possible outcomes.                                          *)
(***************************************************************************)
EXTENDS Naturals, FiniteSets

CONSTANTS Partitions, Processors, Unowned

ASSUME PartitionsAssumption == IsFiniteSet(Partitions)
ASSUME UnownedAssumption == Unowned \notin Processors

Views == [Partitions -> Processors \cup {Unowned}]

\* ProcessorStrategy
Strategies == {"Balanced", "Greedy"}

OwnedBy(view, x) == {p \in Partitions : view[p] = x}
Count(view, x)   == Cardinality(OwnedBy(view, x))

\* grouped_by_owner: whoever owns something unexpired, and the caller itself.
Owners(view, me) == ({view[p] : p \in Partitions} \ {Unowned}) \cup {me}

MinimumRequired(view, me) ==
  Cardinality(Partitions) \div Cardinality(Owners(view, me))

AllowExtraPartition(view, me) ==
  Cardinality(Partitions) % Cardinality(Owners(view, me)) > 0

\* Faulty variant of MaximumAllowed: the extra partition is granted to all.
MaximumAlwaysExtra(view, me) ==
  MinimumRequired(view, me) + (IF AllowExtraPartition(view, me) THEN 1 ELSE 0)

\* Only a processor that has its minimum may take one of the extra partitions.
MaximumAllowed(view, me) ==
  LET min == MinimumRequired(view, me)
  IN  IF AllowExtraPartition(view, me) /\ Count(view, me) >= min
      THEN min + 1 ELSE min

UnownedOrExpired(view) == OwnedBy(view, Unowned)

\* Faulty variant of AboveMaximum: owners at the maximum are robbed as well.
AtOrAboveMaximum(view, me) ==
  {p \in Partitions : /\ view[p] \notin {me, Unowned}
                      /\ Count(view, view[p]) >= MaximumAllowed(view, me)}

\* All partitions of the others that own more than the caller may own.
AboveMaximum(view, me) ==
  {p \in Partitions : /\ view[p] \notin {me, Unowned}
                      /\ Count(view, view[p]) > MaximumAllowed(view, me)}

ClaimMorePartitions(view, me) ==
  LET current == Count(view, me)
      max     == MaximumAllowed(view, me)
  IN  /\ current < max
      /\ AllowExtraPartition(view, me) /\ current = max - 1
           => UnownedOrExpired(view) # {} \/ AboveMaximum(view, me) # {}

\* get_random_ownerships: any subset of the given size, or all of S.
RandomOwnerships(S, n) ==
  LET limit == IF n < Cardinality(S) THEN n ELSE Cardinality(S)
  IN  {T \in SUBSET S : Cardinality(T) = limit}

\* balanced_load_balancer: one partition, an unowned one if there is any.
BalancedChoices(view, me) ==
  LET free == UnownedOrExpired(view)
      rich == AboveMaximum(view, me)
  IN  IF free # {} THEN {{p} : p \in free}
      ELSE IF rich # {} THEN {{p} : p \in rich} ELSE {{}}

\* greedy_load_balancer: fill up to the maximum, unowned partitions first.
GreedyChoices(view, me) ==
  LET need  == MaximumAllowed(view, me) - Count(view, me)
      free  == RandomOwnerships(UnownedOrExpired(view), need)
      rich(F) == RandomOwnerships(AboveMaximum(view, me), need - Cardinality(F))
  IN  UNION {{F \cup R : R \in rich(F)} : F \in free}

\* load_balance: the sets of partitions the caller may ask the checkpoint
\* store for.  What it owns already is claimed again, which renews it.
Claims(view, me, strategy) ==
  {OwnedBy(view, me) \cup new : new \in
     IF ~ClaimMorePartitions(view, me) THEN {{}}
     ELSE IF strategy = "Balanced" THEN BalancedChoices(view, me)
     ELSE GreedyChoices(view, me)}

-----------------------------------------------------------------------------
(* What the decision is meant to achieve *)

\* No partition is unowned, and no two of the processors in S differ by more
\* than one partition.
BalancedOver(view, S) ==
  /\ \A p \in Partitions : view[p] \in S
  /\ \A x, y \in S : Count(view, x) <= Count(view, y) + 1
=============================================================================
