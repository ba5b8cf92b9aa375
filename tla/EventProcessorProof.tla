------------------------- MODULE EventProcessorProof -------------------------
(***************************************************************************)
(* Proofs about LoadBalancer, Ownership, EventProcessor and Rebalance, for *)
(* any number of processors and partitions and either strategy: an         *)
(* unexpired ownership changes hands only where the load balancer may take *)
(* it, and processors with their clients, links, crashes and restarts keep *)
(* to Ownership, have one open client for a partition, and skip no event.  *)
(***************************************************************************)
EXTENDS ClientProof, ProcessorRecords, Rebalance, FiniteSetTheorems, TLAPS

-----------------------------------------------------------------------------
(* What the load balancer's decision guarantees *)

\* How many partitions someone owns is a natural number.
LEMMA CountNat ==
  ASSUME NEW v \in Views, NEW x
  PROVE  Count(v, x) \in Nat
<1>1. OwnedBy(v, x) \subseteq Partitions
  BY DEF OwnedBy
<1>2. IsFiniteSet(OwnedBy(v, x))
  BY <1>1, PartitionsAssumption, FS_Subset
<1> QED BY <1>2, FS_CardinalityType DEF Count

\* min_partitions_required and max_partitions_allowed are natural numbers: the
\* caller counts itself as an owner, so the division is never by zero.
LEMMA MaximumNat ==
  ASSUME NEW v \in Views, NEW me \in Processors
  PROVE  MaximumAllowed(v, me) \in Nat
<1> DEFINE O == Owners(v, me)
<1>1. IsFiniteSet({v[p] : p \in Partitions})
  <2>1. v \in Surjection(Partitions, {v[p] : p \in Partitions})
    BY DEF Views, Surjection
  <2> QED BY <2>1, PartitionsAssumption, FS_Surjection
<1>2. IsFiniteSet({v[p] : p \in Partitions} \ {Unowned})
  BY <1>1, FS_Subset, {v[p] : p \in Partitions} \ {Unowned} \subseteq {v[p] : p \in Partitions}
<1>3. IsFiniteSet(O)
  BY <1>2, FS_AddElement DEF Owners
<1>4. O # {}
  BY DEF Owners
<1>5. Cardinality(O) \in Nat /\ Cardinality(O) # 0
  BY <1>3, <1>4, FS_CardinalityType, FS_EmptySet
<1>6. Cardinality(Partitions) \in Nat
  BY PartitionsAssumption, FS_CardinalityType
<1>7. \A a, b \in Nat : b # 0 => a \div b \in Nat
  OBVIOUS
<1>8. MinimumRequired(v, me) \in Nat
  BY <1>5, <1>6, <1>7 DEF MinimumRequired
<1> QED BY <1>8 DEF MaximumAllowed

\* A processor asks for its own partitions, for free ones, and for partitions
\* of processors that own at least two more than it does: load_balance.
LEMMA ClaimsJustified ==
  ASSUME NEW v \in Views, NEW me \in Processors, NEW how,
         NEW C \in Claims(v, me, how)
  PROVE  /\ C \subseteq Partitions
         /\ \A p \in C : \/ v[p] \in {me, Unowned}
                         \/ Count(v, v[p]) >= Count(v, me) + 2
<1> DEFINE Good(S) == S \subseteq OwnedBy(v, me) \cup UnownedOrExpired(v)
                                    \cup AboveMaximum(v, me)
<1>1. PICK new : /\ C = OwnedBy(v, me) \cup new
                 /\ \/ new = {}
                    \/ /\ ClaimMorePartitions(v, me)
                       /\ new \in BalancedChoices(v, me) \cup GreedyChoices(v, me)
  BY DEF Claims
<1>2. ASSUME new \in BalancedChoices(v, me) PROVE Good(new)
  BY <1>2 DEF BalancedChoices
<1>3. ASSUME new \in GreedyChoices(v, me) PROVE Good(new)
  BY <1>3 DEF GreedyChoices, RandomOwnerships
<1>4. Good(C)
  BY <1>1, <1>2, <1>3
<1>5. C \subseteq Partitions
  BY <1>4 DEF OwnedBy, UnownedOrExpired, AboveMaximum
<1>6. ASSUME NEW p \in C, v[p] \notin {me, Unowned}
      PROVE  Count(v, v[p]) >= Count(v, me) + 2
  <2>1. p \in AboveMaximum(v, me)
    BY <1>4, <1>6 DEF OwnedBy, UnownedOrExpired
  <2>2. ClaimMorePartitions(v, me)
    BY <1>1, <1>6 DEF OwnedBy
  <2>3. Count(v, v[p]) > MaximumAllowed(v, me)
    BY <2>1 DEF AboveMaximum
  <2>4. Count(v, me) < MaximumAllowed(v, me)
    BY <2>2 DEF ClaimMorePartitions
  <2>5. Count(v, v[p]) \in Nat /\ Count(v, me) \in Nat /\ MaximumAllowed(v, me) \in Nat
    BY CountNat, MaximumNat
  <2> QED BY <2>3, <2>4, <2>5
<1> QED BY <1>5, <1>6

-----------------------------------------------------------------------------
(* The ownership records *)

LEMMA TypeInit == OwnershipInit => OwnershipTypeOK
BY MaxChangesAssumption DEF OwnershipInit, OwnershipTypeOK, NoView, Views

\* What the balancer sees is a view.
LEMMA UnexpiredView == OwnershipTypeOK => Unexpired \in Views /\ NoView \in Views
BY DEF OwnershipTypeOK, Unexpired, NoView, Views

LEMMA TypeStep ==
  OwnershipTypeOK /\ [OwnershipNext]_ownershipVars => OwnershipTypeOK'
<1> SUFFICES ASSUME OwnershipTypeOK, [OwnershipNext]_ownershipVars
             PROVE  OwnershipTypeOK'
  OBVIOUS
<1> USE DEF OwnershipTypeOK
<1>1. ASSUME NEW x \in Processors, ListOwnerships(x) PROVE OwnershipTypeOK'
  <2>1. PICK C \in Claims(Unexpired, x, Strategy) : todo' = [todo EXCEPT ![x] = C]
    BY <1>1 DEF ListOwnerships
  <2>2. C \subseteq Partitions
    BY <2>1, ClaimsJustified, UnexpiredView
  <2> QED BY <1>1, <2>1, <2>2, UnexpiredView DEF ListOwnerships
<1>2. ASSUME NEW x \in Processors, CycleDone(x) PROVE OwnershipTypeOK'
  BY <1>2, UnexpiredView DEF CycleDone, ForgetListing
<1>3. ASSUME NEW x \in Processors, Stop(x) PROVE OwnershipTypeOK'
  BY <1>3, UnexpiredView, MaxChangesAssumption DEF Stop, ForgetListing
<1>4. ASSUME NEW x \in Processors, Start(x) PROVE OwnershipTypeOK'
  BY <1>4, MaxChangesAssumption DEF Start, storeVars
<1>5. ASSUME NEW x \in Processors, NEW p \in Partitions,
             ClaimGranted(x, p) \/ ClaimUnacknowledged(x, p)
      PROVE  OwnershipTypeOK'
  <2>1. WriteRecord(x, p)
    BY <1>5 DEF ClaimGranted, ClaimUnacknowledged
  <2>2. owner' \in Views /\ expired' \subseteq Partitions
        /\ fresh' \in [Processors -> SUBSET Partitions]
    BY <2>1 DEF WriteRecord, Views
  <2> QED BY <1>5, <2>2 DEF ClaimGranted, ClaimUnacknowledged
<1>6. ASSUME NEW x \in Processors, NEW p \in Partitions, ClaimLost(x, p)
      PROVE  OwnershipTypeOK'
  BY <1>6 DEF ClaimLost, storeVars
<1>7. ASSUME NEW p \in Partitions, Expire(p) PROVE OwnershipTypeOK'
  BY <1>7 DEF Expire, cycleVars
<1>8. CASE UNCHANGED ownershipVars
  BY <1>8 DEF ownershipVars, storeVars, cycleVars
<1> QED BY <1>1, <1>2, <1>3, <1>4, <1>5, <1>6, <1>7, <1>8 DEF OwnershipNext

\* A listed ETag that still matches vouches for the listed owner.
LEMMA FreshStep ==
  OwnershipTypeOK /\ FreshInv /\ [OwnershipNext]_ownershipVars => FreshInv'
<1> SUFFICES ASSUME OwnershipTypeOK, FreshInv, [OwnershipNext]_ownershipVars,
                    NEW y \in Processors, NEW q \in fresh'[y]
             PROVE  (view[y][q] = owner[q] \/ (view[y][q] = Unowned /\ q \in expired))'
  BY DEF FreshInv
<1> USE DEF OwnershipTypeOK, FreshInv
<1>1. ASSUME NEW x \in Processors, ListOwnerships(x)
      PROVE  (view[y][q] = owner[q] \/ (view[y][q] = Unowned /\ q \in expired))'
  <2>1. CASE y = x
    BY <1>1, <2>1 DEF ListOwnerships, Unexpired
  <2>2. CASE y # x
    BY <1>1, <2>2 DEF ListOwnerships
  <2> QED BY <2>1, <2>2
<1>2. ASSUME NEW x \in Processors, CycleDone(x) \/ Stop(x)
      PROVE  (view[y][q] = owner[q] \/ (view[y][q] = Unowned /\ q \in expired))'
  BY <1>2 DEF CycleDone, Stop, ForgetListing
<1>3. ASSUME NEW x \in Processors, Start(x)
      PROVE  (view[y][q] = owner[q] \/ (view[y][q] = Unowned /\ q \in expired))'
  BY <1>3 DEF Start, storeVars
<1>4. ASSUME NEW x \in Processors, NEW p \in Partitions,
             ClaimGranted(x, p) \/ ClaimUnacknowledged(x, p)
      PROVE  (view[y][q] = owner[q] \/ (view[y][q] = Unowned /\ q \in expired))'
  <2>1. q \in fresh[y] /\ q # p
    BY <1>4 DEF ClaimGranted, ClaimUnacknowledged, WriteRecord
  <2> QED BY <1>4, <2>1 DEF ClaimGranted, ClaimUnacknowledged, WriteRecord, Views
<1>5. ASSUME NEW x \in Processors, NEW p \in Partitions, ClaimLost(x, p)
      PROVE  (view[y][q] = owner[q] \/ (view[y][q] = Unowned /\ q \in expired))'
  BY <1>5 DEF ClaimLost, storeVars
<1>6. ASSUME NEW p \in Partitions, Expire(p)
      PROVE  (view[y][q] = owner[q] \/ (view[y][q] = Unowned /\ q \in expired))'
  BY <1>6 DEF Expire
<1>7. CASE UNCHANGED ownershipVars
  BY <1>7 DEF ownershipVars, storeVars
<1> QED BY <1>1, <1>2, <1>3, <1>4, <1>5, <1>6, <1>7 DEF OwnershipNext

\* What is still to be claimed stays justified by the listing: the listing
\* changes only when a new cycle begins or the cycle ends.
LEMMA TodoStep ==
  OwnershipTypeOK /\ TodoInv /\ [OwnershipNext]_ownershipVars => TodoInv'
<1> DEFINE Just(y, q) == \/ view[y][q] \in {y, Unowned}
                         \/ Count(view[y], view[y][q]) >= Count(view[y], y) + 2
<1> SUFFICES ASSUME OwnershipTypeOK, TodoInv, [OwnershipNext]_ownershipVars,
                    NEW y \in Processors, NEW q \in todo'[y]
             PROVE  Just(y, q)'
  BY DEF TodoInv
<1>0. ASSUME q \in todo[y], view'[y] = view[y] PROVE Just(y, q)'
  BY <1>0 DEF TodoInv, Count, OwnedBy
<1> USE DEF OwnershipTypeOK
<1>1. ASSUME NEW x \in Processors, ListOwnerships(x) PROVE Just(y, q)'
  <2>1. CASE y = x
    <3>1. PICK C \in Claims(Unexpired, x, Strategy) : todo' = [todo EXCEPT ![x] = C]
      BY <1>1 DEF ListOwnerships
    <3>2. view'[y] = Unexpired /\ q \in C
      BY <1>1, <2>1, <3>1 DEF ListOwnerships
    <3>3. \/ Unexpired[q] \in {x, Unowned}
          \/ Count(Unexpired, Unexpired[q]) >= Count(Unexpired, x) + 2
      BY <3>1, <3>2, ClaimsJustified, UnexpiredView
    <3> QED BY <2>1, <3>2, <3>3 DEF Count, OwnedBy
  <2>2. CASE y # x
    BY <1>0, <1>1, <2>2 DEF ListOwnerships
  <2> QED BY <2>1, <2>2
<1>2. ASSUME NEW x \in Processors, CycleDone(x) \/ Stop(x) PROVE Just(y, q)'
  <2>1. CASE y = x
    <3>1. todo'[y] = {}
      BY <1>2, <2>1 DEF CycleDone, Stop
    <3> QED BY <3>1
  <2>2. CASE y # x
    BY <1>0, <1>2, <2>2 DEF CycleDone, Stop, ForgetListing
  <2> QED BY <2>1, <2>2
<1>3. ASSUME NEW x \in Processors, Start(x) PROVE Just(y, q)'
  BY <1>0, <1>3 DEF Start, storeVars
<1>4. ASSUME NEW x \in Processors, NEW p \in Partitions,
             ClaimGranted(x, p) \/ ClaimUnacknowledged(x, p) \/ ClaimLost(x, p)
      PROVE  Just(y, q)'
  BY <1>0, <1>4 DEF ClaimGranted, ClaimUnacknowledged, ClaimLost, storeVars
<1>5. ASSUME NEW p \in Partitions, Expire(p) PROVE Just(y, q)'
  BY <1>0, <1>5 DEF Expire, cycleVars
<1>6. CASE UNCHANGED ownershipVars
  BY <1>0, <1>6 DEF ownershipVars, storeVars, cycleVars
<1> QED BY <1>1, <1>2, <1>3, <1>4, <1>5, <1>6 DEF OwnershipNext

-----------------------------------------------------------------------------
\* The claims of any number of processors in flight at once: each record that
\* still carries the ETag a processor listed has the listed owner, or was
\* expired then and has not been renewed since.
THEOREM FreshTheorem == OwnershipSpec => [](OwnershipTypeOK /\ FreshInv)
<1>1. OwnershipInit => FreshInv
  BY DEF OwnershipInit, FreshInv
<1> QED BY <1>1, TypeInit, TypeStep, FreshStep, PTL DEF OwnershipSpec

\* Everything a processor is about to claim is its own, was free, or belonged
\* to a processor with at least two partitions more, in the listing it used.
THEOREM TodoTheorem == OwnershipSpec => [](OwnershipTypeOK /\ TodoInv)
<1>1. OwnershipInit => TodoInv
  BY DEF OwnershipInit, TodoInv
<1> QED BY <1>1, TypeInit, TypeStep, TodoStep, PTL DEF OwnershipSpec

\* A live ownership is lost only to a processor that saw its owner with at
\* least two partitions more: a renewal defeats every claim decided before it.
THEOREM TakesTheorem == OwnershipSpec => TakesExpiredOrRicher
<1> DEFINE Take ==
      \A p \in Partitions :
        owner[p] # Unowned /\ owner'[p] # owner[p]
          => \/ p \in expired
             \/ /\ view[owner'[p]][p] = owner[p]
                /\ Count(view[owner'[p]], owner[p])
                     >= Count(view[owner'[p]], owner'[p]) + 2
<1>1. OwnershipTypeOK /\ FreshInv /\ TodoInv /\ [OwnershipNext]_ownershipVars
        => [Take]_ownershipVars
  <2> SUFFICES ASSUME OwnershipTypeOK, FreshInv, TodoInv, OwnershipNext,
                      NEW p \in Partitions, owner[p] # Unowned, owner'[p] # owner[p],
                      p \notin expired
               PROVE  /\ view[owner'[p]][p] = owner[p]
                      /\ Count(view[owner'[p]], owner[p])
                           >= Count(view[owner'[p]], owner'[p]) + 2
    BY DEF ownershipVars
  <2>1. PICK x \in Processors :
          p \in todo[x] /\ p \in fresh[x] /\ owner'[p] = x
    <3>1. ASSUME NEW x \in Processors,
                 ListOwnerships(x) \/ CycleDone(x) \/ Stop(x) \/ Start(x)
          PROVE  FALSE
      BY <3>1 DEF ListOwnerships, CycleDone, Stop, Start, storeVars
    <3>2. ASSUME NEW q \in Partitions, Expire(q) \/ \E x \in Processors : ClaimLost(x, q)
          PROVE  FALSE
      BY <3>2 DEF Expire, ClaimLost, storeVars
    <3>3. ASSUME NEW x \in Processors, NEW q \in Partitions,
                 ClaimGranted(x, q) \/ ClaimUnacknowledged(x, q)
          PROVE  p \in todo[x] /\ p \in fresh[x] /\ owner'[p] = x
      <4>1. q \in todo[x] /\ q \in fresh[x] /\ owner' = [owner EXCEPT ![q] = x]
        BY <3>3 DEF ClaimGranted, ClaimUnacknowledged, WriteRecord
      <4> QED BY <4>1 DEF OwnershipTypeOK, Views
    <3> QED BY <3>1, <3>2, <3>3 DEF OwnershipNext
  <2>2. view[x][p] = owner[p]
    BY <2>1 DEF FreshInv
  <2>3. view[x][p] \notin {x, Unowned}
    BY <2>1, <2>2
  <2>4. Count(view[x], view[x][p]) >= Count(view[x], x) + 2
    BY <2>1, <2>3 DEF TodoInv
  <2> QED BY <2>1, <2>2, <2>4
<1>2. OwnershipInit => FreshInv /\ TodoInv
  BY DEF OwnershipInit, FreshInv, TodoInv
<1> QED BY <1>1, <1>2, TypeInit, TypeStep, FreshStep, TodoStep, PTL
        DEF OwnershipSpec, TakesExpiredOrRicher

-----------------------------------------------------------------------------
(* EventProcessor implements Ownership *)

LEMMA DispatchInit == Init => DispatchInv
BY DEF Init, OwnershipInit, DispatchInv, NoView, Views

LEMMA ListedIsView == owner \in Views => Unexpired \in Views /\ NoView \in Views
BY DEF Unexpired, NoView, Views

LEMMA DispatchStep == DispatchInv /\ [Next]_vars => DispatchInv'
<1> SUFFICES ASSUME DispatchInv, [Next]_vars PROVE DispatchInv'
  OBVIOUS
<1> USE DEF DispatchInv
<1>0. Unexpired \in Views /\ NoView \in Views
  BY ListedIsView
<1>q. ASSUME UNCHANGED ownershipVars, UNCHANGED limit PROVE DispatchInv'
  BY <1>q DEF ownershipVars, storeVars, cycleVars
<1>1. ASSUME NEW x \in Processors, Dispatch(x) PROVE DispatchInv'
  <2>1. PICK C \in Claims(Unexpired, x, Strategy) : todo' = [todo EXCEPT ![x] = C]
    BY <1>1 DEF Dispatch, ListOwnerships
  <2>2. C \subseteq Partitions
    BY <1>0, <2>1, ClaimsJustified
  <2> QED BY <1>0, <1>1, <2>1, <2>2 DEF Dispatch, ListOwnerships
<1>2. ASSUME NEW x \in Processors, Revoke(x) PROVE DispatchInv'
  BY <1>0, <1>2 DEF Revoke, ForgetListing
<1>3. ASSUME NEW x \in Processors, ListCheckpoints(x) \/ AddPartitionClients(x) PROVE DispatchInv'
  BY <1>3 DEF ListCheckpoints, AddPartitionClients, Sleep, storeVars
<1>4. ASSUME NEW x \in Processors, RunReturns(x) \/ Crash(x) PROVE DispatchInv'
  BY <1>0, <1>4 DEF RunReturns, Crash, EndRun, ForgetListing
<1>5. ASSUME NEW x \in Processors, Run(x) PROVE DispatchInv'
  BY <1>5 DEF Run, Start, storeVars, dispatchVars
<1>6. ASSUME StoreNext PROVE DispatchInv'
  <2>0. limit' = limit
    BY <1>6 DEF StoreNext, dispatchVars
  <2>1. ASSUME NEW x \in Processors, NEW p \in Partitions,
               ClaimGranted(x, p) \/ ClaimUnacknowledged(x, p)
        PROVE  DispatchInv'
    <3>1. WriteRecord(x, p)
      BY <2>1 DEF ClaimGranted, ClaimUnacknowledged
    <3>2. owner' \in Views /\ fresh' \in [Processors -> SUBSET Partitions]
      BY <3>1 DEF WriteRecord, Views
    <3>3. \A y \in Processors : fresh'[y] \subseteq fresh[y] /\ todo'[y] \subseteq todo[y]
      BY <2>1, <3>1 DEF ClaimGranted, ClaimUnacknowledged, WriteRecord
    <3>4. /\ won' \in [Processors -> SUBSET Partitions] /\ todo' \in [Processors -> SUBSET Partitions]
          /\ view' = view /\ phase' = phase /\ changes' = changes
      BY <2>1 DEF ClaimGranted, ClaimUnacknowledged
    <3> QED BY <2>0, <3>2, <3>3, <3>4
  <2>2. ASSUME NEW x \in Processors, NEW p \in Partitions, ClaimLost(x, p) PROVE DispatchInv'
    BY <2>0, <2>2 DEF ClaimLost, storeVars
  <2>3. ASSUME NEW p \in Partitions, Expire(p) PROVE DispatchInv'
    BY <2>0, <2>3 DEF Expire, cycleVars
  <2> QED BY <1>6, <2>1, <2>2, <2>3 DEF StoreNext
<1>7. ASSUME NEW x \in Processors, NEW c \in Clients, CloseRevoked(x, c) PROVE DispatchInv'
  BY <1>7, <1>q DEF CloseRevoked
<1>8. ASSUME NEW c \in Clients, ClientNext(c) PROVE DispatchInv'
  BY <1>8, <1>q
  DEF ClientNext, NextPartitionClient, CheckClosed, EnsureReceiver, Receive, Reconnect,
      StreamFails, Handle, UpdateCheckpoint, Drop, Close, CloseRemoves, CloseFails, dispatchVars
<1>9. CASE UNCHANGED vars
  BY <1>9, <1>q DEF vars, dispatchVars
<1> QED
  BY <1>1, <1>2, <1>3, <1>4, <1>5, <1>6, <1>7, <1>8, <1>9 DEF Next, DispatchNext

\* The load balancer decides the same in Records.
LEMMA SameClaims ==
  ASSUME NEW v, NEW x, NEW s
  PROVE  Records!Claims(v, x, s) = Claims(v, x, s)
BY Zenon
DEF Claims, OwnedBy, Count, AllowExtraPartition, MinimumRequired, Owners, MaximumAllowed,
    UnownedOrExpired, AboveMaximum, ClaimMorePartitions, BalancedChoices, RandomOwnerships,
    GreedyChoices, Cardinality,
    Records!Claims, Records!OwnedBy, Records!Count, Records!AllowExtraPartition,
    Records!MinimumRequired, Records!Owners, Records!MaximumAllowed,
    Records!UnownedOrExpired, Records!AboveMaximum, Records!ClaimMorePartitions,
    Records!BalancedChoices, Records!RandomOwnerships, Records!GreedyChoices,
    Records!Cardinality

\* A step of one processor's cycle shows as one step of Ownership or as none.
LEMMA RecordsStep == DispatchInv /\ DispatchInv' /\ [Next]_vars
                       => UNCHANGED Records!ownershipVars \/ Records!OwnershipNext
<1> SUFFICES ASSUME DispatchInv, DispatchInv', [Next]_vars
             PROVE  UNCHANGED Records!ownershipVars \/ Records!OwnershipNext
  OBVIOUS
<1> USE DEF RecordPhase, RecordWon
<1>t. /\ limit \in Limits
      /\ phase \in [Processors -> {"stopped", "idle", "claim", "closing", "adding", "crashed"}]
      /\ won \in [Processors -> SUBSET Partitions]
  BY DEF DispatchInv
<1>q. ASSUME UNCHANGED ownershipVars PROVE UNCHANGED Records!ownershipVars
  BY <1>q DEF ownershipVars, storeVars, cycleVars, Records!ownershipVars, Records!storeVars, Records!cycleVars
<1>1. ASSUME NEW x \in Processors, Dispatch(x) PROVE Records!OwnershipNext
  <2>0. Records!Unexpired = Unexpired
    BY DEF Unexpired, Records!Unexpired
  <2>1. \E C \in Records!Claims(Unexpired, x, Strategy) : todo' = [todo EXCEPT ![x] = C]
    BY <1>1, SameClaims DEF Dispatch, ListOwnerships
  <2>2. RecordPhase[x] = "idle" /\ RecordPhase' = [RecordPhase EXCEPT ![x] = "claim"]
    BY <1>t, <1>1 DEF Dispatch, ListOwnerships
  <2>3. RecordWon' = [RecordWon EXCEPT ![x] = {}]
    BY <1>t, <1>1 DEF Dispatch, ListOwnerships
  <2>4. Records!ListOwnerships(x)
    BY <1>1, <2>0, <2>1, <2>2, <2>3, Zenon DEF Dispatch, ListOwnerships, Records!ListOwnerships
  <2> QED BY <2>4 DEF Records!OwnershipNext
<1>2. ASSUME NEW x \in Processors, Revoke(x) PROVE Records!OwnershipNext
  <2>1. Records!CycleDone(x)
    BY <1>t, <1>2 DEF Revoke, ForgetListing, NoView,
       Records!CycleDone, Records!ForgetListing, Records!NoView
  <2> QED BY <2>1 DEF Records!OwnershipNext
<1>3. ASSUME NEW x \in Processors, ListCheckpoints(x) \/ AddPartitionClients(x)
      PROVE  UNCHANGED Records!ownershipVars
  BY <1>t, <1>3 DEF ListCheckpoints, AddPartitionClients, Sleep, storeVars,
     Records!ownershipVars, Records!storeVars, Records!cycleVars
<1>4. ASSUME NEW x \in Processors, RunReturns(x) \/ Crash(x)
      PROVE  UNCHANGED Records!ownershipVars \/ Records!OwnershipNext
  <2>0. changes < MaxChanges
    <3>1. limit.changes \in 0..MaxChanges
      BY <1>t, LimitsAssumption
    <3>2. changes < limit.changes
      BY <1>4 DEF RunReturns, Crash, EndRun
    <3> QED BY <3>1, <3>2, MaxChangesAssumption DEF DispatchInv
  <2>1. CASE phase[x] = "stopped"
    <3>1. view[x] = NoView /\ fresh[x] = {} /\ todo[x] = {}
      BY <2>1 DEF DispatchInv
    <3>2. phase' = [phase EXCEPT ![x] = "crashed"] /\ won' = [won EXCEPT ![x] = {}]
      BY <1>4, <2>1 DEF RunReturns, Crash, EndRun
    <3>3. RecordPhase' = RecordPhase /\ RecordWon' = RecordWon
      BY <1>t, <2>1, <3>2
    <3>4. UNCHANGED <<owner, expired, view, fresh, todo, changes>>
      <4>1. /\ view' = [view EXCEPT ![x] = view[x]] /\ fresh' = [fresh EXCEPT ![x] = fresh[x]]
            /\ todo' = [todo EXCEPT ![x] = todo[x]] /\ UNCHANGED <<owner, expired, changes>>
        BY <1>4, <2>1, <3>1 DEF RunReturns, Crash, EndRun, ForgetListing
      <4>2. view' = view /\ fresh' = fresh /\ todo' = todo
        BY <4>1 DEF DispatchInv
      <4> QED BY <4>1, <4>2
    <3> QED BY <3>3, <3>4, Zenon DEF Records!ownershipVars, Records!storeVars, Records!cycleVars
  <2>2. CASE phase[x] # "stopped"
    <3>0. phase[x] # "crashed"
      BY <1>4 DEF RunReturns, Crash
    <3>2. PICK q \in {"stopped", "crashed"} :
            phase' = [phase EXCEPT ![x] = q] /\ won' = [won EXCEPT ![x] = {}]
      BY <1>4 DEF RunReturns, Crash, EndRun
    <3>3. RecordPhase[x] # "stopped" /\ RecordPhase' = [RecordPhase EXCEPT ![x] = "stopped"]
      BY <1>t, <2>2, <3>0, <3>2
    <3>4. RecordWon' = [RecordWon EXCEPT ![x] = {}]
      BY <1>t, <3>2
    <3>5. /\ view' = [view EXCEPT ![x] = NoView] /\ fresh' = [fresh EXCEPT ![x] = {}]
          /\ todo' = [todo EXCEPT ![x] = {}] /\ changes' = changes + 1
          /\ UNCHANGED <<owner, expired>>
      BY <1>4, <2>2 DEF RunReturns, Crash, EndRun, ForgetListing
    <3>1. Records!Stop(x)
      BY <2>0, <3>3, <3>4, <3>5 DEF NoView, Records!Stop, Records!ForgetListing, Records!NoView
    <3> QED BY <3>1 DEF Records!OwnershipNext
  <2> QED BY <2>1, <2>2
<1>5. ASSUME NEW x \in Processors, Run(x) PROVE Records!OwnershipNext
  <2>1. Records!Start(x)
    BY <1>t, <1>5 DEF Run, Start, Records!Start, storeVars, Records!storeVars
  <2> QED BY <2>1 DEF Records!OwnershipNext
<1>6. ASSUME StoreNext PROVE Records!OwnershipNext
  <2>1. ASSUME NEW x \in Processors, NEW p \in Partitions,
               ClaimGranted(x, p) \/ ClaimLost(x, p) \/ ClaimUnacknowledged(x, p)
        PROVE  Records!ClaimGranted(x, p) \/ Records!ClaimLost(x, p) \/ Records!ClaimUnacknowledged(x, p)
    BY <1>t, <2>1 DEF ClaimGranted, ClaimLost, ClaimUnacknowledged, WriteRecord, storeVars,
       Records!ClaimGranted, Records!ClaimLost, Records!ClaimUnacknowledged, Records!WriteRecord,
       Records!storeVars
  <2>2. ASSUME NEW p \in Partitions, Expire(p) PROVE Records!Expire(p)
    BY <2>2 DEF Expire, Records!Expire, cycleVars, Records!cycleVars
  <2> QED BY <1>6, <2>1, <2>2 DEF StoreNext, Records!OwnershipNext
<1>7. ASSUME NEW x \in Processors, NEW c \in Clients, CloseRevoked(x, c)
      PROVE  UNCHANGED Records!ownershipVars
  BY <1>7, <1>q DEF CloseRevoked
<1>8. ASSUME NEW c \in Clients, ClientNext(c) PROVE UNCHANGED Records!ownershipVars
  BY <1>8, <1>q
  DEF ClientNext, NextPartitionClient, CheckClosed, EnsureReceiver, Receive, Reconnect,
      StreamFails, Handle, UpdateCheckpoint, Drop, Close, CloseRemoves, CloseFails
<1>9. CASE UNCHANGED vars
  BY <1>9, <1>q DEF vars
<1> QED
  BY <1>1, <1>2, <1>3, <1>4, <1>5, <1>6, <1>7, <1>8, <1>9 DEF Next, DispatchNext

\* Processors that open, close and lose partition clients, crash and run again
\* treat the ownership records as Ownership says (processor.rs, dispatch and
\* run), however many there are.
THEOREM ProcessorsKeepToOwnership == Spec => KeepsToOwnership
<1>1. Init => Records!OwnershipInit
  BY DEF Init, OwnershipInit, Records!OwnershipInit, RecordPhase, RecordWon, NoView, Records!NoView
<1>2. DispatchInv /\ DispatchInv' /\ [Next]_vars
        => [UNCHANGED Records!ownershipVars \/ Records!OwnershipNext]_(Records!ownershipVars)
  BY RecordsStep
<1> QED
  BY <1>1, <1>2, DispatchInit, DispatchStep, PTL DEF Spec, KeepsToOwnership

-----------------------------------------------------------------------------
(* The clients of the processors: ClientProof's invariant holds.           *)

\* Every set of partitions can be numbered.
LEMMA SetsEnumerable == Enumerable
<1> SUFFICES ASSUME NEW S \in SUBSET Partitions
             PROVE  Cardinality(S) \in Nat /\ ExistsBijection(1..Cardinality(S), S)
  BY DEF Enumerable
<1>1. IsFiniteSet(S)
  BY PartitionsAssumption, FS_Subset
<1> QED BY <1>1, FS_CardinalityType

\* Both invariants hold of every behaviour of the processors.
LEMMA ClientSafety == Spec => [](DispatchInv /\ ClientInv /\ LogInv)
BY DispatchInit, DispatchStep, ClientInit, ClientStep, LogStep, SetsEnumerable, PTL DEF Spec

\* A revoked stream yields at most the one event it was waiting for: the flag
\* that close sets is read before every receive (stream_events).
THEOREM RevokedTheorem == Spec => []RevokedYieldsOnce
<1>1. ClientInv => RevokedYieldsOnce
  BY Numbered DEF ClientInv, Late, RevokedYieldsOnce, ClientRecords
<1> QED BY <1>1, ClientSafety, PTL

\* What a processor's map has for a partition is a client of that processor
\* and partition that has not been told to stop (add_partition_client and
\* remove_partition_client).
THEOREM MapTheorem == Spec => []MapHasOpenClients
<1>1. ClientInv => MapHasOpenClients
  BY DEF ClientInv, MapInv
<1> QED BY <1>1, ClientSafety, PTL

\* A processor has at most one open client for a partition, unless closing a
\* revoked client took the map entry of its successor (processor.rs:433).
THEOREM OneOpenTheorem == Spec => []OneOpenClient
<1>1. ASSUME ClientInv PROVE OneOpenClient
  <2>1. ClientTypeOK /\ MapInv
    BY <1>1 DEF ClientInv
  <2>2. SUFFICES ASSUME NEW c \in Clients, NEW d \in Clients, "stale_close" \notin mishaps,
                        client[c].proc = client[d].proc, client[c].part = client[d].part,
                        Open(c), Open(d)
                 PROVE  c = d
    BY DEF OneOpenClient, Open
  <2>3. Placed(c) /\ Placed(d)
    BY <2>1, <2>2 DEF MapInv
  <2>4. client[c].proc \in Processors /\ c # 0 /\ d # 0
    BY <2>1, Numbered DEF ClientRecords
  <2>5. Revoked(client[c].proc)
    BY <2>1, <2>4 DEF MapInv
  <2> QED BY <2>2, <2>3, <2>4, <2>5 DEF Placed, Revoked
<1> QED BY <1>1, ClientSafety, PTL

\* A checkpoint covers only events that an application has processed, from where
\* reading the partition began, as long as no two clients have read from one
\* link: whoever continues from it skips nothing (update_checkpoint and
\* get_start_position).
THEOREM NoEventSkippedTheorem == Spec => []NoEventSkipped
<1>1. ASSUME ClientInv, LogInv PROVE NoEventSkipped
  <2> SUFFICES ASSUME "shared" \notin mishaps, NEW p \in Partitions
               PROVE  (base[p] + 1)..checkpoint[p] \subseteq handled[p]
    BY DEF NoEventSkipped
  <2>1. 1..checkpoint[p] \subseteq handled[p] \cup (1..base[p])
    BY <1>1 DEF ClientInv, ReadInv, Covered, past
  <2>2. base[p] \in Nat
    BY <1>1 DEF LogInv
  <2> QED BY <2>1, <2>2
<1> QED BY <1>1, ClientSafety, PTL

-----------------------------------------------------------------------------
(* A group of processors in the long run: Rebalance *)

LEMMA GroupTypeInit == GroupInit => GroupTypeOK
BY MaxTurnoverAssumption DEF GroupInit, GroupTypeOK, Views

LEMMA GroupTypeStep == GroupTypeOK /\ [GroupNext]_groupVars => GroupTypeOK'
<1> SUFFICES ASSUME GroupTypeOK, [GroupNext]_groupVars PROVE GroupTypeOK'
  OBVIOUS
<1> USE DEF GroupTypeOK
<1>1. ASSUME NEW x \in Processors, Cycle(x) PROVE GroupTypeOK'
  <2>1. holder' \in Views
    BY <1>1 DEF Cycle, Views
  <2> QED BY <1>1, <2>1 DEF Cycle
<1>2. ASSUME NEW x \in Processors, Joins(x) \/ Leaves(x) PROVE GroupTypeOK'
  BY <1>2, MaxTurnoverAssumption DEF Joins, Leaves
<1>3. ASSUME NEW p \in Partitions, HolderExpires(p) PROVE GroupTypeOK'
  BY <1>3 DEF HolderExpires, Views
<1>4. CASE UNCHANGED groupVars
  BY <1>4 DEF groupVars
<1> QED BY <1>1, <1>2, <1>3, <1>4 DEF GroupNext

\* Every theft makes the group more even: the owner that loses a partition has
\* at least two more than the processor whose load_balance takes it.
THEOREM StealsTheorem == GroupSpec => StealsFromRicher
<1> DEFINE Steal ==
      \A p \in Partitions :
        holder[p] # Unowned /\ holder'[p] \notin {holder[p], Unowned}
          => Count(holder, holder[p]) >= Count(holder, holder'[p]) + 2
<1>1. GroupTypeOK /\ [GroupNext]_groupVars => [Steal]_groupVars
  <2> SUFFICES ASSUME GroupTypeOK, GroupNext, NEW p \in Partitions,
                      holder[p] # Unowned, holder'[p] \notin {holder[p], Unowned}
               PROVE  Count(holder, holder[p]) >= Count(holder, holder'[p]) + 2
    OBVIOUS
  <2>1. PICK x \in Processors : Cycle(x)
    BY DEF GroupNext, GroupTypeOK, Views, Joins, Leaves, HolderExpires
  <2>2. PICK C \in Claims(holder, x, strategy[x]) :
          holder' = [q \in Partitions |-> IF q \in C THEN x ELSE holder[q]]
    BY <2>1 DEF Cycle
  <2>3. p \in C /\ holder'[p] = x
    BY <2>2
  <2> QED BY <2>2, <2>3, ClaimsJustified DEF GroupTypeOK
<1> QED BY <1>1, GroupTypeInit, GroupTypeStep, PTL DEF GroupSpec, StealsFromRicher

\* A balanced group is left alone: a load_balance of a running processor that
\* owns as much as the others, to within one, claims what it owns already.
THEOREM NoThrashTheorem == GroupSpec => NoThrash
<1> DEFINE Quiet == /\ BalancedOver(holder, running) /\ UNCHANGED running
                    => UNCHANGED holder
<1>1. GroupTypeOK /\ [GroupNext]_groupVars => [Quiet]_groupVars
  <2> SUFFICES ASSUME GroupTypeOK, GroupNext,
                      BalancedOver(holder, running), UNCHANGED running
               PROVE  UNCHANGED holder
    OBVIOUS
  <2>1. /\ \A p \in Partitions : holder[p] \in running
        /\ \A x, y \in running : Count(holder, x) <= Count(holder, y) + 1
    BY DEF BalancedOver
  <2>2. holder \in Views /\ running \subseteq Processors
    BY DEF GroupTypeOK
  <2>3. ASSUME NEW x \in Processors, Cycle(x) PROVE holder' = holder
    <3>1. PICK C \in Claims(holder, x, strategy[x]) :
            holder' = [q \in Partitions |-> IF q \in C THEN x ELSE holder[q]]
      BY <2>3 DEF Cycle
    <3>2. x \in running
      BY <2>3 DEF Cycle
    <3>3. ASSUME NEW p \in C PROVE holder[p] = x
      <4>1. /\ p \in Partitions
            /\ holder[p] \in {x, Unowned} \/ Count(holder, holder[p]) >= Count(holder, x) + 2
        BY <2>2, <3>1, ClaimsJustified
      <4>2. holder[p] \in running /\ holder[p] # Unowned
        BY <2>1, <2>2, <4>1, UnownedAssumption
      <4>3. Count(holder, holder[p]) <= Count(holder, x) + 1
        BY <2>1, <3>2, <4>2
      <4>4. Count(holder, holder[p]) \in Nat /\ Count(holder, x) \in Nat
        BY <2>2, CountNat
      <4> QED BY <4>1, <4>2, <4>3, <4>4
    <3> QED BY <2>2, <3>1, <3>3 DEF Views
  <2>4. ASSUME NEW x \in Processors, Joins(x) \/ Leaves(x) PROVE holder' = holder
    BY <2>4 DEF Joins, Leaves
  <2>5. ASSUME NEW p \in Partitions, HolderExpires(p) PROVE FALSE
    BY <2>1, <2>5 DEF HolderExpires
  <2> QED BY <2>3, <2>4, <2>5 DEF GroupNext
<1> QED BY <1>1, GroupTypeInit, GroupTypeStep, PTL DEF GroupSpec, NoThrash
=============================================================================
