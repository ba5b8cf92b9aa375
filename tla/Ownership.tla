------------------------------ MODULE Ownership ------------------------------
(***************************************************************************)
(* The ownership records in the checkpoint store and the processors that   *)
(* compete for them.  A load-balancing cycle (LoadBalancer::load_balance)  *)
(* lists the records, decides, and then claims partition by partition; the *)
(* cycles of the processors interleave between any two of these requests.  *)
(*                                                                         *)
(* A claim is conditional on the ETag that was listed                      *)
(* (BlobCheckpointStore::claim_ownership).  An ETag matters only in whether *)
(* it still is the record's: fresh[x] is the set of partitions whose       *)
(* records nobody has written since x listed them.                         *)
(***************************************************************************)
EXTENDS LoadBalancer

CONSTANTS
  Strategy,    \* the ProcessorStrategy all of them use
  MaxChanges   \* bound: how many processors may start or stop

ASSUME StrategyAssumption == Strategy \in Strategies
ASSUME MaxChangesAssumption == MaxChanges \in Nat

VARIABLES
  owner,    \* owner id of each partition's record; Unowned: no record
  expired,  \* partitions whose record is older than the expiration
  view,     \* view[x]: the unexpired owners x listed last
  fresh,    \* fresh[x]: the partitions whose listed ETag still matches
  phase,    \* where x is: "stopped", "idle" between
            \* cycles, "claim" in load_balance
  todo,     \* todo[x]: the partitions x is still going to claim
  won,      \* won[x]: the partitions the store granted x in this cycle
  changes   \* starts and stops so far

storeVars == <<owner, expired, view, fresh>>
cycleVars == <<phase, todo, won>>
ownershipVars == <<storeVars, cycleVars, changes>>

NoView == [p \in Partitions |-> Unowned]

\* The ownerships as the balancer sees them: an expired one is nobody's.
Unexpired == [p \in Partitions |-> IF p \in expired THEN Unowned ELSE owner[p]]

OwnershipInit ==
  /\ owner   = NoView
  /\ expired = {}
  /\ view    = [x \in Processors |-> NoView]
  /\ fresh   = [x \in Processors |-> {}]
  /\ \E R \in SUBSET Processors :
       phase = [x \in Processors |-> IF x \in R THEN "idle" ELSE "stopped"]
  /\ todo    = [x \in Processors |-> {}]
  /\ won     = [x \in Processors |-> {}]
  /\ changes = 0

\* get_available_partitions and the choice of what to claim.
ListOwnerships(x) ==
  /\ phase[x] = "idle"
  /\ view'  = [view EXCEPT ![x] = Unexpired]
  /\ fresh' = [fresh EXCEPT ![x] = Partitions]
  /\ \E C \in Claims(Unexpired, x, Strategy) : todo' = [todo EXCEPT ![x] = C]
  /\ won'   = [won EXCEPT ![x] = {}]
  /\ phase' = [phase EXCEPT ![x] = "claim"]
  /\ UNCHANGED <<owner, expired, changes>>

\* The store applies x's write to the record of p, which gets a new ETag.
WriteRecord(x, p) ==
  /\ owner'   = [owner EXCEPT ![p] = x]
  /\ expired' = expired \ {p}
  /\ fresh'   = [y \in Processors |-> fresh[y] \ {p}]

\* Faulty variant of ClaimGranted: set_metadata without If-Match.
ClaimUnconditional(x, p) ==
  /\ phase[x] = "claim" /\ p \in todo[x]
  /\ WriteRecord(x, p)
  /\ todo' = [todo EXCEPT ![x] = @ \ {p}]
  /\ won'  = [won EXCEPT ![x] = @ \cup {p}]
  /\ UNCHANGED <<view, phase, changes>>

\* Faulty variant of ClaimGranted: the record keeps its ETag.
ClaimKeepsEtag(x, p) ==
  /\ phase[x] = "claim" /\ p \in todo[x]
  /\ p \in fresh[x]
  /\ owner'   = [owner EXCEPT ![p] = x]
  /\ expired' = expired \ {p}
  /\ todo' = [todo EXCEPT ![x] = @ \ {p}]
  /\ won'  = [won EXCEPT ![x] = @ \cup {p}]
  /\ UNCHANGED <<view, fresh, phase, changes>>

\* The ETag (or the absence of a record) is as listed: the claim is granted.
ClaimGranted(x, p) ==
  /\ phase[x] = "claim" /\ p \in todo[x]
  /\ p \in fresh[x]
  /\ WriteRecord(x, p)
  /\ todo' = [todo EXCEPT ![x] = @ \ {p}]
  /\ won'  = [won EXCEPT ![x] = @ \cup {p}]
  /\ UNCHANGED <<view, phase, changes>>

\* Precondition failed or conflict: the partition is left out of the result.
ClaimLost(x, p) ==
  /\ phase[x] = "claim" /\ p \in todo[x]
  /\ p \notin fresh[x]
  /\ todo' = [todo EXCEPT ![x] = @ \ {p}]
  /\ UNCHANGED <<storeVars, phase, won, changes>>

\* The write is applied but its response is lost; the transport repeats the
\* request, which now fails the precondition: a claim granted looks lost.
ClaimUnacknowledged(x, p) ==
  /\ phase[x] = "claim" /\ p \in todo[x]
  /\ p \in fresh[x]
  /\ WriteRecord(x, p)
  /\ todo' = [todo EXCEPT ![x] = @ \ {p}]
  /\ UNCHANGED <<view, phase, won, changes>>

\* The listing is a local of load_balance and ends with it.
ForgetListing(x) ==
  /\ view'  = [view EXCEPT ![x] = NoView]
  /\ fresh' = [fresh EXCEPT ![x] = {}]

\* load_balance returns what was granted; run() sleeps until the next cycle.
CycleDone(x) ==
  /\ phase[x] = "claim" /\ todo[x] = {}
  /\ phase' = [phase EXCEPT ![x] = "idle"]
  /\ won'   = [won EXCEPT ![x] = {}]
  /\ ForgetListing(x)
  /\ UNCHANGED <<owner, expired, todo, changes>>

\* last_modified_time + duration < now.
Expire(p) ==
  /\ p \notin expired /\ owner[p] # Unowned
  /\ expired' = expired \cup {p}
  /\ UNCHANGED <<owner, view, fresh, cycleVars, changes>>

\* Shutdown, a store error that ends run(), or a crash: at any point of the
\* cycle, and nothing is released.
Stop(x) ==
  /\ phase[x] # "stopped" /\ changes < MaxChanges
  /\ phase' = [phase EXCEPT ![x] = "stopped"]
  /\ todo'  = [todo EXCEPT ![x] = {}]
  /\ won'   = [won EXCEPT ![x] = {}]
  /\ ForgetListing(x)
  /\ changes' = changes + 1
  /\ UNCHANGED <<owner, expired>>

Start(x) ==
  /\ phase[x] = "stopped" /\ changes < MaxChanges
  /\ phase' = [phase EXCEPT ![x] = "idle"]
  /\ changes' = changes + 1
  /\ UNCHANGED <<storeVars, todo, won>>

OwnershipNext ==
  \/ \E x \in Processors :
       \/ ListOwnerships(x) \/ CycleDone(x) \/ Stop(x) \/ Start(x)
       \/ \E p \in Partitions :
            ClaimGranted(x, p) \/ ClaimLost(x, p) \/ ClaimUnacknowledged(x, p)
  \/ \E p \in Partitions : Expire(p)

OwnershipSpec == OwnershipInit /\ [][OwnershipNext]_ownershipVars

-----------------------------------------------------------------------------
OwnershipTypeOK ==
  /\ owner   \in Views
  /\ expired \subseteq Partitions
  /\ view    \in [Processors -> Views]
  /\ fresh   \in [Processors -> SUBSET Partitions]
  /\ phase   \in [Processors -> {"stopped", "idle", "claim"}]
  /\ todo    \in [Processors -> SUBSET Partitions]
  /\ won     \in [Processors -> SUBSET Partitions]
  /\ changes \in 0..MaxChanges

\* Why claims are safe: a record whose ETag still matches has not changed
\* hands and, if it was expired when listed, has not been renewed since.
FreshInv ==
  \A x \in Processors : \A p \in fresh[x] :
    view[x][p] = owner[p] \/ (view[x][p] = Unowned /\ p \in expired)

\* What x is about to claim is its own, free, or justified by its listing.
TodoInv ==
  \A x \in Processors : \A p \in todo[x] :
    \/ view[x][p] \in {x, Unowned}
    \/ Count(view[x], view[x][p]) >= Count(view[x], x) + 2

\* A live ownership never changes hands by mistake: an unexpired record is
\* overwritten by another processor only when the listing that processor
\* acted on shows the owner with at least two partitions more than itself.
\* A renewal between the listing and the claim always defeats the claim.
TakesExpiredOrRicher ==
  [][\A p \in Partitions :
       owner[p] # Unowned /\ owner'[p] # owner[p]
         => \/ p \in expired
            \/ /\ view[owner'[p]][p] = owner[p]
               /\ Count(view[owner'[p]], owner[p])
                    >= Count(view[owner'[p]], owner'[p]) + 2]_ownershipVars
=============================================================================
