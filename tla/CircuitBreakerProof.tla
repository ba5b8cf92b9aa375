------------------------ MODULE CircuitBreakerProof ------------------------
(***************************************************************************)
(* Proofs about CircuitBreaker, for any callers and any accounts.  The     *)
(* inductive invariant is that the override, when there is one, is Sound:  *)
(* it names regions of the account and has not left the one it points at.  *)
(* The regions that operations are sent to are regions of the account too, *)
(* so each failure they report moves the override as the breaker intends.  *)
(***************************************************************************)
EXTENDS CircuitBreaker, WellFoundedInduction, TLAPS

Entries ==
  [status : {"Unhealthy", "ProbeCandidate"}, current : Regions, first : Regions,
   failed : SUBSET Regions, reads : Nat, writes : Nat]

Operations ==
  [pc : {"idle", "ready", "sent", "race", "cleanup"}, read : BOOLEAN, hedged : BOOLEAN,
   at : Regions, legs : SUBSET Regions, retries : Nat, index : Nat]

Sound(e) == e \in Entries /\ e.current \notin e.failed

BreakerInv ==
  /\ config \in Configs
  /\ breaker = NoEntry \/ Sound(breaker)
  /\ op \in [Ops -> Operations]

-----------------------------------------------------------------------------
(* The preferred regions.                                                  *)

\* A set of numbers that is not empty has the least element that Min chooses.
LEMMA LeastNat ==
  ASSUME NEW S, S \subseteq Nat, S # {}
  PROVE  Min(S) \in S
PROOF
<1> DEFINE R == OpToRel(<, Nat)
<1>1. PICK n \in S : \A y \in S : ~(<<y, n>> \in R)
  <2>1. IsWellFoundedOn(R, Nat)
    BY NatLessThanWellFounded
  <2> HIDE DEF R
  <2> QED BY <2>1, WFMin
<1>2. ASSUME NEW y \in S PROVE n <= y
  <2>1. ~(y < n)
    BY <1>1, <1>2 DEF OpToRel
  <2> QED BY <2>1
<1> QED BY <1>2 DEF Min

\* What the assumption on the accounts says of the account in use.
LEMMA ConfigFacts ==
  ASSUME config \in Configs
  PROVE  /\ Preferred \in Seq(Regions)
         /\ Len(Preferred) \in Nat /\ Len(Preferred) > 1
         /\ Preferred[1] # Preferred[2]
         /\ ReadThreshold \in Nat \ {0} /\ WriteThreshold \in Nat \ {0}
PROOF
<1>1. /\ Preferred \in Seq(Regions)
      /\ Len(Preferred) > 1 /\ IsInjective(Preferred)
      /\ ReadThreshold \in Nat \ {0} /\ WriteThreshold \in Nat \ {0}
  BY ConfigAssumption DEF Preferred, Regions, ReadThreshold, WriteThreshold
<1>2. Len(Preferred) \in Nat /\ DOMAIN Preferred = 1..Len(Preferred)
  BY <1>1
<1>3. 1 \in DOMAIN Preferred /\ 2 \in DOMAIN Preferred
  BY <1>1, <1>2
<1>4. Preferred[1] # Preferred[2]
  BY <1>1, <1>3 DEF IsInjective
<1> QED BY <1>1, <1>2, <1>4

\* Every preference is a region, whatever the index it is taken at.
LEMMA PreferenceIn ==
  ASSUME config \in Configs, NEW index \in Nat
  PROVE  /\ Preference(index) \in Regions
         /\ index % Len(Preferred) \in Nat
         /\ Head(Preferred) \in Regions
PROOF
<1> DEFINE n == Len(Preferred)
<1>1. Preferred \in Seq(Regions) /\ n \in Nat /\ n > 1
  BY ConfigFacts
<1>2. index % n \in 0..(n - 1)
  BY <1>1
<1>3. (index % n) + 1 \in 1..n /\ 1 \in 1..n
  BY <1>1, <1>2
<1> QED BY <1>1, <1>2, <1>3 DEF Preference

\* The loop over the candidates finds a region as long as one is left.
LEMMA FirstNotIn ==
  ASSUME config \in Configs, NEW S, ~(Regions \subseteq S)
  PROVE  FirstNot(S) \in Regions \ S
PROOF
<1> DEFINE C == {i \in DOMAIN Preferred : Preferred[i] \notin S}
<1>1. DOMAIN Preferred \in SUBSET Nat
  BY ConfigFacts
<1>2. C \in SUBSET Nat /\ C # {}
  BY <1>1 DEF Regions, Range
<1>3. Min(C) \in C
  BY <1>2, LeastNat
<1> QED BY <1>3 DEF FirstNot, Regions, Range

\* The region a hedged read races is another region of the account.
LEMMA HedgeRegionIn ==
  ASSUME config \in Configs, NEW primary \in Regions
  PROVE  HedgeRegion(primary) \in Regions
PROOF
<1>1. Preferred[1] \in Regions /\ Preferred[2] \in Regions /\ Preferred[1] # Preferred[2]
  BY ConfigFacts
<1> QED BY <1>1, FirstNotIn DEF HedgeRegion

-----------------------------------------------------------------------------
(* The breaker's functions.                                                *)

\* The override moves to a region it has not left; it is removed only when
\* there is none.
LEMMA MoveSound ==
  ASSUME config \in Configs, NEW e, Sound(e), NEW region
  PROVE  LET n == try_move_next_endpoint(e, region)
         IN  /\ n = NoEntry \/ Sound(n)
             /\ n = NoEntry => e.failed \cup {e.current} = Regions
PROOF
<1> DEFINE left == e.failed \cup {region}
           n == [e EXCEPT !.failed = left, !.current = FirstNot(left)]
<1>1. e \in Entries /\ e # NoEntry
  BY DEF Sound, Entries, NoEntry
<1>2. CASE region # e.current
  BY <1>1, <1>2 DEF try_move_next_endpoint
<1>3. CASE region = e.current /\ Regions \subseteq left
  <2>1. try_move_next_endpoint(e, region) = NoEntry
    BY <1>3 DEF try_move_next_endpoint
  <2>2. e.failed \cup {e.current} = Regions
    BY <1>1, <1>3 DEF Entries
  <2> QED BY <2>1, <2>2
<1>4. CASE region = e.current /\ ~(Regions \subseteq left)
  <2>1. try_move_next_endpoint(e, region) = n
    BY <1>4 DEF try_move_next_endpoint
  <2>2. left \in SUBSET Regions
    BY <1>1, <1>4 DEF Entries
  <2>3. FirstNot(left) \in Regions \ left
    BY <1>4, FirstNotIn
  <2>4. n \in Entries /\ n.failed = left /\ n.current = FirstNot(left)
    BY <1>1, <2>2, <2>3 DEF Entries
  <2>5. Sound(n)
    BY <2>3, <2>4 DEF Sound
  <2>6. n # NoEntry
    BY <2>5 DEF Sound, Entries, NoEntry
  <2> QED BY <2>1, <2>5, <2>6
<1> QED BY <1>2, <1>3, <1>4

\* A fresh override points at the region that failed and has left none.
LEMMA EntrySound ==
  ASSUME config \in Configs, NEW region \in Regions, NEW count \in BOOLEAN
  PROVE  Sound(Entry(region, count)) /\ Entry(region, count) # NoEntry
BY ConfigFacts DEF Sound, Entry, Entries, NoEntry

\* Counting a failure leaves the regions of the override as they are.
LEMMA CountedSound ==
  ASSUME config \in Configs, NEW e, Sound(e), NEW read \in BOOLEAN
  PROVE  LET n == Counted(e, read)
         IN  Sound(n) /\ n # NoEntry /\ n.failed = e.failed /\ n.current = e.current
PROOF
<1> DEFINE r == Min({e.reads + 1, ReadThreshold})
           w == Min({e.writes + 1, WriteThreshold})
<1>1. e \in Entries /\ e.reads \in Nat /\ e.writes \in Nat
  BY DEF Sound, Entries
<1>2. r \in Nat /\ w \in Nat
  <2>1. {e.reads + 1, ReadThreshold} \subseteq Nat /\ {e.writes + 1, WriteThreshold} \subseteq Nat
    BY <1>1, ConfigFacts
  <2>2. {e.reads + 1, ReadThreshold} # {} /\ {e.writes + 1, WriteThreshold} # {}
    OBVIOUS
  <2>3. r \in {e.reads + 1, ReadThreshold} /\ w \in {e.writes + 1, WriteThreshold}
    BY <2>1, <2>2, LeastNat
  <2> QED BY <2>1, <2>3
<1> HIDE DEF r, w
<1>3. Counted(e, read) = IF read THEN [e EXCEPT !.reads = r] ELSE [e EXCEPT !.writes = w]
  BY <1>1 DEF Counted, r, w, Entries
<1>4. CASE read
  BY <1>1, <1>2, <1>3, <1>4 DEF Sound, Entries, NoEntry
<1>5. CASE ~read
  BY <1>1, <1>2, <1>3, <1>5 DEF Sound, Entries, NoEntry
<1> QED BY <1>4, <1>5

\* A failure that is recorded keeps the override sound, and removes it only
\* when every region has failed.
LEMMA MarkSound ==
  ASSUME config \in Configs, NEW e, e = NoEntry \/ Sound(e),
         NEW region \in Regions, NEW read \in BOOLEAN, NEW old \in BOOLEAN
  PROVE  LET n == mark_partition_unavailable(e, region, read, old)
         IN  /\ n = NoEntry \/ Sound(n)
             /\ e # NoEntry /\ n = NoEntry => e.failed \cup {e.current} = Regions
PROOF
<1> DEFINE entry == IF e = NoEntry THEN Entry(region, FALSE) ELSE e
           kept == IF old THEN [entry EXCEPT !.reads = 0, !.writes = 0] ELSE entry
           counted == Counted(kept, read)
<1>1. Sound(entry) /\ (e # NoEntry => entry = e)
  BY EntrySound
<1> HIDE DEF entry
<1>2. Sound(kept) /\ kept.failed = entry.failed /\ kept.current = entry.current
  BY <1>1 DEF Sound, Entries
<1> HIDE DEF kept
<1>3. /\ Sound(counted) /\ counted # NoEntry
      /\ counted.failed = entry.failed /\ counted.current = entry.current
  BY <1>2, CountedSound
<1> HIDE DEF counted
<1>4. mark_partition_unavailable(e, region, read, old) =
        CASE entry.status = "ProbeCandidate" -> Entry(entry.first, FALSE)
          [] entry.status = "Unhealthy" /\ can_circuit_breaker_trigger_failover(counted, read) ->
               try_move_next_endpoint(counted, region)
          [] OTHER -> counted
  BY DEF mark_partition_unavailable, entry, kept, counted
<1>5. CASE entry.status = "ProbeCandidate"
  <2>1. entry.first \in Regions
    BY <1>1 DEF Sound, Entries
  <2>2. mark_partition_unavailable(e, region, read, old) = Entry(entry.first, FALSE)
    BY <1>4, <1>5
  <2> QED BY <2>1, <2>2, EntrySound
<1>6. CASE entry.status = "Unhealthy" /\ can_circuit_breaker_trigger_failover(counted, read)
  <2>1. mark_partition_unavailable(e, region, read, old) = try_move_next_endpoint(counted, region)
    BY <1>4, <1>6
  <2> QED BY <2>1, <1>1, <1>3, MoveSound
<1>7. CASE /\ entry.status # "ProbeCandidate"
           /\ ~(entry.status = "Unhealthy" /\ can_circuit_breaker_trigger_failover(counted, read))
  <2>1. mark_partition_unavailable(e, region, read, old) = counted
    BY <1>4, <1>7
  <2> QED BY <2>1, <1>3
<1> QED BY <1>5, <1>6, <1>7

-----------------------------------------------------------------------------
(* One step.                                                               *)

\* The three reasons for which an override is removed.
Cause ==
  breaker # NoEntry /\ breaker' = NoEntry =>
    \/ breaker.status = "ProbeCandidate"
    \/ breaker.failed \cup {breaker.current} = Regions
    \/ enabled' # enabled

\* What a step does to the override.
BreakerStep == (breaker' = NoEntry \/ Sound(breaker')) /\ Cause

\* The failure of an attempt at a region.
LEMMA MarkStep ==
  ASSUME BreakerInv, NEW o \in Ops, NEW region \in Regions, Mark(o, region)
  PROVE  BreakerStep
PROOF
<1>1. op[o].read \in BOOLEAN
  BY DEF BreakerInv, Operations
<1>2. CASE UNCHANGED breaker
  BY <1>2 DEF BreakerInv, BreakerStep, Cause
<1>3. CASE enabled /\ \E old \in BOOLEAN :
                        breaker' = mark_partition_unavailable(breaker, region, op[o].read, old)
  BY <1>1, <1>3, MarkSound DEF BreakerInv, BreakerStep, Cause
<1> QED BY <1>2, <1>3 DEF Mark

\* A hedge that the alternate region wins.
LEMMA AlternateStep ==
  ASSUME BreakerInv, NEW primary \in Regions, record_hedge_alternate_win(primary)
  PROVE  BreakerStep
PROOF
<1>1. CASE UNCHANGED breaker
  BY <1>1 DEF BreakerInv, BreakerStep, Cause
<1>2. CASE /\ breaker.status # "Unhealthy"
           /\ breaker' = try_move_next_endpoint(Entry(primary, TRUE), primary)
  <2>1. breaker' = NoEntry \/ Sound(breaker')
    BY <1>2, EntrySound, MoveSound DEF BreakerInv
  <2>2. breaker = NoEntry \/ breaker.status = "ProbeCandidate"
    BY <1>2 DEF BreakerInv, Sound, Entries
  <2> QED BY <2>1, <2>2 DEF BreakerStep, Cause
<1> QED BY <1>1, <1>2 DEF record_hedge_alternate_win

\* The state of a caller between two operations.
LEMMA IdleIn ==
  ASSUME config \in Configs
  PROVE  Idle \in Operations
BY PreferenceIn DEF Idle, Operations

\* Every attempt is sent to a region of the account.
LEMMA ResolvedIn ==
  ASSUME BreakerInv, NEW o \in Ops
  PROVE  resolve_endpoint(o) \in Regions
PROOF
<1>1. op[o].index \in Nat /\ config \in Configs
  BY DEF BreakerInv, Operations
<1>2. Preference(op[o].index) \in Regions
  BY <1>1, PreferenceIn
<1>3. breaker.status \in {"Unhealthy", "ProbeCandidate"} =>
        breaker.first \in Regions /\ breaker.current \in Regions
  BY DEF BreakerInv, Sound, Entries, NoEntry
<1> QED BY <1>2, <1>3 DEF resolve_endpoint

\* An operation that ends or is retried leaves every operation well formed.
LEMMA OpStep ==
  ASSUME BreakerInv, NEW o \in Ops,
         \/ Returns(o)
         \/ \E charged \in Nat, index \in Nat : Retries(o, charged, index)
  PROVE  op' \in [Ops -> Operations]
PROOF
<1>1. config \in Configs /\ op[o] \in Operations /\ op \in [Ops -> Operations]
  BY DEF BreakerInv
<1>2. CASE Returns(o)
  BY <1>1, <1>2, IdleIn DEF Returns
<1>3. ASSUME NEW charged \in Nat, NEW index \in Nat, Retries(o, charged, index)
      PROVE  op' \in [Ops -> Operations]
  <2> DEFINE n == [Idle EXCEPT !.pc = "ready", !.read = op[o].read,
                               !.retries = op[o].retries + charged, !.index = index]
  <2>1. op[o].read \in BOOLEAN /\ op[o].retries + charged \in Nat
    BY <1>1 DEF Operations
  <2>2. n \in Operations
    <3>1. Idle \in Operations
      BY <1>1, IdleIn
    <3> QED BY <2>1, <3>1 DEF Operations
  <2>3. op' = [op EXCEPT ![o] = n]
    BY <1>3 DEF Retries
  <2> QED BY <1>1, <2>2, <2>3
<1> QED BY <1>2, <1>3

\* The invariant is kept by every step, and no step removes the override for
\* another reason.
LEMMA InvStep ==
  ASSUME BreakerInv, [Next]_vars
  PROVE  BreakerInv' /\ Cause
PROOF
<1>1. config \in Configs /\ op \in [Ops -> Operations] /\ (breaker = NoEntry \/ Sound(breaker))
  BY DEF BreakerInv
<1>2. ASSUME config' = config, BreakerStep, op' \in [Ops -> Operations]
      PROVE  BreakerInv' /\ Cause
  BY <1>1, <1>2 DEF BreakerInv, BreakerStep, Sound, Entries, Operations, Regions, Preferred, NoEntry
<1>3. ASSUME UNCHANGED breaker PROVE BreakerStep
  BY <1>1, <1>3 DEF BreakerStep, Cause
<1>4. ASSUME NEW o \in Ops, NEW kind \in config.kinds[o], Begin(o, kind)
      PROVE  BreakerInv' /\ Cause
  <2> DEFINE read == kind # "write"
             hedged == kind = "hedged"
             n == [Idle EXCEPT !.pc = "ready", !.read = read, !.hedged = hedged]
  <2>1. read \in BOOLEAN /\ hedged \in BOOLEAN
    OBVIOUS
  <2>2. op' = [op EXCEPT ![o] = n] /\ config' = config /\ UNCHANGED breaker
    BY <1>4 DEF Begin
  <2> HIDE DEF read, hedged
  <2>3. n \in Operations
    <3>1. Idle \in Operations
      BY <1>1, IdleIn
    <3> QED BY <2>1, <3>1 DEF Operations
  <2> QED BY <1>1, <1>2, <1>3, <2>2, <2>3
<1>5. ASSUME NEW o \in Ops, Send(o)
      PROVE  BreakerInv' /\ Cause
  <2> DEFINE region == resolve_endpoint(o)
             n == [op[o] EXCEPT !.pc = IF op[o].hedged THEN "race" ELSE "sent", !.at = region,
                                !.hedged = FALSE,
                                !.legs = IF op[o].hedged THEN {region, HedgeRegion(region)} ELSE {}]
  <2>1. region \in Regions /\ HedgeRegion(region) \in Regions
    BY <1>1, ResolvedIn, HedgeRegionIn
  <2>2. op' = [op EXCEPT ![o] = n] /\ config' = config /\ UNCHANGED breaker
    BY <1>1, <1>5 DEF Send
  <2> HIDE DEF region
  <2>3. n \in Operations
    <3>1. (IF op[o].hedged THEN {region, HedgeRegion(region)} ELSE {}) \in SUBSET Regions
      BY <2>1
    <3>2. (IF op[o].hedged THEN "race" ELSE "sent") \in {"idle", "ready", "sent", "race", "cleanup"}
      OBVIOUS
    <3>3. op[o] \in Operations
      BY <1>1
    <3> QED BY <2>1, <3>1, <3>2, <3>3 DEF Operations
  <2> QED BY <1>1, <1>2, <1>3, <2>2, <2>3
<1>6. ASSUME NEW o \in Ops, Succeed(o)
      PROVE  BreakerInv' /\ Cause
  <2>1. CASE Returns(o)
    BY <1>2, <1>3, <1>6, <2>1, OpStep DEF Succeed
  <2>2. CASE op' = [op EXCEPT ![o].pc = "cleanup"]
    BY <1>1, <1>2, <1>3, <1>6, <2>2 DEF Succeed, Operations
  <2> QED BY <1>6, <2>1, <2>2 DEF Succeed
<1>7. ASSUME NEW o \in Ops, Cleanup(o)
      PROVE  BreakerInv' /\ Cause
  <2>1. BreakerStep
    BY <1>1, <1>7 DEF Cleanup, BreakerStep, Cause
  <2> QED BY <1>2, <1>7, <2>1, OpStep DEF Cleanup
<1>8. ASSUME NEW o \in Ops, Fail(o)
      PROVE  BreakerInv' /\ Cause
  <2>1. op[o].at \in Regions /\ op[o].index + 1 \in Nat
    BY <1>1 DEF Operations
  <2>2. (op[o].index + 1) % Len(Preferred) \in Nat
    BY <1>1, <2>1, PreferenceIn
  <2>3. BreakerStep
    BY <1>8, <2>1, MarkStep DEF Fail
  <2>4. op' \in [Ops -> Operations]
    BY <1>8, <2>2, OpStep DEF Fail
  <2> QED BY <1>2, <1>8, <2>3, <2>4 DEF Fail
<1>9. ASSUME NEW o \in Ops, PrimaryWins(o)
      PROVE  BreakerInv' /\ Cause
  BY <1>2, <1>3, <1>9, OpStep DEF PrimaryWins
<1>10. ASSUME NEW o \in Ops, AlternateWins(o)
       PROVE  BreakerInv' /\ Cause
  <2>1. op[o].at \in Regions
    BY <1>1 DEF Operations
  <2>2. BreakerStep
    BY <1>10, <2>1, AlternateStep DEF AlternateWins
  <2> QED BY <1>2, <1>10, <2>2, OpStep DEF AlternateWins
<1>11. ASSUME NEW o \in Ops, FirstLegFails(o)
       PROVE  BreakerInv' /\ Cause
  <2>1. PICK region \in op[o].legs : Mark(o, region) /\ op' = [op EXCEPT ![o].legs = @ \ {region}]
    BY <1>11 DEF FirstLegFails
  <2>2. region \in Regions
    BY <1>1 DEF Operations
  <2>3. BreakerStep
    BY <2>1, <2>2, MarkStep
  <2>4. op' \in [Ops -> Operations]
    BY <1>1, <2>1 DEF Operations
  <2> QED BY <1>2, <1>11, <2>3, <2>4 DEF FirstLegFails
<1>12. ASSUME NEW o \in Ops, SecondLegFails(o)
       PROVE  BreakerInv' /\ Cause
  <2>1. PICK region \in op[o].legs : Mark(o, region)
    BY <1>12 DEF SecondLegFails
  <2>2. region \in Regions /\ op[o].index \in Nat
    BY <1>1 DEF Operations
  <2>3. BreakerStep
    BY <2>1, <2>2, MarkStep
  <2> DEFINE steps == {k \in 1..Len(Preferred) :
                         Preference(op[o].index + k) \notin {op[o].at, Alternate(o)}}
             index == IF steps = {} THEN op[o].index ELSE (op[o].index + Min(steps)) % Len(Preferred)
  <2>4. index \in Nat
    <3>1. CASE steps = {}
      BY <2>2, <3>1
    <3>2. CASE steps # {}
      <4>1. steps \subseteq Nat
        BY <1>1, ConfigFacts
      <4>2. Min(steps) \in Nat
        BY <3>2, <4>1, LeastNat
      <4> HIDE DEF steps
      <4>3. op[o].index + Min(steps) \in Nat
        BY <2>2, <4>2
      <4> QED BY <1>1, <3>2, <4>3, PreferenceIn
    <3> QED BY <3>1, <3>2
  <2>5. Returns(o) \/ Retries(o, 2, index)
    BY <1>12 DEF SecondLegFails, try_advance_after_both_transient
  <2> HIDE DEF index
  <2>6. op' \in [Ops -> Operations]
    BY <2>4, <2>5, OpStep
  <2> QED BY <1>2, <1>12, <2>3, <2>6 DEF SecondLegFails
<1>13. ASSUME NEW o \in Ops, TimesOut(o)
       PROVE  BreakerInv' /\ Cause
  BY <1>2, <1>3, <1>13, OpStep DEF TimesOut
<1>14. CASE expire_partition_overrides
  <2>1. Sound(breaker)
    BY <1>1, <1>14 DEF expire_partition_overrides, NoEntry
  <2>2. breaker' = [breaker EXCEPT !.status = "ProbeCandidate"]
    BY <1>14 DEF expire_partition_overrides
  <2>3. Sound(breaker') /\ breaker' # NoEntry
    BY <2>1, <2>2 DEF Sound, Entries, NoEntry
  <2> QED BY <1>1, <1>2, <1>14, <2>3 DEF expire_partition_overrides, BreakerStep, Cause
<1>15. CASE sync_account_properties
  <2>1. BreakerStep
    BY <1>15 DEF sync_account_properties, BreakerStep, Cause
  <2> QED BY <1>1, <1>2, <1>15, <2>1 DEF sync_account_properties
<1>16. CASE \E region \in Regions : Outage(region) \/ Recovers(region)
  BY <1>1, <1>2, <1>3, <1>16 DEF Outage, Recovers
<1>17. CASE Calms
  BY <1>1, <1>2, <1>3, <1>17 DEF Calms
<1>18. CASE UNCHANGED vars
  BY <1>1, <1>2, <1>3, <1>18 DEF vars
<1> QED
  BY <1>4, <1>5, <1>6, <1>7, <1>8, <1>9, <1>10, <1>11, <1>12, <1>13, <1>14, <1>15, <1>16, <1>17,
     <1>18
  DEF Next, Step

LEMMA InvInit == Init => BreakerInv
BY IdleIn DEF Init, BreakerInv

-----------------------------------------------------------------------------
(* The theorems.                                                           *)

\* However the failures of concurrent operations are ordered, the override
\* that try_move_next_endpoint leaves never points at a region it has left.
THEOREM OverrideTheorem == Spec => []OverrideAvoidsFailed
PROOF
<1>1. BreakerInv => OverrideAvoidsFailed
  BY DEF BreakerInv, OverrideAvoidsFailed, Sound
<1> QED BY <1>1, InvInit, InvStep, PTL DEF Spec

\* An override is removed only when it was a probe candidate
\* (try_cleanup_probe_candidate, record_hedge_alternate_win), when
\* try_move_next_endpoint has no region left, or at an edge of the breaker's
\* flag (sync_account_properties).
THEOREM RemovedTheorem == Spec => RemovedForCause
PROOF
<1>1. BreakerInv /\ [Next]_vars =>
        [breaker # NoEntry /\ breaker' = NoEntry =>
           \/ breaker.status = "ProbeCandidate"
           \/ breaker.failed \cup {breaker.current} = Regions
           \/ enabled' # enabled]_vars
  BY InvStep DEF Cause
<1> QED BY <1>1, InvInit, InvStep, PTL DEF Spec, RemovedForCause

=============================================================================
