--------------------------- MODULE CircuitBreaker ---------------------------
(***************************************************************************)
(* The per-partition circuit breaker (PPCB) of the Cosmos driver, for one  *)
(* partition key range: the failure counts and the override it keeps       *)
(* (routing_systems.rs), the failback sweep (location_state_store.rs), and *)
(* the operation pipeline that routes each attempt, retries in the next    *)
(* region, races two regions when the read is hedged, and removes the      *)
(* override once a probe succeeds (operation_pipeline.rs).                 *)
(*                                                                         *)
(* The account is multi-write, so that reads and writes are both managed   *)
(* by the breaker, and its topology is fixed.  Each refresh of its         *)
(* properties may turn the breaker on or off.  The range of the operations *)
(* is known throughout, as it is to a client that may use Gateway 2.0.     *)
(* Time is abstract: the sweep may find the override due, and a failure    *)
(* may find the counts out of their window, at any moment.  A failure is   *)
(* one of a request that was sent; the failures that mark whole endpoints  *)
(* belong to AccountSync.                                                  *)
(***************************************************************************)
EXTENDS Naturals, Sequences, FiniteSets, FiniteSetsExt, Functions

CONSTANTS
  Ops,      \* callers, each making one operation after the other
  Configs   \* the accounts and options, see ConfigAssumption

Kind == {"read", "hedged", "write"}   \* "hedged" is a read too

ASSUME ConfigAssumption ==
  \A c \in Configs :
    /\ c.preferred \in Seq(Range(c.preferred))            \* for reads and writes alike
    /\ Len(c.preferred) > 1 /\ IsInjective(c.preferred)
    /\ {c.read_threshold, c.write_threshold, c.hedge_threshold} \subseteq Nat \ {0}
    /\ c.max_retries \in Nat
    /\ c.enabled \in {{TRUE}, {FALSE}, BOOLEAN}           \* BOOLEAN: as the account says
    /\ c.kinds \in [Ops -> SUBSET Kind]                   \* what each caller calls

VARIABLES
  config,    \* the account and the options, fixed
  enabled,   \* per_partition_circuit_breaker_enabled
  up,        \* the regions that serve the partition
  breaker,   \* circuit_breaker_overrides at the range
  wins,      \* consecutive_hedge_wins, by primary region
  op,        \* the operations
  calm       \* from now on no region fails and no answer comes late

vars == <<config, enabled, up, breaker, wins, op, calm>>

Preferred == config.preferred
Regions == Range(Preferred)
ReadThreshold == config.read_threshold
WriteThreshold == config.write_threshold
HedgeThreshold == config.hedge_threshold
MaxRetries == config.max_retries

NoEntry == [status |-> "none"]
Entry(region, count) ==
  [status |-> "Unhealthy", current |-> region, first |-> region, failed |-> {},
   reads |-> IF count THEN ReadThreshold ELSE 0, writes |-> IF count THEN WriteThreshold ELSE 0]
Idle == [pc |-> "idle", read |-> TRUE, hedged |-> FALSE, at |-> Head(Preferred), legs |-> {},
         retries |-> 0, index |-> 0]

Init ==
  /\ config \in Configs
  /\ enabled \in config.enabled
  /\ up = Regions
  /\ breaker = NoEntry
  /\ wins = [r \in Regions |-> 0]
  /\ op = [o \in Ops |-> Idle]
  /\ calm = FALSE

-----------------------------------------------------------------------------
(* The breaker's own functions.                                            *)

can_circuit_breaker_trigger_failover(e, read) ==
  IF read THEN e.reads >= ReadThreshold ELSE e.writes >= WriteThreshold

\* The first preferred region that is not one of S, if there is one.
FirstNot(S) == Preferred[Min({i \in DOMAIN Preferred : Preferred[i] \notin S})]

\* Faulty variant: regions the override has already left are candidates.
MoveToAnyOther(e, region) ==
  IF region # e.current THEN e
  ELSE [e EXCEPT !.failed = @ \cup {region}, !.current = FirstNot({region})]

\* The first region not left yet; NoEntry when there is none, whereupon both
\* callers leave no override.
try_move_next_endpoint(e, region) ==
  LET left == e.failed \cup {region}
  IN  CASE region # e.current -> e
        [] region = e.current /\ Regions \subseteq left -> NoEntry
        [] OTHER -> [e EXCEPT !.failed = left, !.current = FirstNot(left)]

\* Only the comparison with the threshold matters, so the counts stop there.
Counted(e, read) ==
  IF read THEN [e EXCEPT !.reads = Min({@ + 1, ReadThreshold})]
          ELSE [e EXCEPT !.writes = Min({@ + 1, WriteThreshold})]

\* old: the last failure is out of counter_reset_window.
mark_partition_unavailable(e, region, read, old) ==
  LET entry == IF e = NoEntry THEN Entry(region, FALSE) ELSE e
      kept == IF old THEN [entry EXCEPT !.reads = 0, !.writes = 0] ELSE entry
      counted == Counted(kept, read)
  IN  CASE entry.status = "ProbeCandidate" -> Entry(entry.first, FALSE)
        [] entry.status = "Unhealthy" /\ can_circuit_breaker_trigger_failover(counted, read) ->
             try_move_next_endpoint(counted, region)
        [] OTHER -> counted

record_hedge_alternate_win(primary) ==
  IF wins[primary] + 1 < HedgeThreshold
  THEN /\ wins' = [wins EXCEPT ![primary] = @ + 1]
       /\ UNCHANGED breaker
  ELSE /\ wins' = [wins EXCEPT ![primary] = 0]
       /\ breaker' = IF breaker.status = "Unhealthy" THEN breaker
                     ELSE try_move_next_endpoint(Entry(primary, TRUE), primary)

record_hedge_primary_win(primary) == wins' = [wins EXCEPT ![primary] = 0]

-----------------------------------------------------------------------------
(* Routing one attempt.                                                    *)

Preference(index) == Preferred[(index % Len(Preferred)) + 1]

resolve_endpoint(o) ==
  CASE enabled /\ breaker.status = "ProbeCandidate" -> breaker.first
    [] /\ enabled /\ breaker.status = "Unhealthy"
       /\ can_circuit_breaker_trigger_failover(breaker, op[o].read) -> breaker.current
    [] OTHER -> Preference(op[o].index)

\* The first preferred region other than the primary.
HedgeRegion(primary) == FirstNot({primary})

Begin(o, kind) ==
  /\ op[o].pc = "idle"
  /\ op' = [op EXCEPT ![o] = [Idle EXCEPT !.pc = "ready", !.read = kind # "write",
                                          !.hedged = kind = "hedged"]]
  /\ UNCHANGED <<config, enabled, up, breaker, wins, calm>>

\* A hedged read races two regions at its first attempt, and only then
\* (hedge_already_fired).
Send(o) ==
  LET region == resolve_endpoint(o)
  IN  /\ op[o].pc = "ready"
      /\ op' = [op EXCEPT ![o].pc = IF op[o].hedged THEN "race" ELSE "sent",
                          ![o].at = region,
                          ![o].hedged = FALSE,
                          ![o].legs = IF op[o].hedged THEN {region, HedgeRegion(region)} ELSE {}]
      /\ UNCHANGED <<config, enabled, up, breaker, wins, calm>>

Returns(o) == op' = [op EXCEPT ![o] = Idle]

Retries(o, charged, index) ==
  op' = [op EXCEPT ![o] = [Idle EXCEPT !.pc = "ready", !.read = op[o].read,
                                       !.retries = op[o].retries + charged, !.index = index]]

-----------------------------------------------------------------------------
(* The answer of an attempt that is not raced.                             *)

Succeed(o) ==
  /\ op[o].pc = "sent" /\ op[o].at \in up
  /\ IF breaker.status = "ProbeCandidate" THEN op' = [op EXCEPT ![o].pc = "cleanup"]
                                         ELSE Returns(o)
  /\ UNCHANGED <<config, enabled, up, breaker, wins, calm>>

\* Faulty variant: the status is not looked at again in the CAS closure.
CleanupUnchecked(o) ==
  /\ op[o].pc = "cleanup"
  /\ breaker' = NoEntry
  /\ Returns(o)
  /\ UNCHANGED <<config, enabled, up, wins, calm>>

Cleanup(o) ==
  /\ op[o].pc = "cleanup"
  /\ breaker' = IF breaker.status = "ProbeCandidate" THEN NoEntry ELSE breaker
  /\ Returns(o)
  /\ UNCHANGED <<config, enabled, up, wins, calm>>

\* A failure marks the partition, except that once no retry is left an HTTP
\* error, unlike a transport error, has no effect.  It counts only while the
\* breaker is on.
Mark(o, region) ==
  \/ \E old \in BOOLEAN :
       breaker' = IF enabled THEN mark_partition_unavailable(breaker, region, op[o].read, old)
                  ELSE breaker
  \/ op[o].retries = MaxRetries /\ UNCHANGED breaker

Fail(o) ==
  /\ op[o].pc = "sent" /\ op[o].at \notin up
  /\ Mark(o, op[o].at)
  /\ IF op[o].retries = MaxRetries THEN Returns(o)
     ELSE Retries(o, 1, (op[o].index + 1) % Len(Preferred))
  /\ UNCHANGED <<config, enabled, up, wins, calm>>

-----------------------------------------------------------------------------
(* The race of a hedged read: two legs, the first final answer wins.       *)

Alternate(o) == HedgeRegion(op[o].at)

PrimaryWins(o) ==
  /\ op[o].pc = "race" /\ op[o].at \in op[o].legs \cap up
  /\ record_hedge_primary_win(op[o].at)
  /\ Returns(o)
  /\ UNCHANGED <<config, enabled, up, breaker, calm>>

\* Over a primary that serves the partition only by being faster.
AlternateWins(o) ==
  /\ op[o].pc = "race" /\ Alternate(o) \in op[o].legs \cap up
  /\ op[o].at \in op[o].legs \cap up => ~calm
  /\ record_hedge_alternate_win(op[o].at)
  /\ Returns(o)
  /\ UNCHANGED <<config, enabled, up, calm>>

\* The other leg is awaited.
FirstLegFails(o) ==
  /\ op[o].pc = "race" /\ Cardinality(op[o].legs) = 2
  /\ \E region \in op[o].legs \ up :
       /\ Mark(o, region)
       /\ op' = [op EXCEPT ![o].legs = @ \ {region}]
  /\ UNCHANGED <<config, enabled, up, wins, calm>>

\* The next region of the preference that was not raced, or all around.
try_advance_after_both_transient(o) ==
  LET raced == {op[o].at, Alternate(o)}
      steps == {k \in 1..Len(Preferred) : Preference(op[o].index + k) \notin raced}
  IN  IF op[o].retries + 2 > MaxRetries THEN Returns(o)
      ELSE Retries(o, 2, IF steps = {} THEN op[o].index
                         ELSE (op[o].index + Min(steps)) % Len(Preferred))

SecondLegFails(o) ==
  /\ op[o].pc = "race" /\ Cardinality(op[o].legs) = 1
  /\ \E region \in op[o].legs \ up : Mark(o, region)
  /\ try_advance_after_both_transient(o)
  /\ UNCHANGED <<config, enabled, up, wins, calm>>

\* The end-to-end deadline passes: no effect on the routing.
TimesOut(o) ==
  /\ op[o].pc \in {"ready", "sent", "race"}
  /\ ~calm
  /\ Returns(o)
  /\ UNCHANGED <<config, enabled, up, breaker, wins, calm>>

-----------------------------------------------------------------------------
(* The background sweep, the account's refreshes and the regions.          *)

\* Faulty variant: only an override that reads are routed by is swept.
SweepTripped ==
  /\ breaker.status = "Unhealthy" /\ can_circuit_breaker_trigger_failover(breaker, TRUE)
  /\ breaker' = [breaker EXCEPT !.status = "ProbeCandidate"]
  /\ UNCHANGED <<config, enabled, up, wins, op, calm>>

expire_partition_overrides ==
  /\ breaker.status = "Unhealthy"
  /\ breaker' = [breaker EXCEPT !.status = "ProbeCandidate"]
  /\ UNCHANGED <<config, enabled, up, wins, op, calm>>

\* An edge of the flag clears the overrides, and not the hedge wins.
sync_account_properties ==
  /\ enabled' \in config.enabled \ {enabled}
  /\ breaker' = NoEntry
  /\ UNCHANGED <<config, up, wins, op, calm>>

Outage(region) ==
  /\ region \in up /\ ~calm
  /\ up' = up \ {region}
  /\ UNCHANGED <<config, enabled, breaker, wins, op, calm>>

Recovers(region) ==
  /\ region \notin up
  /\ up' = up \cup {region}
  /\ UNCHANGED <<config, enabled, breaker, wins, op, calm>>

Calms ==
  /\ up = Regions /\ ~calm
  /\ calm' = TRUE
  /\ UNCHANGED <<config, enabled, up, breaker, wins, op>>

Step(o) ==
  \/ Send(o) \/ Succeed(o) \/ Cleanup(o) \/ Fail(o)
  \/ PrimaryWins(o) \/ AlternateWins(o) \/ FirstLegFails(o) \/ SecondLegFails(o)

Next ==
  \/ \E o \in Ops :
       \/ \E kind \in config.kinds[o] : Begin(o, kind)
       \/ Step(o) \/ TimesOut(o)
  \/ expire_partition_overrides \/ sync_account_properties
  \/ \E region \in Regions : Outage(region) \/ Recovers(region)
  \/ Calms

Spec == Init /\ [][Next]_vars

\* Callers call again, their tasks are polled and an attempt is answered; the
\* sweep is a loop on a timer.  A region need not recover.
FairSpec ==
  /\ Spec
  /\ \A o \in Ops : WF_vars(Step(o) \/ \E kind \in config.kinds[o] : Begin(o, kind))
  /\ WF_vars(expire_partition_overrides)

-----------------------------------------------------------------------------
(* Properties.                                                             *)

\* An override never points at a region it has moved away from: whatever the
\* order in which the failures of concurrent operations are recorded,
\* try_move_next_endpoint does not go back before the override is probed or
\* removed.
OverrideAvoidsFailed == breaker # NoEntry => breaker.current \notin breaker.failed

\* The override is removed for one of three reasons only: it was a probe
\* candidate, every region has failed, or a refresh of the account turned the
\* breaker on or off.  In particular the success of an operation does not remove
\* an override that another operation's failure turned back to Unhealthy between
\* the two looks of try_cleanup_probe_candidate, and the sweep removes none, not
\* even one whose counts never reached a threshold.
RemovedForCause ==
  [][breaker # NoEntry /\ breaker' = NoEntry =>
       \/ breaker.status = "ProbeCandidate"
       \/ breaker.failed \cup {breaker.current} = Regions
       \/ enabled' # enabled]_vars

Unhedged == \E o \in Ops : op[o].pc = "sent"

\* Once all regions serve the partition again, in time, and operations that are
\* not hedged keep coming, the partition returns to default routing for good,
\* whatever overrides, counts and attempts in flight the outage left behind.
FailsBack == (<>calm /\ []<>Unhedged) => <>[](breaker = NoEntry)

\* What the documentation says of every request: "a single probe request is
\* sent. Success removes the entry".
ProbesRestore == <>calm => <>[](breaker = NoEntry)

=============================================================================
