----------------------------- MODULE AccountSync -----------------------------
(***************************************************************************)
(* How account metadata reaches the routing state of the Cosmos driver:    *)
(* LocationStateStore's refresh, Gateway 2.0 connectivity probe and        *)
(* sync_account_properties, run by a timer, by retried operations and, the *)
(* last, by every operation; and the marks on unavailable endpoints, set   *)
(* by operations and removed by the endpoint-probe loop.                   *)
(*                                                                         *)
(* Account properties are an Arc: a name, which stands for its address and *)
(* is reused when nobody holds it, and the server's version that they were *)
(* fetched from.  A version may come without an ETag (serde's default is   *)
(* the empty string, here 0).  Steps end at awaits, locks and atomic       *)
(* accesses.  LocationSnapshot has the pointers in detail; here a compare- *)
(* and-swap succeeds if nobody has replaced the account pointer since it   *)
(* was loaded (watch).                                                     *)
(***************************************************************************)
EXTENDS Naturals, FiniteSets

CONSTANTS
  Timer,       \* account_refresh_loop
  Operations,  \* operations in progress
  Regions,     \* regions that may have a Gateway 2.0 endpoint
  Endpoints,   \* endpoints that operations may find unavailable
  NoEndpoint,
  MaxVersion,     \* bound: versions of the account on the server
  Limits       \* bounds to explore: every behaviour keeps to one of them

ASSUME MaxVersionAssumption == MaxVersion \in Nat \ {0}
ASSUME OperationsAssumption == IsFiniteSet(Operations)
ASSUME NoEndpointAssumption == NoEndpoint \notin Endpoints
ASSUME LimitsAssumption ==
  Limits \subseteq
    [versions : 1..MaxVersion,             \* versions of the account
     untagged : SUBSET (1..MaxVersion),    \* versions that may have no ETag
     regions  : SUBSET Regions,            \* regions with a Gateway 2.0 endpoint
     failing  : SUBSET Endpoints]          \* endpoints that are found unavailable

Tasks == Operations \cup {Timer}
Versions == 1..MaxVersion
Arcs  == [name : Nat, version : 0..MaxVersion]

\* Account states, and the empty one of a task that has built none.
States == [version : 0..MaxVersion, blocked : BOOLEAN, marks : SUBSET Endpoints]

\* Names are given by age, the youngest first: the cached Arc is 1.
Youngest == 1

VARIABLES
  limit,      \* the bounds this behaviour keeps to
  advertised, \* the regions with a Gateway 2.0 endpoint, by version
  tagged,     \* the versions that come with an ETag
  server,     \* the version of the account on the server
  cache,      \* the account metadata cache: the version of its Arc
  account,    \* the account pointer: version, Gateway 2.0 blocked, marks
  watch,      \* tasks that loaded the account pointer that is there now
  flags,      \* the version the partition state's flags are from
  gate,       \* gateway_v2_runtime_blocked
  proven,     \* probe_succeeded_regions
  lastEtag,   \* last_synced_etag: the version it is of
  lastProps,  \* last_synced_properties: the Arc's name
  task,       \* where each task is and what it holds
  probe,      \* the endpoint the probe loop awaits an answer from
  due,        \* the endpoints it is going to probe next
  same,       \* the endpoints whose mark is still the one it observed
  remarked,   \* history: probe was marked again since it is being probed
  overlap     \* history: two syncs, or a sync and the gate, overlapped

metaVars  == <<limit, advertised, tagged, server, cache>>
gateVars  == <<gate, proven>>
syncVars  == <<lastEtag, lastProps, flags>>
probeVars == <<probe, due, same, remarked>>
vars == <<metaVars, account, watch, gateVars, syncVars, task, probeVars, overlap>>

\* AccountProperties::etag of version v.
Etag(v) == IF v \in tagged THEN v ELSE 0

NoArc   == [name |-> 0, version |-> 0]
Nothing == [version |-> 0, blocked |-> FALSE, marks |-> {}]

\* A task that runs nothing: pc, the Arc it works with, the regions it probes,
\* the value it gives the gate, the account state it is going to install.
Idle ==
  [pc |-> "idle", arc |-> NoArc, delta |-> {}, block |-> FALSE, built |-> Nothing]

\* initialize() has fetched, probed and synced the first version.
Init ==
  /\ limit \in Limits
  /\ advertised \in [Versions -> SUBSET limit.regions]
  /\ \A v \in Versions : v > limit.versions => advertised[v] = {}
  /\ \E U \in SUBSET limit.untagged : tagged = Versions \ U
  /\ server  = 1
  /\ cache   = 1
  /\ proven  \in SUBSET advertised[1]
  /\ gate    = (proven # advertised[1])
  /\ account = [version |-> 1, blocked |-> gate, marks |-> {}]
  /\ watch   = {}
  /\ flags = 1 /\ lastEtag = Etag(1) /\ lastProps = 1
  /\ task    = [t \in Tasks |-> Idle]
  /\ probe = NoEndpoint /\ due = {} /\ same = {} /\ remarked = FALSE
  /\ overlap = FALSE

Cached == [name |-> Youngest, version |-> cache]

At(t, l) == task[t].pc = l
Goto(t, l) == task' = [task EXCEPT ![t].pc = l]
Return(t)  == task' = [task EXCEPT ![t] = Idle]

-----------------------------------------------------------------------------
(* refresh_account_properties_inner *)

\* The account changes: regions are added, removed, failed over.
ServerChanges ==
  /\ server < limit.versions
  /\ server' = server + 1
  /\ UNCHANGED <<limit, advertised, tagged, cache, account, watch, gateVars,
                 syncVars, task, probeVars, overlap>>

\* Faulty variant of Refresh: what has not been fetched is published.
RefreshUnfetched(t) ==
  /\ At(t, "idle")
  /\ Goto(t, "observe")
  /\ UNCHANGED <<metaVars, account, watch, gateVars, syncVars, probeVars, overlap>>

\* The timer fires, or an operation asks for a refresh that is due.
Refresh(t) ==
  /\ At(t, "idle")
  /\ Goto(t, "fetch")
  /\ UNCHANGED <<metaVars, account, watch, gateVars, syncVars, probeVars, overlap>>

Fetched(t) ==
  /\ At(t, "fetch")
  /\ task' = [task EXCEPT ![t].pc = "observe", ![t].arc.version = server]
  /\ UNCHANGED <<metaVars, account, watch, gateVars, syncVars, probeVars, overlap>>

FetchFailed(t) ==
  /\ At(t, "fetch")
  /\ Return(t)
  /\ UNCHANGED <<metaVars, account, watch, gateVars, syncVars, probeVars, overlap>>

\* get_or_refresh_with looks at the cached cell ...
Observe(t) ==
  /\ At(t, "observe")
  /\ task' = [task EXCEPT ![t].pc = "replace", ![t].arc.name = Youngest]
  /\ UNCHANGED <<metaVars, account, watch, gateVars, syncVars, probeVars, overlap>>

\* Who is as old as n gets this name when t makes a new Arc.
Older(t, n) ==
  LET used == {lastProps} \cup {task[s].arc.name : s \in Tasks \ {t}}
  IN  IF n = 0 THEN 0 ELSE 1 + Cardinality({m \in used \ {0} : m <= n})

\* ... and replaces it, or takes what has replaced it in the meantime.
Replace(t) ==
  /\ At(t, "replace")
  /\ \/ /\ task[t].arc.name = Youngest
        /\ cache' = task[t].arc.version
        /\ lastProps' = Older(t, lastProps)
        /\ task' = [s \in Tasks |-> IF s = t THEN [task[t] EXCEPT !.pc = "delta"]
                                   ELSE [task[s] EXCEPT !.arc.name = Older(t, @)]]
     \/ /\ task[t].arc.name # Youngest
        /\ task' = [task EXCEPT ![t].pc = "delta", ![t].arc = Cached]
        /\ UNCHANGED <<cache, lastProps>>
  /\ UNCHANGED <<limit, advertised, tagged, server, account, watch, gateVars,
                 lastEtag, flags, probeVars, overlap>>

-----------------------------------------------------------------------------
(* run_connectivity_probe *)

Known(t) == advertised[task[t].arc.version]

\* Only regions that have never answered are probed.  Without any, or without
\* advertised regions, the gate is known at once.
Delta(t) ==
  LET new == Known(t) \ proven
  IN  /\ At(t, "delta")
      /\ task' = [task EXCEPT ![t].pc = IF new = {} THEN "gate" ELSE "answer",
                              ![t].delta = new, ![t].block = FALSE]
      /\ UNCHANGED <<metaVars, account, watch, gateVars, syncVars, probeVars, overlap>>

\* Some of the probed regions answer and are proven for good.
Answer(t) ==
  /\ At(t, "answer")
  /\ \E ok \in SUBSET task[t].delta : proven' = proven \cup ok
  /\ task' = [task EXCEPT ![t].pc = "gate", ![t].delta = {},
                          ![t].block = ~(Known(t) \subseteq proven')]
  /\ UNCHANGED <<metaVars, account, watch, gate, syncVars, probeVars, overlap>>

\* Another task has read the gate and not yet stored its ETag.
Building(t) == \E s \in Tasks \ {t} : task[s].pc \in {"install", "store"}

SwapGate(t) ==
  /\ At(t, "gate")
  /\ gate' = task[t].block
  /\ task' = [task EXCEPT ![t].pc = IF gate # gate' THEN "clear" ELSE "pointer",
                          ![t].block = FALSE]
  /\ overlap' = (overlap \/ (gate # gate' /\ Building(t)))
  /\ UNCHANGED <<metaVars, account, watch, proven, syncVars, probeVars>>

\* Faulty variant of ClearEtag: the ETag is left as it is.
ClearNothing(t) ==
  /\ At(t, "clear")
  /\ Goto(t, "pointer")
  /\ UNCHANGED <<metaVars, account, watch, gateVars, syncVars, probeVars, overlap>>

ClearEtag(t) ==
  /\ At(t, "clear")
  /\ lastEtag' = 0
  /\ Goto(t, "pointer")
  /\ UNCHANGED <<metaVars, account, watch, gateVars, lastProps, flags, probeVars,
                 overlap>>

-----------------------------------------------------------------------------
(* sync_account_properties *)

\* An operation takes the cached Arc and syncs it.
Operate(t) ==
  /\ At(t, "idle")
  /\ task' = [task EXCEPT ![t].pc = "pointer", ![t].arc = Cached]
  /\ UNCHANGED <<metaVars, account, watch, gateVars, syncVars, probeVars, overlap>>

\* The first fast path: this very Arc was synced last.
SamePointer(t) ==
  /\ At(t, "pointer")
  /\ IF lastProps = task[t].arc.name THEN Return(t) ELSE Goto(t, "etag")
  /\ UNCHANGED <<metaVars, account, watch, gateVars, syncVars, probeVars, overlap>>

\* Faulty variant of SameEtag: two empty ETags are the same version.
SameEtagOrNone(t) ==
  /\ At(t, "etag")
  /\ Goto(t, IF lastEtag = Etag(task[t].arc.version) THEN "keep" ELSE "build")
  /\ UNCHANGED <<metaVars, account, watch, gateVars, syncVars, probeVars, overlap>>

\* The second: this version was synced last.  Not without an ETag.
SameEtag(t) ==
  /\ At(t, "etag")
  /\ LET etag == Etag(task[t].arc.version)
     IN  Goto(t, IF etag # 0 /\ lastEtag = etag THEN "keep" ELSE "build")
  /\ UNCHANGED <<metaVars, account, watch, gateVars, syncVars, probeVars, overlap>>

KeepPointer(t) ==
  /\ At(t, "keep")
  /\ lastProps' = task[t].arc.name
  /\ Return(t)
  /\ UNCHANGED <<metaVars, account, watch, gateVars, lastEtag, flags, probeVars,
                 overlap>>

\* Another task is between building the account state and setting the flags.
Syncing(t) ==
  \E s \in Tasks \ {t} : task[s].pc \in {"install", "store", "props", "flags"}

\* apply_account loads the pointer and builds the next state from it.
Build(t) ==
  /\ At(t, "build")
  /\ watch' = watch \cup {t}
  /\ task' = [task EXCEPT ![t].pc = "install",
                          ![t].built = [version |-> task[t].arc.version,
                                        blocked |-> gate,
                                        marks   |-> account.marks]]
  /\ overlap' = (overlap \/ Syncing(t))
  /\ UNCHANGED <<metaVars, account, gateVars, syncVars, probeVars>>

\* The compare-and-swap of apply_account.
Install(t) ==
  /\ At(t, "install")
  /\ \/ /\ t \in watch
        /\ account' = task[t].built
        /\ watch' = {}
        /\ task' = [task EXCEPT ![t].pc = "store", ![t].built = Nothing]
     \/ /\ t \notin watch
        /\ task' = [task EXCEPT ![t].pc = "build", ![t].built = Nothing]
        /\ UNCHANGED <<account, watch>>
  /\ UNCHANGED <<metaVars, gateVars, syncVars, probeVars, overlap>>

\* Without an ETag the one of an earlier sync stays.
StoreEtag(t) ==
  /\ At(t, "store")
  /\ LET etag == Etag(task[t].arc.version)
     IN  lastEtag' = IF etag # 0 THEN etag ELSE lastEtag
  /\ Goto(t, "props")
  /\ UNCHANGED <<metaVars, account, watch, gateVars, lastProps, flags, probeVars,
                 overlap>>

StoreProps(t) ==
  /\ At(t, "props")
  /\ lastProps' = task[t].arc.name
  /\ Goto(t, "flags")
  /\ UNCHANGED <<metaVars, account, watch, gateVars, lastEtag, flags, probeVars,
                 overlap>>

\* apply_partition takes the failover flags over.
SetFlags(t) ==
  /\ At(t, "flags")
  /\ flags' = task[t].arc.version
  /\ Return(t)
  /\ UNCHANGED <<metaVars, account, watch, gateVars, lastEtag, lastProps,
                 probeVars, overlap>>

-----------------------------------------------------------------------------
(* Marks on endpoints: apply and probe_and_failback_unavailable_endpoints *)

\* apply_account with a function of the current state alone: one step.
SetMarks(marks) ==
  /\ account' = [version |-> account.version, blocked |-> account.blocked, marks |-> marks]
  /\ watch' = {}

\* An operation cannot reach e; a second mark replaces the first.
MarkEndpoint(e) ==
  /\ e \in limit.failing
  /\ SetMarks(account.marks \cup {e})
  /\ same' = same \ {e}
  /\ remarked' = (remarked \/ probe = e)
  /\ UNCHANGED <<metaVars, gateVars, syncVars, task, probe, due, overlap>>

\* The loop observes the marks whose cooldown has elapsed.
CollectDue(D) ==
  /\ probe = NoEndpoint /\ due = {} /\ D # {}
  /\ due' = D /\ same' = D
  /\ UNCHANGED <<metaVars, account, watch, gateVars, syncVars, task, probe,
                 remarked, overlap>>

ProbeEndpoint(e) ==
  /\ probe = NoEndpoint /\ e \in due
  /\ probe' = e /\ due' = due \ {e} /\ remarked' = FALSE
  /\ UNCHANGED <<metaVars, account, watch, gateVars, syncVars, task, same, overlap>>

\* Faulty variant of Reachable: whatever mark there is is removed.
ReachableAnyMark ==
  /\ probe # NoEndpoint
  /\ SetMarks(account.marks \ {probe})
  /\ probe' = NoEndpoint /\ same' = same \ {probe} /\ remarked' = FALSE
  /\ UNCHANGED <<metaVars, gateVars, syncVars, task, due, overlap>>

\* The endpoint answers: it is failed back if its mark is the one observed.
Reachable ==
  /\ probe # NoEndpoint
  /\ SetMarks(IF probe \in same THEN account.marks \ {probe} ELSE account.marks)
  /\ probe' = NoEndpoint /\ same' = same \ {probe} /\ remarked' = FALSE
  /\ UNCHANGED <<metaVars, gateVars, syncVars, task, due, overlap>>

\* It does not: its cooldown starts again.
Unreachable ==
  /\ probe # NoEndpoint
  /\ SetMarks(account.marks)
  /\ probe' = NoEndpoint /\ same' = same \ {probe} /\ remarked' = FALSE
  /\ UNCHANGED <<metaVars, gateVars, syncVars, task, due, overlap>>

-----------------------------------------------------------------------------
Continue(t) ==
  \/ Fetched(t) \/ FetchFailed(t) \/ Observe(t) \/ Replace(t)
  \/ Delta(t) \/ Answer(t) \/ SwapGate(t) \/ ClearEtag(t)
  \/ SamePointer(t) \/ SameEtag(t) \/ KeepPointer(t) \/ Build(t) \/ Install(t)
  \/ StoreEtag(t) \/ StoreProps(t) \/ SetFlags(t)

ProbeLoop ==
  \/ \E D \in SUBSET account.marks : CollectDue(D)
  \/ \E e \in Endpoints : ProbeEndpoint(e)
  \/ Reachable \/ Unreachable

Next ==
  \/ ServerChanges
  \/ \E t \in Tasks : Refresh(t) \/ Continue(t)
  \/ \E t \in Operations : Operate(t)
  \/ \E e \in Endpoints : MarkEndpoint(e)
  \/ ProbeLoop

Spec == Init /\ [][Next]_vars

\* Started calls are polled until they return and the timer keeps firing.  Its
\* metadata request does not fail for ever, and neither does it lose the race
\* for the account pointer for ever.
FairSpec ==
  /\ Spec
  /\ \A t \in Tasks : WF_vars(Continue(t))
  /\ WF_vars(Refresh(Timer)) /\ SF_vars(Fetched(Timer))
  /\ SF_vars(Install(Timer) /\ Timer \in watch)

-----------------------------------------------------------------------------
Steps ==
  {"idle", "fetch", "observe", "replace", "delta", "answer", "gate", "clear",
   "pointer", "etag", "keep", "build", "install", "store", "props", "flags"}

\* The types: who is past the fetch works with a version of the account, and
\* what is going to be installed is a complete account state.
TypeOK ==
  /\ limit \in Limits
  /\ advertised \in [Versions -> SUBSET Regions]
  /\ tagged \subseteq Versions
  /\ server \in Versions /\ cache \in Versions /\ flags \in Versions
  /\ account \in [version : Versions, blocked : BOOLEAN, marks : SUBSET Endpoints]
  /\ watch \subseteq Tasks
  /\ gate \in BOOLEAN /\ proven \subseteq Regions
  /\ lastEtag \in 0..MaxVersion /\ lastProps \in Nat
  /\ task \in [Tasks -> [pc : Steps, arc : Arcs, delta : SUBSET Regions,
                         block : BOOLEAN, built : States]]
  /\ \A t \in Tasks : /\ ~At(t, "idle") /\ ~At(t, "fetch") => task[t].arc.version # 0
                      /\ At(t, "install") => task[t].built.version # 0
  /\ probe \in Endpoints \cup {NoEndpoint}
  /\ due \subseteq Endpoints /\ same \subseteq Endpoints
  /\ remarked \in BOOLEAN /\ overlap \in BOOLEAN

\* "A marked endpoint is only cleared once a connectivity probe confirms it is
\* reachable" (location_state_store.rs:793-794): a mark disappears only when
\* the endpoint has answered a probe that began after it was marked, never in
\* a rebuild of the account state and never for an answer that is older.
MarksSurvive ==
  [][\A e \in account.marks \ account'.marks : probe = e /\ ~remarked]_vars

\* The account state is from a version without an ETag, and the ETag of
\* another one, remembered from an earlier sync, makes syncs of that return.
Skewed == account.version \notin tagged /\ lastEtag # 0

\* The routing state catches up with the account: once the account stops
\* changing, operations route by its last version and by the last verdict on
\* Gateway 2.0, although unchanged versions are skipped, and whether or not
\* the versions come with ETags - unless two rebuilds, or a rebuild and a
\* change of the gate, have overlapped, or a version without an ETag was
\* synced late and the ETag of a later one is still remembered.
RoutingCatchesUp ==
  <>[](\/ overlap \/ Skewed
       \/ account.version = server /\ flags = server /\ account.blocked = gate)

Nobody(S) == \A t \in Tasks : task[t].pc \notin S

\* What makes the skipping sound: a remembered ETag, which makes every sync of
\* that version return at once, is the version that operations route by - or
\* these route by one that came without an ETag - with the flags of the version
\* routed by and the gate in force, unless a rebuild or a change of the gate is
\* half done, or such have overlapped.
SkipsAreSound ==
  ~overlap /\ lastEtag # 0 /\ Nobody({"clear", "store", "props", "flags"}) =>
    /\ account.version = lastEtag \/ account.version \notin tagged
    /\ flags = account.version /\ account.blocked = gate

-----------------------------------------------------------------------------
(* The inductive invariants behind SkipsAreSound and MarksSurvive *)

\* From building the account state to setting the flags.
Rebuild == {"install", "store", "props", "flags"}

\* One task at a time rebuilds, with the gate in force until it has stored the
\* ETag; what each of its steps leaves behind is what the next one relies on.
SkipInv ==
  ~overlap =>
    /\ \A s, t \in Tasks : task[s].pc \in Rebuild /\ task[t].pc \in Rebuild => s = t
    /\ \A t \in Tasks :
         /\ At(t, "install") => task[t].built.version = task[t].arc.version /\ task[t].built.blocked = gate
         /\ At(t, "store") => account.blocked = gate
         /\ task[t].pc \in Rebuild \ {"install"} => account.version = task[t].arc.version
    /\ Nobody({"store"}) /\ account.version \in tagged => lastEtag \in {0, account.version}
    /\ Nobody({"store", "clear"}) => lastEtag = 0 \/ account.blocked = gate
    /\ Nobody(Rebuild \ {"install"}) => flags = account.version

\* Who is going to replace the pointer it loaded carries the marks that are
\* there, and an observed mark is not one set during the probe.
MarkInv ==
  /\ watch \subseteq Tasks /\ DOMAIN task = Tasks
  /\ \A t \in Tasks : {"pc", "built"} \subseteq DOMAIN task[t]
  /\ \A t \in watch : At(t, "install") /\ task[t].built.marks = account.marks
  /\ probe # NoEndpoint /\ probe \in same => ~remarked
=============================================================================
