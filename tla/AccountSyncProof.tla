-------------------------- MODULE AccountSyncProof --------------------------
(* Proofs about AccountSync and LocationSnapshot. *)
EXTENDS AccountSync, LocationSnapshot, FiniteSetTheorems, TLAPS

Record == [pc : Steps, arc : Arcs, delta : SUBSET Regions, block : BOOLEAN,
           built : States]

\* What TypeOK says of one task.
Typed(r) ==
  /\ r \in Record
  /\ r.pc \notin {"idle", "fetch"} => r.arc.version # 0
  /\ r.pc = "install" => r.built.version # 0

\* An Arc's new name is a number: only finitely many Arcs are in use.
LEMMA OlderNat ==
  ASSUME NEW t, NEW n
  PROVE  Older(t, n) \in Nat
  <1> DEFINE used == {lastProps} \cup {task[s].arc.name : s \in Tasks \ {t}}
  <1>1. IsFiniteSet(Tasks \ {t})
    BY OperationsAssumption, FS_AddElement, FS_RemoveElement DEF Tasks
  <1>2. IsFiniteSet({task[s].arc.name : s \in Tasks \ {t}})
    <2> DEFINE name == [s \in Tasks \ {t} |-> task[s].arc.name]
    <2>1. name \in Surjection(Tasks \ {t}, {task[s].arc.name : s \in Tasks \ {t}})
      BY DEF Surjection
    <2> QED
      BY <1>1, <2>1, FS_Surjection
  <1>3. IsFiniteSet(used)
    BY <1>2, FS_Singleton, FS_Union
  <1>4. IsFiniteSet({m \in used \ {0} : m <= n})
    BY <1>3, FS_Subset
  <1> QED
    BY <1>4, FS_CardinalityType DEF Older

LEMMA IdleTyped == Typed(Idle)
  BY MaxVersionAssumption DEF Typed, Record, Idle, Steps, Arcs, States, NoArc, Nothing

\* Giving one task a typed record keeps every task typed.
LEMMA OneTyped ==
  ASSUME task \in [Tasks -> Record], \A s \in Tasks : Typed(task[s]),
         NEW t \in Tasks, NEW r, Typed(r), task' = [task EXCEPT ![t] = r]
  PROVE  task' \in [Tasks -> Record] /\ \A s \in Tasks : Typed(task'[s])
  BY DEF Typed

LEMMA AllTyped ==
  ASSUME TypeOK
  PROVE  task \in [Tasks -> Record] /\ \A s \in Tasks : Typed(task[s])
  BY DEF TypeOK, Typed, Record, At

\* A step of one task keeps its own record and what it writes to the shared
\* state within their types.
LEMMA TaskType ==
  ASSUME TypeOK, NEW t \in Tasks, Refresh(t) \/ Continue(t) \/ Operate(t)
  PROVE  /\ task' \in [Tasks -> Record] /\ \A s \in Tasks : Typed(task'[s])
         /\ cache' \in Versions /\ flags' \in Versions
         /\ account' \in [version : Versions, blocked : BOOLEAN, marks : SUBSET Endpoints]
         /\ watch' \subseteq Tasks /\ gate' \in BOOLEAN /\ proven' \subseteq Regions
         /\ lastEtag' \in 0..MaxVersion /\ lastProps' \in Nat /\ overlap' \in BOOLEAN
         /\ UNCHANGED <<limit, advertised, tagged, server, probeVars>>
  <1>a. /\ task \in [Tasks -> Record] /\ \A s \in Tasks : Typed(task[s])
        /\ task[t] \in Record /\ Typed(task[t])
    BY AllTyped DEF Typed
  <1>b. /\ server \in Versions /\ cache \in Versions /\ gate \in BOOLEAN
        /\ advertised \in [Versions -> SUBSET Regions] /\ account.marks \subseteq Endpoints
    BY DEF TypeOK
  <1>c. Cached \in Arcs /\ Cached.version # 0
    BY <1>b DEF Cached, Youngest, Arcs, Versions
  <1>1. CASE Refresh(t)
    <2> DEFINE r == [task[t] EXCEPT !.pc = "fetch"]
    <2>1. task' = [task EXCEPT ![t] = r]
      BY <1>1, <1>a DEF Refresh, Goto
    <2>2. Typed(r)
      BY <1>1, <1>a DEF Refresh, At, Typed, Record, Steps
    <2>3. task' \in [Tasks -> Record] /\ \A s \in Tasks : Typed(task'[s])
      <3> HIDE DEF r
      <3> QED BY <1>a, <2>1, <2>2, OneTyped
    <2> QED
      BY <1>1, <2>3 DEF Refresh, TypeOK, metaVars, gateVars, syncVars
  <1>2. CASE Fetched(t)
    <2> DEFINE r == [task[t] EXCEPT !.pc = "observe", !.arc.version = server]
    <2>1. task' = [task EXCEPT ![t] = r]
      BY <1>2, <1>a DEF Fetched
    <2>2. Typed(r)
      <3> DEFINE a == [task[t].arc EXCEPT !.version = server]
      <3>1. a \in Arcs /\ a.version # 0
        BY <1>a, <1>b DEF Record, Arcs, Versions
      <3>2. r = [task[t] EXCEPT !.pc = "observe", !.arc = a]
        BY <1>a DEF Record
      <3> HIDE DEF a, r
      <3> QED
        BY <1>a, <3>1, <3>2 DEF Typed, Record, Steps
    <2>3. task' \in [Tasks -> Record] /\ \A s \in Tasks : Typed(task'[s])
      <3> HIDE DEF r
      <3> QED BY <1>a, <2>1, <2>2, OneTyped
    <2> QED
      BY <1>2, <2>3 DEF Fetched, TypeOK, metaVars, gateVars, syncVars
  <1>3. CASE FetchFailed(t)
    <2> DEFINE r == Idle
    <2>1. task' = [task EXCEPT ![t] = r]
      BY <1>3, <1>a DEF FetchFailed, Return
    <2>2. Typed(r)
      BY IdleTyped
    <2>3. task' \in [Tasks -> Record] /\ \A s \in Tasks : Typed(task'[s])
      <3> HIDE DEF r
      <3> QED BY <1>a, <2>1, <2>2, OneTyped
    <2> QED
      BY <1>3, <2>3 DEF FetchFailed, TypeOK, metaVars, gateVars, syncVars
  <1>4. CASE Observe(t)
    <2> DEFINE r == [task[t] EXCEPT !.pc = "replace", !.arc.name = Youngest]
    <2>1. task' = [task EXCEPT ![t] = r]
      BY <1>4, <1>a DEF Observe
    <2>2. Typed(r)
      BY <1>4, <1>a DEF Observe, Youngest, At, Typed, Record, Steps, Arcs
    <2>3. task' \in [Tasks -> Record] /\ \A s \in Tasks : Typed(task'[s])
      <3> HIDE DEF r
      <3> QED BY <1>a, <2>1, <2>2, OneTyped
    <2> QED
      BY <1>4, <2>3 DEF Observe, TypeOK, metaVars, gateVars, syncVars
  <1>5. CASE Operate(t)
    <2> DEFINE r == [task[t] EXCEPT !.pc = "pointer", !.arc = Cached]
    <2>1. task' = [task EXCEPT ![t] = r]
      BY <1>5, <1>a DEF Operate
    <2>2. Typed(r)
      BY <1>5, <1>a, <1>c DEF Typed, Record, Steps
    <2>3. task' \in [Tasks -> Record] /\ \A s \in Tasks : Typed(task'[s])
      <3> HIDE DEF r
      <3> QED BY <1>a, <2>1, <2>2, OneTyped
    <2> QED
      BY <1>5, <2>3 DEF Operate, TypeOK, metaVars, gateVars, syncVars
  <1>6. CASE Delta(t)
    <2> DEFINE r == [task[t] EXCEPT !.pc = IF Known(t) \ proven = {} THEN "gate"
                                     ELSE "answer",
                              !.delta = Known(t) \ proven, !.block = FALSE]
    <2>1. task' = [task EXCEPT ![t] = r]
      BY <1>6, <1>a DEF Delta
    <2>2. Typed(r)
      <3> DEFINE new == Known(t) \ proven
                 place == IF new = {} THEN "gate" ELSE "answer"
      <3>1. task[t].arc.version \in Versions /\ task[t].arc.version # 0
        <4>1. task[t].pc = "delta"
          BY <1>6 DEF Delta, At
        <4>2. task[t].arc.version \in 0..MaxVersion /\ task[t].arc.version # 0
          BY <1>a, <4>1 DEF Typed, Record, Arcs
        <4> QED
          BY <4>2, MaxVersionAssumption DEF Versions
      <3>2. new \in SUBSET Regions
        BY <1>b, <3>1 DEF Known
      <3>3. place \in Steps \ {"idle", "fetch", "install"}
        BY DEF Steps
      <3>4. r = [task[t] EXCEPT !.pc = place, !.delta = new, !.block = FALSE]
        OBVIOUS
      <3> HIDE DEF new, place, r
      <3> QED
        BY <1>a, <3>1, <3>2, <3>3, <3>4 DEF Typed, Record
    <2>3. task' \in [Tasks -> Record] /\ \A s \in Tasks : Typed(task'[s])
      <3> HIDE DEF r
      <3> QED BY <1>a, <2>1, <2>2, OneTyped
    <2> QED
      BY <1>6, <2>3 DEF Delta, TypeOK, metaVars, gateVars, syncVars
  <1>7. CASE Answer(t)
    <2> DEFINE r == [task[t] EXCEPT !.pc = "gate", !.delta = {},
                              !.block = ~(Known(t) \subseteq proven')]
    <2>1. task' = [task EXCEPT ![t] = r]
      BY <1>7, <1>a DEF Answer
    <2>2. Typed(r)
      BY <1>7, <1>a DEF Answer, At, Typed, Record, Steps
    <2>3. task' \in [Tasks -> Record] /\ \A s \in Tasks : Typed(task'[s])
      <3> HIDE DEF r
      <3> QED BY <1>a, <2>1, <2>2, OneTyped
    <2> QED
      BY <1>7, <1>a, <2>3 DEF Answer, TypeOK, Typed, Record, Arcs,
         metaVars, gateVars, syncVars
  <1>8. CASE SwapGate(t)
    <2> DEFINE r == [task[t] EXCEPT !.pc = IF gate # gate' THEN "clear" ELSE "pointer",
                              !.block = FALSE]
    <2>1. task' = [task EXCEPT ![t] = r]
      BY <1>8, <1>a DEF SwapGate
    <2>2. Typed(r)
      BY <1>8, <1>a DEF SwapGate, At, Typed, Record, Steps
    <2>3. task' \in [Tasks -> Record] /\ \A s \in Tasks : Typed(task'[s])
      <3> HIDE DEF r
      <3> QED BY <1>a, <2>1, <2>2, OneTyped
    <2> QED
      BY <1>8, <1>a, <2>3 DEF SwapGate, TypeOK, Typed, Record, Arcs,
         metaVars, gateVars, syncVars
  <1>9. CASE ClearEtag(t)
    <2> DEFINE r == [task[t] EXCEPT !.pc = "pointer"]
    <2>1. task' = [task EXCEPT ![t] = r]
      BY <1>9, <1>a DEF ClearEtag, Goto
    <2>2. Typed(r)
      BY <1>9, <1>a DEF ClearEtag, At, Typed, Record, Steps
    <2>3. task' \in [Tasks -> Record] /\ \A s \in Tasks : Typed(task'[s])
      <3> HIDE DEF r
      <3> QED BY <1>a, <2>1, <2>2, OneTyped
    <2> QED
      BY <1>9, <2>3, MaxVersionAssumption DEF ClearEtag, TypeOK, metaVars, gateVars, syncVars
  <1>10. CASE SamePointer(t)
    <2> DEFINE r == IF lastProps = task[t].arc.name THEN Idle
                ELSE [task[t] EXCEPT !.pc = "etag"]
    <2>1. task' = [task EXCEPT ![t] = r]
      BY <1>10, <1>a DEF SamePointer, Goto, Return
    <2>2. Typed(r)
      BY <1>10, <1>a, IdleTyped DEF SamePointer, At, Typed, Record, Steps
    <2>3. task' \in [Tasks -> Record] /\ \A s \in Tasks : Typed(task'[s])
      <3> HIDE DEF r
      <3> QED BY <1>a, <2>1, <2>2, OneTyped
    <2> QED
      BY <1>10, <2>3 DEF SamePointer, TypeOK, metaVars, gateVars, syncVars
  <1>11. CASE SameEtag(t)
    <2>1. PICK l \in {"keep", "build"} : task' = [task EXCEPT ![t].pc = l]
      BY <1>11 DEF SameEtag, Goto
    <2> DEFINE r == [task[t] EXCEPT !.pc = l]
    <2>2. task' = [task EXCEPT ![t] = r]
      BY <2>1, <1>a
    <2>3. Typed(r)
      BY <1>11, <1>a DEF SameEtag, At, Typed, Record, Steps
    <2>4. task' \in [Tasks -> Record] /\ \A s \in Tasks : Typed(task'[s])
      <3> HIDE DEF r
      <3> QED BY <1>a, <2>2, <2>3, OneTyped
    <2> QED
      BY <1>11, <2>4 DEF SameEtag, TypeOK, metaVars, gateVars, syncVars
  <1>12. CASE KeepPointer(t)
    <2> DEFINE r == Idle
    <2>1. task' = [task EXCEPT ![t] = r]
      BY <1>12, <1>a DEF KeepPointer, Return
    <2>2. Typed(r)
      BY IdleTyped
    <2>3. task' \in [Tasks -> Record] /\ \A s \in Tasks : Typed(task'[s])
      <3> HIDE DEF r
      <3> QED BY <1>a, <2>1, <2>2, OneTyped
    <2> QED
      BY <1>12, <1>a, <2>3 DEF KeepPointer, TypeOK, Typed, Record, Arcs,
         metaVars, gateVars, syncVars
  <1>13. CASE Build(t)
    <2> DEFINE r == [task[t] EXCEPT !.pc = "install",
                              !.built = [version    |-> task[t].arc.version,
                                         blocked |-> gate,
                                         marks   |-> account.marks]]
    <2>1. task' = [task EXCEPT ![t] = r]
      BY <1>13, <1>a DEF Build
    <2>2. Typed(r)
      BY <1>13, <1>a, <1>b DEF Build, At, Typed, Record, Steps, Arcs, States
    <2>3. task' \in [Tasks -> Record] /\ \A s \in Tasks : Typed(task'[s])
      <3> HIDE DEF r
      <3> QED BY <1>a, <2>1, <2>2, OneTyped
    <2> QED
      BY <1>13, <2>3 DEF Build, TypeOK, metaVars, gateVars, syncVars
  <1>14. CASE Install(t)
    <2> DEFINE r == [task[t] EXCEPT !.pc = IF t \in watch THEN "store" ELSE "build",
                              !.built = Nothing]
    <2>1. task' = [task EXCEPT ![t] = r]
      BY <1>14, <1>a DEF Install
    <2>2. Typed(r)
      <3>1. Nothing \in States
        BY MaxVersionAssumption DEF Nothing, States
      <3> QED
        BY <1>14, <1>a, <3>1 DEF Install, At, Typed, Record, Steps
    <2>3. task' \in [Tasks -> Record] /\ \A s \in Tasks : Typed(task'[s])
      <3> HIDE DEF r
      <3> QED BY <1>a, <2>1, <2>2, OneTyped
    <2>4. task[t].built \in States /\ task[t].built.version # 0
      BY <1>14, <1>a DEF Install, At, Typed, Record
    <2>5. task[t].built \in [version : Versions, blocked : BOOLEAN, marks : SUBSET Endpoints]
      BY <2>4, MaxVersionAssumption DEF States, Versions
    <2> QED
      BY <1>14, <2>3, <2>5 DEF Install, TypeOK, metaVars, gateVars, syncVars
  <1>15. CASE StoreEtag(t)
    <2> DEFINE r == [task[t] EXCEPT !.pc = "props"]
    <2>1. task' = [task EXCEPT ![t] = r]
      BY <1>15, <1>a DEF StoreEtag, Goto
    <2>2. Typed(r)
      BY <1>15, <1>a DEF StoreEtag, At, Typed, Record, Steps
    <2>3. task' \in [Tasks -> Record] /\ \A s \in Tasks : Typed(task'[s])
      <3> HIDE DEF r
      <3> QED BY <1>a, <2>1, <2>2, OneTyped
    <2>4. lastEtag' \in 0..MaxVersion
      <3>1. task[t].arc.version \in 0..MaxVersion /\ lastEtag \in 0..MaxVersion
        BY <1>a DEF TypeOK, Record, Arcs
      <3> QED BY <1>15, <3>1 DEF StoreEtag, Etag
    <2> QED
      BY <1>15, <2>3, <2>4 DEF StoreEtag, TypeOK, metaVars, gateVars, syncVars
  <1>16. CASE StoreProps(t)
    <2> DEFINE r == [task[t] EXCEPT !.pc = "flags"]
    <2>1. task' = [task EXCEPT ![t] = r]
      BY <1>16, <1>a DEF StoreProps, Goto
    <2>2. Typed(r)
      BY <1>16, <1>a DEF StoreProps, At, Typed, Record, Steps
    <2>3. task' \in [Tasks -> Record] /\ \A s \in Tasks : Typed(task'[s])
      <3> HIDE DEF r
      <3> QED BY <1>a, <2>1, <2>2, OneTyped
    <2> QED
      BY <1>16, <1>a, <2>3 DEF StoreProps, TypeOK, Typed, Record, Arcs,
         metaVars, gateVars, syncVars
  <1>17. CASE SetFlags(t)
    <2> DEFINE r == Idle
    <2>1. task' = [task EXCEPT ![t] = r]
      BY <1>17, <1>a DEF SetFlags, Return
    <2>2. Typed(r)
      BY IdleTyped
    <2>3. task' \in [Tasks -> Record] /\ \A s \in Tasks : Typed(task'[s])
      <3> HIDE DEF r
      <3> QED BY <1>a, <2>1, <2>2, OneTyped
    <2>4. task[t].arc \in Arcs /\ task[t].arc.version # 0
      BY <1>17, <1>a DEF SetFlags, At, Typed, Record
    <2>5. task[t].arc.version \in Versions
      BY <2>4, MaxVersionAssumption DEF Arcs, Versions
    <2> QED
      BY <1>17, <2>3, <2>5 DEF SetFlags, TypeOK, metaVars, gateVars
  <1>18. CASE Replace(t)
    <2>1. CASE task[t].arc.name = Youngest
      <3>1. ASSUME NEW s \in Tasks PROVE Typed(task'[s])
        <4>1. CASE s = t
          <5>1. task'[s] = [task[t] EXCEPT !.pc = "delta"]
            BY <1>18, <2>1, <4>1 DEF Replace
          <5> QED
            BY <1>18, <1>a, <5>1 DEF Replace, At, Steps, Typed, Record
        <4>2. CASE s # t
          <5> DEFINE n == Older(t, task[s].arc.name)
          <5>1. n \in Nat
            BY OlderNat
          <5>2. task'[s] = [task[s] EXCEPT !.arc.name = n]
            BY <1>18, <2>1, <4>2 DEF Replace
          <5> HIDE DEF n
          <5> QED
            BY <1>a, <5>1, <5>2 DEF Arcs, Typed, Record
        <4> QED
          BY <4>1, <4>2
      <3>2. task' \in [Tasks -> Record]
        <4>1. task' = [s \in Tasks |-> task'[s]]
          BY <1>18, <2>1 DEF Replace
        <4> QED
          BY <3>1, <4>1 DEF Typed
      <3>3. cache' \in Versions /\ lastProps' \in Nat
        BY <1>18, <1>a, <2>1, OlderNat DEF Replace, At, Arcs, Typed, Record, Versions
      <3> QED
        BY <1>18, <3>1, <3>2, <3>3 DEF Replace, TypeOK, gateVars
    <2>2. CASE task[t].arc.name # Youngest
      <3> DEFINE r == [task[t] EXCEPT !.pc = "delta", !.arc = Cached]
      <3>1. task' = [task EXCEPT ![t] = r]
        BY <1>18, <1>a, <2>2 DEF Replace
      <3>2. Typed(r)
        BY <1>a, <1>c DEF Typed, Record, Steps
      <3>3. task' \in [Tasks -> Record] /\ \A s \in Tasks : Typed(task'[s])
        <4> HIDE DEF r
        <4> QED BY <1>a, <3>1, <3>2, OneTyped
      <3> QED
        BY <1>18, <2>2, <3>3 DEF Replace, TypeOK, gateVars
    <2> QED
      BY <2>1, <2>2
  <1> QED
    BY <1>1, <1>2, <1>3, <1>4, <1>5, <1>6, <1>7, <1>8, <1>9,
       <1>10, <1>11, <1>12, <1>13, <1>14, <1>15, <1>16, <1>17, <1>18 DEF Continue

LEMMA TypeInit ==
  ASSUME Init
  PROVE  TypeOK
  <1>1. 1 \in Versions /\ 1 \in 0..MaxVersion
    BY MaxVersionAssumption DEF Versions
  <1>2. \A t \in Tasks : task[t] = Idle
    BY DEF Init
  <1>3. limit.regions \subseteq Regions
    BY LimitsAssumption DEF Init
  <1>4. /\ advertised \in [Versions -> SUBSET Regions]
        /\ proven \subseteq Regions /\ gate \in BOOLEAN
    BY <1>1, <1>3 DEF Init
  <1>5. tagged \subseteq Versions
    BY DEF Init
  <1>6. lastEtag \in 0..MaxVersion
    BY <1>1, MaxVersionAssumption DEF Init, Etag
  <1> QED
    BY <1>1, <1>2, <1>4, <1>5, <1>6, IdleTyped DEF Init, TypeOK, Typed, Record, At

LEMMA TypeStep ==
  ASSUME TypeOK, [Next]_vars
  PROVE  TypeOK'
  <1>1. CASE UNCHANGED vars
    BY <1>1 DEF vars, metaVars, gateVars, syncVars, probeVars, TypeOK, At
  <1>2. CASE ServerChanges
    <2>1. server' \in Versions
      <3>1. limit.versions \in 1..MaxVersion
        BY LimitsAssumption DEF TypeOK
      <3> QED
        BY <1>2, <3>1, MaxVersionAssumption DEF ServerChanges, TypeOK, Versions
    <2> QED
      BY <1>2, <2>1 DEF ServerChanges, gateVars, syncVars, probeVars, TypeOK, At
  <1>3. ASSUME NEW t \in Tasks, Refresh(t) \/ Continue(t) \/ Operate(t)
        PROVE  TypeOK'
    <2>1. /\ task' \in [Tasks -> Record]
          /\ \A s \in Tasks :
               /\ task'[s].pc \notin {"idle", "fetch"} => task'[s].arc.version # 0
               /\ task'[s].pc = "install" => task'[s].built.version # 0
      BY <1>3, TaskType DEF Typed
    <2> QED
      BY <1>3, <2>1, TaskType DEF TypeOK, probeVars, At, Record
  <1>4. ASSUME NEW e \in Endpoints, MarkEndpoint(e)
        PROVE  TypeOK'
    BY <1>4 DEF MarkEndpoint, SetMarks, metaVars, gateVars, syncVars, TypeOK, At
  <1>5. ASSUME NEW D \in SUBSET account.marks, CollectDue(D)
        PROVE  TypeOK'
    BY <1>5 DEF CollectDue, metaVars, gateVars, syncVars, TypeOK, At
  <1>6. ASSUME NEW e \in Endpoints, ProbeEndpoint(e)
        PROVE  TypeOK'
    BY <1>6 DEF ProbeEndpoint, metaVars, gateVars, syncVars, TypeOK, At
  <1>7. CASE Reachable
    BY <1>7 DEF Reachable, SetMarks, metaVars, gateVars, syncVars, TypeOK, At
  <1>8. CASE Unreachable
    BY <1>8 DEF Unreachable, SetMarks, metaVars, gateVars, syncVars, TypeOK, At
  <1> QED
    BY <1>1, <1>2, <1>3, <1>4, <1>5, <1>6, <1>7, <1>8 DEF Next, ProbeLoop, Tasks

\* For any tasks and bounds: whoever is past refresh_account_properties_inner's
\* fetch holds account properties of a version of the account, so that the account
\* state and the flags are never set from properties that were not fetched.
THEOREM TypeTheorem == Spec => []TypeOK
  BY TypeInit, TypeStep, PTL DEF Spec

\* The steps that leave the marks and the pointer alone.
Elsewhere(t) ==
  \/ Refresh(t) \/ Fetched(t) \/ FetchFailed(t) \/ Observe(t) \/ Replace(t)
  \/ Delta(t) \/ Answer(t) \/ SwapGate(t) \/ ClearEtag(t) \/ Operate(t)
  \/ SamePointer(t) \/ SameEtag(t) \/ KeepPointer(t)
  \/ StoreEtag(t) \/ StoreProps(t) \/ SetFlags(t)

\* A task that is not in the middle of a compare-and-swap is not watched, and
\* its steps do not touch what the others have built.
LEMMA ElsewhereStep ==
  ASSUME MarkInv, NEW t \in Tasks, Elsewhere(t)
  PROVE  MarkInv' /\ account' = account
  <1> DEFINE Untouched ==
        /\ DOMAIN task' = Tasks
        /\ \A s \in Tasks : {"pc", "built"} \subseteq DOMAIN task'[s]
        /\ \A s \in Tasks \ {t} : /\ task'[s].pc = task[s].pc
                                  /\ task'[s].built = task[s].built
  <1>1. UNCHANGED <<account, watch, probe, same, remarked>> /\ ~At(t, "install")
    BY DEF Elsewhere, At, probeVars, Refresh, Fetched, FetchFailed, Observe, Operate,
       Replace, Delta, Answer, SwapGate, ClearEtag, SamePointer, SameEtag,
       KeepPointer, StoreEtag, StoreProps, SetFlags
  <1>2. ASSUME Replace(t) PROVE Untouched
    <2>1. ASSUME NEW s \in Tasks
          PROVE  /\ {"pc", "built"} \subseteq DOMAIN task'[s]
                 /\ s # t => /\ task'[s].pc = task[s].pc
                             /\ task'[s].built = task[s].built
      BY <1>2, <2>1 DEF Replace, MarkInv
    <2> QED
      BY <1>2, <2>1 DEF Replace, MarkInv
  <1>3. ASSUME ~Replace(t) PROVE Untouched
    <2>1. /\ DOMAIN task' = Tasks
          /\ \A s \in Tasks \ {t} : task'[s] = task[s]
      <3>1. CASE SameEtag(t) \/ StoreEtag(t)
        BY <3>1, Zenon DEF MarkInv, Goto, SameEtag, StoreEtag
      <3>2. CASE ~SameEtag(t) /\ ~StoreEtag(t)
        BY <1>3, <3>2 DEF MarkInv, Elsewhere, Goto, Return, Refresh, Fetched, FetchFailed,
           Observe, Operate, Delta, Answer, SwapGate, ClearEtag, SamePointer,
           KeepPointer, StoreProps, SetFlags
      <3> QED BY <3>1, <3>2
    <2>2. CASE task'[t] = Idle
      BY <2>1, <2>2 DEF MarkInv, Idle
    <2>3. ASSUME task'[t] # Idle
          PROVE  DOMAIN task'[t] = DOMAIN task[t]
      <3>1. CASE Fetched(t) \/ Observe(t) \/ Operate(t)
        BY <3>1 DEF MarkInv, Fetched, Observe, Operate
      <3>2. CASE Refresh(t) \/ FetchFailed(t)
        BY <2>3, <3>2 DEF MarkInv, Goto, Return, Refresh, FetchFailed
      <3>3. CASE Delta(t) \/ Answer(t) \/ SwapGate(t) \/ ClearEtag(t)
        <4>1. CASE Delta(t)
          BY <4>1 DEF MarkInv, Delta
        <4>2. CASE Answer(t)
          BY <4>2 DEF MarkInv, Answer
        <4>3. CASE SwapGate(t)
          BY <4>3 DEF MarkInv, SwapGate
        <4>4. CASE ClearEtag(t)
          BY <4>4 DEF MarkInv, ClearEtag, Goto
        <4> QED
          BY <3>3, <4>1, <4>2, <4>3, <4>4
      <3>4. CASE SamePointer(t) \/ SameEtag(t) \/ KeepPointer(t)
        BY <2>3, <3>4 DEF MarkInv, Goto, Return, SamePointer, SameEtag, KeepPointer
      <3>5. CASE StoreEtag(t) \/ StoreProps(t) \/ SetFlags(t)
        BY <2>3, <3>5 DEF MarkInv, Goto, Return, StoreEtag, StoreProps, SetFlags
      <3> QED
        BY <1>3, <3>1, <3>2, <3>3, <3>4, <3>5 DEF Elsewhere
    <2> QED
      BY <2>1, <2>2, <2>3 DEF MarkInv
  <1>4. Untouched
    BY <1>2, <1>3
  <1> QED
    BY <1>1, <1>4 DEF MarkInv, At

\* Who builds the next state copies the marks of the pointer it loaded.
LEMMA BuildStep ==
  ASSUME MarkInv, NEW t \in Tasks, Build(t)
  PROVE  MarkInv' /\ account' = account
  <1>1. /\ task'[t].pc = "install" /\ task'[t].built.marks = account.marks
        /\ \A s \in Tasks \ {t} : task'[s] = task[s]
        /\ DOMAIN task' = Tasks
        /\ \A s \in Tasks : {"pc", "built"} \subseteq DOMAIN task'[s]
    BY DEF Build, MarkInv
  <1> QED
    BY <1>1 DEF Build, MarkInv, At, probeVars

\* A successful compare-and-swap installs the marks that are there.
LEMMA InstallStep ==
  ASSUME MarkInv, NEW t \in Tasks, Install(t)
  PROVE  MarkInv' /\ account'.marks = account.marks
  BY DEF Install, MarkInv, At, probeVars

\* Marking and probing: only Reachable removes a mark.
LEMMA ProbeStep ==
  ASSUME MarkInv, ProbeLoop \/ \E e \in Endpoints : MarkEndpoint(e)
  PROVE  /\ MarkInv'
         /\ \A e \in account.marks \ account'.marks : probe = e /\ ~remarked
  <1> USE DEF MarkInv, SetMarks, At
  <1>1. ASSUME NEW e \in Endpoints, MarkEndpoint(e)
        PROVE  MarkInv' /\ account.marks \ account'.marks = {}
    BY <1>1, NoEndpointAssumption DEF MarkEndpoint
  <1>2. ASSUME NEW D, CollectDue(D)
        PROVE  MarkInv' /\ account' = account
    BY <1>2 DEF CollectDue
  <1>3. ASSUME NEW e \in Endpoints, ProbeEndpoint(e)
        PROVE  MarkInv' /\ account' = account
    BY <1>3 DEF ProbeEndpoint
  <1>4. CASE Reachable
    BY <1>4 DEF Reachable
  <1>5. CASE Unreachable
    BY <1>5 DEF Unreachable
  <1> QED
    BY <1>1, <1>2, <1>3, <1>4, <1>5 DEF ProbeLoop

LEMMA MarkStep ==
  ASSUME MarkInv, [Next]_vars
  PROVE  /\ MarkInv'
         /\ [\A e \in account.marks \ account'.marks : probe = e /\ ~remarked]_vars
  <1>1. CASE UNCHANGED vars
    BY <1>1 DEF vars, probeVars, MarkInv, At
  <1>2. CASE ServerChanges
    BY <1>2 DEF ServerChanges, probeVars, MarkInv, At
  <1>3. ASSUME NEW t \in Tasks, Elsewhere(t) \/ Build(t) \/ Install(t)
        PROVE  MarkInv' /\ account.marks \ account'.marks = {}
    BY <1>3, ElsewhereStep, BuildStep, InstallStep
  <1>4. CASE ProbeLoop \/ \E e \in Endpoints : MarkEndpoint(e)
    BY <1>4, ProbeStep
  <1> QED
    BY <1>1, <1>2, <1>3, <1>4 DEF Next, Continue, Elsewhere, Tasks

LEMMA MarkInit ==
  ASSUME Init
  PROVE  MarkInv
  BY DEF Init, MarkInv, Idle

\* For any tasks, endpoints and account versions, a mark on an endpoint is
\* removed only after the endpoint has answered a probe begun after the mark:
\* the compare-and-swap of sync_account_properties carries every mark forward
\* and probe_and_failback_unavailable_endpoints compares marked_at.
THEOREM MarksSurviveTheorem == Spec => MarksSurvive
  <1>1. Init => MarkInv
    BY MarkInit
  <1>2. MarkInv /\ [Next]_vars => MarkInv'
    BY MarkStep
  <1>3. MarkInv /\ [Next]_vars
          => [\A e \in account.marks \ account'.marks : probe = e /\ ~remarked]_vars
    BY MarkStep
  <1> QED
    BY <1>1, <1>2, <1>3, PTL DEF Spec, MarksSurvive

-----------------------------------------------------------------------------
(* SkipsAreSound: one task at a time rebuilds the account state *)

\* The places that the remembered ETag depends on.
Held == Rebuild \cup {"clear"}

\* Nothing that SkipInv speaks of changes while no task comes to, moves within
\* or leaves the places that the remembered ETag depends on.
LEMMA SkipKept ==
  ASSUME SkipInv, UNCHANGED <<gate, lastEtag, tagged, flags, overlap>>,
         account'.version = account.version, account'.blocked = account.blocked,
         \A s \in Tasks :
           \/ task[s].pc \notin Held /\ task'[s].pc \notin Held
           \/ /\ task'[s].pc = task[s].pc /\ task'[s].built = task[s].built
              /\ task'[s].arc.version = task[s].arc.version
  PROVE  SkipInv'
  <1> SUFFICES ASSUME ~overlap
               PROVE  SkipInv'
    BY DEF SkipInv
  <1>1. /\ \A s, t \in Tasks : task[s].pc \in Rebuild /\ task[t].pc \in Rebuild => s = t
        /\ \A t \in Tasks :
             /\ At(t, "install") => task[t].built.version = task[t].arc.version /\ task[t].built.blocked = gate
             /\ At(t, "store") => account.blocked = gate
             /\ task[t].pc \in Rebuild \ {"install"} => account.version = task[t].arc.version
        /\ Nobody({"store"}) /\ account.version \in tagged => lastEtag \in {0, account.version}
        /\ Nobody({"store", "clear"}) => lastEtag = 0 \/ account.blocked = gate
        /\ Nobody(Rebuild \ {"install"}) => flags = account.version
    BY DEF SkipInv
  <1>2. \A s \in Tasks : task'[s].pc \in Held \/ task[s].pc \in Held => task'[s].pc = task[s].pc
    OBVIOUS
  <1>3. ASSUME NEW S \in SUBSET Held, Nobody(S)' PROVE Nobody(S)
    BY <1>2, <1>3 DEF Nobody
  <1>4. {"store"} \subseteq Held /\ {"store", "clear"} \subseteq Held /\ Rebuild \ {"install"} \subseteq Held
    BY DEF Held, Rebuild
  <1>5. \A s, t \in Tasks : task'[s].pc \in Rebuild /\ task'[t].pc \in Rebuild => s = t
    BY <1>1, <1>2 DEF Held
  <1>6. \A t \in Tasks :
          /\ At(t, "install")' => task'[t].built.version = task'[t].arc.version /\ task'[t].built.blocked = gate'
          /\ At(t, "store")' => account'.blocked = gate'
          /\ task'[t].pc \in Rebuild \ {"install"} => account'.version = task'[t].arc.version
    BY <1>1 DEF At, Held, Rebuild
  <1>7. /\ Nobody({"store"})' /\ account'.version \in tagged' => lastEtag' \in {0, account'.version}
        /\ Nobody({"store", "clear"})' => lastEtag' = 0 \/ account'.blocked = gate'
        /\ Nobody(Rebuild \ {"install"})' => flags' = account'.version
    BY <1>1, <1>3, <1>4
  <1> QED BY <1>5, <1>6, <1>7 DEF SkipInv

\* The steps outside these places.
Quiet(t) ==
  \/ Refresh(t) \/ Fetched(t) \/ FetchFailed(t) \/ Observe(t) \/ Replace(t)
  \/ Delta(t) \/ Answer(t) \/ Operate(t)
  \/ SamePointer(t) \/ SameEtag(t) \/ KeepPointer(t)

LEMMA QuietStep ==
  ASSUME TypeOK, SkipInv, NEW t \in Tasks, Quiet(t)
  PROVE  SkipInv'
  <1>1. UNCHANGED <<gate, lastEtag, tagged, flags, overlap, account>>
    BY Zenon DEF Quiet, Refresh, Fetched, FetchFailed, Observe, Replace, Delta, Answer, Operate,
       SamePointer, SameEtag, KeepPointer, gateVars, syncVars, metaVars
  <1>2. task \in [Tasks -> Record] /\ task[t] \in Record
    BY AllTyped
  <1>3. task[t].pc \notin Held /\ task'[t].pc \notin Held
    <2>1. CASE Refresh(t) \/ FetchFailed(t) \/ SamePointer(t) \/ SameEtag(t) \/ KeepPointer(t)
      BY <1>2, <2>1 DEF Refresh, FetchFailed, SamePointer, SameEtag, KeepPointer, At, Goto,
         Return, Idle, Held, Rebuild, Record
    <2>2. CASE Fetched(t) \/ Observe(t) \/ Operate(t)
      <3>1. task[t].pc \in {"fetch", "observe", "idle"}
        BY <2>2 DEF Fetched, Observe, Operate, At
      <3>2. ASSUME Fetched(t) PROVE task'[t].pc = "observe"
        BY <1>2, <3>2 DEF Fetched, Record
      <3>3. ASSUME Observe(t) PROVE task'[t].pc = "replace"
        BY <1>2, <3>3 DEF Observe, Record
      <3>4. ASSUME Operate(t) PROVE task'[t].pc = "pointer"
        BY <1>2, <3>4 DEF Operate, Record
      <3> QED BY <2>2, <3>1, <3>2, <3>3, <3>4 DEF Held, Rebuild
    <2>3. CASE Delta(t) \/ Answer(t)
      <3>1. task[t].pc \in {"delta", "answer"}
        BY <2>3, Zenon DEF Delta, Answer, At
      <3>2. ASSUME Delta(t) PROVE task'[t].pc \in {"gate", "answer"}
        BY <1>2, <3>2, Zenon DEF Delta, Record
      <3>3. ASSUME Answer(t) PROVE task'[t].pc = "gate"
        BY <1>2, <3>3 DEF Answer, Record
      <3> QED BY <2>3, <3>1, <3>2, <3>3 DEF Held, Rebuild
    <2>4. CASE Replace(t)
      <3>1. task[t].pc = "replace" /\ task'[t].pc = "delta"
        BY <1>2, <2>4 DEF Replace, At, Record
      <3> QED BY <3>1 DEF Held, Rebuild
    <2> QED BY <2>1, <2>2, <2>3, <2>4 DEF Quiet
  <1>4. ASSUME NEW s \in Tasks \ {t}
        PROVE  /\ task'[s].pc = task[s].pc /\ task'[s].built = task[s].built
               /\ task'[s].arc.version = task[s].arc.version
    <2>1. task[s] \in Record
      BY <1>2
    <2>2. CASE Replace(t)
      BY <1>2, <2>1, <2>2 DEF Replace, Record, Arcs
    <2>3. CASE ~Replace(t)
      <3>1. task'[s] = task[s]
        BY <1>2, <2>3, Zenon DEF Quiet, Goto, Return, Refresh, Fetched, FetchFailed, Observe, Operate,
           Delta, Answer, SamePointer, SameEtag, KeepPointer
      <3> QED BY <3>1
    <2> QED BY <2>2, <2>3
  <1> QED BY <1>1, <1>3, <1>4, SkipKept

\* A changed gate is followed by clearing the ETag, and nobody is between
\* reading the gate and storing an ETag.
LEMMA SwapGateStep ==
  ASSUME TypeOK, SkipInv, NEW t \in Tasks, SwapGate(t)
  PROVE  SkipInv'
  <1>1. task \in [Tasks -> Record] /\ task[t] \in Record
    BY AllTyped
  <1>2. /\ UNCHANGED <<account, lastEtag, tagged, flags>>
        /\ overlap' = (overlap \/ (gate # gate' /\ Building(t)))
        /\ task[t].pc = "gate"
    BY DEF SwapGate, At, syncVars, metaVars
  <1>3. task'[t].pc = (IF gate # gate' THEN "clear" ELSE "pointer")
    BY <1>1 DEF SwapGate, Record
  <1>4. \A s \in Tasks \ {t} : task'[s] = task[s]
    BY <1>1 DEF SwapGate
  <1>5. CASE gate' = gate
    <2>1. overlap' = overlap
      BY <1>2, <1>5 DEF TypeOK
    <2>2. task'[t].pc \notin Held /\ task[t].pc \notin Held
      BY <1>2, <1>3, <1>5 DEF Held, Rebuild
    <2> QED BY <1>2, <1>4, <1>5, <2>1, <2>2, SkipKept
  <1>6. CASE gate' # gate
    <2> SUFFICES ASSUME ~overlap'
                 PROVE  SkipInv'
      BY DEF SkipInv
    <2>1. ~overlap /\ \A s \in Tasks \ {t} : task[s].pc \notin {"install", "store"}
      BY <1>2, <1>6, Zenon DEF Building
    <2>2. /\ \A r, s \in Tasks : task[r].pc \in Rebuild /\ task[s].pc \in Rebuild => r = s
          /\ \A s \in Tasks : task[s].pc \in Rebuild \ {"install"} => account.version = task[s].arc.version
          /\ Nobody({"store"}) /\ account.version \in tagged => lastEtag \in {0, account.version}
          /\ Nobody(Rebuild \ {"install"}) => flags = account.version
      BY <2>1 DEF SkipInv
    <2>3. task'[t].pc = "clear"
      BY <1>3, <1>6
    <2>4. /\ \A r, s \in Tasks : task'[r].pc \in Rebuild /\ task'[s].pc \in Rebuild => r = s
          /\ \A s \in Tasks : task'[s].pc \in Rebuild \ {"install"} => account.version = task'[s].arc.version
          /\ \A s \in Tasks : task'[s].pc \notin {"install", "store"}
      BY <1>4, <2>1, <2>2, <2>3 DEF Rebuild
    <2>5. account.version \in tagged => lastEtag \in {0, account.version}
      BY <1>2, <2>1, <2>2 DEF Nobody
    <2>6. Nobody(Rebuild \ {"install"})' => Nobody(Rebuild \ {"install"})
      BY <1>2, <1>4 DEF Nobody, Rebuild
    <2>7. ~Nobody({"store", "clear"})'
      BY <2>3 DEF Nobody
    <2> QED BY <1>2, <2>2, <2>4, <2>5, <2>6, <2>7 DEF SkipInv, At
  <1> QED BY <1>5, <1>6

LEMMA ClearEtagStep ==
  ASSUME TypeOK, SkipInv, NEW t \in Tasks, ClearEtag(t)
  PROVE  SkipInv'
  <1>1. task \in [Tasks -> Record] /\ task[t] \in Record
    BY AllTyped
  <1>2. /\ UNCHANGED <<account, gate, tagged, flags, overlap>> /\ lastEtag' = 0
        /\ task[t].pc = "clear"
    BY DEF ClearEtag, At, gateVars, metaVars
  <1>3. task'[t].pc = "pointer" /\ \A s \in Tasks \ {t} : task'[s] = task[s]
    BY <1>1 DEF ClearEtag, Goto, Record
  <1>4. Nobody(Rebuild \ {"install"})' => Nobody(Rebuild \ {"install"})
    BY <1>2, <1>3 DEF Nobody, Rebuild
  <1> QED BY <1>2, <1>3, <1>4 DEF SkipInv, At, Rebuild

\* Who builds is then the only one to rebuild.
LEMMA BuildSkip ==
  ASSUME TypeOK, SkipInv, NEW t \in Tasks, Build(t)
  PROVE  SkipInv'
  <1> SUFFICES ASSUME ~overlap'
               PROVE  SkipInv'
    BY DEF SkipInv
  <1>1. task \in [Tasks -> Record] /\ task[t] \in Record
    BY AllTyped
  <1>2. /\ UNCHANGED <<account, gate, lastEtag, tagged, flags>> /\ ~overlap
        /\ task[t].pc = "build" /\ \A s \in Tasks \ {t} : task[s].pc \notin Rebuild
    BY Zenon DEF Build, At, metaVars, gateVars, syncVars, Syncing, Rebuild
  <1>3. /\ task'[t].pc = "install" /\ task'[t].arc = task[t].arc
        /\ task'[t].built.version = task[t].arc.version /\ task'[t].built.blocked = gate
    BY <1>1 DEF Build, Record
  <1>4. \A s \in Tasks \ {t} : task'[s] = task[s]
    BY <1>1 DEF Build
  <1>5. /\ Nobody({"store"}) /\ account.version \in tagged => lastEtag \in {0, account.version}
        /\ Nobody({"store", "clear"}) => lastEtag = 0 \/ account.blocked = gate
        /\ Nobody(Rebuild \ {"install"}) => flags = account.version
    BY <1>2 DEF SkipInv
  <1>6. /\ Nobody({"store"})' => Nobody({"store"})
        /\ Nobody({"store", "clear"})' => Nobody({"store", "clear"})
        /\ Nobody(Rebuild \ {"install"})' => Nobody(Rebuild \ {"install"})
    BY <1>2, <1>4 DEF Nobody, Rebuild
  <1>7. \A s \in Tasks : task'[s].pc \in Rebuild => s = t
    BY <1>2, <1>4
  <1> QED BY <1>2, <1>3, <1>5, <1>6, <1>7 DEF SkipInv, At, Rebuild

\* What is installed has the version it was built for and the gate in force.
LEMMA InstallSkip ==
  ASSUME TypeOK, SkipInv, NEW t \in Tasks, Install(t)
  PROVE  SkipInv'
  <1> SUFFICES ASSUME ~overlap
               PROVE  SkipInv'
    BY DEF SkipInv, Install
  <1>1. task \in [Tasks -> Record] /\ task[t] \in Record
    BY AllTyped
  <1>2. UNCHANGED <<gate, lastEtag, tagged, flags, overlap>> /\ task[t].pc = "install"
    BY DEF Install, At, metaVars, gateVars, syncVars
  <1>3. /\ \A s \in Tasks \ {t} : task[s].pc \notin Rebuild
        /\ task[t].built.version = task[t].arc.version /\ task[t].built.blocked = gate
    BY <1>2 DEF SkipInv, At, Rebuild
  <1>4. \A s \in Tasks \ {t} : task'[s] = task[s]
    BY <1>1 DEF Install
  <1>5. CASE account' = task[t].built /\ task' = [task EXCEPT ![t].pc = "store", ![t].built = Nothing]
    <2>1. task'[t].pc = "store" /\ task'[t].arc = task[t].arc
      BY <1>1, <1>5 DEF Record
    <2>2. \A s \in Tasks : task'[s].pc \in Rebuild => s = t
      BY <1>3, <1>4
    <2>3. ~Nobody({"store"})' /\ ~Nobody({"store", "clear"})' /\ ~Nobody(Rebuild \ {"install"})'
      BY <2>1 DEF Nobody, Rebuild
    <2> QED BY <1>2, <1>3, <1>5, <2>1, <2>2, <2>3, Zenon DEF SkipInv, At, Rebuild
  <1>6. CASE account' = account /\ task' = [task EXCEPT ![t].pc = "build", ![t].built = Nothing]
    <2>1. task'[t].pc = "build"
      BY <1>1, <1>6 DEF Record
    <2>2. \A s \in Tasks : task'[s].pc \notin Rebuild
      BY <1>3, <1>4, <2>1 DEF Rebuild
    <2>3. /\ Nobody({"store"}) /\ account.version \in tagged => lastEtag \in {0, account.version}
          /\ Nobody({"store", "clear"}) => lastEtag = 0 \/ account.blocked = gate
          /\ Nobody(Rebuild \ {"install"}) => flags = account.version
      BY DEF SkipInv
    <2>4. /\ Nobody({"store"})' => Nobody({"store"})
          /\ Nobody({"store", "clear"})' => Nobody({"store", "clear"})
          /\ Nobody(Rebuild \ {"install"})' => Nobody(Rebuild \ {"install"})
      BY <1>2, <1>4 DEF Nobody, Rebuild
    <2> QED BY <1>2, <1>6, <2>2, <2>3, <2>4, Zenon DEF SkipInv, At, Rebuild
  <1> QED BY <1>5, <1>6 DEF Install

\* The ETag is stored once its version is installed with the gate in force, and
\* the flags follow it.
LEMMA StoreSkip ==
  ASSUME TypeOK, SkipInv, NEW t \in Tasks, StoreEtag(t) \/ StoreProps(t) \/ SetFlags(t)
  PROVE  SkipInv'
  <1>0. UNCHANGED <<account, gate, tagged, overlap>>
    BY DEF StoreEtag, StoreProps, SetFlags, metaVars, gateVars
  <1> SUFFICES ASSUME ~overlap
               PROVE  SkipInv'
    BY <1>0 DEF SkipInv
  <1>1. task \in [Tasks -> Record] /\ task[t] \in Record
    BY AllTyped
  <1>2. task[t].pc \in Rebuild \ {"install"}
    BY DEF StoreEtag, StoreProps, SetFlags, At, Rebuild
  <1>3. \A s \in Tasks \ {t} : task[s].pc \notin Rebuild /\ task'[s] = task[s]
    <2>1. \A s \in Tasks \ {t} : task[s].pc \notin Rebuild
      BY <1>2 DEF SkipInv
    <2>2. \A s \in Tasks \ {t} : task'[s] = task[s]
      BY <1>1 DEF StoreEtag, StoreProps, SetFlags, Goto, Return
    <2> QED BY <2>1, <2>2
  <1>4. /\ account.version = task[t].arc.version
        /\ task[t].pc = "store" => account.blocked = gate
        /\ Nobody({"store"}) /\ account.version \in tagged => lastEtag \in {0, account.version}
        /\ Nobody({"store", "clear"}) => lastEtag = 0 \/ account.blocked = gate
    BY <1>2 DEF SkipInv, At
  <1>5. CASE StoreEtag(t)
    <2>1. task[t].pc = "store" /\ task'[t].pc = "props" /\ task'[t].arc = task[t].arc
      BY <1>1, <1>5 DEF StoreEtag, Goto, At, Record
    <2>2. /\ account.version \in tagged => lastEtag' \in {0, account.version}
          /\ account.blocked = gate
      <3>1. account.version = task[t].arc.version /\ account.blocked = gate
        BY <1>4, <2>1
      <3>2. ASSUME account.version \in tagged
            PROVE  lastEtag' \in {0, account.version}
        <4>1. Etag(task[t].arc.version) = account.version
          BY <3>1, <3>2 DEF Etag
        <4>2. lastEtag' = IF account.version # 0 THEN account.version ELSE lastEtag
          BY <1>5, <4>1 DEF StoreEtag
        <4>3. account.version # 0
          BY DEF TypeOK, Versions
        <4> QED BY <4>2, <4>3
      <3> QED BY <3>1, <3>2
    <2>3. ~Nobody(Rebuild \ {"install"})'
      BY <2>1 DEF Nobody, Rebuild
    <2>4. \A s \in Tasks : task'[s].pc \in Rebuild => s = t
      BY <1>3
    <2> QED BY <1>0, <1>4, <2>1, <2>2, <2>3, <2>4 DEF SkipInv, At, Rebuild
  <1>6. CASE StoreProps(t)
    <2>1. task[t].pc = "props" /\ task'[t].pc = "flags" /\ task'[t].arc = task[t].arc
      BY <1>1, <1>6 DEF StoreProps, Goto, At, Record
    <2>2. lastEtag' = lastEtag
      BY <1>6 DEF StoreProps
    <2>3. ~Nobody(Rebuild \ {"install"})'
      BY <2>1 DEF Nobody, Rebuild
    <2>4. \A s \in Tasks : task'[s].pc \in Rebuild => s = t
      BY <1>3
    <2>5. /\ Nobody({"store"})' => Nobody({"store"})
          /\ Nobody({"store", "clear"})' => Nobody({"store", "clear"})
      BY <1>3, <2>1 DEF Nobody
    <2> QED BY <1>0, <1>4, <2>1, <2>2, <2>3, <2>4, <2>5 DEF SkipInv, At, Rebuild
  <1>7. CASE SetFlags(t)
    <2>1. task[t].pc = "flags" /\ task'[t].pc = "idle"
      BY <1>1, <1>7 DEF SetFlags, Return, At, Idle
    <2>2. lastEtag' = lastEtag /\ flags' = account.version
      BY <1>4, <1>7 DEF SetFlags
    <2>3. \A s \in Tasks : task'[s].pc \notin Rebuild
      BY <1>3, <2>1 DEF Rebuild
    <2>4. /\ Nobody({"store"})' => Nobody({"store"})
          /\ Nobody({"store", "clear"})' => Nobody({"store", "clear"})
      BY <1>3, <2>1 DEF Nobody
    <2> QED BY <1>0, <1>4, <2>2, <2>3, <2>4 DEF SkipInv, At, Rebuild
  <1> QED BY <1>5, <1>6, <1>7

LEMMA SkipInit ==
  ASSUME Init
  PROVE  SkipInv
  <1>1. \A t \in Tasks : task[t].pc = "idle"
    BY DEF Init, Idle
  <1>2. /\ account.version = 1 /\ lastEtag = Etag(1)
        /\ flags = account.version /\ account.blocked = gate
    BY DEF Init
  <1>3. account.version \in tagged => lastEtag \in {0, account.version}
    BY <1>2 DEF Etag
  <1> QED BY <1>1, <1>2, <1>3 DEF SkipInv, At, Rebuild

LEMMA SkipStep ==
  ASSUME TypeOK, SkipInv, [Next]_vars
  PROVE  SkipInv'
  <1>1. CASE UNCHANGED vars
    BY <1>1, SkipKept DEF vars, metaVars, gateVars, syncVars
  <1>2. CASE ServerChanges
    BY <1>2, SkipKept DEF ServerChanges, gateVars, syncVars
  <1>3. CASE ProbeLoop \/ \E e \in Endpoints : MarkEndpoint(e)
    <2>1. UNCHANGED <<gate, lastEtag, tagged, flags, overlap, task>>
      BY <1>3, Zenon DEF ProbeLoop, MarkEndpoint, CollectDue, ProbeEndpoint, Reachable, Unreachable,
         metaVars, gateVars, syncVars
    <2>2. account'.version = account.version /\ account'.blocked = account.blocked
      BY <1>3 DEF ProbeLoop, MarkEndpoint, CollectDue, ProbeEndpoint, Reachable, Unreachable, SetMarks
    <2> QED BY <2>1, <2>2, SkipKept
  <1>4. ASSUME NEW t \in Tasks, Refresh(t) \/ Continue(t) \/ Operate(t)
        PROVE  SkipInv'
    BY <1>4, QuietStep, SwapGateStep, ClearEtagStep, BuildSkip, InstallSkip, StoreSkip
       DEF Continue, Quiet
  <1> QED BY <1>1, <1>2, <1>3, <1>4 DEF Next, Tasks

\* For any number of operations, versions and regions, and whichever versions
\* come with an ETag: the ETag that lets sync_account_properties return at once
\* is that of the version operations route by, unless this one has none, and
\* they route with its flags and with the Gateway 2.0 verdict in force, because
\* run_connectivity_probe clears the ETag when it changes the verdict and an
\* ETag is stored after the account state it stands for.
THEOREM SkipsTheorem == Spec => []SkipsAreSound
  <1>1. Init => TypeOK /\ SkipInv
    BY TypeInit, SkipInit
  <1>2. TypeOK /\ SkipInv /\ [Next]_vars => (TypeOK /\ SkipInv)'
    BY TypeStep, SkipStep
  <1>3. SkipInv => SkipsAreSound
    BY DEF SkipInv, SkipsAreSound, Nobody, Rebuild
  <1> QED
    BY <1>1, <1>2, <1>3, PTL DEF Spec

-----------------------------------------------------------------------------
(* LocationSnapshot: the pointers of the location state store that the     *)
(* tasks of AccountSync and everybody else write, and the snapshots read   *)
(* from them, for any number of callers, writes and snapshots.             *)

StoreStep(t) == (\E p \in Pointers : Apply(t, p)) \/ LoadVersion(t) \/ ContinueCall(t)

\* What the exchange stores is again a pair of sets of writes, and holds what
\* was there before: pointers only ever gain writes.
LEMMA Exchanged ==
  ASSUME StoreTypeOK, WriteInv, NEW t \in Callers, CompareExchange(t)
  PROVE  /\ state' \in Contents
         /\ \A p \in Pointers : state[p] \subseteq state'[p]
         /\ pc'[t] \in {"load", "bump"}
         /\ pc'[t] = "bump" => write[t] \in Holds(state')
  <1> USE DEF StoreTypeOK, MoveTo, CompareExchange, Contents
  <1>1. CASE state[ptr[t]] = base[t]
    <2>1. state' = [state EXCEPT ![ptr[t]] = base[t] \cup {write[t]}]
          /\ pc'[t] = "bump" /\ write[t] \in Writes /\ ptr[t] \in Pointers
      BY <1>1 DEF WriteInv
    <2>2. /\ state' \in [Pointers -> SUBSET Writes]
          /\ \A p \in Pointers : state[p] \subseteq state'[p]
          /\ write[t] \in state'[ptr[t]]
      BY <1>1, <2>1
    <2> QED
      BY <2>1, <2>2 DEF Holds, Pointers
  <1>2. CASE state[ptr[t]] # base[t]
    BY <1>2
  <1> QED
    BY <1>1, <1>2

LEMMA StoreTypeStep ==
  ASSUME StoreTypeOK, WriteInv, NEW t \in Callers, StoreStep(t)
  PROVE  StoreTypeOK'
  <1> USE DEF StoreTypeOK, MoveTo
  <1>1. ASSUME NEW p \in Pointers, Apply(t, p) PROVE StoreTypeOK'
    BY <1>1 DEF Apply, readerVars, Writes
  <1>2. CASE LoadVersion(t)
    BY <1>2 DEF LoadVersion, writerVars
  <1>3. CASE Load(t)
    BY <1>3 DEF Load, readerVars, Contents
  <1>4. CASE CompareExchange(t)
    <2>1. state' \in Contents
      BY <1>4, Exchanged
    <2> QED
      BY <1>4, <2>1 DEF CompareExchange, writerVars, readerVars
  <1>5. CASE Bump(t)
    BY <1>5 DEF Bump, writerVars, readerVars, WriteInv
  <1>6. CASE Lookup(t)
    BY <1>6 DEF Lookup, writerVars
  <1>7. ASSUME NEW p \in Pointers, NEW l \in {"partitions", "save"}, ReadPointer(t, p, l)
        PROVE  StoreTypeOK'
    BY <1>7 DEF ReadPointer, writerVars, Contents
  <1>8. CASE Save(t)
    BY <1>8 DEF Save, writerVars, readerVars
  <1> QED
    BY <1>1, <1>2, <1>3, <1>4, <1>5, <1>6, <1>7, <1>8 DEF StoreStep, ContinueCall, Pointers

\* Pointers only gain writes, and a writer has its write in until it returns.
LEMMA WriteStep ==
  ASSUME StoreTypeOK, WriteInv, NEW t \in Callers, StoreStep(t)
  PROVE  /\ WriteInv'
         /\ \A p \in Pointers : state[p] \subseteq state'[p]
         /\ Holds(state) \subseteq Holds(state')
  <1> USE DEF StoreTypeOK, MoveTo, WriteInv, NoLostUpdate
  <1>0. ASSUME \A p \in Pointers : state[p] \subseteq state'[p]
        PROVE  Holds(state) \subseteq Holds(state')
    BY <1>0 DEF Holds, Pointers
  <1>1. ASSUME NEW p \in Pointers, Apply(t, p) PROVE WriteInv' /\ state' = state
    BY <1>1 DEF Apply
  <1>2. CASE LoadVersion(t) \/ Lookup(t) \/ Save(t)
    BY <1>2 DEF LoadVersion, Lookup, Save, writerVars
  <1>3. CASE Load(t)
    BY <1>3 DEF Load
  <1>4. CASE CompareExchange(t)
    <2>1. \A p \in Pointers : state[p] \subseteq state'[p]
      BY <1>4, Exchanged
    <2>2. Holds(state) \subseteq Holds(state')
      BY <1>0, <2>1
    <2>3. done' = done /\ write' = write /\ \A s \in Callers \ {t} : pc'[s] = pc[s]
      BY <1>4 DEF CompareExchange, writerVars
    <2>4. write[t] \in Writes
      BY <1>4 DEF CompareExchange
    <2> QED
      BY <1>4, <2>1, <2>2, <2>3, <2>4, Exchanged
  <1>5. CASE Bump(t)
    BY <1>5 DEF Bump, writerVars
  <1>6. ASSUME NEW p \in Pointers, NEW l \in {"partitions", "save"}, ReadPointer(t, p, l)
        PROVE  WriteInv' /\ state' = state
    BY <1>6 DEF ReadPointer, writerVars
  <1> QED
    BY <1>1, <1>2, <1>3, <1>4, <1>5, <1>6
    DEF StoreStep, ContinueCall, Pointers, LoadVersion, Lookup, Save, Load, Bump

\* A new version comes with a new set of returned writes; readers keep the
\* pair they loaded.
LEMMA VersionStep ==
  ASSUME StoreTypeOK, VersionInv, NEW t \in Callers, StoreStep(t)
  PROVE  VersionInv'
  <1>0. version \in Nat /\ cached.version \in Nat /\ \A r \in Callers : seen[r] \in Nat
    BY DEF StoreTypeOK
  <1>a. cached.version <= version /\ \A r \in Callers : seen[r] <= version
    BY Zenon DEF VersionInv
  <1>b. \A r \in Callers : begun[r] \subseteq done /\ (seen[r] = version => begun[r] = done)
    BY Zenon DEF VersionInv
  <1>c. \A r, q \in Callers : seen[r] = seen[q] => begun[r] = begun[q]
    BY Zenon DEF VersionInv
  <1>1. CASE LoadVersion(t)
    <2>1. cached' = cached /\ version' = version /\ done' = done
      BY <1>1 DEF LoadVersion
    <2>2. /\ seen'[t] = version /\ begun'[t] = done
          /\ \A r \in Callers \ {t} : seen'[r] = seen[r] /\ begun'[r] = begun[r]
      BY <1>1 DEF LoadVersion, StoreTypeOK
    <2>3. cached'.version <= version' /\ \A r \in Callers : seen'[r] <= version'
      BY <1>0, <1>a, <2>1, <2>2
    <2>4. ASSUME NEW r \in Callers
          PROVE  begun'[r] \subseteq done' /\ (seen'[r] = version' => begun'[r] = done')
      BY <1>b, <2>1, <2>2
    <2>5. ASSUME NEW r \in Callers, NEW q \in Callers, seen'[r] = seen'[q]
          PROVE  begun'[r] = begun'[q]
      BY <1>b, <1>c, <2>2, <2>5
    <2> QED
      BY <2>3, <2>4, <2>5 DEF VersionInv
  <1>2. CASE Bump(t)
    <2>1. /\ cached' = cached /\ seen' = seen /\ begun' = begun
          /\ version' = version + 1 /\ done \subseteq done'
      BY <1>2 DEF Bump, readerVars
    <2>2. cached'.version <= version'
      BY <1>0, <1>a, <2>1
    <2>3. ASSUME NEW r \in Callers PROVE seen'[r] <= version' /\ seen'[r] # version'
      <3>1. seen[r] <= version /\ seen[r] \in Nat
        BY <1>0, <1>a
      <3> QED
        BY <1>0, <2>1, <3>1
    <2>4. ASSUME NEW r \in Callers PROVE begun'[r] \subseteq done'
      BY <1>b, <2>1
    <2>5. \A r, q \in Callers : seen'[r] = seen'[q] => begun'[r] = begun'[q]
      BY <1>c, <2>1
    <2> QED
      BY <2>2, <2>3, <2>4, <2>5 DEF VersionInv
  <1>3. CASE Save(t)
    <2>1. seen' = seen /\ begun' = begun /\ version' = version /\ done' = done
      BY <1>3 DEF Save, readerVars
    <2>2. cached'.version \in {cached.version, seen[t]}
      BY <1>3 DEF Save
    <2>3. cached'.version <= version'
      BY <1>a, <2>1, <2>2
    <2> QED
      BY <1>a, <1>b, <1>c, <2>1, <2>3 DEF VersionInv
  <1>4. CASE ~LoadVersion(t) /\ ~Bump(t) /\ ~Save(t)
    <2>1. UNCHANGED <<cached, seen, begun, version, done>>
      BY <1>4 DEF StoreStep, ContinueCall, Apply, Load, CompareExchange, Lookup, ReadPointer,
         readerVars
    <2> QED
      BY <2>1 DEF VersionInv
  <1> QED
    BY <1>1, <1>2, <1>3, <1>4

\* Whoever saves a snapshot read it after the version it is saved for.
LEMMA CacheStep ==
  ASSUME StoreTypeOK, WriteInv, VersionInv, CacheInv, ReaderInv, NEW t \in Callers, StoreStep(t)
  PROVE  CacheInv'
  <1> USE DEF StoreTypeOK, VersionInv, CacheInv
  <1>1. CASE LoadVersion(t)
    BY <1>1 DEF LoadVersion
  <1>2. CASE Bump(t)
    <2>1. UNCHANGED <<cached, seen, begun>> /\ version' = version + 1
      BY <1>2 DEF Bump, readerVars
    <2> QED
      BY <2>1
  <1>3. CASE Save(t)
    <2>1. UNCHANGED <<seen, begun, version, done>>
      BY <1>3 DEF Save, readerVars
    <2>2. begun[t] \subseteq Holds(got[t])
      BY <1>3 DEF Save, ReaderInv
    <2>3. CASE cached.version < seen[t]
      <3>1. cached'.version = seen[t] /\ cached'.snap = got[t]
        BY <1>3, <2>3 DEF Save
      <3>2. \A s \in Callers : seen[s] = seen[t] => begun[s] \subseteq Holds(got[t])
        BY <2>2
      <3>3. seen[t] = version => done \subseteq Holds(got[t])
        BY <2>2
      <3>4. Holds(cached.snap)' = Holds(got[t])
        BY <3>1 DEF Holds
      <3> QED
        BY <2>1, <3>1, <3>2, <3>3, <3>4
    <2>4. CASE ~(cached.version < seen[t])
      BY <1>3, <2>1, <2>4 DEF Save
    <2> QED
      BY <2>3, <2>4
  <1>4. CASE ~LoadVersion(t) /\ ~Bump(t) /\ ~Save(t)
    <2>1. UNCHANGED <<cached, seen, begun, version, done>>
      BY <1>4 DEF StoreStep, ContinueCall, Apply, Load, CompareExchange, Lookup, ReadPointer,
         readerVars
    <2> QED
      BY <2>1
  <1> QED
    BY <1>1, <1>2, <1>3, <1>4

\* What had returned before is in one of the pointers when it is read.
LEMMA ReaderStep ==
  ASSUME StoreTypeOK, WriteInv, VersionInv, CacheInv, ReaderInv, NEW t \in Callers, StoreStep(t)
  PROVE  ReaderInv'
  <1> USE DEF StoreTypeOK, ReaderInv, MoveTo
  <1>0. \A p \in Pointers : state[p] \subseteq state'[p]
    BY WriteStep
  <1>1. CASE LoadVersion(t)
    BY <1>1 DEF LoadVersion
  <1>2. CASE Lookup(t)
    BY <1>2 DEF Lookup, CacheInv
  <1>3. CASE ReadPointer(t, "account", "partitions")
    <2>1. begun[t] \subseteq Holds(state)
      BY DEF VersionInv, WriteInv, NoLostUpdate
    <2>2. /\ got' = [got EXCEPT ![t]["account"] = state["account"]]
          /\ UNCHANGED <<begun, state>> /\ pc' = [pc EXCEPT ![t] = "partitions"]
      BY <1>3 DEF ReadPointer
    <2>3. got'[t]["account"] = state["account"]
      BY <2>2 DEF Contents, Pointers
    <2>4. \A s \in Callers \ {t} : got'[s] = got[s] /\ pc'[s] = pc[s]
      BY <2>2
    <2> QED
      BY <2>1, <2>2, <2>3, <2>4 DEF Holds
  <1>4. CASE ReadPointer(t, "partitions", "save")
    <2>1. /\ got' = [got EXCEPT ![t]["partitions"] = state["partitions"]]
          /\ UNCHANGED <<begun, state>> /\ pc[t] = "partitions"
          /\ pc' = [pc EXCEPT ![t] = "save"]
      BY <1>4 DEF ReadPointer
    <2>2. /\ got'[t]["partitions"] = state["partitions"]
          /\ got'[t]["account"] = got[t]["account"]
      BY <2>1 DEF Contents, Pointers
    <2>3. \A s \in Callers \ {t} : got'[s] = got[s] /\ pc'[s] = pc[s]
      BY <2>1
    <2> QED
      BY <2>1, <2>2, <2>3 DEF Holds
  <1>5. CASE Save(t) \/ Bump(t) \/ Load(t) \/ CompareExchange(t)
    <2>1. UNCHANGED <<got, begun>>
      BY <1>5 DEF Save, Bump, Load, CompareExchange, readerVars
    <2>2. /\ pc[t] \in {"save", "bump", "load", "swap"}
          /\ pc'[t] \in {"idle", "swap", "bump", "load"}
          /\ \A s \in Callers \ {t} : pc'[s] = pc[s]
      BY <1>5 DEF Save, Bump, Load, CompareExchange
    <2> QED
      BY <1>0, <2>1, <2>2 DEF Pointers
  <1>6. ASSUME NEW p \in Pointers, Apply(t, p) PROVE ReaderInv'
    BY <1>6 DEF Apply, readerVars
  <1> QED
    BY <1>1, <1>2, <1>3, <1>4, <1>5, <1>6 DEF StoreStep, ContinueCall

-----------------------------------------------------------------------------
LEMMA StoreInvInit == StoreInit => StoreTypeOK /\ SnapInv
  <1> SUFFICES ASSUME StoreInit PROVE StoreTypeOK /\ SnapInv
    OBVIOUS
  <1> USE DEF StoreInit
  <1>1. StoreTypeOK
    <2>1. NoWrites \in Contents
      BY DEF Contents, NoWrites
    <2>2. "account" \in Pointers /\ 1 \in Writes
      BY DEF Pointers, Writes
    <2> QED BY <2>1, <2>2 DEF StoreTypeOK
  <1>2. WriteInv
    BY DEF WriteInv, NoLostUpdate
  <1>3. VersionInv /\ CacheInv
    BY DEF VersionInv, CacheInv
  <1>4. ReaderInv
    BY DEF ReaderInv
  <1> QED
    BY <1>1, <1>2, <1>3, <1>4 DEF SnapInv

LEMMA StoreInvStep == StoreTypeOK /\ SnapInv /\ [StoreNext]_storeVars => (StoreTypeOK /\ SnapInv)'
  <1> SUFFICES ASSUME StoreTypeOK, SnapInv, [StoreNext]_storeVars PROVE (StoreTypeOK /\ SnapInv)'
    OBVIOUS
  <1>1. ASSUME NEW t \in Callers, StoreStep(t) PROVE (StoreTypeOK /\ SnapInv)'
    BY <1>1, StoreTypeStep, WriteStep, VersionStep, CacheStep, ReaderStep DEF SnapInv
  <1>2. CASE UNCHANGED storeVars
    BY <1>2 DEF storeVars, writerVars, readerVars, StoreTypeOK, SnapInv, WriteInv, VersionInv,
       CacheInv, ReaderInv, NoLostUpdate, Holds
  <1> QED
    BY <1>1, <1>2 DEF StoreNext, StoreStep

\* A write that has returned stays in the state whatever others write to the
\* same pointer: apply_account and apply_partition lose no update.
THEOREM NoLostUpdateTheorem == StoreSpec => []NoLostUpdate
  <1>1. StoreTypeOK /\ SnapInv => NoLostUpdate
    BY DEF SnapInv, WriteInv
  <1> QED
    BY <1>1, StoreInvInit, StoreInvStep, PTL DEF StoreSpec

\* Every snapshot(), cached or not, holds all writes that had returned when it
\* was called, for any number of writers and readers.
THEOREM SnapshotTheorem == StoreSpec => []SnapshotCurrent
  <1>1. StoreTypeOK /\ SnapInv => SnapshotCurrent
    BY DEF SnapInv, ReaderInv, SnapshotCurrent
  <1> QED
    BY <1>1, StoreInvInit, StoreInvStep, PTL DEF StoreSpec
=============================================================================
