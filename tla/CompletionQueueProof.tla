------------------------ MODULE CompletionQueueProof ------------------------
(***************************************************************************)
(* Proofs about CompletionQueue, for any number of operations and          *)
(* producers and any capacity: the count of operations in flight is exact, *)
(* nothing is lost to shutdown, nobody is left parked, a cancelled         *)
(* completion says that it was asked for, and the queue implements         *)
(* Delivery.                                                               *)
(***************************************************************************)
EXTENDS CompletionQueue, FiniteSetTheorems, TLAPS

\* Where the count stands in each state: a queue that is shut down and not
\* drained has something in flight, for every step that could bring the count
\* to zero calls maybe_mark_drained.
DrainInv ==
  /\ state = "drained" => in_flight = 0
  /\ state = "shutdown" => in_flight # 0

\* The permit follows the flag, and a cancelled outcome follows the permit.
CancelInv ==
  \A o \in Ops :
    /\ op[o].permit \/ op[o].outcome = "cancelled" => op[o].cancel_requested
    /\ op[o].phase \in {"posted", "delivered"} /\ op[o].outcome = "cancelled"
         => op[o].was_requested

Inv == TypeOK /\ InFlightInv /\ DrainInv /\ NoStuckThread /\ CancelInv /\ UnboundedLosesNothing

-----------------------------------------------------------------------------
(* Sequences, sets and threads *)

LEMMA ActiveFinite == IsFiniteSet(Active) /\ Cardinality(Active) \in Nat
BY OpsAssumption, FS_Subset, FS_CardinalityType DEF Active

\* Nothing is in flight exactly when no task is active and the queue is empty.
LEMMA CountZero ==
  ASSUME NEW A \in SUBSET Ops, NEW q \in Seq(Ops)
  PROVE  Cardinality(A) + Len(q) = 0 <=> A = {} /\ q = <<>>
<1>1. Len(q) \in Nat /\ (Len(q) = 0 <=> q = <<>>)
  OBVIOUS
<1>2. IsFiniteSet(A) /\ Cardinality(A) \in Nat /\ (Cardinality(A) = 0 <=> A = {})
  BY OpsAssumption, FS_Subset, FS_CardinalityType, FS_EmptySet
<1> QED BY <1>1, <1>2

LEMMA NothingInFlight ==
  ASSUME TypeOK, InFlightInv
  PROVE  in_flight = 0 <=> Active = {} /\ deque = <<>>
BY CountZero DEF InFlightInv, TypeOK, Active

\* A thread that is woken is still a thread and no longer parked.
LEMMA WokenThread ==
  ASSUME NEW t \in Threads
  PROVE  Woken(t) \in Threads /\ Woken(t).at # "parked"
BY DEF Threads, Woken

LEMMA WritersNotified ==
  ASSUME writer \in [Writers -> Threads], NotifyOneWriter
  PROVE  /\ writer' \in [Writers -> Threads]
         /\ \A w \in Writers : writer'[w].at = "parked" => writer[w].at = "parked"
BY WokenThread DEF NotifyOneWriter

-----------------------------------------------------------------------------
(* Types *)

LEMMA TypeStep == TypeOK /\ [Next]_vars => TypeOK'
<1> SUFFICES ASSUME TypeOK, [Next]_vars PROVE TypeOK'
  OBVIOUS
<1> USE DEF TypeOK
<1>idle. Idle \in Threads
  BY DEF Idle, Threads
<1>less. \A n \in Nat : Less(n) \in Nat
  BY DEF Less
<1>mark. \A st \in {"running", "shutdown", "drained"} :
           \A q, n : maybe_mark_drained(st, q, n) \in {"running", "shutdown", "drained"}
  BY DEF maybe_mark_drained
<1>1. ASSUME NEW o \in Ops, Submit(o) PROVE TypeOK'
  BY <1>1 DEF Submit, OpRecord
<1>2. ASSUME NEW o \in Ops, RequestCancel(o) \/ NotifyCancel(o) PROVE TypeOK'
  <2>1. CASE RequestCancel(o)
    <3>1. [op[o] EXCEPT !.cancel_requested = TRUE] \in OpRecord
      BY DEF OpRecord
    <3>2. op' = [op EXCEPT ![o] = [op[o] EXCEPT !.cancel_requested = TRUE]]
      BY <2>1 DEF RequestCancel
    <3> QED BY <2>1, <3>1, <3>2 DEF RequestCancel, queueVars
  <2>2. CASE NotifyCancel(o)
    <3>1. [op[o] EXCEPT !.permit = TRUE] \in OpRecord
      BY DEF OpRecord
    <3>2. op' = [op EXCEPT ![o] = [op[o] EXCEPT !.permit = TRUE]]
      BY <2>2 DEF NotifyCancel
    <3> QED BY <2>2, <3>1, <3>2 DEF NotifyCancel, queueVars
  <2> QED BY <1>2, <2>1, <2>2
<1>3. ASSUME NEW o \in Ops, Finish(o) PROVE TypeOK'
  <2>1. PICK outcome \in {"cancelled", "ok", "error"} :
          op' = [op EXCEPT ![o].phase = "finished", ![o].outcome = outcome]
    BY <1>3 DEF Finish
  <2>2. [op[o] EXCEPT !.phase = "finished", !.outcome = outcome] \in OpRecord
    BY DEF OpRecord
  <2>3. op' = [op EXCEPT ![o] = [op[o] EXCEPT !.phase = "finished", !.outcome = outcome]]
    BY <2>1
  <2>4. op' \in [Ops -> OpRecord]
    BY <2>2, <2>3
  <2> QED BY <1>3, <2>4 DEF Finish, queueVars
<1>4. ASSUME NEW o \in Ops, Enqueue(o) PROVE TypeOK'
  <2>1. op' \in [Ops -> OpRecord]
    <3>1. PICK ph \in {"posted", "dropped"} :
            op' = [op EXCEPT ![o].phase = ph, ![o].was_requested = op[o].cancel_requested]
      BY <1>4 DEF Enqueue
    <3>2. PICK b \in BOOLEAN : b = op[o].cancel_requested
      BY DEF OpRecord
    <3>3. [op[o] EXCEPT !.phase = ph, !.was_requested = b] \in OpRecord
      BY DEF OpRecord
    <3>4. op' = [op EXCEPT ![o] = [op[o] EXCEPT !.phase = ph, !.was_requested = b]]
      BY <3>1, <3>2
    <3> QED BY <3>3, <3>4
  <2>2. deque' \in Seq(Ops) /\ in_flight' \in Nat
    BY <1>4, <1>less DEF Enqueue
  <2>3. state' \in {"running", "shutdown", "drained"}
    BY <1>4, <1>mark DEF Enqueue
  <2>4. consumer' \in Threads
    BY <1>4, WokenThread DEF Enqueue
  <2> QED BY <1>4, <2>1, <2>2, <2>3, <2>4 DEF Enqueue
<1>5. ASSUME pop_ready PROVE TypeOK'
  <2>1. Head(deque) \in Ops /\ Tail(deque) \in Seq(Ops)
    BY <1>5 DEF pop_ready
  <2>2. op' \in [Ops -> OpRecord]
    <3>1. [op[Head(deque)] EXCEPT !.phase = "delivered"] \in OpRecord
      BY <2>1 DEF OpRecord
    <3>2. op' = [op EXCEPT ![Head(deque)] = [op[Head(deque)] EXCEPT !.phase = "delivered"]]
      BY <1>5 DEF pop_ready
    <3> QED BY <2>1, <3>1, <3>2
  <2>3. state' \in {"running", "shutdown", "drained"}
    BY <1>5, <1>mark DEF pop_ready
  <2> QED BY <1>5, <1>idle, <1>less, <2>1, <2>2, <2>3, WritersNotified DEF pop_ready
<1>6. ASSUME NEW timed \in BOOLEAN, ParkOrReturn(timed) PROVE TypeOK'
  BY <1>6, <1>idle, <1>mark DEF ParkOrReturn, Threads
<1>7. ASSUME WakesTooLate PROVE TypeOK'
  BY <1>7, <1>idle, <1>mark DEF WakesTooLate
<1>8. ASSUME ConsumerTimesOut \/ ConsumerWakesSpuriously PROVE TypeOK'
  <2>1. consumer' \in Threads
    BY <1>8, WokenThread DEF ConsumerTimesOut, ConsumerWakesSpuriously, Threads
  <2> QED BY <1>8, <2>1 DEF ConsumerTimesOut, ConsumerWakesSpuriously, queueVars
<1>9. ASSUME NEW w \in Writers, WriterNext(w) PROVE TypeOK'
  <2>1. writer' \in [Writers -> Threads]
    <3>1. CASE WriterParks(w)
      <4>1. PICK t \in Threads : writer' = [writer EXCEPT ![w] = t]
        BY <3>1 DEF WriterParks, Threads
      <4> QED BY <4>1
    <3>2. CASE WriterWakes(w)
      <4>1. [writer[w] EXCEPT !.at = "parked"] \in Threads
        BY DEF Threads
      <4>2. \/ writer' = [writer EXCEPT ![w] = Idle]
            \/ writer' = [writer EXCEPT ![w] = [writer[w] EXCEPT !.at = "parked"]]
        BY <3>2 DEF WriterWakes
      <4> QED BY <1>idle, <4>1, <4>2
    <3>3. CASE WriterTimesOut(w) \/ WriterWakesSpuriously(w)
      BY <3>3, <1>idle, WokenThread DEF WriterTimesOut, WriterWakesSpuriously
    <3> QED BY <1>9, <3>1, <3>2, <3>3 DEF WriterNext
  <2> QED BY <1>9, <2>1
      DEF WriterNext, WriterParks, WriterWakes, WriterTimesOut, WriterWakesSpuriously, queueVars
<1>10. ASSUME Shutdown PROVE TypeOK'
  BY <1>10, <1>mark, WokenThread DEF Shutdown, NotifyAllWriters
<1>11. CASE UNCHANGED vars
  BY <1>11 DEF vars, queueVars
<1> QED
  BY <1>1, <1>2, <1>3, <1>4, <1>5, <1>6, <1>7, <1>8, <1>9, <1>10, <1>11
  DEF Next, TaskNext, ConsumerNext, ConsumerWakes, WaitPops, WaitParks, WakesToPop, WakesToPark, Threads

-----------------------------------------------------------------------------
(* The count of operations in flight *)

\* A step that moves no operation and leaves the queue alone.
LEMMA QuietCount ==
  ASSUME InFlightInv, deque' = deque, in_flight' = in_flight,
         \A o \in Ops : op'[o].phase = op[o].phase, deque \in Seq(Ops)
  PROVE  InFlightInv'
<1>1. Active' = Active
  BY DEF Active
<1>2. \A i \in DOMAIN deque : deque[i] \in Ops
  OBVIOUS
<1> QED BY <1>1, <1>2 DEF InFlightInv, InPhase

LEMMA SubmitCount ==
  ASSUME TypeOK, InFlightInv, NEW o \in Ops, Submit(o)
  PROVE  InFlightInv'
<1> USE DEF TypeOK
<1>1. \A p \in Ops : op'[p].phase = IF p = o THEN "running" ELSE op[p].phase
  BY DEF Submit, OpRecord
<1>2. \A i \in DOMAIN deque : deque[i] \in Ops /\ deque[i] # o
  BY DEF Submit, InFlightInv
<1>3. Active' = Active \cup {o} /\ o \notin Active
  BY <1>1 DEF Active, Submit
<1>4. Cardinality(Active') = Cardinality(Active) + 1
  BY <1>3, ActiveFinite, FS_AddElement
<1>5. in_flight' = Cardinality(Active') + Len(deque')
  BY <1>4, ActiveFinite DEF Submit, InFlightInv
<1> QED BY <1>1, <1>2, <1>5 DEF InFlightInv, InPhase, Submit

LEMMA FinishCount ==
  ASSUME TypeOK, InFlightInv, NEW o \in Ops, Finish(o)
  PROVE  InFlightInv'
<1> USE DEF TypeOK
<1>1. \A p \in Ops : op'[p].phase = IF p = o THEN "finished" ELSE op[p].phase
  BY DEF Finish, OpRecord
<1>2. \A i \in DOMAIN deque : deque[i] \in Ops /\ deque[i] # o
  BY DEF Finish, InFlightInv
<1>3. Active' = Active
  BY <1>1 DEF Active, Finish
<1> QED BY <1>1, <1>2, <1>3 DEF InFlightInv, InPhase, Finish, queueVars

LEMMA EnqueueCount ==
  ASSUME TypeOK, InFlightInv, NEW o \in Ops, Enqueue(o)
  PROVE  InFlightInv'
<1> USE DEF TypeOK
<1> DEFINE accepted == state # "drained" /\ HasRoom
<1>1. \A p \in Ops : op'[p].phase = IF p # o THEN op[p].phase
                                      ELSE IF accepted THEN "posted" ELSE "dropped"
  BY DEF Enqueue, OpRecord
<1>2. \A i \in DOMAIN deque : deque[i] \in Ops /\ deque[i] # o
  BY DEF Enqueue, InFlightInv
<1>3. Active' = Active \ {o} /\ o \in Active
  BY <1>1 DEF Active, Enqueue
<1>4. Cardinality(Active') = Cardinality(Active) - 1 /\ Cardinality(Active') \in Nat
  BY <1>3, ActiveFinite, FS_RemoveElement, FS_CardinalityType, FS_Subset
<1>5. CASE accepted
  <2>1. deque' = Append(deque, o) /\ in_flight' = in_flight
    BY <1>5 DEF Enqueue
  <2>2. /\ Len(deque') = Len(deque) + 1
        /\ DOMAIN deque' = 1..(Len(deque) + 1) /\ DOMAIN deque = 1..Len(deque)
        /\ \A i \in DOMAIN deque : deque'[i] = deque[i]
        /\ deque'[Len(deque) + 1] = o
    BY <2>1
  <2>3. in_flight' = Cardinality(Active') + Len(deque')
    BY <1>4, <2>1, <2>2, ActiveFinite DEF InFlightInv
  <2>4. \A i \in DOMAIN deque' : i \in DOMAIN deque \/ i = Len(deque) + 1
    BY <2>2
  <2>5. Len(deque) + 1 \in DOMAIN deque' /\ DOMAIN deque \subseteq DOMAIN deque'
        /\ Len(deque) + 1 \notin DOMAIN deque
    BY <2>2
  <2>6. \A i \in DOMAIN deque' : op'[deque'[i]].phase = "posted"
    BY <1>1, <1>2, <1>5, <2>2, <2>4 DEF InFlightInv
  <2>7. \A i, j \in DOMAIN deque' : deque'[i] = deque'[j] => i = j
    BY <1>2, <2>2, <2>4 DEF InFlightInv
  <2>8. \A p \in Ops : op'[p].phase = "posted" => \E i \in DOMAIN deque' : deque'[i] = p
    BY <1>1, <2>2, <2>5 DEF InFlightInv, InPhase
  <2> QED BY <2>3, <2>6, <2>7, <2>8 DEF InFlightInv, InPhase
<1>6. CASE ~accepted
  <2>1. deque' = deque /\ in_flight' = Less(in_flight)
    BY <1>6 DEF Enqueue
  <2>2. in_flight' = Cardinality(Active') + Len(deque')
    BY <1>4, <2>1, ActiveFinite DEF InFlightInv, Less
  <2> QED BY <1>1, <1>2, <1>6, <2>1, <2>2 DEF InFlightInv, InPhase
<1> QED BY <1>5, <1>6

LEMMA PopCount ==
  ASSUME TypeOK, InFlightInv, pop_ready
  PROVE  InFlightInv'
<1> USE DEF TypeOK
<1> DEFINE h == Head(deque)
<1>0. h \in Ops /\ h = deque[1] /\ 1 \in DOMAIN deque /\ Len(deque) \in Nat \ {0}
  BY DEF pop_ready
<1>1. \A p \in Ops : op'[p].phase = IF p = h THEN "delivered" ELSE op[p].phase
  BY <1>0 DEF pop_ready, OpRecord
<1>2. /\ Len(deque') = Len(deque) - 1
      /\ \A i \in DOMAIN deque' : i + 1 \in DOMAIN deque /\ deque'[i] = deque[i + 1] /\ i \in Nat \ {0}
      /\ \A i \in DOMAIN deque : i # 1 => i - 1 \in DOMAIN deque' /\ deque'[i - 1] = deque[i]
  BY <1>0 DEF pop_ready
<1>3. \A i \in DOMAIN deque' : deque'[i] \in Ops /\ deque'[i] # h
  BY <1>0, <1>2 DEF InFlightInv
<1>4. op[h].phase = "posted"
  BY <1>0 DEF InFlightInv
<1>5. Active' = Active
  BY <1>1, <1>4 DEF Active
<1>6. in_flight' = Cardinality(Active') + Len(deque')
  BY <1>0, <1>2, <1>5, ActiveFinite DEF InFlightInv, pop_ready, Less
<1>7. \A i, j \in DOMAIN deque' : deque'[i] = deque'[j] => i = j
  BY <1>2 DEF InFlightInv
<1>8. \A p \in Ops : op'[p].phase = "posted" => \E i \in DOMAIN deque' : deque'[i] = p
  <2> SUFFICES ASSUME NEW p \in Ops, op'[p].phase = "posted"
               PROVE  \E i \in DOMAIN deque' : deque'[i] = p
    OBVIOUS
  <2>1. PICK i \in DOMAIN deque : deque[i] = p
    BY <1>1 DEF InFlightInv, InPhase
  <2>2. i # 1
    BY <1>0, <1>1, <2>1
  <2> QED BY <1>2, <2>1, <2>2
<1>9. \A i \in DOMAIN deque' : op'[deque'[i]].phase = "posted"
  BY <1>1, <1>2, <1>3 DEF InFlightInv
<1> QED BY <1>6, <1>7, <1>8, <1>9 DEF InFlightInv, InPhase

\* The other steps move no operation.
LEMMA QuietStep ==
  ASSUME TypeOK, [Next]_vars
  PROVE  \/ \E o \in Ops : Submit(o) \/ Finish(o) \/ Enqueue(o)
         \/ pop_ready
         \/ /\ deque' = deque /\ in_flight' = in_flight /\ max_capacity' = max_capacity
            /\ \A o \in Ops : op'[o].phase = op[o].phase
<1> USE DEF TypeOK
<1>1. ASSUME NEW o \in Ops, RequestCancel(o) \/ NotifyCancel(o)
      PROVE  /\ deque' = deque /\ in_flight' = in_flight /\ max_capacity' = max_capacity
             /\ \A p \in Ops : op'[p].phase = op[p].phase
  BY <1>1 DEF RequestCancel, NotifyCancel, queueVars, OpRecord
<1>2. ASSUME NEW timed, ParkOrReturn(timed)
      PROVE UNCHANGED <<max_capacity, deque, in_flight, op>>
  BY <1>2 DEF ParkOrReturn
<1>3. ASSUME \/ WakesTooLate \/ ConsumerTimesOut \/ ConsumerWakesSpuriously \/ Shutdown
             \/ UNCHANGED vars
      PROVE UNCHANGED <<max_capacity, deque, in_flight, op>>
  BY <1>3 DEF WakesTooLate, ConsumerTimesOut, ConsumerWakesSpuriously, Shutdown, vars, queueVars
<1>4. ASSUME NEW w \in Writers, WriterNext(w)
      PROVE UNCHANGED <<max_capacity, deque, in_flight, op>>
  BY <1>4 DEF WriterNext, WriterParks, WriterWakes, WriterTimesOut, WriterWakesSpuriously, queueVars
<1> QED
  BY <1>1, <1>2, <1>3, <1>4
  DEF Next, TaskNext, ConsumerNext, ConsumerWakes, WaitPops, WaitParks, WakesToPop, WakesToPark

LEMMA CountStep == TypeOK /\ InFlightInv /\ [Next]_vars => InFlightInv'
BY QuietStep, QuietCount, SubmitCount, FinishCount, EnqueueCount, PopCount DEF TypeOK

-----------------------------------------------------------------------------
(* Shutdown and drained *)

\* maybe_mark_drained leaves the state right, whatever it was called on.
LEMMA MarkedDrainInv ==
  ASSUME TypeOK', InFlightInv', NEW st \in {"running", "shutdown"},
         state' = maybe_mark_drained(st, deque', in_flight')
  PROVE  DrainInv'
<1>1. in_flight' = 0 <=> Active' = {} /\ deque' = <<>>
  BY CountZero DEF InFlightInv, TypeOK, Active
<1> QED BY <1>1 DEF maybe_mark_drained, DrainInv

\* No task posts to a drained queue, and nobody pops from it.
LEMMA DrainedIsEmpty ==
  ASSUME TypeOK, InFlightInv, DrainInv, state = "drained"
  PROVE  Active = {} /\ deque = <<>>
BY NothingInFlight DEF DrainInv

\* A queue that refuses a completion does so for its capacity.
LEMMA RejectedIsFull ==
  ASSUME TypeOK, InFlightInv, DrainInv, NEW o \in Ops, Enqueue(o), ~HasRoom \/ state = "drained"
  PROVE  state # "drained" /\ ~HasRoom /\ max_capacity # 0 /\ deque # <<>>
<1>1. state # "drained"
  BY DrainedIsEmpty DEF Enqueue, Active
<1> QED BY <1>1, CapacitiesAssumption DEF HasRoom, TypeOK

LEMMA DrainStep == TypeOK /\ InFlightInv /\ DrainInv /\ [Next]_vars => DrainInv'
<1> SUFFICES ASSUME TypeOK, InFlightInv, DrainInv, [Next]_vars PROVE DrainInv'
  OBVIOUS
<1>0. TypeOK' /\ InFlightInv'
  BY TypeStep, CountStep
<1>q. ASSUME state' = state, in_flight' = in_flight PROVE DrainInv'
  BY <1>q DEF DrainInv
<1>1. ASSUME NEW o \in Ops, Submit(o) PROVE DrainInv'
  BY <1>1 DEF Submit, DrainInv
<1>2. ASSUME NEW o \in Ops, RequestCancel(o) \/ NotifyCancel(o) \/ Finish(o) PROVE DrainInv'
  BY <1>2, <1>q DEF RequestCancel, NotifyCancel, Finish, queueVars
<1>3. ASSUME NEW o \in Ops, Enqueue(o) PROVE DrainInv'
  <2>1. CASE state # "drained" /\ HasRoom
    BY <1>3, <1>q, <2>1 DEF Enqueue
  <2>2. CASE ~(state # "drained" /\ HasRoom)
    <3>1. state # "drained"
      BY <1>3, <2>2, RejectedIsFull
    <3>2. state' = maybe_mark_drained(state, deque', in_flight')
      BY <1>3, <2>2 DEF Enqueue
    <3> QED BY <1>0, <3>1, <3>2, MarkedDrainInv DEF TypeOK
  <2> QED BY <2>1, <2>2
<1>4. ASSUME pop_ready PROVE DrainInv'
  <2>1. state # "drained"
    BY <1>4, DrainedIsEmpty DEF pop_ready
  <2>2. state' = maybe_mark_drained(state, deque', in_flight')
    BY <1>4 DEF pop_ready
  <2> QED BY <1>0, <2>1, <2>2, MarkedDrainInv DEF TypeOK
<1>5. ASSUME NEW timed, ParkOrReturn(timed) PROVE DrainInv'
  BY <1>5 DEF ParkOrReturn, DrainInv, maybe_mark_drained
<1>6. ASSUME WakesTooLate PROVE DrainInv'
  BY <1>6 DEF WakesTooLate, DrainInv, maybe_mark_drained
<1>7. ASSUME ConsumerTimesOut \/ ConsumerWakesSpuriously \/ UNCHANGED vars PROVE DrainInv'
  BY <1>7, <1>q DEF ConsumerTimesOut, ConsumerWakesSpuriously, vars, queueVars
<1>8. ASSUME NEW w \in Writers, WriterNext(w) PROVE DrainInv'
  BY <1>8, <1>q
  DEF WriterNext, WriterParks, WriterWakes, WriterTimesOut, WriterWakesSpuriously, queueVars
<1>9. ASSUME Shutdown PROVE DrainInv'
  <2>1. CASE state = "running"
    BY <1>0, <1>9, <2>1, MarkedDrainInv DEF Shutdown
  <2>2. CASE state # "running"
    BY <1>9, <1>q, <2>2 DEF Shutdown
  <2> QED BY <2>1, <2>2
<1> QED
  BY <1>1, <1>2, <1>3, <1>4, <1>5, <1>6, <1>7, <1>8, <1>9
  DEF Next, TaskNext, ConsumerNext, ConsumerWakes, WaitPops, WaitParks, WakesToPop, WakesToPark

LEMMA LossStep ==
  TypeOK /\ InFlightInv /\ DrainInv /\ UnboundedLosesNothing /\ [Next]_vars
    => UnboundedLosesNothing'
<1> SUFFICES ASSUME TypeOK, InFlightInv, DrainInv, UnboundedLosesNothing, [Next]_vars
             PROVE  UnboundedLosesNothing'
  OBVIOUS
<1> USE DEF TypeOK, UnboundedLosesNothing, InPhase
<1>1. ASSUME NEW o \in Ops, Submit(o) \/ Finish(o) PROVE UnboundedLosesNothing'
  BY <1>1 DEF Submit, Finish, OpRecord
<1>2. ASSUME NEW o \in Ops, Enqueue(o) PROVE UnboundedLosesNothing'
  <2>1. CASE state # "drained" /\ HasRoom
    BY <1>2, <2>1 DEF Enqueue, OpRecord
  <2>2. CASE ~(state # "drained" /\ HasRoom)
    BY <1>2, <2>2, RejectedIsFull DEF Enqueue
  <2> QED BY <2>1, <2>2
<1>3. ASSUME pop_ready PROVE UnboundedLosesNothing'
  BY <1>3 DEF pop_ready, OpRecord
<1> QED BY <1>1, <1>2, <1>3, QuietStep

-----------------------------------------------------------------------------
(* Parked threads and cancellation *)

LEMMA StuckStep ==
  TypeOK /\ InFlightInv /\ DrainInv /\ NoStuckThread /\ [Next]_vars => NoStuckThread'
<1> SUFFICES ASSUME TypeOK, InFlightInv, DrainInv, NoStuckThread, [Next]_vars
             PROVE  NoStuckThread'
  OBVIOUS
<1> USE DEF TypeOK
<1>q. ASSUME deque' = deque, state' = state, consumer' = consumer \/ consumer'.at # "parked",
             \A w \in Writers : writer'[w].at = "parked" => writer[w].at = "parked"
      PROVE  NoStuckThread'
  BY <1>q DEF NoStuckThread
<1>1. ASSUME NEW o \in Ops, Submit(o) \/ RequestCancel(o) \/ NotifyCancel(o) \/ Finish(o)
      PROVE NoStuckThread'
  BY <1>1, <1>q DEF Submit, RequestCancel, NotifyCancel, Finish, queueVars
<1>2. ASSUME NEW o \in Ops, Enqueue(o) PROVE NoStuckThread'
  <2>1. CASE state # "drained" /\ HasRoom
    <3>1. consumer'.at # "parked"
      BY <1>2, <2>1, WokenThread DEF Enqueue
    <3>2. state' = state /\ writer' = writer
      BY <1>2, <2>1 DEF Enqueue
    <3> QED BY <3>1, <3>2 DEF NoStuckThread
  <2>2. CASE ~(state # "drained" /\ HasRoom)
    <3>1. deque' = deque /\ consumer' = consumer /\ writer' = writer
      BY <1>2, <2>2 DEF Enqueue
    <3>2. state' = state
      BY <1>2, <2>2, RejectedIsFull DEF Enqueue, maybe_mark_drained
    <3> QED BY <1>q, <3>1, <3>2
  <2> QED BY <2>1, <2>2
<1>3. ASSUME pop_ready PROVE NoStuckThread'
  <2>1. consumer'.at # "parked"
    BY <1>3 DEF pop_ready, Idle
  <2>2. state' # "running" => state # "running"
    BY <1>3 DEF pop_ready, maybe_mark_drained
  <2>3. \A w \in Writers : writer'[w].at = "parked" => writer[w].at = "parked"
    BY <1>3, WritersNotified DEF pop_ready
  <2> QED BY <2>1, <2>2, <2>3 DEF NoStuckThread
<1>4. ASSUME NEW timed, ParkOrReturn(timed) PROVE NoStuckThread'
  BY <1>4 DEF ParkOrReturn, NoStuckThread, maybe_mark_drained, Idle
<1>5. ASSUME WakesTooLate PROVE NoStuckThread'
  BY <1>5 DEF WakesTooLate, NoStuckThread, maybe_mark_drained, Idle
<1>6. ASSUME ConsumerTimesOut \/ ConsumerWakesSpuriously PROVE NoStuckThread'
  <2>1. consumer'.at # "parked"
    BY <1>6, WokenThread DEF ConsumerTimesOut, ConsumerWakesSpuriously, Threads
  <2> QED BY <1>6, <1>q, <2>1 DEF ConsumerTimesOut, ConsumerWakesSpuriously, queueVars
<1>7. ASSUME NEW w \in Writers, WriterNext(w) PROVE NoStuckThread'
  <2>1. CASE WriterParks(w)
    BY <2>1 DEF WriterParks, NoStuckThread, queueVars
  <2>2. CASE WriterWakes(w)
    <3>1. UNCHANGED <<deque, state, consumer>>
      BY <2>2 DEF WriterWakes, queueVars
    <3>2. CASE writer' = [writer EXCEPT ![w] = Idle]
      BY <1>q, <3>1, <3>2 DEF Idle
    <3>3. CASE state = "running"
      BY <3>1, <3>3 DEF NoStuckThread
    <3> QED BY <2>2, <3>2, <3>3 DEF WriterWakes
  <2>3. CASE WriterTimesOut(w)
    BY <2>3, <1>q DEF WriterTimesOut, queueVars, Idle
  <2>4. CASE WriterWakesSpuriously(w)
    <3>1. writer' = [writer EXCEPT ![w] = Woken(writer[w])] /\ UNCHANGED <<deque, state, consumer>>
      BY <2>4 DEF WriterWakesSpuriously, queueVars
    <3>2. Woken(writer[w]).at # "parked"
      BY WokenThread
    <3> QED BY <1>q, <3>1, <3>2
  <2> QED BY <1>7, <2>1, <2>2, <2>3, <2>4 DEF WriterNext
<1>8. ASSUME Shutdown PROVE NoStuckThread'
  <2>1. consumer'.at # "parked" /\ \A w \in Writers : writer'[w].at # "parked"
    BY <1>8, WokenThread DEF Shutdown, NotifyAllWriters
  <2> QED BY <2>1 DEF NoStuckThread
<1>9. CASE UNCHANGED vars
  BY <1>9, <1>q DEF vars, queueVars
<1> QED
  BY <1>1, <1>2, <1>3, <1>4, <1>5, <1>6, <1>7, <1>8, <1>9
  DEF Next, TaskNext, ConsumerNext, ConsumerWakes, WaitPops, WaitParks, WakesToPop, WakesToPark

LEMMA CancelStep == TypeOK /\ InFlightInv /\ CancelInv /\ [Next]_vars => CancelInv'
<1> SUFFICES ASSUME TypeOK, InFlightInv, CancelInv, [Next]_vars PROVE CancelInv'
  OBVIOUS
<1> USE DEF TypeOK, CancelInv
<1>1. ASSUME NEW o \in Ops, Submit(o) PROVE CancelInv'
  BY <1>1 DEF Submit, OpRecord
<1>2. ASSUME NEW o \in Ops, RequestCancel(o) PROVE CancelInv'
  BY <1>2 DEF RequestCancel, OpRecord, Active
<1>3. ASSUME NEW o \in Ops, NotifyCancel(o) PROVE CancelInv'
  BY <1>3 DEF NotifyCancel, OpRecord, Active
<1>4. ASSUME NEW o \in Ops, Finish(o) PROVE CancelInv'
  BY <1>4 DEF Finish, OpRecord
<1>5. ASSUME NEW o \in Ops, Enqueue(o) PROVE CancelInv'
  BY <1>5 DEF Enqueue, OpRecord
<1>6. ASSUME pop_ready PROVE CancelInv'
  <2>1. Head(deque) \in Ops /\ op[Head(deque)].phase = "posted"
    BY <1>6 DEF pop_ready, InFlightInv
  <2> QED BY <1>6, <2>1 DEF pop_ready, OpRecord
<1>7. ASSUME NEW w \in Writers, WriterNext(w) PROVE CancelInv'
  BY <1>7 DEF WriterNext, WriterParks, WriterWakes, WriterTimesOut, WriterWakesSpuriously
<1>8. ASSUME NEW timed, ParkOrReturn(timed) PROVE CancelInv'
  BY <1>8 DEF ParkOrReturn
<1>9. ASSUME \/ WakesTooLate \/ ConsumerTimesOut \/ ConsumerWakesSpuriously \/ Shutdown
             \/ UNCHANGED vars
      PROVE CancelInv'
  BY <1>9 DEF WakesTooLate, ConsumerTimesOut, ConsumerWakesSpuriously, Shutdown, vars
<1> QED
  BY <1>1, <1>2, <1>3, <1>4, <1>5, <1>6, <1>7, <1>8, <1>9
  DEF Next, TaskNext, ConsumerNext, ConsumerWakes, WaitPops, WaitParks, WakesToPop, WakesToPark

-----------------------------------------------------------------------------
(* The theorems *)

LEMMA InvInit == Init => Inv
<1> SUFFICES ASSUME Init PROVE Inv
  OBVIOUS
<1> USE DEF Init
<1>1. TypeOK
  BY CapacitiesAssumption DEF TypeOK, OpRecord, Threads, Idle
<1>2. Active = {} /\ InPhase("posted") = {} /\ InPhase("dropped") = {}
  BY DEF Active, InPhase
<1>3. InFlightInv
  BY <1>2, FS_EmptySet DEF InFlightInv
<1>4. DrainInv /\ NoStuckThread /\ CancelInv /\ UnboundedLosesNothing
  BY <1>2 DEF DrainInv, NoStuckThread, Idle, CancelInv, UnboundedLosesNothing
<1> QED BY <1>1, <1>3, <1>4 DEF Inv

LEMMA InvStep == Inv /\ [Next]_vars => Inv'
BY TypeStep, CountStep, DrainStep, LossStep, StuckStep, CancelStep DEF Inv

LEMMA InvAlways == Spec => []Inv
BY InvInit, InvStep, PTL DEF Spec

\* in_flight counts the operations between reserve_in_flight and pop_ready,
\* and the deque holds each posted completion once.
THEOREM CountExact == Spec => []InFlightInv
<1>1. Inv => InFlightInv
  BY DEF Inv
<1> QED BY <1>1, InvAlways, PTL

\* enqueue_into_inner drops a completion only for the capacity.
THEOREM NothingLost == Spec => []UnboundedLosesNothing
<1>1. Inv => UnboundedLosesNothing
  BY DEF Inv
<1> QED BY <1>1, InvAlways, PTL

\* Neither the consumer nor a producer misses the notification it parks for.
THEOREM NobodyStuck == Spec => []NoStuckThread
<1>1. Inv => NoStuckThread
  BY DEF Inv
<1> QED BY <1>1, InvAlways, PTL

\* A completion that says cancelled also says that it was asked for.
THEOREM CancelIsRequested == Spec => []CancelledWasRequested
<1>1. Inv => CancelledWasRequested
  BY DEF Inv, CancelInv, CancelledWasRequested, InPhase
<1> QED BY <1>1, InvAlways, PTL

\* Once shut down, the queue is drained exactly when nothing runs and nothing
\* waits to be popped: maybe_mark_drained is called on every path that takes
\* the last operation away, a rejection at the capacity included, so whoever
\* waits for a drained queue waits for an operation that is still there.
THEOREM DrainedExactly ==
  Spec => [](state # "running" => (state = "drained" <=> Active = {} /\ deque = <<>>))
<1>1. Inv => (state # "running" => (state = "drained" <=> Active = {} /\ deque = <<>>))
  <2> SUFFICES ASSUME Inv, state # "running"
               PROVE  state = "drained" <=> Active = {} /\ deque = <<>>
    OBVIOUS
  <2>1. state \in {"running", "shutdown", "drained"}
    BY DEF Inv, TypeOK
  <2>2. state = "drained" <=> in_flight = 0
    BY <2>1 DEF Inv, DrainInv
  <2>3. in_flight = 0 <=> Active = {} /\ deque = <<>>
    BY NothingInFlight DEF Inv
  <2> QED BY <2>2, <2>3
<1> QED BY <1>1, InvAlways, PTL

-----------------------------------------------------------------------------
(* The queue implements Delivery *)

\* Something is owed exactly when something is in flight.
LEMMA OwedInFlight == Inv => (D!Owed(fate) = {} <=> in_flight = 0)
<1> SUFFICES ASSUME Inv PROVE D!Owed(fate) = {} <=> in_flight = 0
  OBVIOUS
<1> USE DEF Inv, TypeOK
<1>1. \A o \in Ops : fate[o] = "owed" <=> o \in Active \/ op[o].phase = "posted"
  BY DEF fate, Active, OpRecord
<1>2. (\E o \in Ops : op[o].phase = "posted") <=> deque # <<>>
  <2>1. ASSUME deque # <<>> PROVE \E o \in Ops : op[o].phase = "posted"
    <3>1. 1 \in DOMAIN deque /\ deque[1] \in Ops
      BY <2>1
    <3> QED BY <3>1 DEF InFlightInv
  <2>2. ASSUME NEW o \in Ops, op[o].phase = "posted" PROVE deque # <<>>
    BY <2>2 DEF InFlightInv, InPhase
  <2> QED BY <2>1, <2>2
<1> QED BY <1>1, <1>2, NothingInFlight DEF D!Owed, Active

\* The queued operations, each there once, are owed besides one that runs.
LEMMA QueuedAreOwed ==
  ASSUME Inv, NEW o \in Ops, op[o].phase = "finished"
  PROVE  Cardinality(D!Owed(fate) \ {o}) >= Len(deque)
<1> DEFINE T == D!Owed(fate) \ {o}
           n == Len(deque)
<1>1. deque \in Seq(Ops) /\ n \in Nat /\ DOMAIN deque = 1..n
  BY DEF Inv, TypeOK
<1>2. \A i \in 1..n : deque[i] \in T
  BY <1>1 DEF Inv, InFlightInv, fate, D!Owed
<1>3. \A i, j \in 1..n : deque[i] = deque[j] => i = j
  BY <1>1 DEF Inv, InFlightInv
<1>4. IsFiniteSet(T)
  BY OpsAssumption, FS_Subset DEF D!Owed
<1> HIDE DEF T
<1>5. deque \in [1..n -> T]
  BY <1>1, <1>2
<1>6. deque \in Injection(1..n, T)
  BY <1>3, <1>5 DEF Injection, IsInjective
<1>7. Cardinality(1..n) <= Cardinality(T)
  BY <1>4, <1>6, FS_Injection
<1>8. Cardinality(1..n) = n
  BY <1>1, FS_Interval
<1>9. Cardinality(T) \in Nat
  BY <1>4, FS_CardinalityType
<1>10. Cardinality(T) >= n
  BY <1>1, <1>7, <1>8, <1>9
<1> QED BY <1>10 DEF T

LEMMA ImplementsInit == Init => D!Init
BY DEF Init, D!Init, gate, fate

LEMMA ImplementsStep == Inv /\ Inv' /\ [Next]_vars => [D!Next]_(D!vars)
<1> SUFFICES ASSUME Inv, Inv', [Next]_vars PROVE [D!Next]_(D!vars)
  OBVIOUS
<1>0. D!Owed(fate') = {} <=> in_flight' = 0
  <2>1. (D!Owed(fate) = {} <=> in_flight = 0)'
    BY OwedInFlight, PTL
  <2> QED BY <2>1 DEF D!Owed
<1> USE DEF Inv, TypeOK
<1>st. state \in {"running", "shutdown", "drained"} /\ state' \in {"running", "shutdown", "drained"}
  OBVIOUS
\* A step that moves no operation and leaves the state is a stuttering step.
<1>c. max_capacity' = max_capacity
  BY DEF Next, TaskNext, Submit, RequestCancel, NotifyCancel, Finish, Enqueue, ConsumerNext, ConsumerWakes,
         WaitPops, WaitParks, WakesToPop, WakesToPark, WakesTooLate, ConsumerTimesOut,
         ConsumerWakesSpuriously, pop_ready, ParkOrReturn, WriterNext, WriterParks, WriterWakes,
         WriterTimesOut, WriterWakesSpuriously, Shutdown, vars
<1>q. ASSUME state' = state, \A o \in Ops : op'[o].phase = op[o].phase PROVE UNCHANGED D!vars
  BY <1>c, <1>q DEF D!vars, gate, fate
<1>1. ASSUME NEW o \in Ops, Submit(o) PROVE D!Admit(o)
  <2>1. op' \in [Ops -> OpRecord] /\ \A p \in Ops : op'[p].phase = IF p = o THEN "running" ELSE op[p].phase
    BY <1>1 DEF Submit, OpRecord
  <2>2. fate' = [fate EXCEPT ![o] = "owed"] /\ fate[o] = "none"
    BY <1>1, <2>1 DEF fate, Submit
  <2> QED BY <1>1, <1>c, <2>2 DEF D!Admit, gate, Submit
<1>2. ASSUME NEW o \in Ops, Finish(o) PROVE UNCHANGED D!vars
  <2>1. \A p \in Ops : op'[p].phase = IF p = o THEN "finished" ELSE op[p].phase
    BY <1>2 DEF Finish, OpRecord
  <2>2. fate' = fate
    BY <1>2, <2>1 DEF fate, Finish
  <2> QED BY <1>2, <1>c, <2>2 DEF D!vars, gate, Finish, queueVars
\* Settling: the state after the step is what Settled says.
<1>s. ASSUME NEW st \in {"running", "shutdown"}, state' = maybe_mark_drained(st, deque', in_flight')
      PROVE  gate' = D!Settled(IF st = "running" THEN "open" ELSE "closed", fate')
  <2>1. in_flight' = 0 <=> Active' = {} /\ deque' = <<>>
    BY CountZero DEF InFlightInv, Active
  <2> QED BY <1>s, <1>0, <2>1 DEF gate, D!Settled, maybe_mark_drained
<1>3. ASSUME NEW o \in Ops, Enqueue(o) PROVE D!Drop(o) \/ UNCHANGED D!vars
  <2>1. CASE state # "drained" /\ HasRoom
    <3>1. \A p \in Ops : op'[p].phase = IF p = o THEN "posted" ELSE op[p].phase
      BY <1>3, <2>1 DEF Enqueue, OpRecord
    <3>2. fate' = fate
      BY <1>3, <3>1 DEF fate, Enqueue
    <3> QED BY <1>3, <1>c, <2>1, <3>2 DEF D!vars, gate, Enqueue
  <2>2. CASE ~(state # "drained" /\ HasRoom)
    <3>1. state # "drained"
      BY <1>3, <2>2, RejectedIsFull
    <3>2. \A p \in Ops : op'[p].phase = IF p = o THEN "dropped" ELSE op[p].phase
      BY <1>3, <2>2 DEF Enqueue, OpRecord
    <3>3. fate' = [fate EXCEPT ![o] = "dropped"] /\ fate[o] = "owed"
      <4>1. op[o].phase = "finished"
        BY <1>3 DEF Enqueue
      <4> QED BY <3>2, <4>1 DEF fate
    <3>4. state' = maybe_mark_drained(state, deque', in_flight')
      BY <1>3, <2>2 DEF Enqueue
    <3>5. gate' = D!Settled(gate, fate')
      BY <1>s, <3>1, <3>4 DEF gate
    <3>6. max_capacity > 0 /\ Len(deque) >= max_capacity
      <4>1. max_capacity # 0 /\ ~HasRoom
        BY <1>3, <2>2, RejectedIsFull
      <4>2. max_capacity \in Nat /\ Len(deque) \in Nat
        BY CapacitiesAssumption
      <4> QED BY <4>1, <4>2 DEF HasRoom
    <3>7. Cardinality(D!Owed(fate) \ {o}) >= max_capacity
      <4>1. Cardinality(D!Owed(fate) \ {o}) >= Len(deque)
        BY <1>3, QueuedAreOwed DEF Enqueue
      <4>2. Cardinality(D!Owed(fate) \ {o}) \in Nat
        BY OpsAssumption, FS_Subset, FS_CardinalityType DEF D!Owed
      <4>3. max_capacity \in Nat /\ Len(deque) \in Nat
        BY CapacitiesAssumption
      <4> QED BY <3>6, <4>1, <4>2, <4>3
    \* The instance has a copy of Cardinality.
    <3>8. D!Cardinality(D!Owed(fate) \ {o}) = Cardinality(D!Owed(fate) \ {o})
      BY DEF D!Cardinality, Cardinality
    <3> QED BY <1>c, <3>3, <3>5, <3>6, <3>7, <3>8 DEF D!Drop
  <2> QED BY <2>1, <2>2
<1>4. ASSUME pop_ready PROVE \E o \in Ops : D!Deliver(o)
  <2> DEFINE h == Head(deque)
  <2>0. h \in Ops /\ op[h].phase = "posted" /\ state # "drained"
    BY <1>4, DrainedIsEmpty DEF pop_ready, InFlightInv
  <2>1. \A p \in Ops : op'[p].phase = IF p = h THEN "delivered" ELSE op[p].phase
    BY <1>4, <2>0 DEF pop_ready, OpRecord
  <2>2. fate' = [fate EXCEPT ![h] = "delivered"] /\ fate[h] = "owed"
    BY <2>0, <2>1 DEF fate
  <2>3. state' = maybe_mark_drained(state, deque', in_flight')
    BY <1>4 DEF pop_ready
  <2>4. gate' = D!Settled(gate, fate')
    BY <1>s, <2>0, <2>3 DEF gate
  <2> QED BY <1>c, <2>0, <2>2, <2>4 DEF D!Deliver
<1>5. ASSUME NEW o \in Ops, RequestCancel(o) \/ NotifyCancel(o) PROVE UNCHANGED D!vars
  <2>1. state' = state /\ \A p \in Ops : op'[p].phase = op[p].phase
    BY <1>5 DEF RequestCancel, NotifyCancel, queueVars, OpRecord
  <2> QED BY <1>q, <2>1
<1>6. ASSUME NEW timed, ParkOrReturn(timed) PROVE UNCHANGED D!vars
  <2>1. state' = state /\ op' = op
    BY <1>6 DEF ParkOrReturn, DrainInv, maybe_mark_drained
  <2> QED BY <1>q, <2>1
<1>7. ASSUME WakesTooLate PROVE UNCHANGED D!vars
  <2>1. state' = state /\ op' = op
    BY <1>7 DEF WakesTooLate, DrainInv, maybe_mark_drained
  <2> QED BY <1>q, <2>1
<1>8. ASSUME ConsumerTimesOut \/ ConsumerWakesSpuriously \/ UNCHANGED vars
      PROVE UNCHANGED D!vars
  BY <1>8, <1>q DEF ConsumerTimesOut, ConsumerWakesSpuriously, vars, queueVars
<1>9. ASSUME NEW w \in Writers, WriterNext(w) PROVE UNCHANGED D!vars
  BY <1>9, <1>q
  DEF WriterNext, WriterParks, WriterWakes, WriterTimesOut, WriterWakesSpuriously, queueVars
<1>10. ASSUME Shutdown PROVE D!Close \/ UNCHANGED D!vars
  <2>1. CASE state = "running"
    <3>1. fate' = fate
      BY <1>10 DEF Shutdown, fate
    <3>2. state' = maybe_mark_drained("shutdown", deque', in_flight')
      BY <1>10, <2>1 DEF Shutdown
    <3>3. gate' = D!Settled("closed", fate')
      BY <1>s, <3>2
    <3> QED BY <1>c, <2>1, <3>1, <3>3 DEF D!Close, gate
  <2>2. CASE state # "running"
    BY <1>10, <1>q, <2>2 DEF Shutdown
  <2> QED BY <2>1, <2>2
<1> QED
  BY <1>1, <1>2, <1>3, <1>4, <1>5, <1>6, <1>7, <1>8, <1>9, <1>10
  DEF Next, TaskNext, ConsumerNext, ConsumerWakes, WaitPops, WaitParks, WakesToPop, WakesToPark,
      D!Next

\* Every admitted operation is settled exactly once, and dropped only when a
\* bounded queue owes a full capacity of others; none is admitted after shutdown,
\* and the queue is drained from the step that settles the last:
\* reserve_in_flight, enqueue_into_inner, pop_ready, maybe_mark_drained and
\* shutdown together implement Delivery.
THEOREM QueueDelivers == Spec => Delivers
BY InvAlways, ImplementsInit, ImplementsStep, PTL DEF Spec, Delivers, D!Spec
=============================================================================
