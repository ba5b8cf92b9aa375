--------------------------- MODULE CompletionQueue ---------------------------
(***************************************************************************)
(* The completion queue of the native Cosmos driver: host threads submit   *)
(* operations, a task per operation runs it and posts its completion, and  *)
(* the one consumer thread the contract allows waits for completions.      *)
(* Producers may wait for room; anyone may cancel an operation or shut the *)
(* queue down.                                                             *)
(*                                                                         *)
(* Every function of the queue holds its mutex from entry to return, but   *)
(* for the time it is parked on a condition variable, so each stretch      *)
(* between two parkings is one action.  A submission that the pre-flight   *)
(* rejects changes nothing and is not a step.                              *)
(***************************************************************************)
EXTENDS Naturals, Sequences, FiniteSets

CONSTANTS
  Ops,         \* operations the host may submit
  Writers,     \* producer threads that wait for room
  Capacities   \* values of max_capacity to explore; 0 is unbounded

ASSUME CapacitiesAssumption == Capacities \subseteq Nat
ASSUME OpsAssumption == IsFiniteSet(Ops)

VARIABLES
  max_capacity,  \* CqOptions::max_capacity
  deque,         \* the operations whose completions are queued
  state,         \* "running", "shutdown", "drained"
  in_flight,     \* operations admitted and not yet drained
  op,            \* op[o]: the operation's task, handle and completion
  consumer,      \* the thread in cosmos_completion_queue_wait
  writer         \* writer[w]: a thread in cosmos_completion_queue_wait_writable

queueVars == <<deque, state, in_flight>>
vars == <<max_capacity, queueVars, op, consumer, writer>>

\* phase is where the operation is: its handle is InFlight while it is
\* "running" or "finished" and carries the outcome from then on.
OpRecord ==
  [phase            : {"none", "running", "finished", "posted", "delivered", "dropped"},
   outcome          : {"none", "ok", "error", "cancelled"},
   cancel_requested : BOOLEAN,   \* the flag of the operation handle
   permit           : BOOLEAN,   \* cancel_notify holds a permit
   was_requested    : BOOLEAN]   \* was_cancel_requested of the completion

\* A thread is parked on its condition variable until it is "woken" or
\* "timedout", and then has to get the mutex back.
Threads == [at : {"idle", "parked", "woken", "timedout"}, timed : BOOLEAN]

TypeOK ==
  /\ max_capacity \in Capacities
  /\ deque \in Seq(Ops)
  /\ state \in {"running", "shutdown", "drained"}
  /\ in_flight \in Nat
  /\ op \in [Ops -> OpRecord]
  /\ consumer \in Threads
  /\ writer \in [Writers -> Threads]

Idle == [at |-> "idle", timed |-> FALSE]

Init ==
  /\ max_capacity \in Capacities
  /\ deque = <<>>
  /\ state = "running"
  /\ in_flight = 0
  /\ op = [o \in Ops |-> [phase |-> "none", outcome |-> "none", cancel_requested |-> FALSE,
                          permit |-> FALSE, was_requested |-> FALSE]]
  /\ consumer = Idle
  /\ writer = [w \in Writers |-> Idle]

InPhase(ph) == {o \in Ops : op[o].phase = ph}
Active == {o \in Ops : op[o].phase \in {"running", "finished"}}
HasRoom == max_capacity = 0 \/ Len(deque) < max_capacity

\* saturating_sub(1)
Less(n) == IF n > 0 THEN n - 1 ELSE 0

-----------------------------------------------------------------------------
(* Bookkeeping *)

\* The state, given the queue and the count after the step; the faulty variant
\* forgets the operations that are still running.
MarkedDrainedOnEmpty(st, q, n) == IF st = "shutdown" /\ q = <<>> THEN "drained" ELSE st
maybe_mark_drained(st, q, n) == IF st = "shutdown" /\ q = <<>> /\ n = 0 THEN "drained" ELSE st

\* Condition variables: notify_one wakes one parked thread if there is one,
\* notify_all all of them.  A thread that timed out no longer takes a
\* notification; a parked thread may also wake for no reason.
Woken(t) == IF t.at = "parked" THEN [t EXCEPT !.at = "woken"] ELSE t
NotifyOneWriter ==
  LET parked == {w \in Writers : writer[w].at = "parked"}
  IN  IF parked = {} THEN UNCHANGED writer
      ELSE \E w \in parked : writer' = [writer EXCEPT ![w] = Woken(@)]
NotifyAllWriters == writer' = [w \in Writers |-> Woken(writer[w])]

-----------------------------------------------------------------------------
(* Operations *)

\* pre_flight_spawn: admit the operation and reserve its slot.
Submit(o) ==
  /\ op[o].phase = "none"
  /\ state = "running"
  /\ HasRoom
  /\ in_flight' = in_flight + 1
  /\ op' = [op EXCEPT ![o].phase = "running"]
  /\ UNCHANGED <<max_capacity, deque, state, consumer, writer>>

\* The host cancels: the flag first, then the permit.  Neither is read once
\* the completion is posted.  The faulty variant does not wait for the flag.
RequestCancel(o) ==
  /\ o \in Active
  /\ ~op[o].cancel_requested
  /\ op' = [op EXCEPT ![o].cancel_requested = TRUE]
  /\ UNCHANGED <<max_capacity, queueVars, consumer, writer>>
NotifyWithoutRequest(o) ==
  /\ o \in Active
  /\ ~op[o].permit
  /\ op' = [op EXCEPT ![o].permit = TRUE]
  /\ UNCHANGED <<max_capacity, queueVars, consumer, writer>>
NotifyCancel(o) ==
  /\ o \in Active
  /\ op[o].cancel_requested
  /\ ~op[o].permit
  /\ op' = [op EXCEPT ![o].permit = TRUE]
  /\ UNCHANGED <<max_capacity, queueVars, consumer, writer>>

\* spawn_oneshot: the task takes a pending cancel over a result; a panic of
\* the driver future is an error like any other.
Finish(o) ==
  /\ op[o].phase = "running"
  /\ \E outcome \in IF op[o].permit THEN {"cancelled"} ELSE {"ok", "error"} :
       op' = [op EXCEPT ![o].phase = "finished", ![o].outcome = outcome]
  /\ UNCHANGED <<max_capacity, queueVars, consumer, writer>>

\* Faulty variants of Enqueue: the consumer is not notified; the slot of a
\* dropped completion is not released.
EnqueueSilently(o) ==
  LET accepted == state # "drained" /\ HasRoom
  IN
  /\ op[o].phase = "finished"
  /\ op' = [op EXCEPT ![o].phase = IF accepted THEN "posted" ELSE "dropped",
                      ![o].was_requested = op[o].cancel_requested]
  /\ deque' = IF accepted THEN Append(deque, o) ELSE deque
  /\ in_flight' = IF accepted THEN in_flight ELSE Less(in_flight)
  /\ state' = IF accepted THEN state ELSE maybe_mark_drained(state, deque, in_flight')
  /\ UNCHANGED <<max_capacity, consumer, writer>>
EnqueueLeaks(o) ==
  LET accepted == state # "drained" /\ HasRoom
  IN
  /\ op[o].phase = "finished"
  /\ op' = [op EXCEPT ![o].phase = IF accepted THEN "posted" ELSE "dropped",
                      ![o].was_requested = op[o].cancel_requested]
  /\ deque' = IF accepted THEN Append(deque, o) ELSE deque
  /\ consumer' = IF accepted THEN Woken(consumer) ELSE consumer
  /\ UNCHANGED <<max_capacity, in_flight, state, writer>>

\* enqueue_into_inner: the completion is queued, or dropped when the queue is
\* drained or full.
Enqueue(o) ==
  LET accepted == state # "drained" /\ HasRoom
  IN
  /\ op[o].phase = "finished"
  /\ op' = [op EXCEPT ![o].phase = IF accepted THEN "posted" ELSE "dropped",
                      ![o].was_requested = op[o].cancel_requested]
  /\ deque' = IF accepted THEN Append(deque, o) ELSE deque
  /\ in_flight' = IF accepted THEN in_flight ELSE Less(in_flight)
  /\ state' = IF accepted THEN state ELSE maybe_mark_drained(state, deque, in_flight')
  /\ consumer' = IF accepted THEN Woken(consumer) ELSE consumer
  /\ UNCHANGED <<max_capacity, writer>>

-----------------------------------------------------------------------------
(* The consumer *)

\* Faulty variants of pop_ready: the slot is not released; the state is left to
\* the next wait.
PopUncounted ==
  /\ deque # <<>>
  /\ deque' = Tail(deque)
  /\ op' = [op EXCEPT ![Head(deque)].phase = "delivered"]
  /\ NotifyOneWriter
  /\ consumer' = Idle
  /\ UNCHANGED <<max_capacity, in_flight, state>>
PopUnmarked ==
  /\ deque # <<>>
  /\ deque' = Tail(deque)
  /\ op' = [op EXCEPT ![Head(deque)].phase = "delivered"]
  /\ in_flight' = Less(in_flight)
  /\ NotifyOneWriter
  /\ consumer' = Idle
  /\ UNCHANGED <<max_capacity, state>>

\* A completion is ready: take it and signal room.  The call then polls for
\* more without blocking, each poll under a lock of its own, which is the same
\* as the thread being idle and calling again.
pop_ready ==
  /\ deque # <<>>
  /\ deque' = Tail(deque)
  /\ op' = [op EXCEPT ![Head(deque)].phase = "delivered"]
  /\ in_flight' = Less(in_flight)
  /\ state' = maybe_mark_drained(state, Tail(deque), Less(in_flight))
  /\ NotifyOneWriter
  /\ consumer' = Idle
  /\ UNCHANGED max_capacity

\* cosmos_completion_queue_wait finds a completion on entry; so does a poll.
WaitPops ==
  /\ consumer.at = "idle"
  /\ pop_ready

\* Nothing is ready: return if drained, else park.
ParkOrReturn(timed) ==
  /\ deque = <<>>
  /\ state' = maybe_mark_drained(state, deque, in_flight)
  /\ consumer' = IF state' = "drained" THEN Idle ELSE [at |-> "parked", timed |-> timed]
  /\ UNCHANGED <<max_capacity, deque, in_flight, op, writer>>

WaitParks ==
  /\ consumer.at = "idle"
  /\ \E timed \in BOOLEAN : ParkOrReturn(timed)

\* A thread that wakes goes round the loop again: it pops, parks or returns.
WakesToPop ==
  /\ consumer.at \in {"woken", "timedout"}
  /\ pop_ready
WakesToPark ==
  /\ consumer.at = "woken"
  /\ ParkOrReturn(consumer.timed)
\* The deadline has passed and there is nothing.
WakesTooLate ==
  /\ \/ consumer.at = "timedout"
     \/ consumer.at = "woken" /\ consumer.timed
  /\ deque = <<>>
  /\ state' = IF consumer.at = "woken" THEN maybe_mark_drained(state, deque, in_flight) ELSE state
  /\ consumer' = Idle
  /\ UNCHANGED <<max_capacity, deque, in_flight, op, writer>>

ConsumerTimesOut ==
  /\ consumer.at = "parked" /\ consumer.timed
  /\ consumer' = [consumer EXCEPT !.at = "timedout"]
  /\ UNCHANGED <<max_capacity, queueVars, op, writer>>
ConsumerWakesSpuriously ==
  /\ consumer.at = "parked"
  /\ consumer' = Woken(consumer)
  /\ UNCHANGED <<max_capacity, queueVars, op, writer>>

-----------------------------------------------------------------------------
(* Producers waiting for room, and shutdown *)

\* wait_writable parks only a bounded, full, running queue's caller; otherwise
\* it answers at once and changes nothing.
WriterParks(w) ==
  /\ writer[w].at = "idle"
  /\ state = "running"
  /\ ~HasRoom
  /\ \E timed \in BOOLEAN : writer' = [writer EXCEPT ![w] = [at |-> "parked", timed |-> timed]]
  /\ UNCHANGED <<max_capacity, queueVars, op, consumer>>

\* It answers when the queue is no longer running, when there is room, or when
\* its time is up, and parks again otherwise.
WriterWakes(w) ==
  /\ writer[w].at = "woken"
  /\ \/ /\ state # "running" \/ HasRoom \/ writer[w].timed
        /\ writer' = [writer EXCEPT ![w] = Idle]
     \/ /\ state = "running" /\ ~HasRoom
        /\ writer' = [writer EXCEPT ![w].at = "parked"]
  /\ UNCHANGED <<max_capacity, queueVars, op, consumer>>
WriterTimesOut(w) ==
  /\ writer[w].at = "parked" /\ writer[w].timed
  /\ writer' = [writer EXCEPT ![w] = Idle]
  /\ UNCHANGED <<max_capacity, queueVars, op, consumer>>
WriterWakesSpuriously(w) ==
  /\ writer[w].at = "parked"
  /\ writer' = [writer EXCEPT ![w] = Woken(@)]
  /\ UNCHANGED <<max_capacity, queueVars, op, consumer>>

\* cosmos_completion_queue_shutdown, idempotent but for the notifications; the
\* faulty variant wakes one producer.
ShutdownNotifiesOne ==
  /\ state' = IF state = "running" THEN maybe_mark_drained("shutdown", deque, in_flight) ELSE state
  /\ consumer' = Woken(consumer)
  /\ NotifyOneWriter
  /\ UNCHANGED <<max_capacity, deque, in_flight, op>>
Shutdown ==
  /\ state' = IF state = "running" THEN maybe_mark_drained("shutdown", deque, in_flight) ELSE state
  /\ consumer' = Woken(consumer)
  /\ NotifyAllWriters
  /\ UNCHANGED <<max_capacity, deque, in_flight, op>>

-----------------------------------------------------------------------------

TaskNext(o) == Submit(o) \/ RequestCancel(o) \/ NotifyCancel(o) \/ Finish(o) \/ Enqueue(o)
ConsumerWakes == WakesToPop \/ WakesToPark \/ WakesTooLate
ConsumerNext ==
  \/ WaitPops \/ WaitParks \/ ConsumerWakes
  \/ ConsumerTimesOut \/ ConsumerWakesSpuriously
WriterNext(w) ==
  WriterParks(w) \/ WriterWakes(w) \/ WriterTimesOut(w) \/ WriterWakesSpuriously(w)

Next ==
  \/ \E o \in Ops : TaskNext(o)
  \/ ConsumerNext
  \/ \E w \in Writers : WriterNext(w)
  \/ Shutdown

Spec == Init /\ [][Next]_vars

\* The runtime polls every task until it has posted its completion; the
\* operating system resumes a thread that is not parked; and the host keeps
\* its receive loop: a consumer that returned waits again.  Nobody has to
\* submit, cancel, shut down or wait for room.
Fairness ==
  /\ \A o \in Ops : WF_vars(Finish(o)) /\ WF_vars(Enqueue(o))
  /\ WF_vars(WaitPops \/ WaitParks)
  /\ WF_vars(ConsumerWakes)
  /\ \A w \in Writers : WF_vars(WriterWakes(w))

FairSpec == Spec /\ Fairness

-----------------------------------------------------------------------------
(* Properties *)

\* The queue holds the posted operations, each once, and in_flight counts the
\* operations between reserve_in_flight and pop_ready: what the comment on
\* QueueInner::in_flight says of it, whatever the order of submissions,
\* rejections at the capacity, pops and shutdown.
InFlightInv ==
  /\ \A i \in DOMAIN deque : op[deque[i]].phase = "posted"
  /\ \A i, j \in DOMAIN deque : deque[i] = deque[j] => i = j
  /\ \A o \in InPhase("posted") : \E i \in DOMAIN deque : deque[i] = o
  /\ in_flight = Cardinality(Active) + Len(deque)

\* An operation is dropped only for the capacity: "shutdown only blocks *new*
\* submissions, it must never strand work that was already running"
\* (enqueue_into_inner), so an unbounded queue delivers every completion.
UnboundedLosesNothing == max_capacity = 0 => InPhase("dropped") = {}

\* No lost wake-up: a consumer is not left parked on a queue that has a
\* completion for it or that is drained, nor a producer on one that is shut
\* down (notify_one in enqueue_into_inner, notify_all in shutdown).
NoStuckThread ==
  /\ consumer.at = "parked" => deque = <<>> /\ state # "drained"
  /\ state # "running" => \A w \in Writers : writer[w].at # "parked"

\* A completion that says cancelled also says that cancellation was
\* requested, although the flag and the permit are set in two steps and read
\* in two others: the receive loop tells "cancel won" by it.
CancelledWasRequested ==
  \A o \in InPhase("posted") \cup InPhase("delivered") :
    op[o].outcome = "cancelled" => op[o].was_requested

\* The queue implements Delivery: every admitted operation is settled once, and
\* by a drop only when a bounded queue is full of other operations, so a host
\* that has at most max_capacity operations outstanding gets a completion for
\* each; nothing is admitted after shutdown, and the queue is drained from the
\* step that settles the last operation.
fate == [o \in Ops |-> CASE op[o].phase \in {"running", "finished", "posted"} -> "owed"
                        [] OTHER -> op[o].phase]
gate == CASE state = "running"  -> "open"
          [] state = "shutdown" -> "closed"
          [] OTHER              -> "done"
D == INSTANCE Delivery WITH capacity <- max_capacity
Delivers == D!Spec

\* A queue that is shut down becomes drained, given a consumer that keeps
\* waiting.
DrainCompletes == (state = "shutdown") ~> (state = "drained")

\* After shutdown every call that was blocked without a timeout returns.
CallsReturn ==
  /\ (state # "running" /\ consumer.at = "parked") ~> (consumer.at = "idle")
  /\ \A w \in Writers : (state # "running" /\ writer[w].at = "woken") ~> (writer[w].at = "idle")
=============================================================================
