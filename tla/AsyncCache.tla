----------------------------- MODULE AsyncCache -----------------------------
(***************************************************************************)
(* The asynchronous metadata cache of the Cosmos driver: AsyncCache maps a *)
(* key to an AsyncLazy cell, and an AsyncLazy runs an initializer at most  *)
(* once while callers wait on its read-write lock.                         *)
(*                                                                         *)
(* Tasks call the cache concurrently.  A critical section of the map lock  *)
(* contains no await, so it is one step.  A cell's write lock is held      *)
(* across the await of the initializer, so acquiring it, checking the cell *)
(* and finishing the initializer are three steps.  A future may be dropped *)
(* at any await: Cancel.                                                   *)
(*                                                                         *)
(* A cell is named by the order in which it was put into the map, and the  *)
(* Arc it holds once initialized is named by the cell: a cell is set once  *)
(* (InitOnce), so Arc::ptr_eq on values is equality of cells.              *)
(***************************************************************************)
EXTENDS Naturals, FiniteSets

CONSTANTS
  Tasks,        \* concurrent callers
  Keys,         \* cache keys
  MaxCalls      \* bound: calls that may be started (each adds at most a cell)

CONSTANT NoTask \* "no task holds the lock"

ASSUME MaxCallsAssumption == MaxCalls \in Nat
ASSUME NoTaskAssumption == NoTask \notin Tasks

None  == 0
Cells == 1..MaxCalls

VARIABLES
  map,     \* AsyncCache::map: the cell of each key, or None
  next,    \* name of the next cell that is created
  inits,   \* completed initializers of each cell (0: the cell holds None)
  writer,  \* the task that holds the write lock of a cell
  pc,      \* where the call of a task is
  key,     \* the key of that call
  cell,    \* the cell that call works on, or observed first
  obs,     \* the Arc a task's last call returned, or None
  floor,   \* history: the value cached under key when the call began
  calls,   \* number of calls started
  mishaps  \* history: "dropped" once a caller was dropped while it waited,
           \* "evicted" once a key was invalidated unconditionally

vars == <<map, next, inits, writer, pc, key, cell, obs, floor, calls, mishaps>>

PCs == {"idle", "insert", "init_read", "init_write", "init_check", "running",
        "replace", "spin"}

Ready(c) == c # None /\ inits[c] > 0

\* AsyncLazy::try_get: try_read fails while anyone holds the write lock.
TryGet(c) == Ready(c) /\ writer[c] = NoTask

Goto(t, l) == pc' = [pc EXCEPT ![t] = l]

Return(t, c) == Goto(t, "idle") /\ obs' = [obs EXCEPT ![t] = c]

\* A call of task t on key k starts with cell c in its hands.
Begin(t, k, c) ==
  /\ pc[t] = "idle"
  /\ calls < MaxCalls
  /\ calls' = calls + 1
  /\ key'   = [key EXCEPT ![t] = k]
  /\ cell'  = [cell EXCEPT ![t] = c]
  /\ floor' = [floor EXCEPT ![t] = IF Ready(map[k]) THEN map[k] ELSE None]

\* A new empty cell is put into the map for the call of t, which then
\* initializes it.
InstallEmpty(t) ==
  /\ next \in Cells
  /\ map'  = [map EXCEPT ![key[t]] = next]
  /\ cell' = [cell EXCEPT ![t] = next]
  /\ next' = next + 1
  /\ Goto(t, "init_read")

Init ==
  /\ map    = [k \in Keys |-> None]
  /\ next   = 1
  /\ inits  = [c \in Cells |-> 0]
  /\ writer = [c \in Cells |-> NoTask]
  /\ pc     = [t \in Tasks |-> "idle"]
  /\ key    \in [Tasks -> Keys]
  /\ cell   = [t \in Tasks |-> None]
  /\ obs    = [t \in Tasks |-> None]
  /\ floor  = [t \in Tasks |-> None]
  /\ calls  = 0
  /\ mishaps = {}

-----------------------------------------------------------------------------
(* AsyncCache::get_or_insert_with *)

\* The read-locked fast path.
GetOrInsertWith(t, k) ==
  /\ Begin(t, k, map[k])
  /\ Goto(t, IF map[k] = None THEN "insert" ELSE "init_read")
  /\ UNCHANGED <<map, next, inits, writer, obs, mishaps>>

\* The write-locked slow path looks again before it inserts.
Insert(t) ==
  /\ pc[t] = "insert"
  /\ \/ /\ map[key[t]] # None
        /\ cell' = [cell EXCEPT ![t] = map[key[t]]]
        /\ Goto(t, "init_read")
        /\ UNCHANGED <<map, next>>
     \/ /\ map[key[t]] = None
        /\ InstallEmpty(t)
  /\ UNCHANGED <<inits, writer, key, obs, floor, calls, mishaps>>

-----------------------------------------------------------------------------
(* AsyncLazy::get_or_init *)

InitRead(t) ==
  /\ pc[t] = "init_read"
  /\ writer[cell[t]] = NoTask
  /\ \/ Ready(cell[t]) /\ Return(t, cell[t])
     \/ ~Ready(cell[t]) /\ Goto(t, "init_write") /\ UNCHANGED obs
  /\ UNCHANGED <<map, next, inits, writer, key, cell, floor, calls, mishaps>>

InitWrite(t) ==
  /\ pc[t] = "init_write"
  /\ writer[cell[t]] = NoTask
  /\ writer' = [writer EXCEPT ![cell[t]] = t]
  /\ Goto(t, "init_check")
  /\ UNCHANGED <<map, next, inits, key, cell, obs, floor, calls, mishaps>>

\* Faulty variant of InitCheck: no double check under the write lock.
InitUnchecked(t) ==
  /\ pc[t] = "init_check"
  /\ Goto(t, "running")
  /\ UNCHANGED <<map, next, inits, writer, key, cell, obs, floor, calls, mishaps>>

\* The double check under the write lock.
InitCheck(t) ==
  /\ pc[t] = "init_check"
  /\ \/ /\ Ready(cell[t])
        /\ writer' = [writer EXCEPT ![cell[t]] = NoTask]
        /\ Return(t, cell[t])
     \/ ~Ready(cell[t]) /\ Goto(t, "running") /\ UNCHANGED <<writer, obs>>
  /\ UNCHANGED <<map, next, inits, key, cell, floor, calls, mishaps>>

\* Faulty variant of InitDone: the guard is leaked.
InitDoneKeepsLock(t) ==
  /\ pc[t] = "running"
  /\ inits' = [inits EXCEPT ![cell[t]] = @ + 1]
  /\ Return(t, cell[t])
  /\ UNCHANGED <<map, next, writer, key, cell, floor, calls, mishaps>>

\* init().await completes, the value is set and the guard dropped.
InitDone(t) ==
  /\ pc[t] = "running"
  /\ inits'  = [inits EXCEPT ![cell[t]] = @ + 1]
  /\ writer' = [writer EXCEPT ![cell[t]] = NoTask]
  /\ Return(t, cell[t])
  /\ UNCHANGED <<map, next, key, cell, floor, calls, mishaps>>

\* AsyncLazy::get: read, and yield and retry while the cell is empty.
Spin(t) ==
  /\ pc[t] = "spin"
  /\ writer[cell[t]] = NoTask
  /\ Ready(cell[t])
  /\ Return(t, cell[t])
  /\ UNCHANGED <<map, next, inits, writer, key, cell, floor, calls, mishaps>>

-----------------------------------------------------------------------------
(* AsyncCache::get_or_refresh_with *)

\* Read-locked snapshot.  The predicate runs on the value that was seen, and
\* only if no initialization was in progress: b is its answer.
GetOrRefreshWith(t, k) ==
  /\ Begin(t, k, map[k])
  /\ \/ /\ map[k] # None /\ ~TryGet(map[k])
        /\ Goto(t, "spin")
        /\ UNCHANGED obs
     \/ /\ map[k] = None \/ TryGet(map[k])
        /\ \E b \in BOOLEAN :
             \/ b  /\ Goto(t, "replace") /\ UNCHANGED obs
             \/ ~b /\ Return(t, map[k])
  /\ UNCHANGED <<map, next, inits, writer, mishaps>>

\* Faulty variant of Replace: the observed cell is not compared with the
\* current one before it is replaced.
ReplaceUnchecked(t) ==
  /\ pc[t] = "replace"
  /\ InstallEmpty(t)
  /\ UNCHANGED <<inits, writer, key, obs, floor, calls, mishaps>>

\* Faulty variant of Replace: a caller that lost the race puts the cell it saw
\* first back into the map, and waits for the one it takes out.
ReplaceRestores(t) ==
  /\ pc[t] = "replace"
  /\ \/ /\ map[key[t]] \in {cell[t], None}
        /\ InstallEmpty(t)
     \/ /\ map[key[t]] \notin {cell[t], None}
        /\ cell[t] # None
        /\ map' = [map EXCEPT ![key[t]] = cell[t]]
        /\ cell' = [cell EXCEPT ![t] = map[key[t]]]
        /\ Goto(t, "spin")
        /\ UNCHANGED next
  /\ UNCHANGED <<inits, writer, key, obs, floor, calls, mishaps>>

\* Faulty variant of Replace: the caller waits for its new cell with get()
\* instead of initializing it.
ReplaceNeverFills(t) ==
  /\ pc[t] = "replace"
  /\ map' = [map EXCEPT ![key[t]] = next]
  /\ cell' = [cell EXCEPT ![t] = next]
  /\ next' = next + 1
  /\ Goto(t, "spin")
  /\ UNCHANGED <<inits, writer, key, obs, floor, calls, mishaps>>

\* Write-locked: the observed cell is replaced by an empty one if it is still
\* the current one (or the key is gone); otherwise wait for the newer cell.
Replace(t) ==
  /\ pc[t] = "replace"
  /\ \/ /\ map[key[t]] \in {cell[t], None}
        /\ InstallEmpty(t)
     \/ /\ map[key[t]] \notin {cell[t], None}
        /\ cell' = [cell EXCEPT ![t] = map[key[t]]]
        /\ Goto(t, "spin")
        /\ UNCHANGED <<map, next>>
  /\ UNCHANGED <<inits, writer, key, obs, floor, calls, mishaps>>

-----------------------------------------------------------------------------
(* AsyncCache::get, invalidate and invalidate_if_same: one critical section *)

Get(t, k) ==
  /\ Begin(t, k, None)
  /\ Return(t, IF TryGet(map[k]) THEN map[k] ELSE None)
  /\ UNCHANGED <<map, next, inits, writer, mishaps>>

Invalidate(t, k) ==
  /\ Begin(t, k, None)
  /\ map' = [map EXCEPT ![k] = None]
  /\ Return(t, IF TryGet(map[k]) THEN map[k] ELSE None)
  /\ mishaps' = mishaps \cup {"evicted"}
  /\ UNCHANGED <<next, inits, writer>>

\* The caller passes the value its last call on k returned.  The call itself
\* returns a flag; the caller keeps its value.
InvalidateIfSame(t, k) ==
  /\ obs[t] # None /\ key[t] = k
  /\ Begin(t, k, None)
  /\ \/ /\ TryGet(map[k]) /\ map[k] = obs[t]
        /\ map' = [map EXCEPT ![k] = None]
     \/ /\ ~(TryGet(map[k]) /\ map[k] = obs[t])
        /\ UNCHANGED map
  /\ UNCHANGED <<next, inits, writer, pc, obs, mishaps>>

-----------------------------------------------------------------------------
\* Faulty variant of Cancel: the guard outlives the dropped future.
CancelKeepsLock(t) ==
  /\ pc[t] \notin {"idle", "init_check"}
  /\ Return(t, None)
  /\ mishaps' = mishaps \cup {"dropped"}
  /\ UNCHANGED <<map, next, inits, writer, key, cell, floor, calls>>

\* The caller's future is dropped at an await; a held guard goes with it.
Cancel(t) ==
  /\ pc[t] \notin {"idle", "init_check"}
  /\ Return(t, None)
  /\ writer' = IF pc[t] = "running"
               THEN [writer EXCEPT ![cell[t]] = NoTask] ELSE writer
  /\ mishaps' = mishaps \cup {"dropped"}
  /\ UNCHANGED <<map, next, inits, key, cell, floor, calls>>

Start(t) ==
  \E k \in Keys :
    \/ GetOrInsertWith(t, k)
    \/ GetOrRefreshWith(t, k)
    \/ Get(t, k)
    \/ Invalidate(t, k)
    \/ InvalidateIfSame(t, k)

Continue(t) ==
  \/ Insert(t) \/ InitRead(t) \/ InitWrite(t) \/ InitCheck(t) \/ InitDone(t)
  \/ Replace(t) \/ Spin(t)

Next == \E t \in Tasks : Start(t) \/ Continue(t) \/ Cancel(t)

Spec == Init /\ [][Next]_vars

\* The executor polls every woken task again, and initializers (requests with
\* a deadline) finish.  Nobody is obliged to start a call or to drop one.
FairSpec == Spec /\ \A t \in Tasks : WF_vars(Continue(t))

-----------------------------------------------------------------------------
(* Properties *)

TypeOK ==
  /\ map    \in [Keys -> Cells \cup {None}]
  /\ next   \in 1..(MaxCalls + 1)
  /\ inits  \in [Cells -> Nat]
  /\ writer \in [Cells -> Tasks \cup {NoTask}]
  /\ pc     \in [Tasks -> PCs]
  /\ key    \in [Tasks -> Keys]
  /\ cell   \in [Tasks -> Cells \cup {None}]
  /\ obs    \in [Tasks -> Cells \cup {None}]
  /\ floor  \in [Tasks -> Cells \cup {None}]
  /\ calls  \in 0..MaxCalls
  /\ mishaps \subseteq {"dropped", "evicted"}

\* A cell is initialized at most once, whatever callers wait for its locks or
\* are dropped: AsyncLazy::get_or_init checks again under the write lock.
InitOnce == \A c \in Cells : inits[c] <= 1

Running(k) == {t \in Tasks : pc[t] = "running" /\ key[t] = k}

\* "Only one I/O operation runs per key" (async_cache.rs:18-20): as long as
\* nobody invalidates a key unconditionally, two callers never run an
\* initializer for it at the same time, although refreshes replace cells that
\* callers still hold and callers are dropped.
SingleIOPerKey ==
  "evicted" \notin mishaps => \A k \in Keys : \A s, t \in Running(k) : s = t

\* A call returns no value older than the one cached when it began: refreshes
\* and conditional invalidations of other tasks never hand back the past.
FreshResult ==
  [][\A t \in Tasks : pc[t] # "idle" /\ pc'[t] = "idle" /\ obs'[t] # None
                         => obs'[t] >= floor[t]]_vars

\* "If the value is not yet initialized (another task is about to call
\* get_or_init)" (async_lazy.rs:77): as long as no caller is dropped, one that
\* polls an empty cell in AsyncLazy::get has another task that is going to
\* fill it.
SpinnerHasInitializer ==
  \A t \in Tasks :
    "dropped" \notin mishaps /\ pc[t] = "spin" /\ ~Ready(cell[t])
      => \E s \in Tasks : /\ cell[s] = cell[t]
                          /\ pc[s] \in {"init_read", "init_write",
                                        "init_check", "running"}

\* Every call returns, unless its caller or another is dropped: no caller
\* waits forever on a cell or its lock.
CallsReturn ==
  [](mishaps \subseteq {"evicted"})
    => \A t \in Tasks : pc[t] # "idle" ~> pc[t] = "idle"

-----------------------------------------------------------------------------
(* The inductive invariants behind these properties *)

\* A caller inside AsyncLazy::get_or_init.
Active == {"init_read", "init_write", "init_check", "running"}

\* The write lock of a cell is held exactly by the caller between acquiring
\* it and dropping the guard.
LockInv ==
  \A t \in Tasks, c \in Cells :
    writer[c] = t <=> cell[t] = c /\ pc[t] \in {"init_check", "running"}

\* Callers hold cells that were created.
CellInv ==
  /\ \A t \in Tasks : pc[t] \in Active \cup {"spin"} => cell[t] \in Cells
  /\ \A t \in Tasks : cell[t] < next
  /\ \A k \in Keys : map[k] < next

\* An initializer runs on an empty cell only.
OnceInv ==
  /\ \A c \in Cells : inits[c] \in {0, 1}
  /\ \A t \in Tasks : pc[t] = "running" => inits[cell[t]] = 0

\* Callers that may still initialize an empty cell hold the current cell of
\* their key, unless it was invalidated; a caller about to replace a cell saw
\* it initialized.
CurrentInv ==
  /\ \A t \in Tasks :
       ("evicted" \notin mishaps /\ pc[t] \in Active /\ ~Ready(cell[t]))
         => map[key[t]] = cell[t]
  /\ \A t \in Tasks : pc[t] = "replace" /\ cell[t] # None => Ready(cell[t])

\* A caller's cell is no older than what its key held when the call began.
FloorInv ==
  \A t \in Tasks :
    /\ pc[t] \in Active \cup {"spin"} => cell[t] >= floor[t]
    /\ pc[t] \in {"insert", "replace"} /\ map[key[t]] # None
         => map[key[t]] >= floor[t]
    /\ floor[t] < next

\* Every empty cell that was created has a caller that is going to fill it,
\* unless one was dropped.
FillerInv ==
  \A c \in Cells :
    "dropped" \notin mishaps /\ c < next /\ ~Ready(c)
      => \E s \in Tasks : cell[s] = c /\ pc[s] \in Active

\* The types, and the invariants every other argument needs.
BaseInv == TypeOK /\ LockInv /\ CellInv /\ OnceInv

=============================================================================
