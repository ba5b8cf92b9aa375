-------------------------- MODULE AsyncCacheProof --------------------------
(***************************************************************************)
(* Proofs about AsyncCache, for any sets of tasks and keys and any number  *)
(* of calls.                                                               *)
(***************************************************************************)
EXTENDS AsyncCache, TLAPS

-----------------------------------------------------------------------------
USE MaxCallsAssumption, NoTaskAssumption

\* All variables keep their types.
LEMMA TypeInit == Init => TypeOK
  BY DEF Init, TypeOK, PCs, None, Cells

LEMMA TypeStep == TypeOK /\ [Next]_vars => TypeOK'
  <1> SUFFICES ASSUME TypeOK, [Next]_vars PROVE TypeOK'
    OBVIOUS
  <1> USE DEF TypeOK, PCs
  <1>1. ASSUME NEW t \in Tasks, NEW k \in Keys, GetOrInsertWith(t, k)
        PROVE  TypeOK'
    BY <1>1 DEF GetOrInsertWith, Begin, Goto
  <1>2. ASSUME NEW t \in Tasks, NEW k \in Keys, GetOrRefreshWith(t, k)
        PROVE  TypeOK'
    <2>1. Begin(t, k, map[k]) /\ UNCHANGED <<map, next, inits, writer, mishaps>>
      BY <1>2 DEF GetOrRefreshWith
    <2>2. pc' \in [Tasks -> PCs] /\ obs' \in [Tasks -> Cells \cup {None}]
      BY <1>2 DEF GetOrRefreshWith, Goto, Return
    <2>3. /\ key' \in [Tasks -> Keys] /\ calls' \in 0..MaxCalls
          /\ cell' \in [Tasks -> Cells \cup {None}]
          /\ floor' \in [Tasks -> Cells \cup {None}]
      BY <2>1 DEF Begin
    <2> QED
      BY <2>1, <2>2, <2>3
  <1>3. ASSUME NEW t \in Tasks, NEW k \in Keys, Get(t, k)
        PROVE  TypeOK'
    BY <1>3 DEF Get, Begin, Goto, Return
  <1>4. ASSUME NEW t \in Tasks, NEW k \in Keys, Invalidate(t, k)
        PROVE  TypeOK'
    BY <1>4 DEF Invalidate, Begin, Goto, Return
  <1>5. ASSUME NEW t \in Tasks, NEW k \in Keys, InvalidateIfSame(t, k)
        PROVE  TypeOK'
    <2>1. Begin(t, k, None) /\ UNCHANGED <<next, inits, writer, pc, obs, mishaps>>
      BY <1>5 DEF InvalidateIfSame
    <2>2. map' \in [Keys -> Cells \cup {None}]
      BY <1>5 DEF InvalidateIfSame
    <2>3. /\ key' \in [Tasks -> Keys] /\ calls' \in 0..MaxCalls
          /\ cell' \in [Tasks -> Cells \cup {None}]
          /\ floor' \in [Tasks -> Cells \cup {None}]
      BY <2>1 DEF Begin
    <2> QED
      BY <2>1, <2>2, <2>3
  <1>6. ASSUME NEW t \in Tasks, Continue(t) PROVE TypeOK'
    <2>1. CASE Insert(t) \/ Replace(t)
      <3>1. /\ UNCHANGED <<inits, writer, key, obs, floor, calls, mishaps>>
            /\ pc' \in [Tasks -> PCs]
        BY <2>1 DEF Insert, Replace, InstallEmpty, Goto
      <3>2. /\ map' \in [Keys -> Cells \cup {None}]
            /\ cell' \in [Tasks -> Cells \cup {None}]
        BY <2>1 DEF Insert, Replace, InstallEmpty
      <3>3. next' \in 1..(MaxCalls + 1)
        BY <2>1 DEF Insert, Replace, InstallEmpty, Cells
      <3> QED
        BY <3>1, <3>2, <3>3
    <2>2. CASE InitRead(t) \/ Spin(t)
      BY <2>2 DEF InitRead, Spin, Goto, Return
    <2>3. CASE InitWrite(t)
      BY <2>3 DEF InitWrite, Goto
    <2>4. CASE InitCheck(t)
      BY <2>4 DEF InitCheck, Goto, Return
    <2>5. CASE InitDone(t)
      <3>1. CASE cell[t] \in Cells
        BY <2>5, <3>1 DEF InitDone, Goto, Return
      <3>2. CASE cell[t] \notin Cells
        <4>1. inits' = inits /\ writer' = writer
          BY <2>5, <3>2 DEF InitDone
        <4> QED
          BY <2>5, <4>1 DEF InitDone, Goto, Return
      <3> QED
        BY <3>1, <3>2
    <2> QED
      BY <1>6, <2>1, <2>2, <2>3, <2>4, <2>5 DEF Continue
  <1>7. ASSUME NEW t \in Tasks, Cancel(t) PROVE TypeOK'
    BY <1>7 DEF Cancel, Goto, Return
  <1>8. CASE UNCHANGED vars
    BY <1>8 DEF vars
  <1> QED
    BY <1>1, <1>2, <1>3, <1>4, <1>5, <1>6, <1>7, <1>8 DEF Next, Start
-----------------------------------------------------------------------------
(* What a step of task t leaves alone, and what the steps of a group share. *)

Step(t) == Start(t) \/ Continue(t) \/ Cancel(t)

\* A step of t changes no other task's program counter, key, cell or floor.
LEMMA Frame ==
  ASSUME TypeOK, NEW t \in Tasks, Step(t)
  PROVE  \A s \in Tasks \ {t} : /\ pc'[s] = pc[s] /\ key'[s] = key[s]
                                /\ cell'[s] = cell[s] /\ floor'[s] = floor[s]
  <1> USE DEF TypeOK
  <1>1. ASSUME NEW k \in Keys, GetOrInsertWith(t, k) \/ Get(t, k) \/ Invalidate(t, k)
        PROVE  \A s \in Tasks \ {t} : /\ pc'[s] = pc[s] /\ key'[s] = key[s]
                                /\ cell'[s] = cell[s] /\ floor'[s] = floor[s]
    BY <1>1 DEF GetOrInsertWith, Get, Invalidate, Begin, Goto, Return
  <1>2. ASSUME NEW k \in Keys, GetOrRefreshWith(t, k) \/ InvalidateIfSame(t, k)
        PROVE  \A s \in Tasks \ {t} : /\ pc'[s] = pc[s] /\ key'[s] = key[s]
                                /\ cell'[s] = cell[s] /\ floor'[s] = floor[s]
    BY <1>2 DEF GetOrRefreshWith, InvalidateIfSame, Begin, Goto, Return
  <1>3. CASE Continue(t) \/ Cancel(t)
    BY <1>3 DEF Continue, Cancel, Insert, InitRead, InitWrite, InitCheck, InitDone,
       Replace, Spin, InstallEmpty, Goto, Return
  <1> QED
    BY <1>1, <1>2, <1>3 DEF Step, Start

\* A call begins outside get_or_init and leaves cells and locks alone.
LEMMA StartFrame ==
  ASSUME TypeOK, NEW t \in Tasks, Start(t)
  PROVE  /\ UNCHANGED <<next, inits, writer>>
         /\ pc[t] = "idle"
         /\ pc'[t] \in {"idle", "insert", "init_read", "replace", "spin"}
  <1> USE DEF TypeOK, Begin, Goto, Return
  <1> SUFFICES ASSUME NEW k \in Keys,
                      \/ GetOrInsertWith(t, k) \/ GetOrRefreshWith(t, k)
                      \/ Get(t, k) \/ Invalidate(t, k) \/ InvalidateIfSame(t, k)
               PROVE  /\ UNCHANGED <<next, inits, writer>>
                      /\ pc[t] = "idle"
                      /\ pc'[t] \in {"idle", "insert", "init_read", "replace", "spin"}
    BY DEF Start
  <1>1. CASE GetOrInsertWith(t, k)
    BY <1>1 DEF GetOrInsertWith
  <1>2. CASE GetOrRefreshWith(t, k)
    BY <1>2 DEF GetOrRefreshWith
  <1>3. CASE Get(t, k) \/ Invalidate(t, k) \/ InvalidateIfSame(t, k)
    BY <1>3 DEF Get, Invalidate, InvalidateIfSame
  <1> QED
    BY <1>1, <1>2, <1>3

\* What went wrong once is remembered, and a dropped caller is recorded.
LEMMA MishapStep ==
  ASSUME TypeOK, NEW t \in Tasks, Step(t)
  PROVE  /\ "evicted" \in mishaps => "evicted" \in mishaps'
         /\ "dropped" \in mishaps => "dropped" \in mishaps'
         /\ Cancel(t) => "dropped" \in mishaps'
  <1>1. CASE Start(t)
    BY <1>1 DEF Start, GetOrInsertWith, GetOrRefreshWith, Get, Invalidate,
       InvalidateIfSame, Begin, Cancel
  <1>2. CASE Continue(t) \/ Cancel(t)
    BY <1>2 DEF Continue, Cancel, Insert, InitRead, InitWrite, InitCheck,
       InitDone, Replace, Spin
  <1> QED
    BY <1>1, <1>2 DEF Step

-----------------------------------------------------------------------------
(* The write lock *)

LEMMA LockStep ==
  ASSUME TypeOK, LockInv, CellInv, NEW t \in Tasks, Step(t)
  PROVE  LockInv'
  <1> USE Frame DEF TypeOK, LockInv
  <1>1. CASE Start(t)
    BY <1>1, StartFrame
  <1>2. CASE Insert(t) \/ Replace(t)
    BY <1>2 DEF Insert, Replace, InstallEmpty, Goto
  <1>3. CASE InitRead(t) \/ Spin(t)
    BY <1>3 DEF InitRead, Spin, Goto, Return
  <1>4. CASE InitWrite(t)
    BY <1>4 DEF InitWrite, Goto, CellInv, Active
  <1>5. CASE InitCheck(t)
    BY <1>5 DEF InitCheck, Goto, Return, CellInv, Active
  <1>6. CASE InitDone(t)
    BY <1>6 DEF InitDone, Goto, Return, CellInv, Active
  <1>7. CASE Cancel(t)
    BY <1>7 DEF Cancel, Goto, Return, CellInv, Active
  <1> QED
    BY <1>1, <1>2, <1>3, <1>4, <1>5, <1>6, <1>7 DEF Step, Continue
-----------------------------------------------------------------------------
(* Cells, their order of creation, and initialization *)

\* Cell names are numbers, and the functions of the state are functions.
LEMMA Numbers ==
  ASSUME TypeOK
  PROVE  /\ next \in Nat /\ 0 < next /\ None = 0
         /\ \A k \in Keys : map[k] \in Nat /\ (map[k] \in Cells \/ map[k] = None)
         /\ \A s \in Tasks : /\ cell[s] \in Nat /\ key[s] \in Keys
                             /\ floor[s] \in Nat
                             /\ cell[s] \in Cells \/ cell[s] = None
         /\ Cells \subseteq Nat /\ None \notin Cells
         /\ map = [k \in Keys |-> map[k]] /\ cell = [s \in Tasks |-> cell[s]]
         /\ pc = [s \in Tasks |-> pc[s]] /\ key = [s \in Tasks |-> key[s]]
         /\ floor = [s \in Tasks |-> floor[s]]
  BY DEF TypeOK, Cells, None

LEMMA CellStep ==
  ASSUME TypeOK, CellInv, NEW t \in Tasks, Step(t)
  PROVE  CellInv'
  <1> USE Frame DEF CellInv, Active
  <1>1. ASSUME NEW k \in Keys, GetOrInsertWith(t, k) PROVE CellInv'
    BY Numbers, <1>1 DEF GetOrInsertWith, Begin, Goto
  <1>2. ASSUME NEW k \in Keys, GetOrRefreshWith(t, k) PROVE CellInv'
    BY Numbers, <1>2 DEF GetOrRefreshWith, Begin, Goto, Return
  <1>3. ASSUME NEW k \in Keys,
               Get(t, k) \/ Invalidate(t, k) \/ InvalidateIfSame(t, k)
        PROVE  CellInv'
    <2>1. /\ UNCHANGED next /\ pc'[t] = "idle"
          /\ cell' = [cell EXCEPT ![t] = None]
          /\ \A j \in Keys : map'[j] = map[j] \/ map'[j] = None
      BY Numbers, <1>3 DEF Get, Invalidate, InvalidateIfSame, Begin, Goto, Return
    <2> QED
      BY Numbers, <2>1
  <1>4. CASE (Insert(t) \/ Replace(t)) /\ InstallEmpty(t)
    BY Numbers, <1>4 DEF InstallEmpty, Goto
  <1>5. CASE (Insert(t) \/ Replace(t)) /\ ~InstallEmpty(t)
    <2>1. /\ UNCHANGED <<map, next>>
          /\ map[key[t]] # None
          /\ cell' = [cell EXCEPT ![t] = map[key[t]]]
      BY <1>5 DEF Insert, Replace
    <2> QED
      BY Numbers, <2>1
  <1>6. CASE InitRead(t) \/ InitWrite(t) \/ InitCheck(t) \/ InitDone(t)
             \/ Spin(t) \/ Cancel(t)
    <2>1. UNCHANGED <<map, next, cell>>
      BY <1>6 DEF InitRead, InitWrite, InitCheck, InitDone, Spin, Cancel
    <2>2. pc'[t] = "idle" \/ pc[t] \in Active
      BY Numbers, <1>6 DEF InitRead, InitWrite, InitCheck, InitDone, Spin, Cancel,
         Goto, Return
    <2> QED
      BY <2>1, <2>2
  <1> QED
    BY <1>1, <1>2, <1>3, <1>4, <1>5, <1>6 DEF Step, Start, Continue

\* The double check under the write lock: the caller that runs an initializer
\* holds the lock of an empty cell, and nobody else fills a locked cell.
LEMMA OnceStep ==
  ASSUME TypeOK, LockInv, CellInv, OnceInv, NEW t \in Tasks, Step(t)
  PROVE  OnceInv'
  <1> USE Frame DEF TypeOK, OnceInv
  <1>1. CASE Start(t)
    BY <1>1, StartFrame
  <1>2. CASE Insert(t) \/ Replace(t)
    BY <1>2 DEF Insert, Replace, InstallEmpty, Goto
  <1>3. CASE InitRead(t) \/ Spin(t) \/ Cancel(t)
    BY <1>3 DEF InitRead, Spin, Cancel, Goto, Return
  <1>4. CASE InitWrite(t)
    BY <1>4 DEF InitWrite, Goto
  <1>5. CASE InitCheck(t)
    BY <1>5 DEF InitCheck, Goto, Return, CellInv, Active, Ready, Cells, None
  <1>6. CASE InitDone(t)
    <2>1. cell[t] \in Cells /\ writer[cell[t]] = t /\ inits[cell[t]] = 0
      BY <1>6 DEF InitDone, CellInv, Active, LockInv
    <2>2. \A s \in Tasks \ {t} : pc[s] = "running" => cell[s] # cell[t]
      BY <2>1 DEF LockInv
    <2> QED
      BY <1>6, <2>1, <2>2 DEF InitDone, Goto, Return
  <1> QED
    BY <1>1, <1>2, <1>3, <1>4, <1>5, <1>6 DEF Step, Continue

\* Cells only ever become initialized.
LEMMA ReadyStep ==
  ASSUME TypeOK, NEW t \in Tasks, Step(t), NEW c \in Cells, Ready(c)
  PROVE  Ready(c)'
  <1> USE DEF TypeOK, Ready
  <1>1. CASE Start(t)
    BY <1>1, StartFrame
  <1>2. CASE Insert(t) \/ Replace(t) \/ InitRead(t) \/ InitWrite(t)
    BY <1>2 DEF Insert, Replace, InitRead, InitWrite
  <1>3. CASE InitCheck(t) \/ Spin(t) \/ Cancel(t)
    BY <1>3 DEF InitCheck, Spin, Cancel
  <1>4. CASE InitDone(t)
    BY <1>4 DEF InitDone
  <1> QED
    BY <1>1, <1>2, <1>3, <1>4 DEF Step, Continue

\* A new cell takes the next number.
LEMMA InstallGrows ==
  ASSUME TypeOK, NEW t \in Tasks, InstallEmpty(t)
  PROVE  next' # next
  <1>1. next \in Nat
    BY DEF TypeOK
  <1>2. next' = next + 1
    BY DEF InstallEmpty
  <1> QED
    BY <1>1, <1>2

\* A new cell is installed only where there was none, or in place of the value
\* that get_or_refresh_with saw and is asked to replace.
LEMMA InstallSays ==
  ASSUME TypeOK, NEW t \in Tasks, Insert(t) \/ Replace(t), InstallEmpty(t)
  PROVE  \/ map[key[t]] = None
         \/ pc[t] = "replace" /\ map[key[t]] = cell[t] /\ cell[t] # None
  <1>1. next' # next
    BY InstallGrows
  <1>2. CASE Insert(t)
    BY <1>1, <1>2 DEF Insert
  <1>3. CASE Replace(t)
    BY <1>1, <1>3 DEF Replace
  <1> QED
    BY <1>2, <1>3

\* Otherwise the call goes on with the cell that is in the map.
LEMMA JoinSays ==
  ASSUME TypeOK, NEW t \in Tasks, Insert(t) \/ Replace(t), ~InstallEmpty(t)
  PROVE  /\ UNCHANGED <<map, next, key, inits, floor>>
         /\ cell'[t] = map[key[t]] /\ pc'[t] \in {"init_read", "spin"}
         /\ pc[t] \in {"insert", "replace"} /\ map[key[t]] # None
  <1>1. CASE Insert(t)
    BY <1>1 DEF Insert, Goto, TypeOK
  <1>2. CASE Replace(t)
    BY <1>2 DEF Replace, Goto, TypeOK
  <1> QED
    BY <1>1, <1>2

\* An initializer that finishes fills the cell it was called for.
LEMMA InitDoneFills ==
  ASSUME TypeOK, NEW t \in Tasks, InitDone(t), cell[t] \in Cells
  PROVE  Ready(cell[t])'
  <1>1. inits[cell[t]] \in Nat
    BY DEF TypeOK
  <1>2. inits'[cell[t]] = inits[cell[t]] + 1
    BY DEF InitDone, TypeOK
  <1>3. \A n \in Nat : n + 1 > 0
    OBVIOUS
  <1>4. cell' = cell
    BY DEF InitDone
  <1>5. cell[t] # None
    BY DEF Cells, None
  <1> QED
    BY <1>1, <1>2, <1>3, <1>4, <1>5 DEF Ready

\* Installing a cell takes no empty one away from a caller that may fill it.
LEMMA CurrentInstall ==
  ASSUME TypeOK, CellInv, CurrentInv, NEW t \in Tasks, Step(t),
         Insert(t) \/ Replace(t), InstallEmpty(t)
  PROVE  CurrentInv'
  <1>1. \A s \in Tasks \ {t} : /\ pc'[s] = pc[s] /\ key'[s] = key[s]
                               /\ cell'[s] = cell[s]
    BY Frame
  <1>2. "evicted" \notin mishaps' => "evicted" \notin mishaps
    BY MishapStep
  <1>3. key' = key /\ inits' = inits
    BY DEF Insert, Replace
  <1>4. map' = [map EXCEPT ![key[t]] = next] /\ cell'[t] = next
        /\ pc'[t] = "init_read"
    BY DEF InstallEmpty, Goto, TypeOK
  <1>5. \A s \in Tasks : key[s] \in Keys
    BY Numbers
  <1>6. map'[key[t]] = next /\ \A k \in Keys \ {key[t]} : map'[k] = map[k]
    BY <1>4, <1>5, Numbers
  <1>7. \A c : Ready(c)' <=> Ready(c)
    BY <1>3 DEF Ready
  <1>8. ASSUME NEW s \in Tasks \ {t}, "evicted" \notin mishaps,
               pc[s] \in Active, ~Ready(cell[s])
        PROVE  key[s] # key[t]
    <2>1. \/ map[key[t]] = None
          \/ pc[t] = "replace" /\ map[key[t]] = cell[t] /\ cell[t] # None
      BY InstallSays
    <2>2. map[key[s]] = cell[s]
      BY <1>8 DEF CurrentInv
    <2>3. cell[s] # None
      BY <1>8, Numbers DEF CellInv
    <2>4. pc[t] = "replace" /\ cell[t] # None => Ready(cell[t])
      BY DEF CurrentInv
    <2> QED
      BY <1>8, <2>1, <2>2, <2>3, <2>4
  <1>9. ASSUME NEW s \in Tasks, "evicted" \notin mishaps', pc'[s] \in Active,
               ~Ready(cell'[s])
        PROVE  map'[key[s]] = cell'[s]
    <2>1. CASE s = t
      BY <1>4, <1>6, <2>1
    <2>2. CASE s # t
      <3>1. map[key[s]] = cell[s]
        BY <1>1, <1>2, <1>9, <2>2 DEF CurrentInv
      <3>2. key[s] # key[t]
        BY <1>1, <1>2, <1>8, <1>9, <2>2
      <3> QED
        BY <1>1, <1>5, <1>6, <2>2, <3>1, <3>2
    <2> QED
      BY <2>1, <2>2
  <1>10. ASSUME NEW s \in Tasks, pc'[s] = "replace", cell'[s] # None
         PROVE  Ready(cell'[s])
    BY <1>1, <1>4, <1>10 DEF CurrentInv
  <1> QED
    BY <1>3, <1>7, <1>9, <1>10 DEF CurrentInv

\* A caller that goes on with what is in the map holds the current cell.
LEMMA CurrentJoin ==
  ASSUME TypeOK, CurrentInv, NEW t \in Tasks, Step(t),
         Insert(t) \/ Replace(t), ~InstallEmpty(t)
  PROVE  CurrentInv'
  <1>1. \A s \in Tasks \ {t} : /\ pc'[s] = pc[s] /\ key'[s] = key[s]
                               /\ cell'[s] = cell[s]
    BY Frame
  <1>2. "evicted" \notin mishaps' => "evicted" \notin mishaps
    BY MishapStep
  <1>3. /\ map' = map /\ key' = key /\ inits' = inits
        /\ cell'[t] = map[key[t]] /\ pc'[t] \in {"init_read", "spin"}
    BY JoinSays
  <1>4. \A c : Ready(c)' <=> Ready(c)
    BY <1>3 DEF Ready
  <1> QED
    BY <1>1, <1>2, <1>3, <1>4 DEF CurrentInv

\* Unless a key was invalidated unconditionally, a cell leaves the map only once
\* it is initialized, so who may fill an empty cell holds the current one.
LEMMA CurrentStep ==
  ASSUME TypeOK, LockInv, CellInv, OnceInv, CurrentInv,
         NEW t \in Tasks, Step(t)
  PROVE  CurrentInv'
  <1>0. \A c \in Cells : Ready(c) => Ready(c)'
    BY ReadyStep
  <1>a. \A s \in Tasks \ {t} : /\ pc'[s] = pc[s] /\ key'[s] = key[s]
                               /\ cell'[s] = cell[s]
    BY Frame
  <1>b. "evicted" \notin mishaps' => "evicted" \notin mishaps
    BY MishapStep
  <1>c. \A s \in Tasks : /\ pc[s] \in Active => cell[s] \in Cells
                         /\ cell[s] \in Cells \/ cell[s] = None
                         /\ key[s] \in Keys
    BY Numbers DEF CellInv
  <1>d. ASSUME \A k \in Keys : \/ map'[k] = map[k]
                               \/ Ready(map[k]) \/ "evicted" \in mishaps',
               (pc'[t] \in Active /\ ~Ready(cell[t])')
                  => \/ map'[key'[t]] = cell'[t]
                     \/ "evicted" \in mishaps',
               pc'[t] = "replace" /\ cell'[t] # None => Ready(cell[t])'
        PROVE  CurrentInv'
    <2>1. ASSUME NEW s \in Tasks, "evicted" \notin mishaps', pc'[s] \in Active,
                 ~Ready(cell[s])'
          PROVE  map'[key'[s]] = cell'[s]
      <3>1. CASE s = t
        BY <1>d, <2>1, <3>1
      <3>2. CASE s # t
        <4>1. /\ pc'[s] = pc[s] /\ key'[s] = key[s] /\ cell'[s] = cell[s]
              /\ key[s] \in Keys /\ cell[s] \in Cells
          BY <1>a, <1>c, <2>1, <3>2
        <4>2. ~Ready(cell[s])
          BY <1>0, <2>1, <4>1
        <4>3. map[key[s]] = cell[s]
          BY <1>b, <2>1, <4>1, <4>2 DEF CurrentInv
        <4> QED
          BY <1>d, <2>1, <4>1, <4>2, <4>3
      <3> QED
        BY <3>1, <3>2
    <2>2. ASSUME NEW s \in Tasks, pc'[s] = "replace", cell'[s] # None
          PROVE  Ready(cell[s])'
      <3>1. CASE s = t
        BY <1>d, <2>2, <3>1
      <3>2. CASE s # t
        <4>1. pc[s] = "replace" /\ cell'[s] = cell[s] /\ cell[s] \in Cells
          BY <1>a, <1>c, <2>2, <3>2
        <4>2. Ready(cell[s])
          BY <2>2, <4>1 DEF CurrentInv
        <4> QED
          BY <1>0, <4>1, <4>2
      <3> QED
        BY <3>1, <3>2
    <2> QED
      BY <2>1, <2>2 DEF CurrentInv
  <1>1. ASSUME NEW k \in Keys, GetOrInsertWith(t, k) PROVE CurrentInv'
    <2>1. /\ map' = map /\ inits' = inits /\ key'[t] = k /\ cell'[t] = map[k]
          /\ pc'[t] \in {"insert", "init_read"}
      BY <1>1 DEF GetOrInsertWith, Begin, Goto, TypeOK
    <2> QED
      BY <1>d, <2>1 DEF Active
  <1>2. ASSUME NEW k \in Keys, GetOrRefreshWith(t, k) PROVE CurrentInv'
    <2>1. map' = map /\ inits' = inits /\ cell'[t] = map[k]
      BY <1>2 DEF GetOrRefreshWith, Begin, TypeOK
    <2>2. /\ pc'[t] \in {"spin", "replace", "idle"}
          /\ pc'[t] = "replace" => map[k] = None \/ TryGet(map[k])
      BY <1>2 DEF GetOrRefreshWith, Goto, Return, TypeOK
    <2>3. \A c : Ready(c)' <=> Ready(c)
      BY <2>1 DEF Ready
    <2> QED
      BY <1>d, <2>1, <2>2, <2>3 DEF Active, TryGet
  <1>3. ASSUME NEW k \in Keys, Get(t, k) PROVE CurrentInv'
    <2>1. map' = map /\ pc'[t] = "idle"
      BY <1>3 DEF Get, Goto, Return, TypeOK
    <2> QED
      BY <1>d, <2>1 DEF Active
  <1>4. ASSUME NEW k \in Keys, InvalidateIfSame(t, k) PROVE CurrentInv'
    <2>1. \A j \in Keys : map'[j] = map[j] \/ Ready(map[j])
      BY <1>4 DEF InvalidateIfSame, TryGet, TypeOK
    <2>2. pc'[t] = "idle"
      BY <1>4 DEF InvalidateIfSame, Begin
    <2> QED
      BY <1>d, <2>1, <2>2 DEF Active
  <1>5. CASE (Insert(t) \/ Replace(t)) /\ InstallEmpty(t)
    BY <1>5, CurrentInstall
  <1>6. CASE (Insert(t) \/ Replace(t)) /\ ~InstallEmpty(t)
    BY <1>6, CurrentJoin
  <1>7. CASE InitRead(t) \/ InitWrite(t) \/ InitCheck(t)
    <2>1. UNCHANGED <<map, inits, key, cell, mishaps>> /\ pc[t] \in Active
      BY <1>7 DEF InitRead, InitWrite, InitCheck, Active
    <2>2. pc'[t] # "replace"
      BY <1>7 DEF InitRead, InitWrite, InitCheck, Goto, Return, TypeOK
    <2>3. \A c : Ready(c)' <=> Ready(c)
      BY <2>1 DEF Ready
    <2>4. ~Ready(cell[t]) => map[key[t]] = cell[t] \/ "evicted" \in mishaps
      BY <2>1 DEF CurrentInv
    <2> QED
      BY <1>d, <2>1, <2>2, <2>3, <2>4
  <1>8. CASE InitDone(t) \/ Spin(t) \/ Cancel(t)
    <2>1. map' = map /\ pc'[t] = "idle"
      BY <1>8 DEF InitDone, Spin, Cancel, Goto, Return, TypeOK
    <2> QED
      BY <1>d, <2>1 DEF Active
  <1>9. ASSUME NEW k \in Keys, Invalidate(t, k) PROVE CurrentInv'
    <2>1. pc'[t] = "idle" /\ "evicted" \in mishaps'
      BY <1>9 DEF Invalidate, Goto, Return, TypeOK
    <2> QED
      BY <1>d, <2>1 DEF Active
  <1> QED
    BY <1>1, <1>2, <1>3, <1>4, <1>5, <1>6, <1>7, <1>8, <1>9
    DEF Step, Start, Continue

\* The map never goes back to an older cell.
LEMMA FloorStep ==
  ASSUME TypeOK, CellInv, FloorInv, NEW t \in Tasks, Step(t)
  PROVE  FloorInv'
  <1> USE Frame, Numbers DEF FloorInv, Active
  <1>1. ASSUME NEW k \in Keys, Begin(t, k, cell'[t]), UNCHANGED next,
               \A j \in Keys : map'[j] = map[j] \/ map'[j] = None,
               \/ pc'[t] = "idle"
               \/ pc'[t] \in {"init_read", "spin"} /\ cell'[t] = map[k]
               \/ pc'[t] \in {"insert", "replace"}
        PROVE  FloorInv'
    <2>1. floor'[t] = map[k] \/ floor'[t] = None
      BY <1>1 DEF Begin
    <2>2. key'[t] = k
      BY <1>1 DEF Begin
    <2> QED
      BY <1>1, <2>1, <2>2 DEF CellInv
  <1>2. ASSUME NEW k \in Keys, GetOrInsertWith(t, k) PROVE FloorInv'
    BY <1>1, <1>2 DEF GetOrInsertWith, Begin, Goto
  <1>3. ASSUME NEW k \in Keys, GetOrRefreshWith(t, k) PROVE FloorInv'
    BY <1>1, <1>3 DEF GetOrRefreshWith, Begin, Goto, Return
  <1>4. ASSUME NEW k \in Keys,
               Get(t, k) \/ Invalidate(t, k) \/ InvalidateIfSame(t, k)
        PROVE  FloorInv'
    <2>1. CASE Get(t, k)
      BY <1>1, <2>1 DEF Get, Begin, Goto, Return
    <2>2. CASE Invalidate(t, k)
      BY <1>1, <2>2 DEF Invalidate, Begin, Goto, Return
    <2>3. CASE InvalidateIfSame(t, k)
      BY <1>1, <2>3 DEF InvalidateIfSame, Begin
    <2> QED
      BY <1>4, <2>1, <2>2, <2>3
  <1>5. CASE (Insert(t) \/ Replace(t)) /\ InstallEmpty(t)
    <2>1. /\ map' = [map EXCEPT ![key[t]] = next] /\ next' = next + 1
          /\ cell'[t] = next /\ pc'[t] = "init_read" /\ key' = key
          /\ floor' = floor
      BY <1>5 DEF InstallEmpty, Insert, Replace, Goto
    <2>2. map'[key[t]] = next /\ \A k \in Keys \ {key[t]} : map'[k] = map[k]
      BY <2>1
    <2>3. \A s \in Tasks : floor[s] < next
      OBVIOUS
    <2> QED
      BY <2>1, <2>2, <2>3
  <1>6. CASE (Insert(t) \/ Replace(t)) /\ ~InstallEmpty(t)
    <2>1. /\ UNCHANGED <<map, next, key, floor>>
          /\ pc[t] \in {"insert", "replace"} /\ map[key[t]] # None
          /\ cell'[t] = map[key[t]] /\ pc'[t] \in {"init_read", "spin"}
      BY <1>6, JoinSays
    <2> QED
      BY <2>1
  <1>7. CASE InitRead(t) \/ InitWrite(t) \/ InitCheck(t) \/ InitDone(t)
             \/ Spin(t) \/ Cancel(t)
    <2>1. UNCHANGED <<map, next, key, cell, floor>>
      BY <1>7 DEF InitRead, InitWrite, InitCheck, InitDone, Spin, Cancel
    <2>2. CASE InitRead(t) \/ InitWrite(t) \/ InitCheck(t)
      <3>1. pc[t] \in Active
        BY <2>2 DEF InitRead, InitWrite, InitCheck
      <3>2. pc'[t] \in {"idle", "init_write", "init_check", "running"}
        BY <2>2, Numbers DEF InitRead, InitWrite, InitCheck, Goto, Return
      <3> QED
        BY <2>1, <3>1, <3>2
    <2>3. CASE InitDone(t) \/ Spin(t) \/ Cancel(t)
      <3>1. pc'[t] = "idle"
        BY <2>3 DEF InitDone, Spin, Cancel, Goto, Return
      <3> QED
        BY <2>1, <3>1
    <2> QED
      BY <1>7, <2>2, <2>3
  <1> QED
    BY <1>2, <1>3, <1>4, <1>5, <1>6, <1>7 DEF Step, Start, Continue

\* Unless a caller was dropped, who created a cell stays until it is initialized.
LEMMA FillerStep ==
  ASSUME TypeOK, CellInv, FillerInv, NEW t \in Tasks, Step(t)
  PROVE  FillerInv'
  <1> USE Frame, MishapStep, Numbers DEF FillerInv, Active
  <1>0. \A c \in Cells : Ready(c) => Ready(c)'
    BY ReadyStep
  <1>1. CASE Start(t)
    BY <1>0, <1>1, StartFrame
  <1>2. CASE (Insert(t) \/ Replace(t)) /\ InstallEmpty(t)
    <2>1. /\ next' = next + 1 /\ cell'[t] = next /\ pc'[t] = "init_read"
          /\ pc[t] \notin Active
      BY <1>2 DEF InstallEmpty, Insert, Replace, Goto
    <2> QED
      BY <1>0, <2>1
  <1>3. CASE (Insert(t) \/ Replace(t)) /\ ~InstallEmpty(t)
    <2>1. next' = next /\ pc[t] \notin Active
      BY <1>3, JoinSays
    <2> QED
      BY <1>0, <2>1
  <1>4. CASE InitRead(t) \/ InitWrite(t) \/ InitCheck(t) \/ Spin(t)
    <2>1. UNCHANGED <<next, cell, inits>>
      BY <1>4 DEF InitRead, InitWrite, InitCheck, Spin
    <2>2. pc'[t] \in Active \/ Ready(cell[t])
      <3>1. CASE InitRead(t) \/ InitWrite(t)
        BY <3>1 DEF InitRead, InitWrite, Goto, Return
      <3>2. CASE InitCheck(t) \/ Spin(t)
        BY <3>2 DEF InitCheck, Spin, Goto, Return
      <3> QED
        BY <1>4, <3>1, <3>2
    <2> QED
      BY <2>1, <2>2, <1>0
  <1>5. CASE InitDone(t)
    <2>1. next' = next /\ cell' = cell
      BY <1>5 DEF InitDone
    <2>2. cell[t] \in Cells => Ready(cell[t])'
      BY <1>5, InitDoneFills
    <2> QED
      BY <2>1, <2>2, <1>0
  <1>6. CASE Cancel(t)
    BY <1>6
  <1> QED
    BY <1>1, <1>2, <1>3, <1>4, <1>5, <1>6 DEF Step, Continue
-----------------------------------------------------------------------------
(* Theorems *)

LEMMA BaseInit == Init => BaseInv
  <1> SUFFICES ASSUME Init PROVE BaseInv
    OBVIOUS
  <1>1. TypeOK
    BY TypeInit
  <1> QED
    BY <1>1 DEF Init, BaseInv, LockInv, CellInv, OnceInv, Active, Cells, None

LEMMA BaseStep == BaseInv /\ [Next]_vars => BaseInv'
  <1> SUFFICES ASSUME BaseInv, [Next]_vars PROVE BaseInv'
    OBVIOUS
  <1>1. TypeOK'
    BY TypeStep DEF BaseInv
  <1>2. CASE UNCHANGED vars
    BY <1>2 DEF vars, BaseInv, TypeOK, LockInv, CellInv, OnceInv
  <1>3. ASSUME NEW t \in Tasks, Step(t) PROVE BaseInv'
    BY <1>1, <1>3, LockStep, CellStep, OnceStep DEF BaseInv
  <1> QED
    BY <1>2, <1>3 DEF Next, Step

\* The write lock of a cell is held by the one caller that is in get_or_init's
\* critical section, calls work on cells that exist, and a caller that runs an
\* initializer found its cell empty.
THEOREM BaseTheorem == Spec => []BaseInv
  BY BaseInit, BaseStep, PTL DEF Spec

\* Types hold, locks are held by whom the code says, and no cell is ever
\* initialized twice, for every number of callers, waiters and cancellations.
THEOREM InitOnceTheorem == Spec => [](TypeOK /\ InitOnce)
  <1>1. BaseInv => TypeOK /\ InitOnce
    BY DEF BaseInv, OnceInv, InitOnce
  <1> QED
    BY <1>1, BaseInit, BaseStep, PTL DEF Spec

\* As long as nobody invalidated unconditionally, the cache runs one initializer
\* per key at a time (get_or_insert_with, get_or_refresh_with and
\* invalidate_if_same, also with dropped callers).
THEOREM SingleIOTheorem == Spec => []SingleIOPerKey
  <1>1. Init => CurrentInv
    BY DEF Init, CurrentInv, Active
  <1>2. BaseInv /\ CurrentInv /\ [Next]_vars => CurrentInv'
    <2> SUFFICES ASSUME BaseInv, CurrentInv, [Next]_vars PROVE CurrentInv'
      OBVIOUS
    <2>1. CASE UNCHANGED vars
      BY <2>1 DEF vars, CurrentInv, Ready
    <2>2. ASSUME NEW t \in Tasks, Step(t) PROVE CurrentInv'
      BY <2>2, CurrentStep DEF BaseInv
    <2> QED
      BY <2>1, <2>2 DEF Next, Step
  <1>3. BaseInv /\ CurrentInv => SingleIOPerKey
    <2> SUFFICES ASSUME BaseInv, CurrentInv, "evicted" \notin mishaps, NEW k \in Keys,
                        NEW s \in Running(k), NEW t \in Running(k)
                 PROVE  s = t
      BY DEF SingleIOPerKey
    <2>1. /\ s \in Tasks /\ pc[s] = "running" /\ key[s] = k
          /\ t \in Tasks /\ pc[t] = "running" /\ key[t] = k
      BY DEF Running
    <2>2. /\ cell[s] \in Cells /\ ~Ready(cell[s])
          /\ cell[t] \in Cells /\ ~Ready(cell[t])
      BY <2>1 DEF BaseInv, CellInv, OnceInv, Ready, Active
    <2>3. cell[s] = cell[t]
      BY <2>1, <2>2 DEF CurrentInv, Active
    <2> QED
      BY <2>1, <2>2, <2>3 DEF BaseInv, LockInv
  <1> QED
    BY <1>1, <1>2, <1>3, BaseInit, BaseStep, PTL DEF Spec

\* A call never returns a value older than the one cached when it began.
THEOREM FreshResultTheorem == Spec => FreshResult
  <1>1. Init => FloorInv
    BY DEF Init, FloorInv, Active, None
  <1>2. BaseInv /\ FloorInv /\ [Next]_vars => FloorInv'
    <2> SUFFICES ASSUME BaseInv, FloorInv, [Next]_vars PROVE FloorInv'
      OBVIOUS
    <2>1. CASE UNCHANGED vars
      BY <2>1 DEF vars, FloorInv
    <2>2. ASSUME NEW t \in Tasks, Step(t) PROVE FloorInv'
      BY <2>2, FloorStep DEF BaseInv
    <2> QED
      BY <2>1, <2>2 DEF Next, Step
  <1>3. BaseInv /\ FloorInv /\ [Next]_vars
          => [\A t \in Tasks : pc[t] # "idle" /\ pc'[t] = "idle" /\ obs'[t] # None
                                => obs'[t] >= floor[t]]_vars
    <2> SUFFICES ASSUME BaseInv, FloorInv, Next, NEW t \in Tasks,
                        pc[t] # "idle", pc'[t] = "idle", obs'[t] # None
                 PROVE  obs'[t] >= floor[t]
      OBVIOUS
    <2>1. PICK u \in Tasks : Step(u)
      BY DEF Next, Step
    <2>2. u = t
      BY <2>1, Frame DEF BaseInv
    <2>3. ~Start(t)
      BY StartFrame DEF BaseInv
    <2>4. CASE Continue(t)
      <3>1. obs'[t] = cell[t] /\ pc[t] \in Active \cup {"spin"}
        BY <2>4 DEF Continue, Insert, InitRead, InitWrite, InitCheck, InitDone,
           Replace, Spin, InstallEmpty, Goto, Return, Active, BaseInv, TypeOK
      <3> QED
        BY <3>1 DEF FloorInv
    <2>5. CASE Cancel(t)
      BY <2>5 DEF Cancel, Return, BaseInv, TypeOK
    <2> QED
      BY <2>1, <2>2, <2>3, <2>4, <2>5 DEF Step
  <1> QED
    BY <1>1, <1>2, <1>3, BaseInit, BaseStep, PTL DEF Spec, FreshResult

\* As long as no caller was dropped, who polls an empty cell in AsyncLazy::get has
\* another task at work on it.
THEOREM SpinnerTheorem == Spec => []SpinnerHasInitializer
  <1>1. Init => FillerInv
    BY DEF Init, FillerInv, Cells
  <1>2. BaseInv /\ FillerInv /\ [Next]_vars => FillerInv'
    <2> SUFFICES ASSUME BaseInv, FillerInv, [Next]_vars PROVE FillerInv'
      OBVIOUS
    <2>1. CASE UNCHANGED vars
      BY <2>1 DEF vars, FillerInv, Ready
    <2>2. ASSUME NEW t \in Tasks, Step(t) PROVE FillerInv'
      BY <2>2, FillerStep DEF BaseInv
    <2> QED
      BY <2>1, <2>2 DEF Next, Step
  <1>3. BaseInv /\ FillerInv => SpinnerHasInitializer
    BY DEF BaseInv, CellInv, FillerInv, SpinnerHasInitializer, Active
  <1> QED
    BY <1>1, <1>2, <1>3, BaseInit, BaseStep, PTL DEF Spec
=============================================================================
