-------------------------- MODULE LocationSnapshot --------------------------
(***************************************************************************)
(* The lock-free core of the Cosmos driver's LocationStateStore: two       *)
(* atomic pointers (account and partition state) that writers replace in   *)
(* compare-and-swap loops, a version that every write bumps afterwards,    *)
(* and a cached snapshot that readers reuse while the version stands.      *)
(*                                                                         *)
(* The content of a pointer is the set of writes whose effects it holds;   *)
(* every write adds its own, so two contents are equal just when the       *)
(* pointers are.                                                           *)
(***************************************************************************)
EXTENDS Naturals

CONSTANTS
  Callers,      \* concurrent callers of the store
  MaxWrites,  \* bound: applied effects
  MaxReads    \* bound: snapshots taken

ASSUME MaxWritesAssumption == MaxWrites \in Nat
ASSUME MaxReadsAssumption == MaxReads \in Nat

Pointers == {"account", "partitions"}
Writes   == Nat \ {0}
Contents == [Pointers -> SUBSET Writes]

VARIABLES
  state,    \* what the two pointers hold
  version,  \* account_version
  cached,   \* cached_snapshot: the version it is for and the snapshot
  next,     \* number of the next write
  reads,    \* snapshots begun so far
  pc,       \* where each task is
  ptr,      \* the pointer a writer works on
  write,    \* the writer's write
  base,     \* the content the writer loaded
  seen,     \* the version the reader loaded
  got,      \* the snapshot the reader builds or got
  done,     \* history: writes whose apply has returned
  begun     \* history: done when the reader's snapshot() began

writerVars == <<ptr, write, base>>
readerVars == <<seen, got, begun>>
storeVars == <<state, version, cached, next, reads, pc, writerVars, readerVars, done>>

NoWrites == [p \in Pointers |-> {}]

StoreInit ==
  /\ state   = NoWrites
  /\ version = 0
  /\ cached  = [version |-> 0, snap |-> NoWrites]
  /\ next    = 1
  /\ reads   = 0
  /\ pc      = [t \in Callers |-> "idle"]
  /\ ptr     = [t \in Callers |-> "account"]
  /\ write   = [t \in Callers |-> 0]
  /\ base    = [t \in Callers |-> {}]
  /\ seen    = [t \in Callers |-> 0]
  /\ got     = [t \in Callers |-> NoWrites]
  /\ begun   = [t \in Callers |-> {}]
  /\ done    = {}

MoveTo(t, l) == pc' = [pc EXCEPT ![t] = l]

-----------------------------------------------------------------------------
(* apply_account and apply_partition *)

Apply(t, p) ==
  /\ pc[t] = "idle" /\ next <= MaxWrites
  /\ next'  = next + 1
  /\ ptr'   = [ptr EXCEPT ![t] = p]
  /\ write' = [write EXCEPT ![t] = next]
  /\ MoveTo(t, "load")
  /\ UNCHANGED <<state, version, cached, reads, base, readerVars, done>>

\* The pointer is loaded and the new state computed from its content.
Load(t) ==
  /\ pc[t] = "load"
  /\ base' = [base EXCEPT ![t] = state[ptr[t]]]
  /\ MoveTo(t, "swap")
  /\ UNCHANGED <<state, version, cached, next, reads, ptr, write, readerVars, done>>

\* Faulty variant of CompareExchange: the new state is stored regardless.
Exchange(t) ==
  /\ pc[t] = "swap"
  /\ state' = [state EXCEPT ![ptr[t]] = base[t] \cup {write[t]}]
  /\ MoveTo(t, "bump")
  /\ UNCHANGED <<version, cached, next, reads, writerVars, readerVars, done>>

\* The exchange succeeds if nobody replaced the pointer, else load again.
CompareExchange(t) ==
  /\ pc[t] = "swap"
  /\ \/ /\ state[ptr[t]] = base[t]
        /\ state' = [state EXCEPT ![ptr[t]] = base[t] \cup {write[t]}]
        /\ MoveTo(t, "bump")
     \/ /\ state[ptr[t]] # base[t]
        /\ MoveTo(t, "load")
        /\ UNCHANGED state
  /\ UNCHANGED <<version, cached, next, reads, writerVars, readerVars, done>>

\* Only now do readers learn that the cached snapshot is out of date.
Bump(t) ==
  /\ pc[t] = "bump"
  /\ version' = version + 1
  /\ done'    = done \cup {write[t]}
  /\ MoveTo(t, "idle")
  /\ UNCHANGED <<state, cached, next, reads, writerVars, readerVars>>

-----------------------------------------------------------------------------
(* snapshot *)

LoadVersion(t) ==
  /\ pc[t] = "idle" /\ reads < MaxReads
  /\ reads' = reads + 1
  /\ seen'  = [seen EXCEPT ![t] = version]
  /\ begun' = [begun EXCEPT ![t] = done]
  /\ MoveTo(t, "lookup")
  /\ UNCHANGED <<state, version, cached, next, writerVars, got, done>>

\* The fast path, under the lock of cached_snapshot.
Lookup(t) ==
  /\ pc[t] = "lookup"
  /\ \/ /\ cached.version = seen[t]
        /\ got' = [got EXCEPT ![t] = cached.snap]
        /\ MoveTo(t, "idle")
     \/ /\ cached.version # seen[t]
        /\ MoveTo(t, "account")
        /\ UNCHANGED got
  /\ UNCHANGED <<state, version, cached, next, reads, writerVars, seen, begun, done>>

\* One of the two pointers is read; the other may change in between.
ReadPointer(t, p, then) ==
  /\ pc[t] = p
  /\ got' = [got EXCEPT ![t][p] = state[p]]
  /\ MoveTo(t, then)
  /\ UNCHANGED <<state, version, cached, next, reads, writerVars, seen, begun, done>>

\* Faulty variant of Save: the snapshot is cached for the version of now.
SaveAsLatest(t) ==
  /\ pc[t] = "save"
  /\ cached' = IF cached.version < version
               THEN [version |-> version, snap |-> got[t]] ELSE cached
  /\ MoveTo(t, "idle")
  /\ UNCHANGED <<state, version, next, reads, writerVars, readerVars, done>>

\* It is cached for the version that was loaded first, unless a later one is.
Save(t) ==
  /\ pc[t] = "save"
  /\ cached' = IF cached.version < seen[t]
               THEN [version |-> seen[t], snap |-> got[t]] ELSE cached
  /\ MoveTo(t, "idle")
  /\ UNCHANGED <<state, version, next, reads, writerVars, readerVars, done>>

-----------------------------------------------------------------------------
ContinueCall(t) ==
  \/ Load(t) \/ CompareExchange(t) \/ Bump(t)
  \/ Lookup(t) \/ ReadPointer(t, "account", "partitions")
  \/ ReadPointer(t, "partitions", "save") \/ Save(t)

StoreNext ==
  \E t \in Callers :
    (\E p \in Pointers : Apply(t, p)) \/ LoadVersion(t) \/ ContinueCall(t)

StoreSpec == StoreInit /\ [][StoreNext]_storeVars

-----------------------------------------------------------------------------
StoreTypeOK ==
  /\ state \in Contents
  /\ version \in Nat
  /\ cached \in [version : Nat, snap : Contents]
  /\ next \in Writes
  /\ reads \in Nat
  /\ pc \in [Callers -> {"idle", "load", "swap", "bump", "lookup", "account",
                       "partitions", "save"}]
  /\ ptr \in [Callers -> Pointers]
  /\ write \in [Callers -> Nat]
  /\ base \in [Callers -> SUBSET Writes]
  /\ seen \in [Callers -> Nat]
  /\ got \in [Callers -> Contents]
  /\ begun \in [Callers -> SUBSET Writes]
  /\ done \subseteq Writes

Holds(content) == content["account"] \cup content["partitions"]

\* "CAS-loop writes": a write that has returned is never undone by another
\* writer of the same pointer.
NoLostUpdate == done \subseteq Holds(state)

\* "the cached Arc is cloned ... when the version hasn't changed": a snapshot,
\* cached or not, holds every write that had returned when snapshot() was
\* called, so an operation routes around every endpoint that an earlier one
\* has marked.
SnapshotCurrent ==
  \A t \in Callers : pc[t] = "idle" => begun[t] \subseteq Holds(got[t])

-----------------------------------------------------------------------------
(* The inductive invariant behind these properties *)

\* A write is in its pointer from the exchange on.
WriteInv ==
  /\ \A t \in Callers : pc[t] \in {"load", "swap", "bump"} => write[t] \in Writes
  /\ \A t \in Callers : pc[t] = "bump" => write[t] \in Holds(state)
  /\ NoLostUpdate

\* A version stands for the writes that had returned when it was current:
\* who loaded the same version began after the same writes.
VersionInv ==
  /\ cached.version <= version
  /\ \A t \in Callers : /\ seen[t] <= version /\ begun[t] \subseteq done
                        /\ seen[t] = version => begun[t] = done
  /\ \A s, t \in Callers : seen[s] = seen[t] => begun[s] = begun[t]

\* The cached snapshot holds what its version stands for.
CacheInv ==
  /\ cached.version = version => done \subseteq Holds(cached.snap)
  /\ \A t \in Callers : cached.version = seen[t] => begun[t] \subseteq Holds(cached.snap)

\* A reader that has read one pointer will find the rest in the other.
ReaderInv ==
  /\ \A t \in Callers : pc[t] = "partitions"
                        => begun[t] \subseteq got[t]["account"] \cup state["partitions"]
  /\ \A t \in Callers : pc[t] \notin {"lookup", "account", "partitions"}
                        => begun[t] \subseteq Holds(got[t])

SnapInv == WriteInv /\ VersionInv /\ CacheInv /\ ReaderInv
=============================================================================
