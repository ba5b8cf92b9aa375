---------------------------- MODULE BearerToken ----------------------------
(***************************************************************************)
(* BearerTokenAuthorizationPolicy: concurrent requests that share one      *)
(* cached access token behind an async read-write lock.  A request         *)
(* authorizes itself from the cache, is sent, and on a 401 response        *)
(* empties the cache and, when the client handles challenges, authorizes   *)
(* itself once more with the options the challenge asks for.  Its caller   *)
(* may drop it wherever it awaits something.                               *)
(*                                                                         *)
(* Tokens are numbered in the order the credential issues them.  The lock  *)
(* prefers writers: nobody starts reading while somebody waits to write.   *)
(***************************************************************************)
EXTENDS Naturals

CONSTANTS
  Requests,
  NoRequest,
  Challenges   \* whether an OnChallenge callback is set

ASSUME NoRequestAssumption == NoRequest \notin Requests
ASSUME ChallengesAssumption == Challenges \in BOOLEAN

VARIABLES
  cache,    \* number of the cached token, 0 when there is none
  age,      \* of the cached token: "fresh", "stale" (should_refresh), "expired"
  grant,    \* options the cached token was acquired with
  issued,   \* tokens issued so far
  readers,  \* requests that hold the lock for reading
  waiting,  \* requests that wait to write
  writer,   \* the request that holds the lock for writing, or NoRequest
  pc,       \* where each request is
  opts,     \* options the request authorizes itself with
  seen,     \* number of the token the request found stale, 0 for none
  header,   \* options of the token in its authorization header
  fetches,  \* calls of get_token
  needs     \* events that leave the cache without a fresh token

tokenVars == <<cache, age, grant, issued>>
lockVars  == <<readers, waiting, writer>>
countVars == <<fetches, needs>>
vars == <<tokenVars, lockVars, pc, opts, seen, header, countVars>>

Options == {"plain", "claims"}
Steps == {"read", "look", "upgrade", "check", "fetch", "reread", "attach",
          "send", "evict", "evicting", "done", "failed", "empty", "rejected", "dropped"}

Init ==
  /\ cache = 0 /\ age = "fresh" /\ grant = "plain" /\ issued = 0
  /\ readers = {} /\ waiting = {} /\ writer = NoRequest
  /\ pc      = [r \in Requests |-> "read"]
  /\ opts    = [r \in Requests |-> "plain"]
  /\ seen    = [r \in Requests |-> 0]
  /\ header  = [r \in Requests |-> "none"]
  /\ fetches = 0
  /\ needs   = 1

Goto(r, where) == pc' = [pc EXCEPT ![r] = where]

-----------------------------------------------------------------------------
(* The lock *)

\* self.access_token.read().await, at the head of authorize and at its end.
AcquireRead(r) ==
  /\ pc[r] \in {"read", "reread"}
  /\ writer = NoRequest /\ waiting = {}
  /\ readers' = readers \cup {r}
  /\ Goto(r, IF pc[r] = "read" THEN "look" ELSE "attach")
  /\ UNCHANGED <<tokenVars, waiting, writer, opts, seen, header, countVars>>

\* self.access_token.write().await begins to wait ...
WantWrite(r) ==
  /\ pc[r] \in {"upgrade", "evict"} /\ r \notin waiting
  /\ waiting' = waiting \cup {r}
  /\ UNCHANGED <<tokenVars, readers, writer, pc, opts, seen, header, countVars>>

\* ... and gets the lock.
AcquireWrite(r) ==
  /\ r \in waiting /\ readers = {} /\ writer = NoRequest
  /\ waiting' = waiting \ {r}
  /\ writer'  = r
  /\ Goto(r, IF pc[r] = "upgrade" THEN "check" ELSE "evicting")
  /\ UNCHANGED <<tokenVars, readers, opts, seen, header, countVars>>

-----------------------------------------------------------------------------
(* authorize *)

\* Faulty variant of Look: the read lock outlives the match.
LookKeepsLock(r) ==
  /\ pc[r] = "look"
  /\ seen' = [seen EXCEPT ![r] = IF cache # 0 /\ age # "fresh" THEN cache ELSE 0]
  /\ Goto(r, IF cache = 0 \/ age # "fresh" THEN "upgrade" ELSE "reread")
  /\ readers' = IF cache = 0 \/ age # "fresh" THEN readers \ {r} ELSE readers
  /\ UNCHANGED <<tokenVars, waiting, writer, opts, header, countVars>>

\* The match on the cached token; each arm drops the read lock.
Look(r) ==
  /\ pc[r] = "look"
  /\ seen' = [seen EXCEPT ![r] = IF cache # 0 /\ age # "fresh" THEN cache ELSE 0]
  /\ Goto(r, IF cache = 0 \/ age # "fresh" THEN "upgrade" ELSE "reread")
  /\ readers' = readers \ {r}
  /\ UNCHANGED <<tokenVars, waiting, writer, opts, header, countVars>>

\* Faulty variant of Check: no second look at the cache.
CheckNothing(r) ==
  /\ pc[r] = "check"
  /\ Goto(r, "fetch") /\ fetches' = fetches + 1
  /\ UNCHANGED <<tokenVars, lockVars, opts, seen, header, needs>>

\* With the write lock: unless another request has replaced the token already,
\* call get_token.
Check(r) ==
  /\ pc[r] = "check"
  /\ IF cache = 0 \/ cache = seen[r]
     THEN Goto(r, "fetch") /\ fetches' = fetches + 1 /\ UNCHANGED writer
     ELSE Goto(r, "reread") /\ writer' = NoRequest /\ UNCHANGED fetches
  /\ UNCHANGED <<tokenVars, readers, waiting, opts, seen, header, needs>>

\* get_token succeeds.  The token may be within its refresh window already.
Fetched(r) ==
  /\ pc[r] = "fetch"
  /\ issued' = issued + 1
  /\ cache'  = issued + 1
  /\ grant'  = opts[r]
  /\ \/ age' = "fresh" /\ UNCHANGED needs
     \/ age' = "stale" /\ needs' = needs + 1
  /\ writer' = NoRequest
  /\ Goto(r, "reread")
  /\ UNCHANGED <<readers, waiting, opts, seen, header, fetches>>

\* get_token fails: only a cached token that has not expired saves the request.
FetchFailed(r) ==
  /\ pc[r] = "fetch"
  /\ Goto(r, IF cache = 0 \/ age = "expired" THEN "failed" ELSE "reread")
  /\ needs'  = needs + 1
  /\ writer' = NoRequest
  /\ UNCHANGED <<tokenVars, readers, waiting, opts, seen, header, fetches>>

\* The cached token, if there still is one, goes into the header.
Attach(r) ==
  /\ pc[r] = "attach"
  /\ readers' = readers \ {r}
  /\ IF cache = 0
     THEN Goto(r, "empty") /\ UNCHANGED header
     ELSE Goto(r, "send") /\ header' = [header EXCEPT ![r] = grant]
  /\ UNCHANGED <<tokenVars, waiting, writer, opts, seen, countVars>>

-----------------------------------------------------------------------------
(* send *)

\* Any response but a 401, or any response to the second attempt, is returned.
Accepted(r) ==
  /\ pc[r] = "send"
  /\ Goto(r, "done")
  /\ UNCHANGED <<tokenVars, lockVars, opts, seen, header, countVars>>

\* A 401 response to the first attempt.
Unauthorized(r) ==
  /\ pc[r] = "send" /\ opts[r] = "plain"
  /\ Goto(r, "evict")
  /\ UNCHANGED <<tokenVars, lockVars, opts, seen, header, countVars>>

\* invalidate_cache drops whatever is cached by now; a challenge is answered
\* with a second attempt.
InvalidateCache(r) ==
  /\ pc[r] = "evicting"
  /\ cache' = 0
  /\ needs' = IF cache # 0 /\ age = "fresh" THEN needs + 1 ELSE needs
  /\ writer' = NoRequest
  /\ \/ /\ Challenges
        /\ opts' = [opts EXCEPT ![r] = "claims"]
        /\ Goto(r, "read")
     \/ Goto(r, "rejected") /\ UNCHANGED opts
  /\ UNCHANGED <<age, grant, issued, readers, waiting, seen, header, fetches>>

\* The caller drops the request at an await.  What it holds of the lock, or
\* waits for, is released; a call of get_token comes to nothing.
Dropped(r) ==
  /\ pc[r] \in {"read", "upgrade", "fetch", "reread", "send", "evict"}
  /\ Goto(r, "dropped")
  /\ waiting' = waiting \ {r}
  /\ writer'  = IF writer = r THEN NoRequest ELSE writer
  /\ needs'   = IF pc[r] = "fetch" THEN needs + 1 ELSE needs
  /\ UNCHANGED <<tokenVars, readers, opts, seen, header, fetches>>

\* Time passes: the cached token enters its refresh window, then expires.
Age ==
  /\ cache # 0 /\ age # "expired"
  /\ \/ age = "fresh" /\ age' = "stale" /\ needs' = needs + 1
     \/ age = "stale" /\ age' = "expired" /\ UNCHANGED needs
  /\ UNCHANGED <<cache, grant, issued, lockVars, pc, opts, seen, header, fetches>>

\* The steps every request takes sooner or later once it can.
Step(r) ==
  \/ AcquireRead(r) \/ WantWrite(r) \/ AcquireWrite(r)
  \/ Look(r) \/ Check(r) \/ Fetched(r) \/ FetchFailed(r) \/ Attach(r)
  \/ Accepted(r) \/ Unauthorized(r) \/ InvalidateCache(r)

Next == (\E r \in Requests : Step(r) \/ Dropped(r)) \/ Age

Spec == Init /\ [][Next]_vars

\* Tasks are polled until they are ready, the lock wakes its waiters, and the
\* credential and the service answer.
FairSpec == Spec /\ \A r \in Requests : WF_vars(Step(r))

-----------------------------------------------------------------------------
TypeOK ==
  /\ cache \in Nat /\ issued \in Nat /\ cache <= issued
  /\ age \in {"fresh", "stale", "expired"}
  /\ grant \in Options
  /\ readers \subseteq Requests /\ waiting \subseteq Requests
  /\ writer \in Requests \cup {NoRequest}
  /\ pc \in [Requests -> Steps]
  /\ opts \in [Requests -> Options]
  /\ seen \in [Requests -> Nat]
  /\ header \in [Requests -> Options \cup {"none"}]
  /\ fetches \in Nat /\ needs \in Nat

\* The lock guards what it should: only its holder is at a step that relies
\* on writing, readers and the writer exclude each other.
LockInv ==
  /\ \A r \in Requests :
       /\ pc[r] \in {"check", "fetch", "evicting"} <=> writer = r
       /\ pc[r] \in {"look", "attach"} <=> r \in readers
       /\ r \in waiting => pc[r] \in {"upgrade", "evict"}
  /\ writer # NoRequest => readers = {}

\* A request that waits to refresh the token it found has not overlooked a
\* newer one that is fresh: if its token is still cached, it is not fresh.
SeenInv ==
  \A r \in Requests :
    /\ seen[r] <= issued
    /\ seen[r] # 0 /\ seen[r] = cache => age # "fresh"

\* Nobody refreshes a fresh token: get_token is called at most once for every
\* event that leaves the cache without one (the start, a token entering its
\* refresh window, a fresh token evicted, a call that failed or was dropped),
\* however many requests find the cache empty or stale at the same time.
NoStampede == fetches <= needs

\* The inductive form: while nobody is fetching and there is no fresh token,
\* one more call is due.
Fetching == \E r \in Requests : pc[r] = "fetch"
Usable   == cache # 0 /\ age = "fresh"
DueInv   == fetches + (IF Fetching \/ Usable THEN 0 ELSE 1) <= needs

\* Every request that is not dropped is answered or fails: the lock cannot be
\* held for ever.
RequestsComplete ==
  \A r \in Requests : <>(pc[r] \in {"done", "failed", "empty", "rejected", "dropped"})
=============================================================================
