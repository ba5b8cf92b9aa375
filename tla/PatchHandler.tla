---------------------------- MODULE PatchHandler ----------------------------
(***************************************************************************)
(* PATCH as a read-modify-write loop over one item (patch_handler.rs), the *)
(* pipeline's retry of a Replace whose response was lost, and the driver's *)
(* session token cache (session_manager.rs, session_container.rs) that     *)
(* decides which read replicas may serve the Read.                         *)
(*                                                                         *)
(* The service keeps the versions of the item, numbered 1, 2, ...: the     *)
(* number of a version is its ETag and, for the item's partition key       *)
(* range, the LSN in the session tokens.  Writes go to the one write       *)
(* region, whose copy is current; the copies of the read regions lag.      *)
(***************************************************************************)
EXTENDS Naturals, Sequences, FiniteSetsExt

CONSTANTS
  Patches,       \* calls of CosmosDriver::execute_operation with a PATCH
  ReadRegions,   \* regions with a lagging copy
  Attempts,      \* values of max_attempts
  MaxForeign     \* bound: writes to the item by other clients

ASSUME AttemptsAssumption == Attempts \subseteq 1..255
ASSUME MaxForeignAssumption == MaxForeign \in Nat

VARIABLES
  session,    \* session_consistency_active of the driver
  versions,   \* versions[v][w]: how often w's change is part of version v
  copy,       \* copy[r]: the version r has
  cached,     \* the token in the driver's SessionContainer, 0 is none
  patch,      \* the calls
  unacked,    \* history, unacked[p]: writes of p whose response was lost
  foreign     \* history: writes by other clients

serviceVars == <<versions, copy>>
historyVars == <<unacked, foreign>>
vars == <<session, serviceVars, cached, patch, historyVars>>

Other == "other"
ASSUME PatchesAssumption == Other \notin Patches

Current == Len(versions)

\* A body as the caller sees it: whose changes it has, and its _etag.
Body(content, etag) == [content |-> content, etag |-> etag]
NoBody == Body(<<>>, 0)

\* The body a call returns; named is history: the answer of its Replace named the
\* version made, by a body or by an ETag header.
Response(body, named) == [body |-> body, named |-> named]

\* What a call holds: lost counts the attempts that met a 412, token is the
\* effective session token, etag that of the Read, made the version of its
\* Replace.  start and floor are history: the current version when the call was
\* made, and the oldest one its first Read may show.
Unmade == [pc |-> "idle", attempts |-> 0, lost |-> 0, token |-> 0, etag |-> 0, made |-> 0,
           response |-> Response(NoBody, FALSE), start |-> 0, floor |-> 0]

Init ==
  /\ session \in BOOLEAN
  /\ versions = <<[w \in Patches \cup {Other} |-> 0]>>
  /\ copy = [r \in ReadRegions |-> 1]
  /\ cached = 0
  /\ patch = [p \in Patches |-> Unmade]
  /\ unacked = [p \in Patches |-> 0]
  /\ foreign = 0

-----------------------------------------------------------------------------
(* Session tokens *)

Larger(a, b) == IF a > b THEN a ELSE b

\* capture_session_token after a success or a 412: merged into the cache.
capture_session_token(token) == cached' = IF session THEN Larger(cached, token) ELSE cached

\* Faulty variant of resolve_session_token: the cache is not consulted.
ResolveOwnTokenOnly(token) == IF ~session THEN 0 ELSE token

\* resolve_session_token: the operation's own token comes first.  The pipeline
\* sends one only under session consistency.
resolve_session_token(token) ==
  IF ~session THEN 0 ELSE IF token # 0 THEN token ELSE cached

\* The token of a response; 0 is none.
Token(version) == IF session THEN version ELSE 0

\* What this driver's callers have been told was written.
Acknowledged == Max({0} \cup {patch[p].made : p \in {q \in Patches : patch[q].pc = "ok"}})

-----------------------------------------------------------------------------
(* One call *)

\* The call returns pc; its locals are gone.
Returns(p, pc) ==
  [patch EXCEPT ![p] = [@ EXCEPT !.pc = pc, !.attempts = 0, !.token = 0, !.etag = 0, !.floor = 0]]

\* execute_with_dispatcher up to the loop, for a valid PATCH.  The caller may
\* bring a token this driver once gave it.
Start(p, attempts, token) ==
  /\ patch[p].pc = "idle"
  /\ patch' = [patch EXCEPT ![p] =
                 [Unmade EXCEPT !.pc = "read", !.attempts = attempts, !.token = token,
                                !.start = Current,
                                !.floor = IF token # 0 THEN token ELSE Acknowledged]]
  /\ UNCHANGED <<session, serviceVars, cached, historyVars>>

\* A precondition, no operations, no partition key, or a path that overlaps it.
Reject(p) ==
  /\ patch[p].pc = "idle"
  /\ patch' = Returns(p, "failed")
  /\ UNCHANGED <<session, serviceVars, cached, historyVars>>

\* The Read is served by a region whose copy satisfies the token (the others
\* answer 404/1002 and the pipeline moves on).  The token of the response is
\* carried forward.  The operations may not apply to what was read.
ReadItem(p, v) ==
  /\ patch[p].pc = "read"
  /\ v >= resolve_session_token(patch[p].token)
  /\ \/ patch' = [patch EXCEPT ![p].pc    = "replace",
                               ![p].etag  = v,
                               ![p].token = IF Token(v) # 0 THEN Token(v) ELSE @]
     \/ patch' = Returns(p, "failed")
  /\ capture_session_token(Token(v))
  /\ UNCHANGED <<session, serviceVars, historyVars>>

\* Any error but a 412 ends the call: its retries in the pipeline are used up.
\* The item is never deleted, so no 404 brings a token.
SubOperationFails(p) ==
  /\ patch[p].pc \in {"read", "replace"}
  /\ patch' = Returns(p, "failed")
  /\ UNCHANGED <<session, serviceVars, cached, historyVars>>

\* The body that was read with the operations applied, under the ETag it had.
Merged(p) == Body([versions[patch[p].etag] EXCEPT ![p] = @ + 1], patch[p].etag)

\* Faulty variant of Commit: the Replace has no If-Match.
CommitUnconditional(p) ==
  /\ patch[p].pc = "replace"
  /\ versions' = Append(versions, Merged(p).content)
  /\ patch' = [patch EXCEPT ![p].pc = "committed", ![p].made = Current + 1]
  /\ UNCHANGED <<session, copy, cached, historyVars>>

\* The Replace meets its If-Match and is applied; the response is on its way.
Commit(p) ==
  /\ patch[p].pc = "replace" /\ patch[p].etag = Current
  /\ versions' = Append(versions, Merged(p).content)
  /\ patch' = [patch EXCEPT ![p].pc = "committed", ![p].made = Current + 1]
  /\ UNCHANGED <<session, copy, cached, historyVars>>

\* Faulty variant of synthesize_post_image_body: the merged body as it is.
MergedBodyAsIs(merged, body, etag) == IF body # NoBody THEN body ELSE merged

\* The service's body if it sent one; or the merged one, under the ETag the
\* service sent, or as it is when there is none (0).  The service stores JSON
\* objects only, so the merged body is one.
synthesize_post_image_body(merged, body, etag) ==
  CASE body # NoBody -> body
    [] body = NoBody /\ etag = 0 -> merged
    [] OTHER -> [merged EXCEPT !.etag = etag]

\* The response of the Replace arrives, with a body if the caller asked for it
\* (content_response_on_write), with or without the ETag header.
Succeed(p) ==
  LET made == patch[p].made
  IN  /\ patch[p].pc = "committed"
      /\ \E body \in {NoBody, Body(versions[made], made)}, etag \in {0, made} :
           patch' = [Returns(p, "ok") EXCEPT
                       ![p].response = Response(synthesize_post_image_body(Merged(p), body, etag),
                                                body # NoBody \/ etag # 0)]
      /\ capture_session_token(Token(made))
      /\ UNCHANGED <<session, serviceVars, historyVars>>

\* It is lost.  A Replace is idempotent to the pipeline, which repeats it.
LoseResponse(p) ==
  /\ patch[p].pc = "committed"
  /\ patch' = [patch EXCEPT ![p].pc = "replace", ![p].made = 0]
  /\ unacked' = [unacked EXCEPT ![p] = @ + 1]
  /\ UNCHANGED <<session, serviceVars, cached, foreign>>

\* The attempt is spent; without another one the call ends in exhaustion_error.
NextAttempt(p, token) ==
  LET lost == patch[p].lost + 1
  IN  \/ /\ lost < patch[p].attempts
         /\ patch' = [patch EXCEPT ![p] = [@ EXCEPT !.pc = "read", !.lost = lost,
                                                    !.etag = 0, !.token = token]]
      \/ /\ lost = patch[p].attempts
         /\ patch' = [Returns(p, "conflict") EXCEPT ![p].lost = lost]

\* Faulty variant of RaceLost: the token of the 412 is not folded in.
RaceLostForgetful(p) ==
  /\ patch[p].pc = "replace" /\ patch[p].etag # Current
  /\ NextAttempt(p, patch[p].token)
  /\ capture_session_token(Token(Current))
  /\ UNCHANGED <<session, serviceVars, historyVars>>

\* The write region answers 412, with a token of its own.
RaceLost(p) ==
  /\ patch[p].pc = "replace" /\ patch[p].etag # Current
  /\ NextAttempt(p, Larger(patch[p].token, Token(Current)))
  /\ capture_session_token(Token(Current))
  /\ UNCHANGED <<session, serviceVars, historyVars>>

PatchNext(p) ==
  \/ \E attempts \in Attempts, token \in 0..cached : Start(p, attempts, token)
  \/ Reject(p)
  \/ \E v \in {copy[r] : r \in ReadRegions} \cup {Current} : ReadItem(p, v)
  \/ SubOperationFails(p)
  \/ Commit(p) \/ Succeed(p) \/ LoseResponse(p) \/ RaceLost(p)

-----------------------------------------------------------------------------
(* The rest of the world *)

\* Another client writes to the item, keeping what is there.
ForeignWrite ==
  /\ foreign < MaxForeign
  /\ foreign' = foreign + 1
  /\ versions' = Append(versions, [versions[Current] EXCEPT ![Other] = @ + 1])
  /\ UNCHANGED <<session, copy, cached, patch, unacked>>

\* A copy catches up by one version.
Replicate(r) ==
  /\ copy[r] < Current
  /\ copy' = [copy EXCEPT ![r] = @ + 1]
  /\ UNCHANGED <<session, versions, cached, patch, historyVars>>

Next ==
  \/ \E p \in Patches : PatchNext(p)
  \/ ForeignWrite
  \/ \E r \in ReadRegions : Replicate(r)

Spec == Init /\ [][Next]_vars

-----------------------------------------------------------------------------
(* What a PATCH promises *)

\* No write is lost or counted twice without reason: the item has the change of
\* a call once for its success and once for each write of it that was applied
\* but never acknowledged ("PATCH is not exactly-once under transport
\* failures"), and the change of every other client's write.  A call that ends
\* in an error, or in a 412 after its last attempt, and lost no response has
\* changed nothing.
EveryWriteCounts ==
  /\ versions[Current][Other] = foreign
  /\ \A p \in Patches :
       versions[Current][p] = unacked[p] + (IF patch[p].pc \in {"committed", "ok"} THEN 1 ELSE 0)

\* What a successful call returns is the version it made, under that version's
\* ETag whenever the service named it, so that a later conditional write with it
\* works.  When the service did not, the ETag is that of the version the call
\* replaced, so that such a write fails and overwrites nobody's change
\* (synthesize_post_image_body).
ReturnsPostImage ==
  \A p \in Patches :
    LET made == patch[p].made
        etag == IF patch[p].response.named THEN made ELSE made - 1
    IN  patch[p].pc = "ok" => patch[p].response.body = Body(versions[made], etag)

\* Under session consistency an attempt is lost only to a write: but for its
\* first Read, which may be behind, a call meets no more 412s than the item was
\* written to since it was made.  A lagging copy never uses up the attempts.
ConflictsAreRaces ==
  session =>
    \A p \in Patches : patch[p].lost <= 1 + (Current - patch[p].start)

\* Under session consistency a call sees what it must: what this driver told its
\* callers before, or the version of the token it was given, and on a later
\* attempt nothing older than it has seen (the Read, and the 412, before).
ReadsAdvance ==
  [][\A p \in Patches :
       session /\ patch'[p].etag # patch[p].etag /\ patch'[p].etag # 0
         => patch'[p].etag >= Larger(patch[p].floor, patch[p].token)]_vars
=============================================================================
