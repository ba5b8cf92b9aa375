------------------------- MODULE PatchHandlerProof -------------------------
(***************************************************************************)
(* Proofs about PatchHandler, for any number of PATCH calls, regions,      *)
(* attempts and writes by other clients.                                   *)
(***************************************************************************)
EXTENDS PatchHandler, WellFoundedInduction, TLAPS

Writers == Patches \cup {Other}
Contents == [Writers -> Nat]
Bodies == [content : Contents \cup {<<>>}, etag : Nat]
Responses == [body : Bodies, named : BOOLEAN]
Calls ==
  [pc : {"idle", "read", "replace", "committed", "ok", "conflict", "failed"},
   attempts : Nat, lost : Nat, token : Nat, etag : Nat, made : Nat,
   response : Responses, start : Nat, floor : Nat]

TypeOK ==
  /\ session \in BOOLEAN
  /\ versions \in Seq(Contents) /\ Current \in Nat \ {0}
  /\ copy \in [ReadRegions -> Nat]
  /\ \A r \in ReadRegions : copy[r] \in 1..Current
  /\ cached \in 0..Current
  /\ patch \in [Patches -> Calls]
  /\ unacked \in [Patches -> Nat]
  /\ foreign \in Nat

Open == {"read", "replace", "committed"}

\* What a call knows about the item: the version it read and the one it wrote
\* exist, and the latter is the former with the call's change, and the next one.
ItemInv(p) ==
  LET r == patch[p]
  IN  /\ r.start <= Current /\ r.token <= Current
      /\ r.pc = "idle" => r = Unmade
      /\ r.pc \in {"replace", "committed"} => r.etag \in 1..Current
      /\ r.pc \in {"committed", "ok"} => r.made \in 1..Current
      /\ r.pc = "committed" => versions[r.made] = Merged(p).content /\ r.made = r.etag + 1
      /\ r.pc = "ok" =>
           r.response.body = Body(versions[r.made], IF r.response.named THEN r.made ELSE r.made - 1)

\* Under session consistency: the cache covers what was acknowledged; a call
\* that lost a race carries a token, which moves up with every race it loses;
\* and what it is about to read is bounded from below by its token or the cache.
SessionInv(p) ==
  LET r == patch[p]
  IN  session =>
        /\ r.pc = "ok" => r.made <= cached
        /\ r.lost <= 1 + (Current - r.start)
        /\ r.pc \in Open => r.floor <= Current
        /\ r.pc \in Open /\ r.lost > 0 => r.token # 0 /\ r.lost + r.start <= 1 + r.token
        /\ r.pc = "read" => r.floor <= (IF r.token # 0 THEN r.token ELSE cached)
        /\ r.pc \in {"replace", "committed"} => r.token = r.etag

PatchInv ==
  /\ TypeOK
  /\ EveryWriteCounts
  /\ \A p \in Patches : ItemInv(p) /\ SessionInv(p)

-----------------------------------------------------------------------------
(* Numbers *)

\* A set of natural numbers has a least element.
LEMMA LeastNat ==
  ASSUME NEW T, T \subseteq Nat, T # {}
  PROVE  \E x \in T : \A y \in T : x <= y
<1> DEFINE R == OpToRel(<, Nat)
<1>1. PICK x \in T : \A y \in T : ~(<<y, x>> \in R)
  <2> HIDE DEF R
  <2>1. IsWellFoundedOn(R, Nat)
    BY NatLessThanWellFounded DEF R
  <2> QED BY <2>1, WFMin
<1>2. ASSUME NEW y \in T PROVE x <= y
  <2>1. ~(y < x)
    BY <1>1, <1>2 DEF OpToRel
  <2> QED BY <2>1
<1> QED BY <1>2

\* A bounded one has a greatest, and Max is it.
LEMMA MaxNat ==
  ASSUME NEW S, S \subseteq Nat, S # {}, NEW n \in Nat, \A x \in S : x <= n
  PROVE  Max(S) \in S
<1> DEFINE T == {n - x : x \in S}
<1>1. \A x \in S : n - x \in Nat
  OBVIOUS
<1>2. PICK z \in T : \A y \in T : z <= y
  <2>1. T \subseteq Nat /\ T # {}
    BY <1>1
  <2> HIDE DEF T
  <2> QED BY <2>1, LeastNat
<1>3. PICK x \in S : z = n - x
  OBVIOUS
<1>4. ASSUME NEW y \in S PROVE x >= y
  <2>1. z <= n - y
    BY <1>2
  <2> QED BY <1>3, <2>1
<1> QED BY <1>4 DEF Max

\* What the driver has acknowledged is a version that exists, and one that the
\* session cache covers.
LEMMA AcknowledgedBound ==
  ASSUME TypeOK, \A p \in Patches : ItemInv(p) /\ SessionInv(p)
  PROVE  /\ Acknowledged \in 0..Current
         /\ session => Acknowledged <= cached
<1> DEFINE S == {0} \cup {patch[p].made : p \in {q \in Patches : patch[q].pc = "ok"}}
<1>1. ASSUME NEW x \in S
      PROVE  x \in Nat /\ x <= Current /\ (session => x <= cached)
  <2>1. CASE x = 0
    BY <2>1 DEF TypeOK
  <2>2. CASE x # 0
    <3>1. PICK p \in Patches : patch[p].pc = "ok" /\ x = patch[p].made
      BY <2>2
    <3> QED BY <3>1 DEF ItemInv, SessionInv, TypeOK
  <2> QED BY <2>1, <2>2
<1>2. Max(S) \in S
  <2>1. S \subseteq Nat /\ S # {} /\ \A x \in S : x <= Current
    BY <1>1
  <2>2. Current \in Nat
    BY DEF TypeOK
  <2> HIDE DEF S
  <2> QED BY <2>1, <2>2, MaxNat
<1>3. Acknowledged = Max(S)
  BY DEF Acknowledged
<1> HIDE DEF S
<1>4. Max(S) \in Nat /\ Max(S) <= Current /\ (session => Max(S) <= cached)
  BY <1>1, <1>2
<1> QED BY <1>3, <1>4 DEF TypeOK

-----------------------------------------------------------------------------
(* What a step leaves alone *)

\* Versions are only ever appended and the cache only moves up.
Grows ==
  /\ session' = session
  /\ Current' \in Nat /\ Current <= Current'
  /\ \A v \in 1..Current : versions'[v] = versions[v]
  /\ cached' \in Nat /\ cached <= cached'

LEMMA CallKept ==
  ASSUME TypeOK, NEW q \in Patches, ItemInv(q), SessionInv(q),
         patch'[q] = patch[q], Grows
  PROVE  ItemInv(q)' /\ SessionInv(q)'
<1>1. patch[q] \in Calls /\ Current \in Nat /\ cached \in Nat
  BY DEF TypeOK
<1>2. ItemInv(q)'
  BY <1>1 DEF ItemInv, Grows, Merged, Body, Calls
<1>3. SessionInv(q)'
  BY <1>1 DEF SessionInv, Grows, Calls
<1> QED BY <1>2, <1>3

\* A step of call p that writes nothing to the item.
LEMMA CallStep ==
  ASSUME PatchInv, NEW p \in Patches, NEW n \in Calls,
         patch' = [patch EXCEPT ![p] = n],
         UNCHANGED <<session, versions, copy, foreign>>,
         cached' \in cached..Current,
         unacked' \in [Patches -> Nat],
         \A q \in Patches \ {p} : unacked'[q] = unacked[q],
         unacked'[p] + (IF n.pc \in {"committed", "ok"} THEN 1 ELSE 0)
           = unacked[p] + (IF patch[p].pc \in {"committed", "ok"} THEN 1 ELSE 0),
         ItemInv(p)', SessionInv(p)'
  PROVE  PatchInv'
<1>1. patch' \in [Patches -> Calls] /\ patch'[p] = n
      /\ \A q \in Patches \ {p} : patch'[q] = patch[q]
  BY DEF PatchInv, TypeOK
<1>2. Current' = Current /\ Current \in Nat /\ cached \in Nat
  BY DEF PatchInv, TypeOK, Current
<1>3. TypeOK'
  BY <1>1, <1>2 DEF PatchInv, TypeOK
<1>4. EveryWriteCounts'
  BY <1>1, <1>2 DEF PatchInv, EveryWriteCounts
<1>5. Grows
  BY <1>2 DEF Grows
<1>6. \A q \in Patches : ItemInv(q)' /\ SessionInv(q)'
  BY <1>1, <1>5, CallKept DEF PatchInv
<1> QED BY <1>3, <1>4, <1>6 DEF PatchInv

-----------------------------------------------------------------------------
(* The steps of a call *)

\* The facts about call p that every step of it starts from.
LEMMA CallFacts ==
  ASSUME PatchInv, NEW p \in Patches
  PROVE  /\ patch[p] \in Calls /\ ItemInv(p) /\ SessionInv(p)
         /\ Current \in Nat /\ Current >= 1 /\ cached \in Nat /\ cached <= Current
         /\ session \in BOOLEAN
         /\ unacked \in [Patches -> Nat] /\ unacked[p] \in Nat
BY DEF PatchInv, TypeOK

LEMMA UnmadeCall == Unmade \in Calls
<1>1. Response(NoBody, FALSE) \in Responses
  BY DEF Response, NoBody, Body, Bodies, Responses
<1> QED BY <1>1 DEF Unmade, Calls

LEMMA StartStep ==
  ASSUME PatchInv, NEW p \in Patches, NEW attempts \in Attempts, NEW token \in 0..cached,
         Start(p, attempts, token)
  PROVE  PatchInv'
<1> DEFINE f == IF token # 0 THEN token ELSE Acknowledged
           n == [Unmade EXCEPT !.pc = "read", !.attempts = attempts, !.token = token,
                               !.start = Current, !.floor = f]
<1>1. patch[p].pc = "idle" /\ patch' = [patch EXCEPT ![p] = n]
  BY DEF Start
<1>2. UNCHANGED <<session, versions, copy, foreign, cached, unacked>>
  BY DEF Start, serviceVars, historyVars
<1>3. f \in Nat /\ f <= Current /\ (session => f <= (IF token # 0 THEN token ELSE cached))
  <2>1. Acknowledged \in 0..Current /\ (session => Acknowledged <= cached)
    BY AcknowledgedBound DEF PatchInv
  <2> QED BY <2>1, CallFacts
<1>4. attempts \in Nat /\ token \in Nat /\ token <= Current
  BY AttemptsAssumption, CallFacts
<1> HIDE DEF f
<1>5. /\ n \in Calls /\ n.pc = "read" /\ n.token = token /\ n.start = Current
      /\ n.floor = f /\ n.lost = 0
  BY <1>3, <1>4, UnmadeCall, CallFacts DEF Calls, Unmade
<1> HIDE DEF n
<1>6. patch'[p] = n /\ Current' = Current
  BY <1>1, <1>2 DEF PatchInv, TypeOK, Current
<1>7. ItemInv(p)'
  BY <1>4, <1>5, <1>6, CallFacts DEF ItemInv
<1>8. SessionInv(p)'
  BY <1>2, <1>3, <1>4, <1>5, <1>6, CallFacts DEF SessionInv, Open
<1>9. cached' \in cached..Current /\ unacked' \in [Patches -> Nat]
      /\ \A q \in Patches : unacked'[q] = unacked[q]
  BY <1>2, CallFacts
<1>10. n.pc \notin {"committed", "ok"} /\ patch[p].pc \notin {"committed", "ok"}
  BY <1>1, <1>5
<1> QED BY <1>1, <1>2, <1>5, <1>7, <1>8, <1>9, <1>10, CallStep

\* A call that returns without success forgets what it held.
LEMMA ReturnStep ==
  ASSUME PatchInv, NEW p \in Patches, NEW pc \in {"failed", "conflict"},
         NEW lost \in Nat, patch[p].pc \in {"idle", "read", "replace"},
         patch' = [patch EXCEPT ![p] =
                     [patch[p] EXCEPT !.pc = pc, !.attempts = 0, !.token = 0, !.etag = 0,
                                      !.floor = 0, !.lost = lost]],
         session => lost <= 1 + (Current - patch[p].start),
         UNCHANGED <<session, versions, copy, foreign, unacked>>,
         cached' \in cached..Current
  PROVE  PatchInv'
<1> DEFINE n == [patch[p] EXCEPT !.pc = pc, !.attempts = 0, !.token = 0, !.etag = 0,
                                 !.floor = 0, !.lost = lost]
<1>1. n \in Calls /\ n.pc = pc /\ n.token = 0 /\ n.start = patch[p].start /\ n.lost = lost
  BY CallFacts DEF Calls
<1>2. patch' = [patch EXCEPT ![p] = n]
  OBVIOUS
<1> HIDE DEF n
<1>3. patch'[p] = n /\ Current' = Current
  BY <1>2 DEF PatchInv, TypeOK, Current
<1>4. ItemInv(p)'
  BY <1>1, <1>3, CallFacts DEF ItemInv
<1>5. SessionInv(p)'
  BY <1>1, <1>3, CallFacts DEF SessionInv, Open
<1> QED BY <1>1, <1>2, <1>4, <1>5, CallFacts, CallStep

\* Returns(p, pc) is such a step, with the count of lost races as it is.
LEMMA ReturnsIs ==
  ASSUME PatchInv, NEW p \in Patches, NEW pc, NEW lost
  PROVE  Returns(p, pc) =
              [patch EXCEPT ![p] = [patch[p] EXCEPT !.pc = pc, !.attempts = 0, !.token = 0,
                                      !.etag = 0, !.floor = 0, !.lost = patch[p].lost]]
         /\ [Returns(p, pc) EXCEPT ![p].lost = lost] =
              [patch EXCEPT ![p] = [patch[p] EXCEPT !.pc = pc, !.attempts = 0, !.token = 0,
                                      !.etag = 0, !.floor = 0, !.lost = lost]]
BY CallFacts DEF PatchInv, TypeOK, Returns, Calls

LEMMA RejectStep ==
  ASSUME PatchInv, NEW p \in Patches, Reject(p) \/ SubOperationFails(p)
  PROVE  PatchInv'
<1>1. /\ patch' = Returns(p, "failed") /\ patch[p].pc \in {"idle", "read", "replace"}
      /\ UNCHANGED <<session, versions, copy, foreign, unacked, cached>>
  BY DEF Reject, SubOperationFails, serviceVars, historyVars
<1>2. patch[p].lost \in Nat /\ (session => patch[p].lost <= 1 + (Current - patch[p].start))
  BY CallFacts DEF SessionInv, Calls
<1>3. cached' \in cached..Current
  BY <1>1, CallFacts
<1> QED BY <1>1, <1>2, <1>3, ReturnsIs, ReturnStep

\* What the session cache becomes when a response names version v.
LEMMA CaptureBound ==
  ASSUME PatchInv, NEW v \in 1..Current, capture_session_token(Token(v))
  PROVE  cached' \in cached..Current /\ (session => v <= cached')
BY DEF PatchInv, TypeOK, capture_session_token, Token, Larger

\* A Read that succeeds: the token is what was read, if tokens are used.
LEMMA ReadStep ==
  ASSUME PatchInv, NEW p \in Patches, NEW v \in 1..Current, ReadItem(p, v)
  PROVE  PatchInv'
<1>0. /\ UNCHANGED <<session, versions, copy, foreign, unacked>>
      /\ patch[p].pc = "read" /\ v >= resolve_session_token(patch[p].token)
      /\ cached' \in cached..Current
  BY CaptureBound DEF ReadItem, serviceVars, historyVars
<1>1. CASE patch' = Returns(p, "failed")
  <2>1. patch[p].lost \in Nat /\ (session => patch[p].lost <= 1 + (Current - patch[p].start))
    BY CallFacts DEF SessionInv, Calls
  <2> QED BY <1>0, <1>1, <2>1, ReturnsIs, ReturnStep
<1>2. CASE patch' # Returns(p, "failed")
  <2> DEFINE t == IF Token(v) # 0 THEN Token(v) ELSE patch[p].token
             n == [patch[p] EXCEPT !.pc = "replace", !.etag = v, !.token = t]
  <2>0. patch' = [patch EXCEPT ![p].pc = "replace", ![p].etag = v, ![p].token = t]
    BY <1>2 DEF ReadItem
  <2>1. patch' = [patch EXCEPT ![p] = n]
    BY <2>0 DEF PatchInv, TypeOK
  <2>2. t \in Nat /\ t <= Current /\ (session => t = v)
    BY CallFacts DEF Token, ItemInv, Calls
  <2> HIDE DEF t
  <2>r. patch[p] \in Calls /\ v \in Nat
    BY CallFacts
  <2>3. /\ n \in Calls /\ n.pc = "replace" /\ n.etag = v /\ n.token = t
        /\ n.start = patch[p].start /\ n.lost = patch[p].lost /\ n.floor = patch[p].floor
    BY <2>2, <2>r DEF Calls
  <2> HIDE DEF n
  <2>4. patch'[p] = n /\ Current' = Current
    BY <1>0, <2>1 DEF PatchInv, TypeOK, Current
  <2>5. ItemInv(p)'
    BY <2>2, <2>3, <2>4, CallFacts DEF ItemInv
  <2>6. session => patch[p].token <= v
    BY <1>0, CallFacts DEF resolve_session_token, Calls
  <2>7. SessionInv(p)'
    BY <1>0, <2>2, <2>3, <2>4, <2>6, CallFacts DEF SessionInv, Open, Calls
  <2>8. unacked' \in [Patches -> Nat] /\ \A q \in Patches : unacked'[q] = unacked[q]
    BY <1>0, CallFacts
  <2>9. n.pc \notin {"committed", "ok"} /\ patch[p].pc \notin {"committed", "ok"}
    BY <1>0, <2>3
  <2> QED BY <1>0, <2>1, <2>3, <2>5, <2>7, <2>8, <2>9, CallStep
<1> QED BY <1>1, <1>2

\* The regions' copies are versions that exist.
LEMMA CopiesExist ==
  ASSUME PatchInv, NEW v \in {copy[r] : r \in ReadRegions} \cup {Current}
  PROVE  v \in 1..Current
BY DEF PatchInv, TypeOK

\* What the call returns is the version it made, whoever put the body together.
LEMMA SucceedStep ==
  ASSUME PatchInv, NEW p \in Patches, Succeed(p)
  PROVE  PatchInv'
<1>0. patch[p].pc = "committed" /\ UNCHANGED <<session, versions, copy, foreign, unacked>>
  BY DEF Succeed, serviceVars, historyVars
<1> DEFINE made == patch[p].made
<1>1. /\ made \in 1..Current /\ made \in Nat /\ made # 0
      /\ versions[made] = Merged(p).content /\ made = patch[p].etag + 1 /\ patch[p].etag \in Nat
  BY <1>0, CallFacts DEF ItemInv, Calls
<1>2. cached' \in cached..Current /\ (session => made <= cached')
  BY <1>1, CaptureBound DEF Succeed
<1>p. PICK body \in {NoBody, Body(versions[made], made)}, etag \in {0, made} :
        patch' = [Returns(p, "ok") EXCEPT
                    ![p].response = Response(synthesize_post_image_body(Merged(p), body, etag),
                                             body # NoBody \/ etag # 0)]
  BY DEF Succeed
<1> DEFINE named == body # NoBody \/ etag # 0
           e == IF named THEN made ELSE made - 1
           b == Response(Body(versions[made], e), named)
           n == [patch[p] EXCEPT !.pc = "ok", !.attempts = 0, !.token = 0, !.etag = 0,
                                 !.floor = 0, !.response = b]
<1>3. synthesize_post_image_body(Merged(p), body, etag) = Body(versions[made], e)
  <2>1. CASE body # NoBody
    BY <2>1 DEF synthesize_post_image_body
  <2>2. CASE body = NoBody /\ etag = 0
    <3>1. Merged(p) = Body(versions[made], patch[p].etag)
      BY <1>1 DEF Merged, Body
    <3>2. e = patch[p].etag
      BY <1>1, <2>2
    <3> QED BY <2>2, <3>1, <3>2 DEF synthesize_post_image_body
  <2>3. CASE body = NoBody /\ etag # 0
    <3>1. [Merged(p) EXCEPT !.etag = made] = Body(versions[made], made)
      BY <1>1 DEF Merged, Body
    <3> QED BY <2>3, <3>1 DEF synthesize_post_image_body
  <2> QED BY <2>1, <2>2, <2>3
<1>4. patch' = [Returns(p, "ok") EXCEPT ![p].response = b]
  BY <1>p, <1>3
<1>5. b \in Responses /\ b.named = named /\ b.body = Body(versions[made], e)
  <2>1. named \in BOOLEAN /\ e \in Nat
    BY <1>1
  <2>2. versions[made] \in Contents
    BY <1>1 DEF PatchInv, TypeOK, Current
  <2> HIDE DEF named, e
  <2> QED BY <2>1, <2>2 DEF Response, Body, Bodies, Responses
<1> HIDE DEF b
<1>6. patch' = [patch EXCEPT ![p] = n]
  BY <1>4, CallFacts DEF PatchInv, TypeOK, Returns, Calls
<1>7. /\ n \in Calls /\ n.pc = "ok" /\ n.token = 0 /\ n.start = patch[p].start
      /\ n.lost = patch[p].lost /\ n.made = made /\ n.response = b
  BY <1>5, CallFacts DEF Calls
<1> HIDE DEF n, made
<1>8. patch'[p] = n /\ Current' = Current
  BY <1>0, <1>6 DEF PatchInv, TypeOK, Current
<1>9. ItemInv(p)'
  <2>1. n.response.body = Body(versions[n.made], IF n.response.named THEN n.made ELSE n.made - 1)
    BY <1>5, <1>7
  <2> HIDE DEF e, named
  <2> QED BY <1>0, <1>1, <1>7, <1>8, <2>1, CallFacts DEF ItemInv
<1>10. SessionInv(p)'
  BY <1>0, <1>2, <1>7, <1>8, CallFacts DEF SessionInv, Open
<1>11. unacked' \in [Patches -> Nat] /\ \A q \in Patches : unacked'[q] = unacked[q]
  BY <1>0, CallFacts
<1>12. n.pc \in {"committed", "ok"} /\ patch[p].pc \in {"committed", "ok"}
  BY <1>0, <1>7
<1> QED BY <1>0, <1>2, <1>6, <1>7, <1>9, <1>10, <1>11, <1>12, CallStep

LEMMA LoseStep ==
  ASSUME PatchInv, NEW p \in Patches, LoseResponse(p)
  PROVE  PatchInv'
<1> DEFINE n == [patch[p] EXCEPT !.pc = "replace", !.made = 0]
<1>0. /\ patch[p].pc = "committed"
      /\ UNCHANGED <<session, versions, copy, foreign, cached>>
      /\ unacked' = [unacked EXCEPT ![p] = @ + 1]
  BY DEF LoseResponse, serviceVars
<1>1. patch' = [patch EXCEPT ![p] = n]
  BY DEF LoseResponse, PatchInv, TypeOK
<1>2. /\ n \in Calls /\ n.pc = "replace" /\ n.token = patch[p].token
      /\ n.start = patch[p].start /\ n.lost = patch[p].lost
      /\ n.etag = patch[p].etag /\ n.floor = patch[p].floor
  BY CallFacts DEF Calls
<1> HIDE DEF n
<1>3. patch'[p] = n /\ Current' = Current
  BY <1>0, <1>1 DEF PatchInv, TypeOK, Current
<1>4. ItemInv(p)'
  BY <1>0, <1>2, <1>3, CallFacts DEF ItemInv
<1>5. SessionInv(p)'
  BY <1>0, <1>2, <1>3, CallFacts DEF SessionInv, Open
<1>6. unacked' \in [Patches -> Nat] /\ unacked'[p] = unacked[p] + 1
      /\ \A q \in Patches \ {p} : unacked'[q] = unacked[q]
  BY <1>0, CallFacts
<1>7. cached' \in cached..Current /\ unacked[p] \in Nat
  BY <1>0, CallFacts
<1>8. n.pc \notin {"committed", "ok"} /\ patch[p].pc \in {"committed", "ok"}
  BY <1>0, <1>2
<1>9. unacked'[p] + (IF n.pc \in {"committed", "ok"} THEN 1 ELSE 0)
        = unacked[p] + (IF patch[p].pc \in {"committed", "ok"} THEN 1 ELSE 0)
  BY <1>6, <1>7, <1>8
<1> QED BY <1>0, <1>1, <1>2, <1>4, <1>5, <1>6, <1>7, <1>9, CallStep

\* A race is lost to a version newer than the token, and the token moves there.
LEMMA RaceStep ==
  ASSUME PatchInv, NEW p \in Patches, RaceLost(p)
  PROVE  PatchInv'
<1> DEFINE token == Larger(patch[p].token, Token(Current))
           lost == patch[p].lost + 1
<1>0. /\ patch[p].pc = "replace" /\ patch[p].etag # Current
      /\ UNCHANGED <<session, versions, copy, foreign, unacked>>
  BY DEF RaceLost, serviceVars, historyVars
<1>1. cached' \in cached..Current
  BY CaptureBound, CallFacts DEF RaceLost
<1>2. token \in Nat /\ token <= Current /\ (session => token = Current)
  BY CallFacts DEF Larger, Token, ItemInv, Calls
<1>3. lost \in Nat /\ lost > 0 /\ (session => lost <= 1 + (Current - patch[p].start))
  <2>1. patch[p].etag < Current
    BY <1>0, CallFacts DEF ItemInv
  <2> QED BY <1>0, <2>1, CallFacts DEF SessionInv, ItemInv, Open, Calls
<1>4. CASE patch' = [Returns(p, "conflict") EXCEPT ![p].lost = lost]
  <2> HIDE DEF lost
  <2>1. patch' = [patch EXCEPT ![p] =
                    [patch[p] EXCEPT !.pc = "conflict", !.attempts = 0, !.token = 0,
                                     !.etag = 0, !.floor = 0, !.lost = lost]]
    BY <1>4, CallFacts DEF PatchInv, TypeOK, Returns, Calls
  <2> QED BY <1>0, <1>1, <1>3, <2>1, ReturnStep
<1>5. CASE patch' # [Returns(p, "conflict") EXCEPT ![p].lost = lost]
  <2> DEFINE n == [patch[p] EXCEPT !.pc = "read", !.lost = lost, !.etag = 0,
                                   !.token = token]
  <2>1. patch' = [patch EXCEPT ![p] = n]
    BY <1>5 DEF RaceLost, NextAttempt
  <2> HIDE DEF token, lost
  <2>2. /\ n \in Calls /\ n.pc = "read" /\ n.token = token
        /\ n.start = patch[p].start /\ n.lost = lost /\ n.floor = patch[p].floor
    BY <1>2, <1>3, CallFacts DEF Calls
  <2> HIDE DEF n
  <2>3. patch'[p] = n /\ Current' = Current
    BY <1>0, <2>1 DEF PatchInv, TypeOK, Current
  <2>4. ItemInv(p)'
    BY <1>2, <2>2, <2>3, CallFacts DEF ItemInv
  <2>5. SessionInv(p)'
    BY <1>0, <1>2, <1>3, <2>2, <2>3, CallFacts DEF SessionInv, ItemInv, Open, Calls
  <2>6. unacked' \in [Patches -> Nat] /\ \A q \in Patches : unacked'[q] = unacked[q]
    BY <1>0, CallFacts
  <2>7. n.pc \notin {"committed", "ok"} /\ patch[p].pc \notin {"committed", "ok"}
    BY <1>0, <2>2
  <2> QED BY <1>0, <1>1, <2>1, <2>2, <2>4, <2>5, <2>6, <2>7, CallStep
<1> QED BY <1>4, <1>5

-----------------------------------------------------------------------------
(* Writes to the item *)

AddsVersion(c) == versions' = Append(versions, c)

LEMMA AppendVersion ==
  ASSUME TypeOK, NEW c \in Contents, AddsVersion(c), UNCHANGED <<session, copy, cached>>
  PROVE  /\ Grows
         /\ Current' = Current + 1 /\ versions'[Current + 1] = c
         /\ versions' \in Seq(Contents)
         /\ \A r \in ReadRegions : copy'[r] \in 1..Current'
         /\ cached' \in 0..Current'
<1>1. versions \in Seq(Contents) /\ Current \in Nat /\ Current = Len(versions)
  BY DEF TypeOK, Current
<1>2. /\ versions' \in Seq(Contents) /\ Current' = Current + 1
      /\ versions'[Current + 1] = c
      /\ \A v \in 1..Current : versions'[v] = versions[v]
  BY <1>1 DEF AddsVersion, Current
<1>3. Current' \in Nat /\ Current <= Current' /\ cached \in Nat
  BY <1>1, <1>2 DEF TypeOK
<1>4. Grows
  BY <1>2, <1>3 DEF Grows
<1>5. ASSUME NEW r \in ReadRegions PROVE copy'[r] \in 1..Current'
  BY <1>1, <1>2 DEF TypeOK
<1>6. cached' \in 0..Current'
  BY <1>1, <1>2 DEF TypeOK
<1> QED BY <1>2, <1>4, <1>5, <1>6

\* A Replace that is applied adds the call's change to the current version.
LEMMA CommitStep ==
  ASSUME PatchInv, NEW p \in Patches, Commit(p)
  PROVE  PatchInv'
<1> DEFINE c == Merged(p).content
           n == [patch[p] EXCEPT !.pc = "committed", !.made = Current + 1]
<1>0. /\ patch[p].pc = "replace" /\ patch[p].etag = Current
      /\ AddsVersion(c)
      /\ UNCHANGED <<session, copy, cached, unacked, foreign>>
  BY DEF Commit, AddsVersion, historyVars
<1>1. Current \in Nat /\ Current \in 1..Current /\ versions[Current] \in Contents
  BY CallFacts DEF PatchInv, TypeOK, Current
<1>2. c = [versions[Current] EXCEPT ![p] = @ + 1]
  BY <1>0 DEF Merged, Body
<1>3. /\ c \in Contents /\ c[p] = versions[Current][p] + 1
      /\ \A w \in Writers \ {p} : c[w] = versions[Current][w]
  BY <1>1, <1>2 DEF Contents, Writers
<1> HIDE DEF c
<1>4. /\ Grows
      /\ Current' = Current + 1 /\ versions'[Current + 1] = c
      /\ versions' \in Seq(Contents)
      /\ \A r \in ReadRegions : copy'[r] \in 1..Current'
      /\ cached' \in 0..Current'
  BY <1>0, <1>3, AppendVersion DEF PatchInv
<1>5. patch' = [patch EXCEPT ![p] = n]
  BY DEF Commit, PatchInv, TypeOK
<1>6. /\ n \in Calls /\ n.pc = "committed" /\ n.made = Current + 1
      /\ n.token = patch[p].token /\ n.start = patch[p].start /\ n.lost = patch[p].lost
      /\ n.etag = patch[p].etag /\ n.floor = patch[p].floor
  <2>1. patch[p] \in Calls /\ Current + 1 \in Nat
    BY <1>1, CallFacts
  <2> QED BY <2>1 DEF Calls
<1> HIDE DEF n
<1>7. /\ patch' \in [Patches -> Calls] /\ patch'[p] = n
      /\ \A q \in Patches \ {p} : patch'[q] = patch[q]
  BY <1>5, <1>6 DEF PatchInv, TypeOK
<1>8. TypeOK'
  BY <1>0, <1>1, <1>4, <1>7 DEF PatchInv, TypeOK
<1>9. EveryWriteCounts'
  <2>1. Other \in Writers /\ Other # p /\ \A q \in Patches : q \in Writers
    BY PatchesAssumption DEF Writers
  <2>2. versions'[Current'] = c
    BY <1>4
  <2>3. versions'[Current'][Other] = foreign'
    BY <1>0, <1>3, <2>1, <2>2 DEF PatchInv, EveryWriteCounts
  <2>4. ASSUME NEW q \in Patches \ {p}
        PROVE  versions'[Current'][q] =
                 unacked'[q] + (IF patch'[q].pc \in {"committed", "ok"} THEN 1 ELSE 0)
    BY <1>0, <1>3, <1>7, <2>1, <2>2 DEF PatchInv, EveryWriteCounts
  <2>5. versions'[Current'][p] =
          unacked'[p] + (IF patch'[p].pc \in {"committed", "ok"} THEN 1 ELSE 0)
    BY <1>0, <1>3, <1>6, <1>7, <2>2, CallFacts DEF PatchInv, EveryWriteCounts
  <2> QED BY <2>3, <2>4, <2>5 DEF EveryWriteCounts
<1>10. ASSUME NEW q \in Patches \ {p} PROVE ItemInv(q)' /\ SessionInv(q)'
  BY <1>4, <1>7, CallKept DEF PatchInv
<1>11. Merged(p)'.content = c
  BY <1>0, <1>1, <1>2, <1>4, <1>6, <1>7 DEF Merged, Body, Grows
<1>12. ItemInv(p)'
  <2>1. /\ n.start \in Nat /\ n.start <= Current /\ n.token \in Nat /\ n.token <= Current
        /\ n.etag = Current /\ n.pc = "committed" /\ n.made = Current + 1
    BY <1>0, <1>6, CallFacts DEF ItemInv, Calls
  <2>2. n.start <= Current' /\ n.token <= Current' /\ n.etag \in 1..Current'
        /\ n.made \in 1..Current'
    BY <1>1, <1>4, <2>1
  <2>3. versions'[n.made] = Merged(p)'.content
    BY <1>4, <1>11, <2>1
  <2> QED BY <1>7, <2>1, <2>2, <2>3 DEF ItemInv
<1>13. SessionInv(p)'
  <2>1. n \in Calls /\ Current' = Current + 1 /\ session' = session /\ patch'[p] = n
    BY <1>4, <1>6, <1>7 DEF Grows
  <2>2. session => /\ n.lost <= 1 + (Current - n.start) /\ n.floor <= Current
                   /\ n.lost > 0 => n.token # 0 /\ n.lost + n.start <= 1 + n.token
                   /\ n.token = n.etag
    BY <1>0, <1>6, CallFacts DEF SessionInv, Open
  <2>3. session => n.lost <= 1 + (Current' - n.start) /\ n.floor <= Current'
    BY <1>1, <2>1, <2>2 DEF Calls
  <2> QED BY <1>6, <2>1, <2>2, <2>3 DEF SessionInv
<1> QED BY <1>8, <1>9, <1>10, <1>12, <1>13 DEF PatchInv

LEMMA ForeignStep ==
  ASSUME PatchInv, ForeignWrite
  PROVE  PatchInv'
<1> DEFINE c == [versions[Current] EXCEPT ![Other] = @ + 1]
<1>0. /\ foreign' = foreign + 1 /\ AddsVersion(c)
      /\ UNCHANGED <<session, copy, cached, patch, unacked>>
  BY DEF ForeignWrite, AddsVersion
<1>1. /\ Current \in Nat /\ Current \in 1..Current /\ versions[Current] \in Contents
      /\ foreign \in Nat
  BY DEF PatchInv, TypeOK, Current
<1>2. /\ c \in Contents /\ c[Other] = versions[Current][Other] + 1
      /\ \A p \in Patches : c[p] = versions[Current][p]
  BY <1>1, PatchesAssumption DEF Contents, Writers
<1> HIDE DEF c
<1>3. /\ Grows
      /\ Current' = Current + 1 /\ versions'[Current + 1] = c
      /\ versions' \in Seq(Contents)
      /\ \A r \in ReadRegions : copy'[r] \in 1..Current'
      /\ cached' \in 0..Current'
  BY <1>0, <1>2, AppendVersion DEF PatchInv
<1>4. TypeOK'
  BY <1>0, <1>1, <1>3 DEF PatchInv, TypeOK
<1>5. EveryWriteCounts'
  BY <1>0, <1>2, <1>3 DEF PatchInv, EveryWriteCounts
<1>6. ASSUME NEW q \in Patches PROVE ItemInv(q)' /\ SessionInv(q)'
  BY <1>0, <1>3, CallKept DEF PatchInv
<1> QED BY <1>4, <1>5, <1>6 DEF PatchInv

LEMMA ReplicateStep ==
  ASSUME PatchInv, NEW r \in ReadRegions, Replicate(r)
  PROVE  PatchInv'
<1>1. /\ copy[r] < Current /\ copy' = [copy EXCEPT ![r] = @ + 1]
      /\ UNCHANGED <<session, versions, cached, patch, unacked, foreign>>
  BY DEF Replicate, historyVars
<1>2. Current' = Current /\ Current \in Nat
  BY <1>1 DEF PatchInv, TypeOK, Current
<1>3. copy' \in [ReadRegions -> Nat] /\ \A s \in ReadRegions : copy'[s] \in 1..Current
  BY <1>1, <1>2 DEF PatchInv, TypeOK
<1>4. TypeOK'
  BY <1>1, <1>2, <1>3 DEF PatchInv, TypeOK
<1>5. EveryWriteCounts'
  BY <1>1, <1>2 DEF PatchInv, EveryWriteCounts
<1>6. Grows
  BY <1>1, <1>2 DEF Grows, PatchInv, TypeOK
<1>7. ASSUME NEW q \in Patches PROVE ItemInv(q)' /\ SessionInv(q)'
  BY <1>1, <1>6, CallKept DEF PatchInv
<1> QED BY <1>4, <1>5, <1>7 DEF PatchInv

-----------------------------------------------------------------------------
(* Theorems *)

LEMMA PatchInvInit == Init => PatchInv
<1> SUFFICES ASSUME Init PROVE PatchInv
  OBVIOUS
<1> DEFINE first == [w \in Patches \cup {Other} |-> 0]
<1>1. first \in Contents /\ \A w \in Writers : first[w] = 0
  BY DEF Contents, Writers
<1>2. versions = <<first>>
  BY DEF Init
<1> HIDE DEF first
<1>3. versions \in Seq(Contents) /\ Current = 1 /\ versions[Current] = first
  BY <1>1, <1>2 DEF Current
<1>4. TypeOK
  BY <1>3, UnmadeCall DEF Init, TypeOK
<1>5. \A p \in Patches : patch[p] = Unmade /\ unacked[p] = 0
  BY DEF Init
<1>6. EveryWriteCounts
  <2>1. foreign = 0
    BY DEF Init
  <2> QED BY <1>1, <1>3, <1>5, <2>1 DEF EveryWriteCounts, Unmade, Writers
<1>7. \A p \in Patches : ItemInv(p)
  <2>1. Unmade.pc = "idle" /\ Unmade.start = 0 /\ Unmade.token = 0
    BY DEF Unmade
  <2> QED BY <1>3, <1>5, <2>1 DEF ItemInv
<1>8. \A p \in Patches : SessionInv(p)
  BY <1>3, <1>5 DEF SessionInv, Unmade, Open
<1> QED BY <1>4, <1>6, <1>7, <1>8 DEF PatchInv

LEMMA PatchInvStep == PatchInv /\ [Next]_vars => PatchInv'
<1> SUFFICES ASSUME PatchInv, [Next]_vars PROVE PatchInv'
  OBVIOUS
<1>1. ASSUME NEW p \in Patches, PatchNext(p) PROVE PatchInv'
  BY <1>1, StartStep, RejectStep, ReadStep, CopiesExist, CommitStep, SucceedStep, LoseStep,
     RaceStep
  DEF PatchNext
<1>2. CASE ForeignWrite
  BY <1>2, ForeignStep
<1>3. ASSUME NEW r \in ReadRegions, Replicate(r) PROVE PatchInv'
  BY <1>3, ReplicateStep
<1>4. CASE UNCHANGED vars
  <2>1. UNCHANGED <<session, versions, copy, cached, patch, unacked, foreign>>
    BY <1>4 DEF vars, serviceVars, historyVars
  <2> QED BY <2>1 DEF PatchInv, TypeOK, EveryWriteCounts, ItemInv, SessionInv, Current, Merged
<1> QED BY <1>1, <1>2, <1>3, <1>4 DEF Next

\* However calls, regions and other clients interleave, and whatever responses
\* are lost, the item has every acknowledged PATCH exactly once and every
\* unacknowledged write of one exactly once (patch_handler.rs, If-Match).
THEOREM EveryWriteCountsTheorem == Spec => []EveryWriteCounts
<1>1. PatchInv => EveryWriteCounts
  BY DEF PatchInv
<1> QED BY <1>1, PatchInvInit, PatchInvStep, PTL DEF Spec

\* What a successful call returns is the version its own Replace made, with that
\* version's ETag if the service named it and with the ETag of the version it
\* replaced if not (synthesize_post_image_body).
THEOREM PostImageTheorem == Spec => []ReturnsPostImage
<1>1. PatchInv => ReturnsPostImage
  BY DEF PatchInv, ItemInv, ReturnsPostImage
<1> QED BY <1>1, PatchInvInit, PatchInvStep, PTL DEF Spec

\* Under session consistency attempts are used up by writes of others, not by a
\* region that lags: the token of the 412 is folded into the next Read.
THEOREM ConflictsTheorem == Spec => []ConflictsAreRaces
<1>1. PatchInv => ConflictsAreRaces
  BY DEF PatchInv, SessionInv, ConflictsAreRaces
<1> QED BY <1>1, PatchInvInit, PatchInvStep, PTL DEF Spec

\* Under session consistency no Read goes back: not behind what the driver has
\* acknowledged or the caller's token, nor behind what the call has seen.
THEOREM ReadsAdvanceTheorem == Spec => ReadsAdvance
<1> DEFINE Advance ==
      \A p \in Patches :
        session /\ patch'[p].etag # patch[p].etag /\ patch'[p].etag # 0
          => patch'[p].etag >= Larger(patch[p].floor, patch[p].token)
<1>1. ASSUME PatchInv, [Next]_vars PROVE [Advance]_vars
  <2> SUFFICES ASSUME NEW q \in Patches, Next, session,
                      patch'[q].etag # patch[q].etag, patch'[q].etag # 0
               PROVE  patch'[q].etag >= Larger(patch[q].floor, patch[q].token)
    BY <1>1
  <2>0. patch \in [Patches -> Calls] /\ patch[q] \in Calls
    BY <1>1 DEF PatchInv, TypeOK
  <2>1. PICK p \in Patches : PatchNext(p)
    BY DEF Next, ForeignWrite, Replicate
  <2>2. ASSUME NEW n, patch' = [patch EXCEPT ![p] = n], n.etag \in {0, patch[p].etag}
        PROVE  FALSE
    BY <2>0, <2>2
  <2>r. ASSUME NEW pc, NEW lost, NEW response,
               \/ patch' = Returns(p, pc)
               \/ patch' = [Returns(p, pc) EXCEPT ![p].lost = lost]
               \/ patch' = [Returns(p, pc) EXCEPT ![p].response = response]
        PROVE  FALSE
    <3> DEFINE n == [patch[p] EXCEPT !.pc = pc, !.attempts = 0, !.token = 0, !.etag = 0,
                                     !.floor = 0]
    <3>0. patch[p] \in Calls
      BY <2>0
    <3>1. n.etag = 0 /\ [n EXCEPT !.lost = lost].etag = 0
          /\ [n EXCEPT !.response = response].etag = 0
      BY <3>0 DEF Calls
    <3>2. Returns(p, pc) = [patch EXCEPT ![p] = n]
      BY <2>0 DEF Returns
    <3> HIDE DEF n
    <3>3. /\ [Returns(p, pc) EXCEPT ![p].lost = lost]
                = [patch EXCEPT ![p] = [n EXCEPT !.lost = lost]]
          /\ [Returns(p, pc) EXCEPT ![p].response = response]
                = [patch EXCEPT ![p] = [n EXCEPT !.response = response]]
      BY <2>0, <3>2
    <3> QED BY <2>2, <2>r, <3>1, <3>2, <3>3
  <2>3. PICK v \in 1..Current : ReadItem(p, v)
    <3>1. ASSUME NEW a \in Attempts, NEW t \in 0..cached, Start(p, a, t) PROVE FALSE
      <4> DEFINE n == [Unmade EXCEPT !.pc = "read", !.attempts = a, !.token = t,
                         !.start = Current, !.floor = IF t # 0 THEN t ELSE Acknowledged]
      <4>1. n.etag = 0
        BY DEF Unmade
      <4> QED BY <2>2, <3>1, <4>1 DEF Start
    <3>2. CASE Reject(p) \/ SubOperationFails(p)
      BY <2>r, <3>2 DEF Reject, SubOperationFails
    <3>3. CASE Commit(p) \/ LoseResponse(p)
      <4> DEFINE n(pc, made) == [patch[p] EXCEPT !.pc = pc, !.made = made]
      <4>1. \A pc, made : n(pc, made).etag = patch[p].etag
        BY <2>0 DEF Calls
      <4>2. \/ patch' = [patch EXCEPT ![p] = n("committed", Current + 1)]
            \/ patch' = [patch EXCEPT ![p] = n("replace", 0)]
        BY <2>0, <3>3 DEF Commit, LoseResponse
      <4> HIDE DEF n
      <4> QED BY <2>2, <4>1, <4>2
    <3>4. CASE Succeed(p)
      BY <2>r, <3>4 DEF Succeed
    <3>5. CASE RaceLost(p)
      <4> DEFINE n == [patch[p] EXCEPT !.pc = "read", !.lost = patch[p].lost + 1, !.etag = 0,
                         !.token = Larger(patch[p].token, Token(Current))]
      <4>1. n.etag = 0
        BY <2>0 DEF Calls
      <4>2. \/ patch' = [patch EXCEPT ![p] = n]
            \/ patch' = [Returns(p, "conflict") EXCEPT ![p].lost = patch[p].lost + 1]
        BY <3>5 DEF RaceLost, NextAttempt
      <4> QED BY <2>2, <2>r, <4>1, <4>2
    <3> QED BY <1>1, <2>1, <3>1, <3>2, <3>3, <3>4, <3>5, CopiesExist DEF PatchNext
  <2>4. p = q /\ patch'[q].etag = v /\ patch[q].pc = "read"
        /\ v >= resolve_session_token(patch[q].token)
    <3>1. /\ patch[p].pc = "read" /\ v >= resolve_session_token(patch[p].token)
          /\ patch' = [patch EXCEPT ![p].pc = "replace", ![p].etag = v,
                          ![p].token = IF Token(v) # 0 THEN Token(v) ELSE @]
      BY <2>r, <2>3 DEF ReadItem
    <3> QED BY <2>0, <3>1 DEF Calls
  <2>5. SessionInv(q) /\ v \in Nat /\ cached \in Nat
    BY <1>1, CallFacts
  <2> QED BY <2>0, <2>4, <2>5 DEF SessionInv, resolve_session_token, Larger, Calls
<1> QED BY <1>1, PatchInvInit, PatchInvStep, PTL DEF Spec, ReadsAdvance
=============================================================================
