-------------------------- MODULE BearerTokenProof --------------------------
(***************************************************************************)
(* NoStampede for any set of requests: get_token is called at most once    *)
(* per event that leaves the cache without a fresh token.  The inductive   *)
(* invariant adds to it who may hold the lock (LockInv), that a token      *)
(* somebody found stale does not become fresh (SeenInv), and that a call   *)
(* is due exactly while nobody fetches and no fresh token is cached        *)
(* (DueInv).                                                               *)
(***************************************************************************)
EXTENDS BearerToken, TLAPS

IInv == TypeOK /\ LockInv /\ SeenInv /\ DueInv

\* Every step keeps the types.
LEMMA TypeStep ==
  ASSUME TypeOK, [Next]_vars
  PROVE  TypeOK'
<1> USE NoRequestAssumption DEF TypeOK, Steps, Options, vars, tokenVars, lockVars, countVars, Goto
<1>1. ASSUME NEW r \in Requests, Step(r)
      PROVE  TypeOK'
  <2>1. CASE AcquireRead(r)
    BY <2>1 DEF AcquireRead
  <2>2. CASE WantWrite(r)
    BY <2>2 DEF WantWrite
  <2>3. CASE AcquireWrite(r)
    BY <2>3 DEF AcquireWrite
  <2>4. CASE Look(r)
    BY <2>4 DEF Look
  <2>5. CASE Check(r)
    BY <2>5 DEF Check
  <2>6. CASE Fetched(r)
    BY <2>6 DEF Fetched
  <2>7. CASE FetchFailed(r)
    BY <2>7 DEF FetchFailed
  <2>8. CASE Attach(r)
    BY <2>8 DEF Attach
  <2>9. CASE Accepted(r)
    BY <2>9 DEF Accepted
  <2>10. CASE Unauthorized(r)
    BY <2>10 DEF Unauthorized
  <2>11. CASE InvalidateCache(r)
    BY <2>11 DEF InvalidateCache
  <2> QED  BY <1>1, <2>1, <2>2, <2>3, <2>4, <2>5, <2>6, <2>7, <2>8, <2>9, <2>10, <2>11 DEF Step
<1>2. ASSUME NEW r \in Requests, Dropped(r)
      PROVE  TypeOK'
  BY <1>2 DEF Dropped
<1>3. CASE Age
  BY <1>3 DEF Age
<1>4. CASE UNCHANGED vars
  BY <1>4
<1> QED  BY <1>1, <1>2, <1>3, <1>4 DEF Next

\* Every step keeps the lock discipline.
LEMMA LockStep ==
  ASSUME TypeOK, LockInv, [Next]_vars
  PROVE  LockInv'
<1> USE NoRequestAssumption DEF TypeOK, LockInv, vars, tokenVars, lockVars, countVars, Goto
<1>1. ASSUME NEW r \in Requests, Step(r)
      PROVE  LockInv'
  <2>1. CASE AcquireRead(r)
    BY <2>1 DEF AcquireRead
  <2>2. CASE WantWrite(r)
    BY <2>2 DEF WantWrite
  <2>3. CASE AcquireWrite(r)
    BY <2>3 DEF AcquireWrite
  <2>4. CASE Look(r)
    BY <2>4 DEF Look
  <2>5. CASE Check(r)
    BY <2>5 DEF Check
  <2>6. CASE Fetched(r)
    BY <2>6 DEF Fetched
  <2>7. CASE FetchFailed(r)
    BY <2>7 DEF FetchFailed
  <2>8. CASE Attach(r)
    BY <2>8 DEF Attach
  <2>9. CASE Accepted(r)
    BY <2>9 DEF Accepted
  <2>10. CASE Unauthorized(r)
    BY <2>10 DEF Unauthorized
  <2>11. CASE InvalidateCache(r)
    BY <2>11 DEF InvalidateCache
  <2> QED  BY <1>1, <2>1, <2>2, <2>3, <2>4, <2>5, <2>6, <2>7, <2>8, <2>9, <2>10, <2>11 DEF Step
<1>2. ASSUME NEW r \in Requests, Dropped(r)
      PROVE  LockInv'
  BY <1>2 DEF Dropped
<1>3. CASE Age
  BY <1>3 DEF Age
<1>4. CASE UNCHANGED vars
  BY <1>4
<1> QED  BY <1>1, <1>2, <1>3, <1>4 DEF Next

\* A token found stale is never fresh again: a newer one has a newer number.
LEMMA SeenStep ==
  ASSUME TypeOK, SeenInv, [Next]_vars
  PROVE  SeenInv'
<1> USE NoRequestAssumption DEF TypeOK, SeenInv, vars, tokenVars, lockVars, countVars, Goto
<1>1. ASSUME NEW r \in Requests, Step(r)
      PROVE  SeenInv'
  <2>1. CASE AcquireRead(r)
    BY <2>1 DEF AcquireRead
  <2>2. CASE WantWrite(r)
    BY <2>2 DEF WantWrite
  <2>3. CASE AcquireWrite(r)
    BY <2>3 DEF AcquireWrite
  <2>4. CASE Look(r)
    BY <2>4 DEF Look
  <2>5. CASE Check(r)
    BY <2>5 DEF Check
  <2>6. CASE Fetched(r)
    BY <2>6 DEF Fetched
  <2>7. CASE FetchFailed(r)
    BY <2>7 DEF FetchFailed
  <2>8. CASE Attach(r)
    BY <2>8 DEF Attach
  <2>9. CASE Accepted(r)
    BY <2>9 DEF Accepted
  <2>10. CASE Unauthorized(r)
    BY <2>10 DEF Unauthorized
  <2>11. CASE InvalidateCache(r)
    BY <2>11 DEF InvalidateCache
  <2> QED  BY <1>1, <2>1, <2>2, <2>3, <2>4, <2>5, <2>6, <2>7, <2>8, <2>9, <2>10, <2>11 DEF Step
<1>2. ASSUME NEW r \in Requests, Dropped(r)
      PROVE  SeenInv'
  BY <1>2 DEF Dropped
<1>3. CASE Age
  BY <1>3 DEF Age
<1>4. CASE UNCHANGED vars
  BY <1>4
<1> QED  BY <1>1, <1>2, <1>3, <1>4 DEF Next

\* A call of get_token uses up what was due; what empties the cache makes one due.
LEMMA DueStep ==
  ASSUME IInv, [Next]_vars
  PROVE  DueInv'
<1> USE NoRequestAssumption DEF IInv, TypeOK, LockInv, SeenInv, DueInv, Fetching, Usable, vars, tokenVars, lockVars, countVars, Goto
<1>1. ASSUME NEW r \in Requests, Step(r)
      PROVE  DueInv'
  <2>1. CASE AcquireRead(r)
    BY <2>1 DEF AcquireRead
  <2>2. CASE WantWrite(r)
    BY <2>2 DEF WantWrite
  <2>3. CASE AcquireWrite(r)
    BY <2>3 DEF AcquireWrite
  <2>4. CASE Look(r)
    BY <2>4 DEF Look
  <2>5. CASE Check(r)
    BY <2>5 DEF Check
  <2>6. CASE Fetched(r)
    BY <2>6 DEF Fetched
  <2>7. CASE FetchFailed(r)
    BY <2>7 DEF FetchFailed
  <2>8. CASE Attach(r)
    BY <2>8 DEF Attach
  <2>9. CASE Accepted(r)
    BY <2>9 DEF Accepted
  <2>10. CASE Unauthorized(r)
    BY <2>10 DEF Unauthorized
  <2>11. CASE InvalidateCache(r)
    BY <2>11 DEF InvalidateCache
  <2> QED  BY <1>1, <2>1, <2>2, <2>3, <2>4, <2>5, <2>6, <2>7, <2>8, <2>9, <2>10, <2>11 DEF Step
<1>2. ASSUME NEW r \in Requests, Dropped(r)
      PROVE  DueInv'
  BY <1>2 DEF Dropped
<1>3. CASE Age
  BY <1>3 DEF Age
<1>4. CASE UNCHANGED vars
  BY <1>4
<1> QED  BY <1>1, <1>2, <1>3, <1>4 DEF Next

\* However many requests find the cached token missing or stale at once, the
\* policy calls get_token at most once for each time the cache lost its fresh
\* token.
THEOREM StampedeTheorem == Spec => []NoStampede
<1>1. Init => IInv
  BY NoRequestAssumption DEF Init, IInv, TypeOK, LockInv, SeenInv, DueInv,
     Fetching, Usable, Steps, Options
<1>2. IInv /\ [Next]_vars => IInv'
  BY TypeStep, LockStep, SeenStep, DueStep DEF IInv
<1>3. IInv => NoStampede
  BY DEF IInv, TypeOK, DueInv, NoStampede
<1> QED  BY <1>1, <1>2, <1>3, PTL DEF Spec

\* While a request writes or fetches, no other holds the lock.
THEOREM LockTheorem == Spec => []LockInv
<1>1. Init => TypeOK /\ LockInv
  BY NoRequestAssumption DEF Init, TypeOK, LockInv, Steps, Options
<1>2. TypeOK /\ LockInv /\ [Next]_vars => (TypeOK /\ LockInv)'
  BY TypeStep, LockStep
<1> QED  BY <1>1, <1>2, PTL DEF Spec
=============================================================================
