------------------------- MODULE ModelsCacheProofs -------------------------
(***************************************************************************)
(* Proofs about module ModelsCache, for any number of requests, any        *)
(* time-to-live and any number of versions of the model list.              *)
(***************************************************************************)
EXTENDS ModelsCache, TLAPS

\* Only an entry that has expired is without content.
ContentOrExpired == entry.content = Nothing => entry.age = TTL

\* `quiet` is a lower bound of the entry's age, and starts again while an answer
\* is to be had: from the backends, or from a request that is to store one.
QuietBounded ==
  /\ quiet <= entry.age
  /\ backend = "ok" => quiet = 0 /\ \A r \in Request : ~late[r]
  /\ \A r \in Request : pc[r] = "store" => quiet = 0

\* A request that came too late does not get beyond its fetch.
LateFetches == \A r \in Request : late[r] => pc[r] \in {"idle", "fetch"}

IndInv == TypeOK /\ NeverEmpty /\ ContentOrExpired /\ QuietBounded /\ LateFetches

----------------------------------------------------------------------------
\* Growing older stays within the time-to-live and keeps the order of ages.
LEMMA OlderBounded ==
  ASSUME NEW n \in 0 .. TTL
  PROVE  /\ Older(n) \in 0 .. TTL
         /\ n <= Older(n)
         /\ n = TTL => Older(n) = TTL
         /\ \A k \in 0 .. TTL : k <= n => Older(k) <= Older(n)
BY ModelsAssumption DEF Older

\* The invariant holds of the empty, expired cache.
LEMMA InitInd == Init => IndInv
BY ModelsAssumption
   DEF Init, IndInv, TypeOK, NeverEmpty, ContentOrExpired, QuietBounded, LateFetches,
       Versions, Nothing

\* models_handler and its environment keep the types: a request leaves "store"
\* and lets go of what it has fetched in one step.
LEMMA TypeStep ==
  ASSUME IndInv, [Next]_vars
  PROVE  TypeOK'
<1> USE ModelsAssumption DEF IndInv, TypeOK, Versions, Nothing
<1>1. ASSUME NEW b \in {"ok", "unusable", "gone"}, BackendChange(b) PROVE TypeOK'
  <2>1. late' \in [Request -> BOOLEAN]
    <3>1. late' = [r \in Request |-> FALSE] \/ late' = late
      BY <1>1 DEF BackendChange
    <3> QED
      BY <3>1, Zenon
  <2>2. quiet' \in 0 .. TTL
    <3>1. quiet' = 0 \/ quiet' = quiet
      BY <1>1 DEF BackendChange
    <3> QED
      BY <3>1
  <2> QED
    BY <1>1, <2>1, <2>2 DEF BackendChange, reqVars
<1>2. CASE ModelsChange
  BY <1>2 DEF ModelsChange, reqVars
<1>3. CASE Tick
  <2>1. Older(entry.age) \in 0 .. TTL /\ Older(quiet) \in 0 .. TTL
    BY OlderBounded
  <2>2. entry' \in [content : {Nothing} \cup Versions, age : 0 .. TTL]
    BY <1>3, <2>1 DEF Tick
  <2> QED
    BY <1>3, <2>1, <2>2 DEF Tick, reqVars
<1>4. ASSUME NEW r \in Request, Check(r) \/ Serve(r) \/ Cancel(r) PROVE TypeOK'
  <2>1. CASE Check(r)
    BY <2>1 DEF Check
  <2>2. CASE Fetched(r)
    BY <2>2 DEF Fetched
  <2>3. CASE FetchFailed(r) \/ FetchUnusable(r) \/ Cancel(r) \/ Read(r)
    BY <2>3 DEF FetchFailed, FetchUnusable, Cancel, Read
  <2>4. CASE Store(r)
    BY <2>4 DEF Store
  <2> QED
    BY <1>4, <2>1, <2>2, <2>3, <2>4 DEF Serve
<1>5. CASE UNCHANGED vars
  BY <1>5 DEF vars, reqVars
<1> QED
  BY <1>1, <1>2, <1>3, <1>4, <1>5 DEF Next

\* What is in the cache: a request is let through to it by an entry that has not
\* expired, or by its own answer.
LEMMA ContentStep ==
  ASSUME IndInv, [Next]_vars
  PROVE  NeverEmpty' /\ ContentOrExpired'
<1> USE ModelsAssumption DEF IndInv, TypeOK, NeverEmpty, ContentOrExpired, Nothing
<1>1. ASSUME NEW b \in {"ok", "unusable", "gone"}, BackendChange(b)
      PROVE  NeverEmpty' /\ ContentOrExpired'
  BY <1>1 DEF BackendChange, reqVars
<1>2. CASE ModelsChange
  BY <1>2 DEF ModelsChange, reqVars
<1>3. CASE Tick
  <2>1. entry.age = TTL => Older(entry.age) = TTL
    BY OlderBounded
  <2> QED
    BY <1>3, <2>1 DEF Tick, reqVars
<1>4. ASSUME NEW r \in Request, Check(r) \/ Serve(r) \/ Cancel(r)
      PROVE  NeverEmpty' /\ ContentOrExpired'
  <2>1. CASE Check(r)
    BY <2>1 DEF Check, expired
  <2>2. CASE Fetched(r)
    BY <2>2 DEF Fetched
  <2>3. CASE FetchFailed(r) \/ FetchUnusable(r) \/ Cancel(r) \/ Read(r)
    BY <2>3 DEF FetchFailed, FetchUnusable, Cancel, Read
  <2>4. CASE Store(r)
    BY <2>4 DEF Store
  <2> QED
    BY <1>4, <2>1, <2>2, <2>3, <2>4 DEF Serve
<1>5. CASE UNCHANGED vars
  BY <1>5 DEF vars, reqVars
<1> QED
  BY <1>1, <1>2, <1>3, <1>4, <1>5 DEF Next

\* The history: nothing is stored without `quiet` having been 0 since it was
\* fetched, so the entry is never younger than `quiet`.
LEMMA HistoryStep ==
  ASSUME IndInv, [Next]_vars
  PROVE  QuietBounded' /\ LateFetches'
<1> USE ModelsAssumption DEF IndInv, TypeOK, QuietBounded, LateFetches
<1>1. ASSUME NEW b \in {"ok", "unusable", "gone"}, BackendChange(b)
      PROVE  QuietBounded' /\ LateFetches'
  BY <1>1 DEF BackendChange, reqVars
<1>2. CASE ModelsChange
  BY <1>2 DEF ModelsChange, reqVars
<1>3. CASE Tick
  <2>1. /\ Older(quiet) <= Older(entry.age)
        /\ 0 <= Older(entry.age)
    BY OlderBounded
  <2>2. entry'.age = Older(entry.age)
    BY <1>3 DEF Tick
  <2>3. quiet' <= entry'.age
    BY <1>3, <2>1, <2>2 DEF Tick
  <2> QED
    BY <1>3, <2>3 DEF Tick, reqVars
<1>4. ASSUME NEW r \in Request, Check(r) \/ Serve(r) \/ Cancel(r)
      PROVE  QuietBounded' /\ LateFetches'
  <2>1. CASE Check(r)
    <3>1. quiet = TTL => expired /\ backend # "ok"
      BY DEF expired
    <3> QED
      BY <2>1, <3>1 DEF Check
  <2>2. CASE Fetched(r)
    BY <2>2 DEF Fetched
  <2>3. CASE FetchFailed(r) \/ FetchUnusable(r) \/ Cancel(r) \/ Read(r)
    BY <2>3 DEF FetchFailed, FetchUnusable, Cancel, Read
  <2>4. CASE Store(r)
    BY <2>4 DEF Store
  <2> QED
    BY <1>4, <2>1, <2>2, <2>3, <2>4 DEF Serve
<1>5. CASE UNCHANGED vars
  BY <1>5 DEF vars, reqVars
<1> QED
  BY <1>1, <1>2, <1>3, <1>4, <1>5 DEF Next

----------------------------------------------------------------------------
(* The theorems. *)

\* The inductive invariant holds in every reachable state.
THEOREM Invariance == Spec => []IndInv
<1>1. ASSUME IndInv, [Next]_vars PROVE IndInv'
  BY <1>1, TypeStep, ContentStep, HistoryStep DEF IndInv
<1> QED
  BY <1>1, InitInd, PTL DEF Spec

\* Types of models_handler's state; an answer is in hand only while it is stored.
THEOREM TypeCorrect == Spec => []TypeOK
<1>1. IndInv => TypeOK
  BY DEF IndInv
<1> QED
  BY <1>1, Invariance, PTL

\* The 503 "models cache empty after fetch" of models_handler is unreachable.
THEOREM CacheNeverEmpty == Spec => []NeverEmpty
<1>1. IndInv => NeverEmpty
  BY DEF IndInv
<1> QED
  BY <1>1, Invariance, PTL

\* Concurrent fetches never stretch the time for which models_handler goes on
\* answering after the backends have gone beyond the time-to-live.
THEOREM NoAnswerBeyondTTL == Spec => []GoneAfterTTL
<1>1. IndInv => GoneAfterTTL
  BY DEF IndInv, LateFetches, GoneAfterTTL
<1> QED
  BY <1>1, Invariance, PTL

=============================================================================
