---------------------------- MODULE ProxyProofs ----------------------------
(***************************************************************************)
(* Proofs about module Proxy, for any number of requests, replicas,        *)
(* threads, retries and reloads.                                           *)
(***************************************************************************)
EXTENDS Proxy, FiniteSetTheorems, TLAPS

----------------------------------------------------------------------------
(* Operators. *)

\* The operations of circuit_breaker.rs keep a breaker record well formed.
LEMMA BreakerClosed ==
  ASSUME NEW b \in Breakers
  PROVE  /\ Refresh(b) \in Breakers
         /\ TimeOut(b) \in Breakers
         /\ \A ok \in BOOLEAN : RecordOutcome(b, ok) \in Breakers
<1> DEFINE f == CountUpTo(b.fails, FailureThreshold)
           s == CountUpTo(b.succs, SuccessThreshold)
<1>1. ASSUME NEW c \in Breakers, NEW st \in CircuitState
      PROVE  TransitionTo(c, st) \in Breakers
  BY <1>1, ThresholdAssumption DEF Breakers, TransitionTo, CircuitState
<1>2. f \in 0 .. FailureThreshold /\ s \in 0 .. SuccessThreshold
  BY ThresholdAssumption DEF Breakers, CountUpTo
<1>3. /\ [b EXCEPT !.fails = 0, !.succs = s] \in Breakers
      /\ [b EXCEPT !.succs = 0, !.fails = f] \in Breakers
  <2>1. ASSUME NEW x \in 0 .. FailureThreshold, NEW y \in 0 .. SuccessThreshold
        PROVE  /\ [b EXCEPT !.fails = x, !.succs = y] \in Breakers
               /\ [b EXCEPT !.succs = y, !.fails = x] \in Breakers
    BY DEF Breakers
  <2>2. 0 \in 0 .. FailureThreshold /\ 0 \in 0 .. SuccessThreshold
    BY ThresholdAssumption
  <2> HIDE DEF f, s
  <2> QED
    BY <1>2, <2>1, <2>2
<1>4. Refresh(b) \in Breakers
  BY <1>1 DEF Refresh, CircuitState
<1>5. TimeOut(b) \in Breakers
  BY DEF TimeOut, Breakers
<1>6. RecordSuccess(b) \in Breakers
  BY <1>1, <1>3 DEF RecordSuccess, CircuitState
<1>7. RecordFailure(b) \in Breakers
  BY <1>1, <1>3 DEF RecordFailure, CircuitState
<1> QED
  BY <1>4, <1>5, <1>6, <1>7 DEF RecordOutcome

\* The entries of a worker list that exists.
LEMMA PoolEntries ==
  ASSUME TypeOK, NEW g \in 1 .. Len(pool)
  PROVE  /\ g \in Gens
         /\ pool[g] \in Configs
         /\ Len(pool[g]) \in 1 .. MaxWorkers
         /\ \A i \in 1 .. Len(pool[g]) :
              /\ i \in Slots
              /\ pool[g][i] \in Entry
              /\ pool[g][i].url \in Url
              /\ pool[g][i].max_load \in Nat
              /\ pool[g][i].load_penalty \in Nat
<1>1. g \in Gens /\ pool[g] \in Configs
  BY ProxyAssumption DEF TypeOK, Gens
<1>2. Len(pool[g]) \in 1 .. MaxWorkers /\ pool[g] \in Seq(Entry)
  BY <1>1, ProxyAssumption
<1>3. ASSUME NEW i \in 1 .. Len(pool[g])
      PROVE  /\ i \in Slots
             /\ pool[g][i] \in Entry
  BY <1>2, ProxyAssumption DEF Slots
<1>4. ASSUME NEW e \in Entry
      PROVE  e.url \in Url /\ e.max_load \in Nat /\ e.load_penalty \in Nat
  BY DEF Entry
<1> QED
  BY <1>1, <1>2, <1>3, <1>4

\* The worker a task accounts for is a worker object that exists.
LEMMA WorkerOfLive ==
  ASSUME TypeOK, SnapshotsValid, NEW r \in Request,
         pc[r] \in {"acquire", "forward", "stream"}
  PROVE  /\ WorkerOf(r) \in Workers
         /\ WorkerOf(r) \in Live
         /\ url(WorkerOf(r)) \in Url
         /\ slot[r] \in Slots
<1>1. rgen[r] \in 1 .. Len(pool) /\ slot[r] \in 1 .. Len(pool[rgen[r]])
  BY DEF TypeOK, SnapshotsValid, Gens, Holding
<1> QED
  BY <1>1, PoolEntries DEF WorkerOf, Workers, Live, url

\* A task leaves no worker list behind that is shorter than its indices.
LEMMA EffectiveLoadNat ==
  ASSUME TypeOK, SnapshotsValid, NEW r \in Request, NEW i \in avail[r]
  PROVE  effective_load(<<rgen[r], i>>) \in Nat /\ i \in Slots
<1>1. rgen[r] \in 1 .. Len(pool) /\ i \in 1 .. Len(pool[rgen[r]])
  BY DEF TypeOK, SnapshotsValid, Gens
<1>2. <<rgen[r], i>> \in Workers
  BY <1>1, PoolEntries DEF Workers
<1>3. load[<<rgen[r], i>>] \in Nat
  BY <1>2 DEF TypeOK
<1> QED
  BY <1>1, <1>3, PoolEntries DEF effective_load

\* A new tree returns URLs of its worker list, if any.
LEMMA NewTreeUrls ==
  ASSUME NEW c \in Configs, NEW S \in NewTrees(c)
  PROVE  S \in SUBSET Url
<1>1. c \in Seq(Entry)
  BY ProxyAssumption
<1>2. ASSUME NEW i \in 1 .. Len(c) PROVE c[i].url \in Url
  <2>1. c[i] \in Entry
    BY <1>1
  <2> QED
    BY <2>1 DEF Entry
<1> QED
  BY <1>2 DEF NewTrees

----------------------------------------------------------------------------
(* Types. *)

\* Every step of the request path, reloads included, keeps the types.
LEMMA TypeStep ==
  ASSUME IndInv, [Next]_vars
  PROVE  TypeOK'
<1> USE DEF IndInv, poolVars, workerVars, selectVars, loopVars, reqVars
<1>1. CASE UNCHANGED vars
  BY <1>1 DEF TypeOK, vars
<1>2. ASSUME NEW r \in Request, RequestStep(r) PROVE TypeOK'
  <2>0. NoSlot \notin Slots /\ 1 \in Gens
    BY ProxyAssumption DEF NoSlot, Slots, Gens
  <2>1. CASE Arrive(r)
    BY <2>1 DEF Arrive, TypeOK, PCs, Selecting
  <2>2. CASE Filter(r)
    <3>1. pos[r] \in Slots /\ <<rgen[r], pos[r]>> \in Workers
      BY <2>2, PoolEntries DEF Filter, TypeOK, SnapshotsValid, Workers, Gens
    <3>2. breaker' \in [Workers -> Breakers]
      BY <2>2, <3>1, BreakerClosed DEF Filter, TypeOK
    <3> QED
      BY <2>2, <3>1, <3>2 DEF Filter, TypeOK
  <2>3. CASE NoneAvailable(r)
    BY <2>3, <2>0 DEF NoneAvailable, Leave, TypeOK, PCs
  <2>4. CASE OnlyOne(r)
    BY <2>4 DEF OnlyOne, TypeOK, PCs, Selecting
  <2>5. CASE SeveralAvailable(r)
    BY <2>5 DEF SeveralAvailable, TypeOK, PCs, Selecting
  <2>6. CASE ReadLoad(r)
    <3>1. PICK i \in avail[r] \ DOMAIN seen[r] :
            seen' = [seen EXCEPT ![r] =
                       [k \in DOMAIN @ \cup {i} |->
                          IF k = i THEN effective_load(<<rgen[r], i>>) ELSE @[k]]]
      BY <2>6 DEF ReadLoad
    <3>2. PICK S \in SUBSET Slots : seen[r] \in [S -> Nat]
      BY DEF TypeOK
    <3>3. effective_load(<<rgen[r], i>>) \in Nat /\ i \in Slots
      BY EffectiveLoadNat
    <3>4. seen'[r] \in [S \cup {i} -> Nat] /\ S \cup {i} \in SUBSET Slots
      <4> DEFINE e == effective_load(<<rgen[r], i>>)
      <4> HIDE DEF e
      <4>1. seen'[r] = [k \in S \cup {i} |-> IF k = i THEN e ELSE seen[r][k]]
        BY <3>1, <3>2 DEF TypeOK, e
      <4>2. e \in Nat
        BY <3>3 DEF e
      <4> QED
        BY <4>1, <4>2, <3>2, <3>3
    <3>5. /\ DOMAIN seen' = Request
          /\ \A q \in Request : \E T \in SUBSET Slots : seen'[q] \in [T -> Nat]
      BY <3>1, <3>4 DEF TypeOK
    <3>6. pc' \in [Request -> PCs]
      BY <2>6 DEF ReadLoad, TypeOK, PCs, Selecting
    <3> QED
      BY <2>6, <3>5, <3>6 DEF ReadLoad, TypeOK
  <2>7. CASE Choose(r)
    <3>1. /\ pc' \in [Request -> PCs]
          /\ avail' \in [Request -> SUBSET Slots]
          /\ slot' \in [Request -> Slots \cup {NoSlot}]
      BY <2>7 DEF Choose, LeastLoaded, CacheHits, TypeOK, PCs, Selecting
    <3>2. /\ DOMAIN seen' = Request
          /\ \A q \in Request : \E T \in SUBSET Slots : seen'[q] \in [T -> Nat]
      <4>1. << >> \in [{} -> Nat]
        OBVIOUS
      <4> QED
        BY <2>7, <4>1 DEF Choose, TypeOK
    <3> QED
      BY <2>7, <3>1, <3>2 DEF Choose, TypeOK
  <2>8. CASE Acquire(r)
    <3>1. WorkerOf(r) \in Workers
      BY <2>8, WorkerOfLive DEF Acquire
    <3>2. load' \in [Workers -> Nat]
      <4> DEFINE w == WorkerOf(r)
      <4> HIDE DEF w
      <4>1. w \in Workers /\ load' = [load EXCEPT ![w] = @ + 1]
        BY <2>8, <3>1 DEF Acquire, w
      <4> QED
        BY <4>1 DEF TypeOK
    <3> QED
      BY <2>8, <3>2 DEF Acquire, TypeOK, PCs, Holding
  <2>9. ASSUME pc[r] = "forward", NEW ok \in BOOLEAN,
               record_outcome(WorkerOf(r), ok)
        PROVE  breaker' \in [Workers -> Breakers]
    BY <2>9, WorkerOfLive, BreakerClosed DEF record_outcome, TypeOK
  <2>10. \A st : success(st) \in BOOLEAN
    BY DEF success
  <2>11. ASSUME NEW w, load' = Decrement(w) PROVE load' \in [Workers -> Nat]
    <3>1. \A v \in Workers : load[v] \in Nat
      BY DEF TypeOK
    <3>2. load' = [v \in Workers |->
                     IF v = w THEN IF load[v] > 0 THEN load[v] - 1 ELSE load[v]
                              ELSE load[v]]
      BY <2>11 DEF Decrement, TypeOK
    <3> QED
      BY <3>1, <3>2
  <2>12. ASSUME pc[r] = "forward", record_routed(r)
         PROVE  cached' \in [Gens -> SUBSET Url]
    <3>1. url(WorkerOf(r)) \in Url
      BY <2>12, WorkerOfLive
    <3> DEFINE u == url(WorkerOf(r))
    <3> HIDE DEF u
    <3>2. \/ cached' = cached
          \/ cached' = [cached EXCEPT ![rgen[r]] = @ \cup {u}]
      BY <2>12 DEF record_routed, u
    <3>3. u \in Url
      BY <3>1 DEF u
    <3>4. cached \in [Gens -> SUBSET Url] /\ rgen[r] \in Gens
      BY DEF TypeOK
    <3>5. cached[rgen[r]] \cup {u} \in SUBSET Url
      BY <3>3, <3>4
    <3> QED
      BY <3>2, <3>4, <3>5
  <2>13. ASSUME BackOff(r), breaker' \in [Workers -> Breakers] PROVE TypeOK'
    BY <2>13, <2>11 DEF BackOff, TypeOK, PCs
  <2>14. ASSUME Finish(r), breaker' \in [Workers -> Breakers],
                cached' \in [Gens -> SUBSET Url]
         PROVE  TypeOK'
    BY <2>14, <2>11, <2>0 DEF Finish, Leave, TypeOK, PCs
  <2>15. ASSUME NEW st \in Status, RetryStatus(r, st) PROVE TypeOK'
    BY <2>15, <2>9, <2>10, <2>13 DEF RetryStatus
  <2>16. ASSUME NEW st \in Status, Answer(r, st) PROVE TypeOK'
    BY <2>16, <2>9, <2>10, <2>12, <2>14 DEF Answer
  <2>17. ASSUME NEW st \in Status, AnswerStream(r, st) PROVE TypeOK'
    BY <2>17, <2>9, <2>10, <2>12 DEF AnswerStream, TypeOK, PCs, Holding
  <2>18. CASE RetryError(r)
    BY <2>18, <2>9, <2>13 DEF RetryError
  <2>19. CASE FinalError(r)
    BY <2>19, <2>9, <2>14 DEF FinalError, TypeOK
  <2>20. CASE Wake(r)
    <3>1. UNCHANGED <<poolVars, workerVars>> /\ (Again(r) \/ Leave(r))
      BY <2>20 DEF Wake
    <3>2. CASE Again(r)
      BY <3>1, <3>2 DEF Again, TypeOK, PCs, Selecting
    <3>3. CASE Leave(r)
      BY <3>1, <3>3, <2>0 DEF Leave, TypeOK, PCs
    <3> QED
      BY <3>1, <3>2, <3>3
  <2>21. CASE StreamEnd(r) \/ CancelForward(r)
    BY <2>21, <2>14 DEF StreamEnd, CancelForward, TypeOK
  <2>22. CASE CancelSleep(r)
    BY <2>22, <2>0 DEF CancelSleep, Leave, TypeOK, PCs
  <2> QED
    BY <1>2, <2>1, <2>2, <2>3, <2>4, <2>5, <2>6, <2>7, <2>8, <2>15, <2>16, <2>17,
       <2>18, <2>19, <2>20, <2>21, <2>22
       DEF RequestStep, SelectStep, AnswerStep
<1>3. CASE Reload
  <2>1. /\ pool' \in Seq(Configs)
        /\ Len(pool') \in Gens
    BY <1>3, ProxyAssumption DEF Reload, TypeOK, Gens
  <2>2. NewBreaker \in Breakers
    BY ThresholdAssumption DEF NewBreaker, Breakers, CircuitState
  <2>3. cached' \in [Gens -> SUBSET Url]
    <3>1. PICK c \in Configs : \E S \in NewTrees(c) :
                 cached' = [cached EXCEPT ![Len(pool) + 1] = S]
      BY <1>3 DEF Reload
    <3>2. PICK S \in NewTrees(c) : cached' = [cached EXCEPT ![Len(pool) + 1] = S]
      BY <3>1
    <3>3. S \in SUBSET Url
      BY NewTreeUrls
    <3> QED
      BY <3>2, <3>3 DEF TypeOK
  <2> QED
    BY <1>3, <2>1, <2>2, <2>3 DEF Reload, NewWorkers, TypeOK
<1>4. ASSUME NEW w \in Workers, HealthChange(w) \/ BreakerTimeOut(w) \/ Inspect(w)
      PROVE  TypeOK'
  <2>1. CASE HealthChange(w)
    BY <2>1 DEF HealthChange, TypeOK
  <2>2. CASE BreakerTimeOut(w)
    <3>1. TimeOut(breaker[w]) \in Breakers
      BY BreakerClosed DEF TypeOK
    <3> QED
      BY <2>2, <3>1 DEF BreakerTimeOut, TypeOK
  <2>3. CASE Inspect(w)
    <3>1. Refresh(breaker[w]) \in Breakers
      BY BreakerClosed DEF TypeOK
    <3> QED
      BY <2>3, <3>1 DEF Inspect, TypeOK
  <2> QED
    BY <1>4, <2>1, <2>2, <2>3
<1>5. ASSUME NEW g \in Gens, Evict(g) PROVE TypeOK'
  BY <1>5 DEF Evict, TypeOK
<1> QED
  BY <1>1, <1>2, <1>3, <1>4, <1>5 DEF Next

----------------------------------------------------------------------------
(* Indices and retries. *)

\* A reload appends a worker list and leaves the others alone.
LEMMA PoolGrows ==
  ASSUME TypeOK, Reload
  PROVE  /\ Len(pool') = Len(pool) + 1
         /\ \A g \in 1 .. Len(pool) : pool'[g] = pool[g]
BY DEF Reload, TypeOK

\* The part of the invariant that is about the locals of the tasks.
TasksValid == SnapshotsValid /\ RetriesValid /\ RetryAvoidsFailed /\ NeverExhausted

\* Every step keeps the locals of the tasks valid: snapshots, indexes, retries.
LEMMA TasksStep ==
  ASSUME IndInv, [Next]_vars
  PROVE  TasksValid'
<1> USE DEF IndInv, poolVars, workerVars, selectVars, loopVars, reqVars,
            SnapshotsValid, RetriesValid, RetryAvoidsFailed, NeverExhausted, MayRetry
<1>0. NoSlot \notin Slots /\ 1 \in Gens
  BY ProxyAssumption DEF NoSlot, Slots, Gens
<1>1. CASE UNCHANGED vars
  BY <1>1 DEF TasksValid, vars
<1>2. ASSUME NEW r \in Request, RequestStep(r) PROVE TasksValid'
  <2>1. CASE Arrive(r)
    BY <2>1 DEF Arrive, TasksValid, TypeOK, Gens, Holding
  <2>2. CASE Filter(r)
    BY <2>2 DEF Filter, Excluded, TasksValid, TypeOK, Holding
  <2>3. CASE NoneAvailable(r)
    BY <2>3, <1>0 DEF NoneAvailable, Leave, TasksValid, TypeOK, Gens, Holding
  <2>4. CASE OnlyOne(r)
    BY <2>4 DEF OnlyOne, Filtered, TasksValid, TypeOK, Holding
  <2>5. CASE SeveralAvailable(r)
    BY <2>5 DEF SeveralAvailable, Filtered, TasksValid, TypeOK, Holding
  <2>6. CASE ReadLoad(r)
    BY <2>6 DEF ReadLoad, TasksValid, TypeOK, Holding
  <2>7. CASE Choose(r)
    BY <2>7 DEF Choose, LeastLoaded, CacheHits, TasksValid, TypeOK, Holding
  <2>8. CASE Acquire(r)
    BY <2>8 DEF Acquire, TasksValid, TypeOK, Holding
  <2>9. ASSUME pc[r] = "forward", MayRetry(r), BackOff(r) PROVE TasksValid'
    BY <2>9, <1>0 DEF BackOff, TasksValid, TypeOK, Holding
  <2>10. ASSUME pc[r] \in Holding, Finish(r) PROVE TasksValid'
    BY <2>10, <1>0 DEF Finish, Leave, TasksValid, TypeOK, Gens, Holding
  <2>11. ASSUME NEW st \in Status, RetryStatus(r, st) PROVE TasksValid'
    BY <2>11, <2>9 DEF RetryStatus
  <2>12. ASSUME NEW st \in Status, Answer(r, st) PROVE TasksValid'
    BY <2>12, <2>10 DEF Answer, Holding
  <2>13. ASSUME NEW st \in Status, AnswerStream(r, st) PROVE TasksValid'
    BY <2>13 DEF AnswerStream, TasksValid, TypeOK, Holding
  <2>14. CASE RetryError(r)
    BY <2>14, <2>9 DEF RetryError
  <2>15. CASE FinalError(r) \/ StreamEnd(r) \/ CancelForward(r)
    BY <2>15, <2>10 DEF FinalError, StreamEnd, CancelForward, Holding
  <2>16. CASE Wake(r)
    <3>1. UNCHANGED pool /\ pc[r] = "sleep" /\ Again(r)
      BY <2>16 DEF Wake
    <3> QED
      BY <3>1 DEF Again, TasksValid, TypeOK, Holding
  <2>17. CASE CancelSleep(r)
    BY <2>17, <1>0 DEF CancelSleep, Leave, TasksValid, TypeOK, Gens, Holding
  <2> QED
    BY <1>2, <2>1, <2>2, <2>3, <2>4, <2>5, <2>6, <2>7, <2>8, <2>11, <2>12, <2>13,
       <2>14, <2>15, <2>16, <2>17
       DEF RequestStep, SelectStep, AnswerStep
<1>3. CASE Reload
  BY <1>3, PoolGrows DEF Reload, TasksValid, TypeOK, Gens
<1>4. ASSUME NEW w \in Workers, HealthChange(w) \/ BreakerTimeOut(w) \/ Inspect(w)
      PROVE  TasksValid'
  BY <1>4 DEF HealthChange, BreakerTimeOut, Inspect, TasksValid
<1>5. ASSUME NEW g \in Gens, Evict(g) PROVE TasksValid'
  BY <1>5 DEF Evict, TasksValid
<1> QED
  BY <1>1, <1>2, <1>3, <1>4, <1>5 DEF Next

----------------------------------------------------------------------------
(* The load counters. *)

\* The requests that hold a guard on a worker can be counted.
LEMMA HoldersFinite ==
  \A w : IsFiniteSet(Holders(w)) /\ Cardinality(Holders(w)) \in Nat
<1>1. \A w : Holders(w) \subseteq Request
  BY DEF Holders
<1> QED
  BY <1>1, FS_Subset, FS_CardinalityType, ProxyAssumption

\* A step that leaves every guard and every load alone.
LEMMA HoldersSame ==
  ASSUME LoadMatchesGuards, load' = load,
         \A q \in Request :
           /\ pc'[q] \in Holding <=> pc[q] \in Holding
           /\ pc[q] \in Holding => rgen'[q] = rgen[q] /\ slot'[q] = slot[q]
  PROVE  LoadMatchesGuards'
<1>1. \A w : Holders(w)' = Holders(w)
  BY DEF Holders, WorkerOf
<1> QED
  BY <1>1 DEF LoadMatchesGuards

\* A step that drops the guard of r.
LEMMA HoldersRelease ==
  ASSUME LoadMatchesGuards, TypeOK, SnapshotsValid,
         NEW r \in Request, pc[r] \in Holding,
         load' = Decrement(WorkerOf(r)), pc'[r] \notin Holding,
         \A q \in Request \ {r} : pc'[q] = pc[q] /\ rgen'[q] = rgen[q] /\ slot'[q] = slot[q]
  PROVE  LoadMatchesGuards'
<1>0. PICK v : v = WorkerOf(r)
  OBVIOUS
<1>1. v \in Workers
  BY <1>0, WorkerOfLive DEF Holding
<1>2. Holders(v)' = Holders(v) \ {r} /\ r \in Holders(v)
  BY <1>0 DEF Holders, WorkerOf
<1>3. \A w : w # v => Holders(w)' = Holders(w)
  BY <1>0 DEF Holders, WorkerOf
<1>4. Cardinality(Holders(v)') = Cardinality(Holders(v)) - 1
  BY <1>2, HoldersFinite, FS_RemoveElement
<1>5. load[v] = Cardinality(Holders(v)) /\ load[v] \in Nat /\ load[v] # 0
  BY <1>1, <1>2, HoldersFinite, FS_EmptySet DEF LoadMatchesGuards, TypeOK
<1>6. load' = [load EXCEPT ![v] = IF @ > 0 THEN @ - 1 ELSE @]
  BY <1>0 DEF Decrement
<1>7. load'[v] = load[v] - 1 /\ \A w \in Workers \ {v} : load'[w] = load[w]
  BY <1>1, <1>5, <1>6 DEF TypeOK
<1> QED
  BY <1>3, <1>4, <1>5, <1>7 DEF LoadMatchesGuards

\* Every step keeps the load of each worker equal to its guards and streams.
LEMMA LoadStep ==
  ASSUME IndInv, [Next]_vars
  PROVE  LoadMatchesGuards'
<1> USE DEF IndInv, poolVars, workerVars, selectVars, loopVars, reqVars
<1>1. CASE UNCHANGED vars
  BY <1>1, HoldersSame DEF vars
<1>2. ASSUME NEW r \in Request, RequestStep(r) PROVE LoadMatchesGuards'
  <2>1. CASE Arrive(r)
    BY <2>1, HoldersSame DEF Arrive, TypeOK, Holding
  <2>2. CASE Filter(r) \/ NoneAvailable(r) \/ OnlyOne(r) \/ SeveralAvailable(r)
    BY <2>2, HoldersSame DEF Filter, Filtered, NoneAvailable, OnlyOne, SeveralAvailable,
       Leave, TypeOK, Holding
  <2>3. CASE ReadLoad(r)
    BY <2>3, HoldersSame DEF ReadLoad, TypeOK, Holding
  <2>4. CASE Choose(r)
    BY <2>4, HoldersSame DEF Choose, TypeOK, Holding
  <2>5. CASE Acquire(r)
    <3>0. PICK v : v = WorkerOf(r)
      OBVIOUS
    <3>1. v \in Workers
      BY <2>5, <3>0, WorkerOfLive DEF Acquire
    <3>2. Holders(v)' = Holders(v) \cup {r} /\ r \notin Holders(v)
      BY <2>5, <3>0 DEF Acquire, Holders, WorkerOf, Holding, TypeOK
    <3>3. \A w : w # v => Holders(w)' = Holders(w)
      BY <2>5, <3>0 DEF Acquire, Holders, WorkerOf, Holding, TypeOK
    <3>4. load' = [load EXCEPT ![v] = @ + 1]
      BY <2>5, <3>0 DEF Acquire
    <3>5. Cardinality(Holders(v)') = Cardinality(Holders(v)) + 1
      BY <3>2, HoldersFinite, FS_AddElement
    <3>6. load'[v] = load[v] + 1 /\ \A w \in Workers \ {v} : load'[w] = load[w]
      BY <3>1, <3>4 DEF TypeOK
    <3> QED
      BY <3>1, <3>3, <3>5, <3>6 DEF LoadMatchesGuards
  <2>6. ASSUME pc[r] = "forward", BackOff(r) PROVE LoadMatchesGuards'
    BY <2>6, HoldersRelease DEF BackOff, TypeOK, Holding
  <2>7. ASSUME pc[r] \in Holding, Finish(r) PROVE LoadMatchesGuards'
    BY <2>7, HoldersRelease DEF Finish, Leave, TypeOK, Holding
  <2>8. ASSUME NEW st \in Status, RetryStatus(r, st) PROVE LoadMatchesGuards'
    BY <2>8, <2>6 DEF RetryStatus
  <2>9. ASSUME NEW st \in Status, Answer(r, st) PROVE LoadMatchesGuards'
    BY <2>9, <2>7 DEF Answer, Holding
  <2>10. ASSUME NEW st \in Status, AnswerStream(r, st) PROVE LoadMatchesGuards'
    BY <2>10, HoldersSame DEF AnswerStream, TypeOK, Holding
  <2>11. CASE RetryError(r)
    BY <2>11, <2>6 DEF RetryError
  <2>12. CASE FinalError(r) \/ StreamEnd(r) \/ CancelForward(r)
    BY <2>12, <2>7 DEF FinalError, StreamEnd, CancelForward, Holding
  <2>13. CASE Wake(r)
    BY <2>13, HoldersSame DEF Wake, Again, Leave, TypeOK, Holding
  <2>14. CASE CancelSleep(r)
    BY <2>14, HoldersSame DEF CancelSleep, Leave, TypeOK, Holding
  <2> QED
    BY <1>2, <2>1, <2>2, <2>3, <2>4, <2>5, <2>8, <2>9, <2>10, <2>11, <2>12, <2>13,
       <2>14
       DEF RequestStep, SelectStep, AnswerStep
<1>3. CASE Reload
  <2> DEFINE g == Len(pool) + 1
  <2>1. \A w : Holders(w)' = Holders(w)
    BY <1>3 DEF Reload, Holders, WorkerOf
  <2>2. ASSUME NEW w \in Workers, w[1] = g PROVE Holders(w) = {}
    BY <2>2 DEF Holders, WorkerOf, SnapshotsValid, TypeOK, Gens
  <2>3. load' = [w \in Workers |-> IF w[1] = g THEN 0 ELSE load[w]]
    BY <1>3 DEF Reload, NewWorkers
  <2> QED
    BY <2>1, <2>2, <2>3, FS_EmptySet DEF LoadMatchesGuards
<1>4. ASSUME NEW w \in Workers, HealthChange(w) \/ BreakerTimeOut(w) \/ Inspect(w)
      PROVE  LoadMatchesGuards'
  BY <1>4, HoldersSame DEF HealthChange, BreakerTimeOut, Inspect
<1>5. ASSUME NEW g \in Gens, Evict(g) PROVE LoadMatchesGuards'
  BY <1>5, HoldersSame DEF Evict
<1> QED
  BY <1>1, <1>2, <1>3, <1>4, <1>5 DEF Next

----------------------------------------------------------------------------
(* The admission cap. *)

\* The tasks between two awaits can be counted, and so can those committed to a worker.
LEMMA RunningFinite ==
  /\ IsFiniteSet(Running) /\ Cardinality(Running) \in Nat
  /\ \A w : /\ IsFiniteSet(Committed(w))
            /\ Cardinality(Committed(w)) \in Nat
            /\ Cardinality(Committed(w)) <= Cardinality(Running)
<1>1. Running \subseteq Request /\ \A w : Committed(w) \subseteq Running
  BY DEF Running, Committed
<1>2. IsFiniteSet(Running)
  BY <1>1, FS_Subset, ProxyAssumption
<1> QED
  BY <1>1, <1>2, FS_Subset, FS_CardinalityType

\* A worker that exists has a cap and a load.
LEMMA LiveTyped ==
  ASSUME TypeOK, NEW w \in Live
  PROVE  max_load(w) \in Nat /\ load[w] \in Nat
<1>1. w \in Workers /\ w[1] \in 1 .. Len(pool) /\ w[2] \in 1 .. Len(pool[w[1]])
  BY DEF Live, Workers, Gens, Slots, TypeOK
<1> QED
  BY <1>1, PoolEntries DEF max_load, TypeOK

\* A step after which no more tasks run and no more may take any worker.
LEMMA CommittedShrinks ==
  ASSUME TypeOK, CommittedBounded, TypeOK', pool' = pool,
         Running' \subseteq Running,
         \A w : Committed(w)' \subseteq Committed(w),
         \A w \in Live : load'[w] <= load[w]
  PROVE  CommittedBounded'
<1>1. Cardinality(Running)' <= NThreads
  <2>1. Cardinality(Running') <= Cardinality(Running) /\ Cardinality(Running') \in Nat
    BY RunningFinite, FS_Subset, FS_CardinalityType
  <2> QED
    BY <2>1, RunningFinite, ProxyAssumption DEF CommittedBounded
<1>2. ASSUME NEW w \in Live'
      PROVE  (load[w] + Cardinality(Committed(w)) <= max_load(w) + NThreads - 1)'
  <2>1. w \in Live /\ max_load(w)' = max_load(w)
    BY DEF Live, max_load
  <2>2. /\ Cardinality(Committed(w)') <= Cardinality(Committed(w))
        /\ Cardinality(Committed(w)') \in Nat
    BY RunningFinite, FS_Subset, FS_CardinalityType
  <2>3. load'[w] \in Nat /\ load'[w] <= load[w] /\ load[w] \in Nat /\ max_load(w) \in Nat
    BY <2>1, LiveTyped DEF Live, TypeOK
  <2>4. load[w] + Cardinality(Committed(w)) <= max_load(w) + NThreads - 1
    BY <2>1 DEF CommittedBounded
  <2> QED
    BY <2>1, <2>2, <2>3, <2>4, RunningFinite, ProxyAssumption
<1> QED
  BY <1>1, <1>2 DEF CommittedBounded

\* A task starts to run, with no worker in hand, on a thread that was free.
LEMMA CommittedStarts ==
  ASSUME TypeOK, CommittedBounded, pool' = pool, load' = load, FreeThread,
         NEW r \in Request, Running' = Running \cup {r},
         \A w : Committed(w)' = Committed(w)
  PROVE  CommittedBounded'
<1>1. Cardinality(Running') <= NThreads
  <2>1. \/ Cardinality(Running') = Cardinality(Running)
        \/ Cardinality(Running') = Cardinality(Running) + 1
    BY RunningFinite, FS_AddElement
  <2> QED
    BY <2>1, RunningFinite, ProxyAssumption DEF FreeThread
<1>2. \A w : w \in Live' => w \in Live /\ max_load(w)' = max_load(w)
  BY DEF Live, max_load
<1> QED
  BY <1>1, <1>2 DEF CommittedBounded

\* Every step keeps load and committed tasks within the cap and the threads.
LEMMA CommittedStep ==
  ASSUME IndInv, [Next]_vars
  PROVE  CommittedBounded'
<1> USE DEF IndInv, poolVars, workerVars, selectVars, loopVars, reqVars
<1>0. TypeOK'
  BY TypeStep
<1>a. \A w \in Live : w \in Workers /\ load[w] \in Nat
  BY LiveTyped DEF Live
<1>1. CASE UNCHANGED vars
  BY <1>0, <1>1, <1>a, CommittedShrinks DEF vars, Running, Committed, WorkerOf
<1>2. ASSUME NEW r \in Request, RequestStep(r) PROVE CommittedBounded'
  <2>1. CASE Arrive(r)
    <3>1. Running' = Running \cup {r}
      BY <2>1 DEF Arrive, Running, Selecting, TypeOK
    <3>2. \A w : Committed(w)' = Committed(w)
      BY <2>1 DEF Arrive, Committed, Running, WorkerOf, Selecting, TypeOK, SnapshotsValid
    <3> QED
      BY <2>1, <3>1, <3>2, CommittedStarts DEF Arrive
  <2>2. CASE Wake(r)
    <3>0. attempt[r] + 1 < MaxAttempts
      BY <2>2 DEF Wake, NeverExhausted
    <3>1. Running' = Running \cup {r}
      BY <2>2, <3>0 DEF Wake, Again, Running, Selecting, TypeOK
    <3>2. \A w : Committed(w)' = Committed(w)
      BY <2>2, <3>0 DEF Wake, Again, Committed, Running, WorkerOf, Selecting, TypeOK, SnapshotsValid
    <3> QED
      BY <2>2, <3>1, <3>2, <3>0, CommittedStarts DEF Wake, Again
  <2>3. CASE Filter(r)
    <3>0. PICK v : v = <<rgen[r], pos[r]>>
      OBVIOUS
    <3>1. Running' = Running
      BY <2>3 DEF Filter, Running
    <3>2. ASSUME NEW w \in Workers, w # v PROVE Committed(w)' = Committed(w)
      <4>1. ~(rgen[r] = w[1] /\ w[2] = pos[r])
        BY <3>0, <3>2 DEF Workers
      <4>2. w[2] \in avail'[r] /\ rgen[r] = w[1] <=> w[2] \in avail[r] /\ rgen[r] = w[1]
        BY <2>3, <4>1 DEF Filter, TypeOK
      <4> QED
        BY <2>3, <4>2 DEF Filter, Committed, Running, WorkerOf, TypeOK
    <3>3. CASE load[v] < max_load(v)
      <4>1. ASSUME NEW w \in Live'
            PROVE  (load[w] + Cardinality(Committed(w)) <= max_load(w) + NThreads - 1)'
        <5>1. w \in Live /\ max_load(w)' = max_load(w) /\ load'[w] = load[w]
          BY <2>3 DEF Filter, Live, max_load
        <5>2. CASE w # v
          BY <5>1, <5>2, <3>2, <1>a DEF CommittedBounded
        <5>3. CASE w = v
          <6>1. /\ Cardinality(Committed(w)') <= Cardinality(Running')
                /\ Cardinality(Committed(w)') \in Nat
            <7>1. Committed(w)' \subseteq Running'
              BY DEF Committed
            <7> QED
              BY <7>1, <3>1, RunningFinite, FS_Subset, FS_CardinalityType
          <6>2. Cardinality(Running') <= NThreads
            BY <3>1 DEF CommittedBounded
          <6> QED
            BY <5>1, <5>3, <3>3, <6>1, <6>2, <3>1, RunningFinite, LiveTyped, ProxyAssumption
        <5> QED
          BY <5>2, <5>3
      <4> QED
        BY <3>1, <4>1 DEF CommittedBounded
    <3>4. CASE ~(load[v] < max_load(v))
      <4>1. avail' = avail
        BY <2>3, <3>0, <3>4 DEF Filter, IsAvailable, BelowCap
      <4>2. \A w : Committed(w)' = Committed(w)
        BY <2>3, <4>1 DEF Filter, Committed, Running, WorkerOf
      <4> QED
        BY <2>3, <3>1, <4>2, <1>0, <1>a, CommittedShrinks DEF Filter
    <3> QED
      BY <3>3, <3>4
  <2>4. CASE NoneAvailable(r)
    <3>1. Running' \subseteq Running
      BY <2>4 DEF NoneAvailable, Leave, Running, Selecting, TypeOK
    <3>2. \A w : Committed(w)' \subseteq Committed(w)
      BY <2>4 DEF NoneAvailable, Leave, Committed, Running, WorkerOf, Selecting, TypeOK
    <3> QED
      BY <2>4, <3>1, <3>2, <1>0, <1>a, CommittedShrinks DEF NoneAvailable
  <2>5. CASE OnlyOne(r)
    <3>1. Running' = Running
      BY <2>5 DEF OnlyOne, Filtered, Running, Selecting, TypeOK
    <3>2. \A w : Committed(w)' \subseteq Committed(w)
      BY <2>5, <3>1 DEF OnlyOne, Filtered, Committed, WorkerOf, TypeOK
    <3> QED
      BY <2>5, <3>1, <3>2, <1>0, <1>a, CommittedShrinks DEF OnlyOne
  <2>6. CASE SeveralAvailable(r)
    <3>1. Running' = Running
      BY <2>6 DEF SeveralAvailable, Filtered, Running, Selecting, TypeOK
    <3>2. \A w : Committed(w)' \subseteq Committed(w)
      BY <2>6, <3>1 DEF SeveralAvailable, Committed, WorkerOf, TypeOK
    <3> QED
      BY <2>6, <3>1, <3>2, <1>0, <1>a, CommittedShrinks DEF SeveralAvailable
  <2>7. CASE ReadLoad(r)
    <3>1. Running' = Running
      BY <2>7 DEF ReadLoad, Running, Selecting, TypeOK
    <3>2. \A w : Committed(w)' \subseteq Committed(w)
      BY <2>7, <3>1 DEF ReadLoad, Committed, WorkerOf, TypeOK
    <3> QED
      BY <2>7, <3>1, <3>2, <1>0, <1>a, CommittedShrinks DEF ReadLoad
  <2>8. CASE Choose(r)
    <3>1. Running' = Running
      BY <2>8 DEF Choose, Running, Selecting, TypeOK
    <3>2. \A w : Committed(w)' \subseteq Committed(w)
      BY <2>8, <3>1 DEF Choose, LeastLoaded, CacheHits, Committed, WorkerOf, TypeOK
    <3> QED
      BY <2>8, <3>1, <3>2, <1>0, <1>a, CommittedShrinks DEF Choose
  <2>9. CASE Acquire(r)
    <3>0. PICK v : v = WorkerOf(r)
      OBVIOUS
    <3>1. Running' \subseteq Running
      BY <2>9 DEF Acquire, Running, Selecting, TypeOK
    <3>2. \A w : Committed(w)' \subseteq Committed(w)
      BY <2>9 DEF Acquire, Committed, Running, WorkerOf, Selecting, TypeOK
    <3>3. r \in Committed(v) /\ Committed(v)' \subseteq Committed(v) \ {r}
      BY <2>9, <3>0 DEF Acquire, Committed, Running, WorkerOf, Selecting, TypeOK
    <3>4. Cardinality(Running') <= NThreads
      <4>1. Cardinality(Running') <= Cardinality(Running) /\ Cardinality(Running') \in Nat
        BY <3>1, RunningFinite, FS_Subset, FS_CardinalityType
      <4> QED
        BY <4>1, RunningFinite, ProxyAssumption DEF CommittedBounded
    <3>5. ASSUME NEW w \in Live'
          PROVE  (load[w] + Cardinality(Committed(w)) <= max_load(w) + NThreads - 1)'
      <4>1. w \in Live /\ max_load(w)' = max_load(w)
        BY <2>9 DEF Acquire, Live, max_load
      <4>2. load[w] + Cardinality(Committed(w)) <= max_load(w) + NThreads - 1
        BY <4>1 DEF CommittedBounded
      <4>3. max_load(w) \in Nat /\ load[w] \in Nat /\ w \in Workers
        BY <4>1, <1>a, LiveTyped
      <4>4. CASE w # v
        <5>1. load'[w] = load[w]
          BY <2>9, <3>0, <4>3, <4>4 DEF Acquire, TypeOK
        <5>2. /\ Cardinality(Committed(w)') <= Cardinality(Committed(w))
              /\ Cardinality(Committed(w)') \in Nat
          BY <3>2, RunningFinite, FS_Subset, FS_CardinalityType
        <5> QED
          BY <4>1, <4>2, <4>3, <5>1, <5>2, RunningFinite, ProxyAssumption
      <4>5. CASE w = v
        <5>1. load'[w] = load[w] + 1
          BY <2>9, <3>0, <4>3, <4>5 DEF Acquire, TypeOK
        <5>2. /\ IsFiniteSet(Committed(v) \ {r})
              /\ Cardinality(Committed(v) \ {r}) = Cardinality(Committed(v)) - 1
          BY <3>3, RunningFinite, FS_RemoveElement
        <5>3. /\ Cardinality(Committed(w)') <= Cardinality(Committed(w)) - 1
              /\ Cardinality(Committed(w)') \in Nat
          BY <4>5, <3>3, <5>2, FS_Subset, FS_CardinalityType
        <5> QED
          BY <4>1, <4>2, <4>3, <5>1, <5>3, RunningFinite, ProxyAssumption
      <4> QED
        BY <4>4, <4>5
    <3> QED
      BY <3>4, <3>5 DEF CommittedBounded
  <2>10. ASSUME pc[r] \in Holding \cup {"sleep"}, pool' = pool,
                pc'[r] \in Holding \cup {"sleep", "idle"},
                \A q \in Request \ {r} :
                  pc'[q] = pc[q] /\ rgen'[q] = rgen[q] /\ slot'[q] = slot[q],
                avail' = avail,
                load' = load \/ load' = Decrement(WorkerOf(r))
         PROVE  CommittedBounded'
    <3>1. Running' = Running
      BY <2>10 DEF Running, Selecting, Holding
    <3>2. \A w : Committed(w)' \subseteq Committed(w)
      BY <2>10, <3>1 DEF Committed, Running, Selecting, Holding, WorkerOf
    <3>3. ASSUME NEW w \in Live PROVE load'[w] <= load[w]
      <4>1. w \in Workers /\ load[w] \in Nat
        BY <1>a
      <4>2. CASE load' = load
        BY <4>1, <4>2
      <4>3. CASE load' = Decrement(WorkerOf(r))
        <5>1. load'[w] \in {load[w], IF load[w] > 0 THEN load[w] - 1 ELSE load[w]}
          BY <4>1, <4>3 DEF Decrement, TypeOK
        <5> QED
          BY <4>1, <5>1
      <4> QED
        BY <2>10, <4>2, <4>3
    <3> QED
      BY <2>10, <3>1, <3>2, <3>3, <1>0, CommittedShrinks
  <2>11. ASSUME pc[r] \in Holding, BackOff(r) \/ Finish(r) PROVE CommittedBounded'
    BY <2>11, <2>10 DEF BackOff, Finish, Leave, TypeOK
  <2>12. ASSUME NEW st \in Status, RetryStatus(r, st) \/ Answer(r, st)
         PROVE  CommittedBounded'
    BY <2>12, <2>11 DEF RetryStatus, Answer, Holding
  <2>13. ASSUME NEW st \in Status, AnswerStream(r, st) PROVE CommittedBounded'
    BY <2>13, <2>10 DEF AnswerStream, TypeOK, Holding
  <2>14. CASE RetryError(r) \/ FinalError(r) \/ StreamEnd(r) \/ CancelForward(r)
    BY <2>14, <2>11 DEF RetryError, FinalError, StreamEnd, CancelForward, Holding
  <2>15. CASE CancelSleep(r)
    BY <2>15, <2>10 DEF CancelSleep, Leave, TypeOK
  <2> QED
    BY <1>2, <2>1, <2>2, <2>3, <2>4, <2>5, <2>6, <2>7, <2>8, <2>9, <2>12, <2>13,
       <2>14, <2>15
       DEF RequestStep, SelectStep, AnswerStep
<1>3. CASE Reload
  <2>1. Running' = Running /\ \A w : Committed(w)' = Committed(w)
    BY <1>3 DEF Reload, Running, Committed, WorkerOf
  <2>2. ASSUME NEW w \in Live'
        PROVE  (load[w] + Cardinality(Committed(w)) <= max_load(w) + NThreads - 1)'
    <3>1. w \in Workers /\ w[1] \in 1 .. Len(pool) + 1
      BY <1>3, PoolGrows DEF Live, Workers, Gens, TypeOK
    <3>2. CASE w[1] \in 1 .. Len(pool)
      <4>1. w \in Live /\ max_load(w)' = max_load(w) /\ load'[w] = load[w]
        BY <1>3, <3>1, <3>2, PoolGrows DEF Reload, NewWorkers, Live, max_load, TypeOK
      <4> QED
        BY <2>1, <4>1 DEF CommittedBounded
    <3>3. CASE w[1] = Len(pool) + 1
      <4>1. load'[w] = 0
        BY <1>3, <3>1, <3>3 DEF Reload, NewWorkers
      <4>2. Committed(w) = {}
        <5>1. \A q \in Request : rgen[q] # w[1]
          BY <3>3 DEF SnapshotsValid, TypeOK, Gens
        <5> QED
          BY <5>1 DEF Committed, Running, WorkerOf
      <4>3. max_load(w)' \in Nat
        <5>1. PICK c \in Configs : pool' = Append(pool, c)
          BY <1>3 DEF Reload
        <5>2. pool'[w[1]] = c
          BY <3>3, <5>1, ProxyAssumption DEF TypeOK
        <5>3. w[2] \in 1 .. Len(c) /\ c \in Seq(Entry)
          BY <3>1, <5>1, <5>2, ProxyAssumption DEF Live, Workers, Slots
        <5>4. c[w[2]] \in Entry
          BY <5>3
        <5>5. c[w[2]].max_load \in Nat
          BY <5>4 DEF Entry
        <5> QED
          BY <5>2, <5>5 DEF max_load
      <4>4. Cardinality(Committed(w)') = 0
        BY <2>1, <4>2, FS_EmptySet
      <4> QED
        BY <4>1, <4>3, <4>4, ProxyAssumption
    <3> QED
      BY <3>1, <3>2, <3>3 DEF TypeOK
  <2> QED
    BY <2>1, <2>2 DEF CommittedBounded
<1>4. ASSUME NEW w \in Workers, HealthChange(w) \/ BreakerTimeOut(w) \/ Inspect(w)
      PROVE  CommittedBounded'
  BY <1>4, <1>0, <1>a, CommittedShrinks
     DEF HealthChange, BreakerTimeOut, Inspect, Running, Committed, WorkerOf
<1>5. ASSUME NEW g \in Gens, Evict(g) PROVE CommittedBounded'
  BY <1>5, <1>0, <1>a, CommittedShrinks DEF Evict, Running, Committed, WorkerOf
<1> QED
  BY <1>1, <1>2, <1>3, <1>4, <1>5 DEF Next

----------------------------------------------------------------------------
(* The theorems. *)

\* The invariant holds when the first router has been built.
LEMMA InitInd == Init => IndInv
<1> SUFFICES ASSUME Init PROVE IndInv
  OBVIOUS
<1> USE DEF Init
<1>1. TypeOK
  <2>1. NewBreaker \in Breakers
    BY ThresholdAssumption DEF NewBreaker, Breakers, CircuitState
  <2>2. pool \in Seq(Configs) /\ Len(pool) \in Gens
    BY ProxyAssumption DEF Gens
  <2>3. \A r \in Request : \E S \in SUBSET Slots : seen[r] \in [S -> Nat]
    <3>1. << >> \in [{} -> Nat] /\ {} \in SUBSET Slots
      OBVIOUS
    <3> QED
      BY <3>1
  <2>4. /\ cached \in [Gens -> SUBSET Url]
        /\ load \in [Workers -> Nat]
        /\ healthy \in [Workers -> BOOLEAN]
        /\ breaker \in [Workers -> Breakers]
    <3>1. PICK c \in Configs : \E S \in NewTrees(c) :
                 cached = [g \in Gens |-> IF g = 1 THEN S ELSE {}]
      OBVIOUS
    <3>2. cached \in [Gens -> SUBSET Url]
      BY <3>1, NewTreeUrls
    <3> QED
      BY <2>1, <3>2
  <2>5. 1 \in Gens
    BY ProxyAssumption DEF Gens
  <2>6. /\ pc \in [Request -> PCs]
        /\ rgen \in [Request -> Gens]
        /\ empty \in [Request -> BOOLEAN]
        /\ pos \in [Request -> Nat \ {0}]
        /\ avail \in [Request -> SUBSET Slots]
        /\ DOMAIN seen = Request
        /\ slot \in [Request -> Slots \cup {NoSlot}]
        /\ failed \in [Request -> Slots \cup {NoSlot}]
        /\ attempt \in [Request -> Nat]
    BY <2>5 DEF PCs
  <2> QED
    BY <2>2, <2>3, <2>4, <2>6 DEF TypeOK
<1>2. Len(pool) = 1
  OBVIOUS
<1>3. TasksValid
  BY <1>1, <1>2 DEF TasksValid, SnapshotsValid, RetriesValid, RetryAvoidsFailed,
     NeverExhausted, Holding, NoSlot
<1>4. LoadMatchesGuards
  <2>1. \A w : Holders(w) = {}
    BY DEF Holders, Holding
  <2> QED
    BY <2>1, FS_EmptySet DEF LoadMatchesGuards
<1>5. CommittedBounded
  <2>1. Running = {} /\ \A w : Committed(w) = {}
    BY DEF Running, Committed, Selecting
  <2>2. \A w \in Live : max_load(w) \in Nat /\ load[w] = 0
    BY <1>1, LiveTyped DEF Live
  <2>3. Cardinality(Running) = 0 /\ \A w : Cardinality(Committed(w)) = 0
    BY <2>1, FS_EmptySet
  <2>4. ASSUME NEW w \in Live
        PROVE  load[w] + Cardinality(Committed(w)) <= max_load(w) + NThreads - 1
    <3> HIDE DEF Init
    <3>1. load[w] = 0 /\ Cardinality(Committed(w)) = 0 /\ max_load(w) \in Nat
      BY <2>2, <2>3
    <3> QED
      BY <3>1, ProxyAssumption
  <2> QED
    BY <2>3, <2>4, ProxyAssumption DEF CommittedBounded
<1> QED
  BY <1>1, <1>3, <1>4, <1>5 DEF IndInv, TasksValid

\* The inductive invariant holds in every reachable state.
THEOREM Invariance == Spec => []IndInv
<1>1. ASSUME IndInv, [Next]_vars PROVE IndInv'
  BY <1>1, TypeStep, TasksStep, LoadStep, CommittedStep DEF IndInv, TasksValid
<1> QED
  BY <1>1, InitInd, PTL DEF Spec

\* Type correctness.
THEOREM TypeCorrect == Spec => []TypeOK
<1>1. IndInv => TypeOK
  BY DEF IndInv
<1> QED
  BY <1>1, Invariance, PTL

\* Load accounting (LoadGuard, LoadTrackingStream): no schedule of requests,
\* retries, disconnections and reloads makes a counter drift.
THEOREM LoadAccounting == Spec => []LoadMatchesGuards
<1>1. IndInv => LoadMatchesGuards
  BY DEF IndInv
<1> QED
  BY <1>1, Invariance, PTL

\* The overshoot of max_load (is_available against LoadGuard::new) is at most one
\* request per additional thread, for every number of requests and workers.
THEOREM Overshoot == Spec => []OvershootBounded
<1>1. IndInv => OvershootBounded
  <2> SUFFICES ASSUME IndInv, NEW w \in Live
               PROVE  load[w] <= max_load(w) + NThreads - 1
    BY DEF OvershootBounded
  <2>1. load[w] + Cardinality(Committed(w)) <= max_load(w) + NThreads - 1
    BY DEF IndInv, CommittedBounded
  <2>2. load[w] \in Nat /\ max_load(w) \in Nat
    BY LiveTyped DEF IndInv
  <2> QED
    BY <2>1, <2>2, RunningFinite, ProxyAssumption
<1> QED
  BY <1>1, Invariance, PTL

\* What stands behind it: counting every task that may still take a worker as if
\* it had, the worker's load keeps to the same bound, and the tasks between two
\* awaits are no more than the threads.
THEOREM CommittedCounted == Spec => []CommittedBounded
<1>1. IndInv => CommittedBounded
  BY DEF IndInv
<1> QED
  BY <1>1, Invariance, PTL

\* On a runtime with a single thread the cap is hard.
THEOREM SingleThreadCap == NThreads = 1 => (Spec => []HardCap)
<1> SUFFICES ASSUME NThreads = 1 PROVE Spec => []HardCap
  OBVIOUS
<1>1. TypeOK /\ OvershootBounded => HardCap
  BY LiveTyped DEF OvershootBounded, HardCap
<1> QED
  BY <1>1, TypeCorrect, Overshoot, PTL

\* workers()[worker_idx] stays within the worker list of the task's own snapshot
\* through every reload.
THEOREM SnapshotIndices == Spec => []SnapshotsValid
<1>1. IndInv => SnapshotsValid
  BY DEF IndInv
<1> QED
  BY <1>1, Invariance, PTL

\* The retry loop (proxy_request): a retry never goes to the worker that just
\* failed.
THEOREM RetryLoop == Spec => []RetryAvoidsFailed
<1>1. IndInv => RetryAvoidsFailed
  BY DEF IndInv
<1> QED
  BY <1>1, Invariance, PTL

\* The code after the retry loop is unreachable, whatever max_retries is.
THEOREM LastAttemptAnswers == Spec => []NeverExhausted
<1>1. IndInv => NeverExhausted
  BY DEF IndInv
<1> QED
  BY <1>1, Invariance, PTL

=============================================================================
