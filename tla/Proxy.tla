------------------------------- MODULE Proxy -------------------------------
(***************************************************************************)
(* The request path of the router: a handler takes a snapshot of the       *)
(* current router (server.rs), proxy_request selects a worker, accounts    *)
(* for its load with an RAII guard, forwards the request, and retries,     *)
(* answers or streams (proxy.rs, routing.rs, worker.rs); SIGHUP replaces   *)
(* the router and all its workers under the requests in flight (main.rs).  *)
(*                                                                         *)
(* A request is a task of the tokio runtime.  Between two awaits it runs   *)
(* on one of NThreads threads: selecting a worker reads the shared worker  *)
(* state one worker at a time, with the other threads in between, and what *)
(* follows an await (the answer, the error, the end of the sleep) is one   *)
(* step.  The choice of the worker is a sequence of steps because it is    *)
(* check-then-act: a worker's load is tested first, read again for the     *)
(* comparison, and only incremented when the choice has been made.         *)
(*                                                                         *)
(* Data.  A worker is <<generation, index in the worker list>>.  Of the    *)
(* request body only "empty routing text or not" matters here.  Of the     *)
(* radix tree of a generation only the set of URLs it may return matters:  *)
(* cached[g].  Module RadixTree models the tree itself.  Health is a bit   *)
(* that the health checker may flip at any time.                           *)
(***************************************************************************)
EXTENDS BreakerRules, Sequences, FiniteSets

CONSTANTS
  Request,          \* identities of client requests, each used again and again
  Url,              \* backend URLs
  Configs,          \* the worker lists the configuration file may hold
  MaxWorkers,       \* length of the longest of them
  MaxGen,           \* bound on the generations: one per start or reload
  NThreads,         \* worker threads of the tokio runtime
  MaxRetries,       \* proxy.max_retries
  BalanceAbs,       \* cache.balance_abs_threshold
  BalanceRelNum,    \* cache.balance_rel_threshold is the fraction
  BalanceRelDen     \*   BalanceRelNum / BalanceRelDen

Gens == 1 .. MaxGen
Slots == 1 .. MaxWorkers
Workers == Gens \X Slots
NoSlot == 0

\* One entry of the "workers" list of the configuration.
Entry == [url : Url, max_load : Nat \ {0}, load_penalty : Nat]

\* validate() refuses an empty worker list and a max_load of 0; max_retries and
\* the thresholds are unsigned.
ASSUME ProxyAssumption ==
  /\ IsFiniteSet(Request)
  /\ MaxWorkers \in Nat
  /\ MaxGen \in Nat \ {0}
  /\ Configs \subseteq Seq(Entry)
  /\ \A c \in Configs : Len(c) \in 1 .. MaxWorkers
  /\ NThreads \in Nat \ {0}
  /\ MaxRetries \in Nat
  /\ BalanceAbs \in Nat
  /\ BalanceRelNum \in Nat
  /\ BalanceRelDen \in Nat \ {0}

VARIABLES
  \* The routers, by generation; the last one is what ArcSwap holds.
  pool,      \* the worker list each was built from
  cached,    \* the URLs its tree may return for a match above the thresholds
  \* The worker objects.
  load,      \* load_counter
  healthy,   \* healthy
  breaker,   \* circuit_breaker
  \* The request tasks.
  pc,        \* where the task is
  rgen,      \* the router it took a snapshot of
  empty,     \* its routing text is empty
  pos,       \* select_worker: next worker to filter
  avail,     \* select_worker: `available`
  seen,      \* select_worker: `loads`, by index
  slot,      \* index of the chosen worker, while the task accounts for it
  failed,    \* last_failed
  attempt    \* loop counter

poolVars == <<pool, cached>>
workerVars == <<load, healthy, breaker>>
selectVars == <<pos, avail, seen>>
loopVars == <<slot, failed, attempt>>
reqVars == <<pc, rgen, empty, selectVars, loopVars>>
vars == <<poolVars, workerVars, reqVars>>

----------------------------------------------------------------------------
(* Workers and threads. *)

max_load(w) == pool[w[1]][w[2]].max_load
url(w) == pool[w[1]][w[2]].url
effective_load(w) == load[w] + pool[w[1]][w[2]].load_penalty

\* The worker objects that exist so far.
Live == {w \in Workers : w[1] <= Len(pool) /\ w[2] <= Len(pool[w[1]])}

\* decrement_load: checked_sub, so an underflow would go unnoticed.
Decrement(w) == [load EXCEPT ![w] = IF @ > 0 THEN @ - 1 ELSE @]

WorkerOf(r) == <<rgen[r], slot[r]>>

\* Tasks between two awaits occupy a thread.
Selecting == {"filter", "loads", "choose", "acquire"}
Running == {r \in Request : pc[r] \in Selecting}
FreeThread == Cardinality(Running) < NThreads

\* Tasks that hold a LoadGuard or a LoadTrackingStream on w.
Holding == {"forward", "stream"}
Holders(w) == {r \in Request : pc[r] \in Holding /\ WorkerOf(r) = w}

----------------------------------------------------------------------------
(* Start, reload, and what else changes a worker. *)

NewWorkers(g, old, new) == [w \in Workers |-> IF w[1] = g THEN new ELSE old[w]]

\* A new tree holds every URL at its root.  That is no match, except with a
\* cache.threshold of 0, where a match of no length is good enough.
NewTrees(c) == {{}, {c[i].url : i \in 1 .. Len(c)}}

Init ==
  /\ \E c \in Configs :
       /\ pool = <<c>>
       /\ \E S \in NewTrees(c) : cached = [g \in Gens |-> IF g = 1 THEN S ELSE {}]
  /\ load = [w \in Workers |-> 0]
  /\ healthy = [w \in Workers |-> TRUE]
  /\ breaker = [w \in Workers |-> NewBreaker]
  /\ pc = [r \in Request |-> "idle"]
  /\ rgen = [r \in Request |-> 1]
  /\ empty = [r \in Request |-> FALSE]
  /\ pos = [r \in Request |-> 1]
  /\ avail = [r \in Request |-> {}]
  /\ seen = [r \in Request |-> << >>]
  /\ slot = [r \in Request |-> NoSlot]
  /\ failed = [r \in Request |-> NoSlot]
  /\ attempt = [r \in Request |-> 0]

\* SIGHUP: new Worker objects for every entry, the URLs that stay included,
\* and a new router with a new tree.  Tasks keep the router they have.
Reload ==
  /\ FreeThread
  /\ Len(pool) < MaxGen
  /\ LET g == Len(pool) + 1
     IN  /\ \E c \in Configs :
              /\ pool' = Append(pool, c)
              /\ \E S \in NewTrees(c) : cached' = [cached EXCEPT ![g] = S]
         /\ load' = NewWorkers(g, load, 0)
         /\ healthy' = NewWorkers(g, healthy, TRUE)
         /\ breaker' = NewWorkers(g, breaker, NewBreaker)
  /\ UNCHANGED reqVars

\* check_health crosses a threshold (the checker of a retired generation may
\* still be finishing its last round).
HealthChange(w) ==
  /\ FreeThread
  /\ w \in Live
  /\ healthy' = [healthy EXCEPT ![w] = ~@]
  /\ UNCHANGED <<poolVars, load, breaker, reqVars>>

\* timeout_secs pass on an open breaker.
BreakerTimeOut(w) ==
  /\ breaker[w].state = "Open"
  /\ ~breaker[w].expired
  /\ breaker' = [breaker EXCEPT ![w] = TimeOut(@)]
  /\ UNCHANGED <<poolVars, load, healthy, reqVars>>

\* GET /workers looks at one worker after the other.  `state()` refreshes the
\* breaker of every one, so that asking half-opens what has timed out.
Inspect(w) ==
  /\ FreeThread
  /\ w \in Live
  /\ breaker' = [breaker EXCEPT ![w] = Refresh(@)]
  /\ UNCHANGED <<poolVars, load, healthy, reqVars>>

\* The eviction pass drops entries of the tree.
Evict(g) ==
  /\ FreeThread
  /\ \E u \in cached[g] : cached' = [cached EXCEPT ![g] = @ \ {u}]
  /\ UNCHANGED <<pool, workerVars, reqVars>>

----------------------------------------------------------------------------
(* proxy_request, up to the forwarded request.                             *)

\* The task ends and its locals are gone.
Leave(r) ==
  /\ pc' = [pc EXCEPT ![r] = "idle"]
  /\ rgen' = [rgen EXCEPT ![r] = 1]
  /\ empty' = [empty EXCEPT ![r] = FALSE]
  /\ pos' = [pos EXCEPT ![r] = 1]
  /\ slot' = [slot EXCEPT ![r] = NoSlot]
  /\ failed' = [failed EXCEPT ![r] = NoSlot]
  /\ attempt' = [attempt EXCEPT ![r] = 0]
  /\ UNCHANGED <<avail, seen>>

\* A handler loads the router and enters the first iteration of the loop.  (A
\* request that validate_remote_media refuses changes nothing.)
Arrive(r) ==
  /\ pc[r] = "idle"
  /\ FreeThread
  /\ pc' = [pc EXCEPT ![r] = "filter"]
  /\ rgen' = [rgen EXCEPT ![r] = Len(pool)]
  /\ \E e \in BOOLEAN : empty' = [empty EXCEPT ![r] = e]
  /\ UNCHANGED <<poolVars, workerVars, selectVars, loopVars>>

\* Mutant: the load is let in at the cap as well.
AtMostCap(w) == load[w] <= max_load(w)

BelowCap(w) == load[w] < max_load(w)

\* is_available(), b being what can_execute has made of the breaker of w.
IsAvailable(w, b) == healthy[w] /\ Admits(b) /\ BelowCap(w)

\* Mutant: `exclude` is ignored.
ExcludeNone(r, i) == FALSE

\* exclude: the worker the previous attempt failed on.
Excluded(r, i) == i = failed[r]

\* One worker goes through the filter.  can_execute may half-open its breaker,
\* but && only calls it on a healthy worker; the exclusion is tested last.
Filter(r) ==
  LET i == pos[r]
      w == <<rgen[r], i>>
      b == IF healthy[w] THEN Refresh(breaker[w]) ELSE breaker[w]
  IN  /\ pc[r] = "filter"
      /\ i <= Len(pool[rgen[r]])
      /\ breaker' = [breaker EXCEPT ![w] = b]
      /\ avail' = IF IsAvailable(w, b) /\ ~Excluded(r, i)
                    THEN [avail EXCEPT ![r] = @ \cup {i}]
                    ELSE avail
      /\ pos' = [pos EXCEPT ![r] = @ + 1]
      /\ UNCHANGED <<poolVars, load, healthy, pc, rgen, empty, seen, loopVars>>

Filtered(r) == pc[r] = "filter" /\ pos[r] > Len(pool[rgen[r]])

\* No worker: 503.
NoneAvailable(r) ==
  /\ Filtered(r)
  /\ avail[r] = {}
  /\ Leave(r)
  /\ UNCHANGED <<poolVars, workerVars>>

\* A single available worker is taken without looking at loads or the tree.
OnlyOne(r) ==
  /\ Filtered(r)
  /\ \E i \in Slots :
       /\ avail[r] = {i}
       /\ slot' = [slot EXCEPT ![r] = i]
  /\ avail' = [avail EXCEPT ![r] = {}]
  /\ pos' = [pos EXCEPT ![r] = 1]
  /\ pc' = [pc EXCEPT ![r] = "acquire"]
  /\ UNCHANGED <<poolVars, workerVars, rgen, empty, seen, failed, attempt>>

SeveralAvailable(r) ==
  /\ Filtered(r)
  /\ \E i, j \in avail[r] : i # j
  /\ pos' = [pos EXCEPT ![r] = 1]
  /\ pc' = [pc EXCEPT ![r] = "loads"]
  /\ UNCHANGED <<poolVars, workerVars, rgen, empty, avail, seen, loopVars>>

\* The loads of the available workers, in the order of the list.
ReadLoad(r) ==
  /\ pc[r] = "loads"
  /\ \E i \in avail[r] \ DOMAIN seen[r] :
       /\ \A j \in avail[r] \ DOMAIN seen[r] : i <= j
       /\ seen' = [seen EXCEPT ![r] =
                     [k \in DOMAIN @ \cup {i} |->
                        IF k = i THEN effective_load(<<rgen[r], i>>) ELSE @[k]]]
       /\ pc' = [pc EXCEPT ![r] =
                   IF avail[r] \subseteq DOMAIN seen[r] \cup {i} THEN "choose" ELSE @]
  /\ UNCHANGED <<poolVars, workerVars, rgen, empty, pos, avail, loopVars>>

\* min_load and the workers tied on it, from the loads that were read.
LeastLoaded(r) == {i \in avail[r] : \A j \in avail[r] : seen[r][i] <= seen[r][j]}

\* matched_is_overloaded; against an idle pool the ratio is infinite.
Overloaded(matched, least) ==
  /\ matched >= least + BalanceAbs \/ (BalanceAbs = 0 /\ matched < least)
  /\ least > 0 => matched * BalanceRelDen >= BalanceRelNum * least

\* position(): the first worker of the list with that URL.
Position(g, u) ==
  {i \in 1 .. Len(pool[g]) :
     /\ pool[g][i].url = u
     /\ \A j \in 1 .. (i - 1) : pool[g][j].url # u}

\* The workers a good enough match may lead to: available, and not overloaded
\* by a load that is read anew, against the minimum that was read before.
CacheHits(r, least) ==
  {i \in avail[r] :
     /\ ~empty[r]
     /\ \E u \in cached[rgen[r]] : i \in Position(rgen[r], u)
     /\ ~Overloaded(effective_load(<<rgen[r], i>>), least)}

\* Cache affinity, or the least loaded worker when the text is empty or does
\* not match well enough, or the matched worker is unavailable or overloaded.
Choose(r) ==
  /\ pc[r] = "choose"
  /\ \E m \in LeastLoaded(r) :
       \E i \in {m} \cup CacheHits(r, seen[r][m]) :
         slot' = [slot EXCEPT ![r] = i]
  /\ avail' = [avail EXCEPT ![r] = {}]
  /\ seen' = [seen EXCEPT ![r] = << >>]
  /\ pc' = [pc EXCEPT ![r] = "acquire"]
  /\ UNCHANGED <<poolVars, workerVars, rgen, empty, pos, failed, attempt>>

\* Mutant: the index is looked up in the router of the moment.
AcquireCurrent(r) ==
  /\ pc[r] = "acquire"
  /\ load' = [load EXCEPT ![<<Len(pool), slot[r]>>] = @ + 1]
  /\ rgen' = [rgen EXCEPT ![r] = Len(pool)]
  /\ pc' = [pc EXCEPT ![r] = "forward"]
  /\ UNCHANGED <<poolVars, healthy, breaker, empty, selectVars, loopVars>>

\* LoadGuard::new; the request is then sent and the task awaits the answer.
Acquire(r) ==
  /\ pc[r] = "acquire"
  /\ load' = [load EXCEPT ![WorkerOf(r)] = @ + 1]
  /\ pc' = [pc EXCEPT ![r] = "forward"]
  /\ UNCHANGED <<poolVars, healthy, breaker, rgen, empty, selectVars, loopVars>>

----------------------------------------------------------------------------
(* proxy_request, after the await.                                         *)

\* Classes of status codes: 2xx; 4xx but 408 and 429; 408 and 429; 500, 502,
\* 503 and 504; the rest (1xx, 3xx and the other 5xx).
Status == {"success", "client_error", "throttled", "server_error", "other"}

is_retryable_status(s) == s \in {"throttled", "server_error"}

\* What the breaker is told: 2xx and every 4xx count as a success.
success(s) == s \in {"success", "client_error", "throttled"}

\* A u32 addition with overflow checks: MaxRetries stands for the values below
\* u32::MAX, at which the process would abort here.
MaxAttempts == MaxRetries + 1

MayRetry(r) == attempt[r] + 1 < MaxAttempts

record_outcome(w, ok) == breaker' = [breaker EXCEPT ![w] = RecordOutcome(@, ok)]

\* The insertion is skipped for an empty text, or when the eviction pass holds
\* its lock for more than a second.
record_routed(r) ==
  \/ cached' = cached
  \/ ~empty[r] /\ cached' = [cached EXCEPT ![rgen[r]] = @ \cup {url(WorkerOf(r))}]

\* Mutant: last_failed is the index after the one that failed.
BackOffNext(r) ==
  /\ load' = Decrement(WorkerOf(r))
  /\ failed' = [failed EXCEPT ![r] = slot[r] + 1]
  /\ slot' = [slot EXCEPT ![r] = NoSlot]
  /\ pc' = [pc EXCEPT ![r] = "sleep"]
  /\ UNCHANGED <<poolVars, healthy, rgen, empty, selectVars, attempt>>

\* The guard is dropped and the task sleeps before the next attempt.
BackOff(r) ==
  /\ load' = Decrement(WorkerOf(r))
  /\ failed' = [failed EXCEPT ![r] = slot[r]]
  /\ slot' = [slot EXCEPT ![r] = NoSlot]
  /\ pc' = [pc EXCEPT ![r] = "sleep"]
  /\ UNCHANGED <<poolVars, healthy, rgen, empty, selectVars, attempt>>

\* The guard (or the stream wrapper) is dropped and the task is over.
Finish(r) ==
  /\ load' = Decrement(WorkerOf(r))
  /\ Leave(r)
  /\ UNCHANGED <<pool, healthy>>

RetryStatus(r, s) ==
  /\ pc[r] = "forward"
  /\ FreeThread
  /\ is_retryable_status(s)
  /\ MayRetry(r)
  /\ record_outcome(WorkerOf(r), success(s))
  /\ BackOff(r)

Answer(r, s) ==
  /\ pc[r] = "forward"
  /\ FreeThread
  /\ ~(is_retryable_status(s) /\ MayRetry(r))
  /\ record_outcome(WorkerOf(r), success(s))
  /\ record_routed(r)
  /\ Finish(r)

\* disarm(): the stream wrapper takes over the load.
AnswerStream(r, s) ==
  /\ pc[r] = "forward"
  /\ FreeThread
  /\ ~(is_retryable_status(s) /\ MayRetry(r))
  /\ record_outcome(WorkerOf(r), success(s))
  /\ record_routed(r)
  /\ pc' = [pc EXCEPT ![r] = "stream"]
  /\ UNCHANGED <<pool, load, healthy, rgen, empty, selectVars, loopVars>>

\* Connection error, timeout, or a body that cannot be read.
RetryError(r) ==
  /\ pc[r] = "forward"
  /\ FreeThread
  /\ MayRetry(r)
  /\ record_outcome(WorkerOf(r), FALSE)
  /\ BackOff(r)

FinalError(r) ==
  /\ pc[r] = "forward"
  /\ FreeThread
  /\ ~MayRetry(r)
  /\ record_outcome(WorkerOf(r), FALSE)
  /\ Finish(r)
  /\ UNCHANGED cached

\* The next iteration of the loop.
Again(r) ==
  /\ attempt' = [attempt EXCEPT ![r] = @ + 1]
  /\ pc' = [pc EXCEPT ![r] = "filter"]
  /\ UNCHANGED <<rgen, empty, selectVars, slot, failed>>

\* Mutant: a loop that does not count its attempts.
WakeUncounted(r) ==
  /\ pc[r] = "sleep"
  /\ FreeThread
  /\ pc' = [pc EXCEPT ![r] = "filter"]
  /\ UNCHANGED <<poolVars, workerVars, rgen, empty, selectVars, loopVars>>

\* The sleep is over: `for attempt in 0..max_attempts` goes on, or the code after
\* the loop answers with the last response, or 503.
Wake(r) ==
  /\ pc[r] = "sleep"
  /\ FreeThread
  /\ IF attempt[r] + 1 < MaxAttempts THEN Again(r) ELSE Leave(r)
  /\ UNCHANGED <<poolVars, workerVars>>

\* The stream ends, fails, or the client goes away: the wrapper is dropped.
StreamEnd(r) ==
  /\ pc[r] = "stream"
  /\ FreeThread
  /\ Finish(r)
  /\ UNCHANGED <<cached, breaker>>

\* Mutant: without RAII a dropped future keeps its load.
CancelForwardLeak(r) ==
  /\ pc[r] = "forward"
  /\ FreeThread
  /\ Leave(r)
  /\ UNCHANGED <<poolVars, workerVars>>

\* The client disconnects while the task awaits: its future is dropped.
CancelForward(r) ==
  /\ pc[r] = "forward"
  /\ FreeThread
  /\ Finish(r)
  /\ UNCHANGED <<cached, breaker>>

CancelSleep(r) ==
  /\ pc[r] = "sleep"
  /\ FreeThread
  /\ Leave(r)
  /\ UNCHANGED <<poolVars, workerVars>>

----------------------------------------------------------------------------
(* The specification. *)

SelectStep(r) ==
  \/ Filter(r) \/ NoneAvailable(r) \/ OnlyOne(r) \/ SeveralAvailable(r)
  \/ ReadLoad(r) \/ Choose(r) \/ Acquire(r)

AnswerStep(r) ==
  \/ \E s \in Status : RetryStatus(r, s) \/ Answer(r, s) \/ AnswerStream(r, s)
  \/ RetryError(r)
  \/ FinalError(r)

RequestStep(r) ==
  \/ Arrive(r) \/ SelectStep(r) \/ AnswerStep(r) \/ Wake(r)
  \/ StreamEnd(r) \/ CancelForward(r) \/ CancelSleep(r)

Next ==
  \/ \E r \in Request : RequestStep(r)
  \/ Reload
  \/ \E w \in Workers : HealthChange(w) \/ BreakerTimeOut(w) \/ Inspect(w)
  \/ \E g \in Gens : Evict(g)

Spec == Init /\ [][Next]_vars

\* What a task does next by itself, or when its await is over.
Progress(r) == SelectStep(r) \/ AnswerStep(r) \/ Wake(r) \/ StreamEnd(r)

\* A task that runs goes on running.  A task whose await is over is polled
\* again some time, though the threads may be busy now and then (strong
\* fairness): tokio's queues are fair.  The await of a forwarded request is over
\* after request_timeout_secs at the latest; so is a stream, if the client reads
\* it or closes the connection.
Fairness == \A r \in Request : SF_vars(Progress(r))

FairSpec == Spec /\ Fairness

----------------------------------------------------------------------------
(* Properties. *)

PCs == {"idle", "sleep"} \cup Selecting \cup Holding

\* Every variable keeps its type: in particular the breaker counters that may
\* be counted up by late answers in any state stay within their thresholds.
TypeOK ==
  /\ pool \in Seq(Configs)
  /\ Len(pool) \in Gens
  /\ cached \in [Gens -> SUBSET Url]
  /\ load \in [Workers -> Nat]
  /\ healthy \in [Workers -> BOOLEAN]
  /\ breaker \in [Workers -> Breakers]
  /\ pc \in [Request -> PCs]
  /\ rgen \in [Request -> Gens]
  /\ empty \in [Request -> BOOLEAN]
  /\ pos \in [Request -> Nat \ {0}]
  /\ avail \in [Request -> SUBSET Slots]
  /\ DOMAIN seen = Request
  /\ \A r \in Request : \E S \in SUBSET Slots : seen[r] \in [S -> Nat]
  /\ slot \in [Request -> Slots \cup {NoSlot}]
  /\ failed \in [Request -> Slots \cup {NoSlot}]
  /\ attempt \in [Request -> Nat]

\* load_counter is exactly the number of guards and stream wrappers alive, after
\* any mix of retries, streams, cancellations and reloads: nothing leaks, nothing
\* is released twice, and the checked_sub of decrement_load never hides anything.
LoadMatchesGuards == \A w \in Workers : load[w] = Cardinality(Holders(w))

\* The tasks that have seen w below its cap and may still go on to take it.
Committed(w) ==
  {r \in Running : \/ rgen[r] = w[1] /\ w[2] \in avail[r]
                   \/ pc[r] = "acquire" /\ WorkerOf(r) = w}

\* max_load is tested before the load is taken, so it can be exceeded, but only
\* by the tasks that other threads run between the test and LoadGuard::new.
OvershootBounded == \A w \in Live : load[w] <= max_load(w) + NThreads - 1

\* What makes OvershootBounded inductive: the tasks that may still take w are
\* among those that occupy a thread, and count as if they had taken it already.
CommittedBounded ==
  /\ Cardinality(Running) <= NThreads
  /\ \A w \in Live :
       load[w] + Cardinality(Committed(w)) <= max_load(w) + NThreads - 1

\* The indices a task holds are indices into the worker list of its snapshot,
\* whatever reloads happen meanwhile: workers()[worker_idx] never panics, and a
\* task that holds no guard has no worker.
SnapshotsValid ==
  \A r \in Request :
    /\ rgen[r] <= Len(pool)
    /\ avail[r] \subseteq 1 .. Len(pool[rgen[r]])
    /\ avail[r] # {} => pc[r] \in {"filter", "loads", "choose"}
    /\ IF pc[r] \in {"acquire"} \cup Holding
         THEN slot[r] \in 1 .. Len(pool[rgen[r]])
         ELSE slot[r] = NoSlot

\* "A retry excludes the replica that just failed" (README, Retries): no task
\* is forwarded to the worker its previous attempt failed on.
RetryAvoidsFailed ==
  \A r \in Request : pc[r] \in {"acquire"} \cup Holding => slot[r] # failed[r]

\* The code after the retry loop is never reached: a task that sleeps has another
\* attempt, so that the last attempt always answers with what it got.
NeverExhausted ==
  \A r \in Request : pc[r] = "sleep" => attempt[r] + 1 < MaxAttempts

\* What makes RetryAvoidsFailed inductive.
RetriesValid == \A r \in Request : failed[r] \notin avail[r]

\* The inductive invariant of module ProxyProofs.
IndInv ==
  /\ TypeOK
  /\ SnapshotsValid
  /\ LoadMatchesGuards
  /\ CommittedBounded
  /\ RetriesValid
  /\ RetryAvoidsFailed
  /\ NeverExhausted

\* The max_load of the README, "hard admission cap; at the cap the replica is
\* skipped entirely": a worker at its cap is not given another request.
HardCap == \A w \in Live : load[w] <= max_load(w)

\* Every request that is accepted ends: backends that fail or become unavailable
\* at any moment, and reloads, never leave a task waiting or retrying for ever.
EveryRequestEnds == \A r \in Request : pc[r] # "idle" ~> pc[r] = "idle"

\* The workers of a router that a reload has replaced drain, and stay drained.
RetiredDrain ==
  \A w \in Workers : (w[1] < Len(pool)) ~> [](load[w] = 0)

=============================================================================
