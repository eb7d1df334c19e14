# TLA+ development of the cache-aware router (CART)

CART is a reverse proxy in front of replicas of an inference server. It keeps a
radix tree of the prompts it has sent to each replica and sends a request to the
replica that has the longest prefix of its prompt, unless that replica is
overloaded. This directory holds a formal model of its request path, circuit
breaker, radix tree, health checker, configuration and reload, and models cache,
model-checked with TLC; most of what the runs check of its safety is also proved
with TLAPS.
Paths below are relative to the repository; the Rust sources are in `src/`.

## The system

| Component | State | Operations | Hard part |
|---|---|---|---|
| Request path: handlers of `server.rs`, `proxy_request` in `proxy.rs` | per request: router snapshot, attempt, last failed worker, load guard | select, forward, retry, answer, stream, cancel | a task can be dropped at every await; the router is replaced under it |
| Worker selection: `CacheRouter::select_worker` in `routing.rs` | none of its own; reads loads, health, breakers, tree | filter, compare loads, match, choose | reads shared state worker by worker, acts later |
| Worker and load accounting: `worker.rs` | `load_counter`, `healthy`, breaker | `LoadGuard` new / disarm / drop, `LoadTrackingStream` | one decrement for each increment, on every path |
| Circuit breaker: `circuit_breaker.rs` | state behind a lock, two atomic counters, time of the last change | `can_execute`, `record_success`, `record_failure`, `transition_to`, `reset`, `force_open` | decisions on values read before a lock is released |
| Radix tree: `tree.rs` | nodes with text, children, parent, tenants with timestamps, `last_tenant`; `tenant_char_count`; epoch counter | `insert`, `prefix_match_with_counts`, `evict_tenant_by_size`, `remove_tenant`, `prefix_match_tenant` | matches hold no lock between their steps |
| Eviction task: `routing.rs` | `eviction_lock`, `eviction_shutdown` | pass on a tick, daily cleanup, last pass after the router is dropped | excludes inserts, not matches |
| Start-up and reload: `main.rs` | the current router (`ArcSwap`), `current_config`, `health_stop` | SIGHUP: read files, check compatibility, new workers, new checker, new router | files change while they are read, signals coalesce, old requests and checkers go on |
| Health checker: `worker.rs` | `healthy`, two counters of consecutive probes per worker, stop flag | probe every worker on a tick, join, stop | probes run concurrently; checkers of two generations overlap |
| Configuration: `config.rs` | none | merge files, fill in defaults, validate, compare on reload | layers of files, what may change at run time |
| Models cache, status endpoints: `server.rs` | `MODELS_CACHE` | check, fetch, store, read; count healthy workers; list workers | several fetches at once; reads of flags that change |
| Text extraction, media policy: `proxy.rs` | none | JSON body to routing text | pure |
| Metrics, debug | none | `metrics.rs` has empty bodies; `debug.rs` is not compiled | |

Interactions: a handler loads the router and calls `proxy_request`, which calls
`select_worker` (reads workers and tree), takes a `LoadGuard` on the chosen
worker, awaits the backend, tells the worker's breaker the outcome, and calls
`record_routed` (inserts into the tree under the read side of `eviction_lock`).
The eviction task takes the write side. A reload stores a new router; the old one
is dropped with the last request that holds it, which makes its eviction task run
a last pass and end. It also stops the health checker of the old workers and starts
one for the new. All of this runs on the threads of one tokio runtime.

What makes each correct: the load of a worker is the number of requests in flight
to it, and stays at `max_load`; a request always ends, and retries elsewhere; a
request never uses an index of one worker list in another; an open circuit stays
open for its timeout, no outcome that reaches a threshold is lost, and a circuit
whose backend recovers closes; the tree is linked up, its sizes are right, a match
tells the truth, a pass meets its limit, and a dropped tree is freed; the flag of a
worker follows its probes, the workers in use are watched by exactly one checker,
the configuration that is stored is the one in force, and the files that are left
alone are served in the end; `/v1/models` is neither empty nor outdated for ever. The
list
`hazards` of `PROJECT.json` gives the places where this could go wrong.

## Modules

- **`BreakerRules`**: what each breaker operation does when nothing interleaves,
  as operators on a record. The two counters saturate at their thresholds, because
  they are only compared with them; the clock is the bit "the timeout is over".
- **`AtomicBreaker`**: the abstract specification made of these operators.
- **`CircuitBreaker`**: the same breaker, one atomic access or lock section per
  step, used by any number of threads that ask, send and record. `pc` is the next
  access, `count` the value `fetch_add` returned, `target` and `then` the argument
  and the continuation of `transition_to`. `writer` is the holder of the write
  lock, which `transition_to` keeps from the change of state to the last reset.
  `record_test_success` and `record_test_failure` are the special case of a request
  that is answered at once.
- **`Proxy`** (uses `BreakerRules` for the breakers of its workers): requests,
  routers by generation, workers as `<<generation, index>>`. Selecting a worker is
  a sequence of steps (`Filter` per worker, `ReadLoad` per worker, `Choose`,
  `Acquire`) and occupies one of `NThreads` threads; what follows an await is one
  step. `Answer`, `AnswerStream`, `RetryStatus`, `RetryError` and `FinalError` are
  the exits of one iteration of the loop; `Wake` starts the next one, or answers after
  the loop. `CancelForward`, `CancelSleep` and
  `StreamEnd` are the ways a task is dropped, `Reload` is the SIGHUP handler, `Inspect` what
  GET /workers does to a breaker that has timed out. The breaker
  operations are atomic here; what their interleaving adds is the subject of
  `CircuitBreaker`. The tree is the set of URLs it may return, `cached`: of a new router
  none, or with `cache.threshold` 0 all, since every worker is at the root (`NewTrees`).
  `max_retries` is below `u32::MAX`, where `max_retries + 1` would end the process.
- **`RadixTree`**: nodes as records in order of creation, request tasks that match
  or insert, and the eviction task. One turn of the loop of `insert` is one step
  (`InsertLeaf`, `InsertDown`), because the map entry is held for it; a match
  looks up a child, reads its text, picks a tenant, draws an epoch and writes it in five
  (`MatchGet`, `MatchRead`, `MatchPick`, `MatchTouch`, `Touch`). An insert that ends at a
  node (`InsertEnd`) and `TenantTouch` also draw the epoch that `Touch` writes, so an older
  epoch may overwrite a newer one; the epoch of a new leaf is written before anybody can
  see the node. A pass collects the leaves
  (`EvictStart`), then takes a tenant off a node (`EvictRemove`) and unlinks the
  node and pushes its parent (`EvictPrune`), entry by entry. Collecting the leaves
  is one step: a refresh during the collection has the effect of one before or
  after it. `remove_tenant` (`RemoveTenant`, `RemoveTake`, `RemoveUnlink`,
  `RemoveEnd`) and `prefix_match_tenant` (`MatchTenant`, `TenantGet`, `TenantRead`,
  `TenantTouch`) are public and unused; they take part where `DirectOps` is TRUE.
- **`HealthCheck`**: one worker list, its checker and its probe tasks, and a
  GET /health request. A probe is sent, answered (`ProbeAnswered`), and then counted
  and judged in one step, because only the probe writes the counters of its worker.
- **`Config`**: the sections and defaults, `validate`,
  `validate_reload_compatibility`, and what the consumers get. **`ConfigLoad`**:
  `merge_yaml` (recursive), reading a merged document into the sections with serde's
  rules (a null section or list is read as an empty one), `load`; and, as a reference, what layering promises, said without merging.
- **`Reload`** (uses `Config`; `Load` is a parameter): the process from start to
  end, the reload task with one step per store that another thread can see, the
  health checkers by generation as far as their flags go, and outside the process the
  editor of the files, the sender of SIGHUP and the supervisor. A reload reads the
  files one by one (`ReadFile`); `Reject` and `Accept` decide; `Accept` sets the old
  flag, `Spawn`, `Swap` and `Store` follow. An interval of 0 seconds panics
  (`CheckerPanic`) and `panic = 'abort'` ends the process.
- **`ModelsCache`**: requests that find the cache expired, fetch, store and read.
  `quiet` and `late` are history: for how long no answer has been to be had.
- **`MCProxy`, `MCRadixTree`, `MCReload`**: worker lists, texts and configuration
  files for the runs, and symmetry. `MCReload` gives `Load` its value, `load` of
  `ConfigLoad`.
- **`ProxyProofs`, `CircuitBreakerProofs`, `RadixTreeProofs`, `RadixTreeChargeProofs`,
  `RadixTreeOneThreadProofs`, `ReloadProofs`, `HealthCheckProofs`, `ModelsCacheProofs`**:
  theorems and proofs.

Definitions introduced by "Mutant:" are altered forms of the definition that
follows. No specification uses them; with one of them in its place the property
named in `PROJECT.json` fails, which shows that the property depends on that code.

## Runs

| Run | Shows |
|---|---|
| `proxy_load` | `LoadMatchesGuards`: load equals requests in flight on every path. `OvershootBounded`: load passes `max_load` by at most `NThreads - 1`. |
| `proxy_reload` | `SnapshotsValid`: indexes stay valid in the router they came from. `RetryAvoidsFailed`: retries go elsewhere. `EveryRequestEnds`: attempts are counted, whatever fails, so a request does not retry for ever. `RetiredDrain`: replaced workers drain for good. |
| `breaker_threads` | `QuiescentConsistent`, `ThresholdsServed`: no threshold is lost. `Recovers`: the circuit finds its way back. |
| `breaker_atomic` | `ImplementsAtomic`: for one thread `CircuitBreaker` implements `AtomicBreaker`. |
| `tree_one_thread` | `CountExact`, `PassMeetsLimit`, `MatchExact`, `TenantMatchExact`, `RemoveComplete`, `DroppedTreeFreed` for operations that do not overlap. |
| `tree_threads` | `LinksAgree`, `NeverOvercharged`, `RootKeepsTenants`, and `OnlyStaleTouchesDrift`: sizes go wrong only through a match that refreshes an entry a pass has evicted, at once, or when a pass takes the entry off a node that is unlinked by then (`TakenTwice`; the run is too small to get there). |
| `health` | `VerdictFollowsCounters`: flag and counters agree, and runs are consecutive. `ReportBracketed`: GET /health counts no less than the workers healthy throughout and no more than those ever healthy. `DownDetected`, `UpDetected`, `Stops`. |
| `reload` | `ConfigInForce`: stored configuration, router and process agree outside a hand-over. `OneWatcher`, `RetiredCheckersEnd`: one checker for the workers in use, and the others end. `LastFileWins`: merging is what the layers promise. `SurvivesReloads`: no file content ends a running process. `LatestServed`: what is left alone and signalled is served, through torn reads, rejections, lost and coalesced signals and restarts. |
| `models_cache` | `NeverEmpty`, `GoneAfterTTL`: no empty answer, and none beyond the time-to-live. `FreshInTheEnd`: a newer list that a slow fetch overwrote comes back. |

Runs that end in a counterexample, each of what the repository says of itself:

| Run | The repository says | The code does |
|---|---|---|
| `open_for_timeout` | README: "stops sending traffic for `timeout_secs`" | a thread that read an expired Open half-opens the circuit although it has been half-opened, and opened again, since |
| `dropped_tree` | log message: "clearing the tree (reload)" | a match refreshes an entry a pass has just evicted; it is back with nothing charged, every later pass skips it, and the linked nodes are never freed |
| `match_sound` | "Number of characters matched", "Thread-safe" | a match that holds a node while it is split compares the prompt with the tail of its text and counts characters nobody shares |

Further disagreements were met and have no run of their own:

- README, "hard admission cap": the load is tested in `select_worker` and incremented
  afterwards, so it can pass `max_load` by one request per additional thread. This is
  what `OvershootBounded` bounds; `SingleThreadCap` proves the cap for one thread.
- `last_tenant`, "cached last-accessed tenant": an insert that ends at an existing
  node does not update it, so matches go on answering with the first tenant.
- `health.interval_secs: 0` passes `validate`, and so `--config-check`, and aborts the
  process when its checker starts. `SurvivesReloads` shows that this can happen at
  start-up only: a reload cannot change the interval.
- A success can close a circuit that has opened since it was counted (same cause as
  `open_for_timeout`).
- A worker that never fails counts its successes in a `u32` up to the abort of the
  checked addition (`Overflow` models it).
- `max_tree_size` is "node ceiling" in the README and characters per tenant in the
  code. The table of texts in the README does not name `tools`, which the code uses,
  and names `system`, which it does not.
- A reload gives a URL that stays a fresh load counter, so its backend may briefly
  have `max_load` requests of each generation. It does not clear `MODELS_CACHE`, so
  the model list of the old backends is served until it expires.
- With `eviction_interval_secs: 0` there is no eviction task, and nobody takes the
  tree of a replaced router apart.

### Bounds

- `proxy_load`: four requests, three threads, one worker with `max_load` 1, so that
  the overshoot of two is reached and one more request would break the bound.
  `proxy_reload`: one request, lists of two and of one worker, of which one is taken
  away by a reload in any place of the request (`ListShrinks` leaves out reloads that
  do not shorten the list; the theorems cover all). Retries 1: one to go elsewhere.
- Breaker thresholds in `proxy_reload` are 0, which the code treats
  like 1: the first failure opens, the first success closes. In the breaker's own
  runs they are 2, so that a counter has a value between.
- `CounterMax` stands for `u32::MAX` and is small: the abort is reached.
- `TouchEvery` is 2 where the code has 8; `MaxEpoch` bounds the number of tree
  operations (one epoch each). Guards at the start of an operation keep the last
  one from being stuck half-way. Texts of two and three characters split, fork
  and repeat one another; more operations only add nodes of the same shapes.
- `health`: thresholds of 2 have a value between, two workers make the count of
  GET /health overlap with probes. `NWorkers`, thresholds are free in the proofs.
- `reload`: two files, so that a reload can see half of an edit of both; eight
  contents (a base, overlays, null sections and lists, files that do not load, an
  interval of 0). `LastFileWins` is checked over all pairs, and over the pairs on top of
  the base, where the middle file can hide the first. `MaxEvents` bounds edits, signals
  and crashes together: three are enough for edit, signal and one more of any kind in
  between.
- `models_cache`: three requests, `TTL` 3 ticks, three versions: a fetch can be
  overtaken by a newer one that is itself overtaken.
- The tree runs do not check for deadlock: when its router is dropped and the last
  pass is over, a tree has nothing left to do.

### Fairness

- `Proxy`: strong fairness of what a task does next, since tokio polls every task
  that is ready but threads may be busy when it is. An awaited answer comes or
  times out (`request_timeout_secs`). That a stream ends is an assumption on the
  client. Nothing is assumed of reloads, health, breakers or new requests.
- `CircuitBreaker`: threads inside an operation go on, time passes, a supervisor
  restarts an aborted process. That requests keep asking, and that some are sent and
  answered, is an assumption on the traffic: a circuit half-opens only when asked.
- `RadixTree`: ticks keep coming and operations go on; none of them awaits.
- `HealthCheck`: ticks keep coming, and a probe ends within the ten seconds of
  `HEALTH_CLIENT`. `Reload`: the tasks run, and a supervisor restarts the process;
  edits and signals are not fair. `ModelsCache`: time passes and a request that has
  come in ends, every wait of `proxy_request` having a timeout; none has to come.

## Proofs

All for any number of requests, workers, reloads, threads, retries and any
thresholds, unless a theorem says otherwise, from the assumptions named in the modules
(`ThresholdAssumption`, `ProxyAssumption`, `BreakerAssumption`, `HealthAssumption`,
`ModelsAssumption`, `ReloadAssumption`, `TreeAssumption`: types, finiteness of the sets
of requests, tasks and tenants, worker lists and texts that are not empty, epochs enough
to register the tenants at the root).

`ProxyProofs`. The inductive invariant `IndInv` conjoins the types with

- `SnapshotsValid`, without which the worker of a task might not exist;
- `LoadMatchesGuards`, where `Decrement` of a load that is 0 would go unnoticed;
- `CommittedBounded`: the load of a worker together with the tasks that have passed
  its load test and not yet incremented it. `OvershootBounded` alone is not
  inductive, since a task between the test and the increment is invisible to it;
  there are at most `NThreads` of these, and one that passes the test sees a load
  below the cap;
- `RetriesValid`: a task that sleeps has another attempt, and the failed worker is not
  among the available ones.

From it follow `TypeCorrect`, `LoadAccounting`, `Overshoot`, `CommittedCounted`,
`SnapshotIndices`, `RetryLoop`, `LastAttemptAnswers`, and `SingleThreadCap`: with one thread `HardCap` does hold.

`CircuitBreakerProofs`. `QuiescentConsistent` speaks of moments at which no thread
is recording. `ThresholdsServed` says what holds in between: a counter at its
threshold is always the business of some thread, which has either counted it and
not yet decided, or is on its way to the transition, or is clearing the counters
under the lock. `ThresholdsWatched`, `NoThresholdLost` and `TypeCorrect` follow.

In the same module, `OneThreadIsAtomic`: for one thread `CircuitBreaker` implements
`AtomicBreaker`, under the mapping of the run (`Outcome`: the breaker as it will be when
the call under way is through). One abstract step happens when an outcome is known, when
the age of an open circuit is looked at, when `reset` or `force_open` is called, and when
the timeout passes; every other access is a stutter. `Undisturbed` is the invariant
behind it: what the thread has read is still so when it acts on it. Two threads disturb
each other, which is what `open_for_timeout` shows.

`RadixTreeProofs`, about the tree as the router uses it (`~DirectOps`: inserts, matches
and the eviction task). `TreeLinked` needs more than the links: `Shape` (every child is
a node of its own that names its parent and begins with its key), that an insert under
way stands at an attached node that its tenant holds, that passes and inserts exclude
each other, and `HeapOK`: a pass stays within a set of nodes that has the parent of
each of its members, and whose places in the tree no other node has taken (`Found`). A node
of the set may have been unlinked, and reached again because a concurrent match brought a
tenant back to it; unlinking it a second time then removes nothing that is in use. Nothing
is assumed of the order of the entries, since a refresh may write an old timestamp, nor of
how often an entry is in the heap. `TypeCorrect` follows from the same invariant.

`RadixTreeChargeProofs` goes on from there, to the sizes. `NeverOvercharged` is not
inductive: a match can put a tenant back on a node that a pass has taken it off, so the
nodes of a tenant need not hang together, and a split, an insert or a removal at one of
them would have to be compared with the charge of all. `Ledger` says that what is
charged is covered by a set of nodes that hold the tenant, which contains the root, the
parent of each of its members, and the nodes at which inserts for the tenant stand. `Grounded` says that parents form no circle, in both directions. From these,
for any number of threads:

- `ChargesCovered`: a tenant is never charged for more than it has;
- `RootNeverEvicted`: a pass that pops the root finds the tenant on no other node of
  the ledger, so nothing is charged and the entry is skipped;
- `DriftIsStaleTouch`: of all the steps, only two make the charge fall behind: the refresh
  of an entry that a pass has evicted, and a pass that takes a tenant off an unlinked node,
  where such a refresh has put it. The second uncharges what is not in the tree.

`RadixTreeOneThreadProofs` assumes one thread (`NThreads = 1`) and nothing else: it covers
`remove_tenant` and `prefix_match_tenant` too. The invariant is `Solo`
(`OneThreadInvariance`). Either the state is one of the router's, and the two invariants
above hold, or one task is in the middle of one of the two direct operations and all the
others and the pass are idle (`Direct`). In both cases:

- operations do not overlap (`Alone`), and what a match refreshes is still there
  (`Fresh`), so counts are the sizes, but for a tenant being removed (`Exact`);
- whoever holds a node holds its parent, and every node is held by somebody, but for the
  one the next step unlinks (`Neat`); nobody holds a node that has been unlinked
  (`Forgotten`). With many threads this is false, and `Ledger` has to do without it;
- during a pass every leaf of a tenant over its limit is in the heap, or is the parent the
  next step pushes (`Scanned`); the queue of a removal is the set of leaves of its tenant
  (`Removal`);
- the equation that defines `Path` has a solution (`Spelled`). It is defined by recursion
  along the parents, and no induction is available; but each step that creates nodes
  extends the solution it finds, and since climbing ends at the root (`Climbs`), two
  solutions agree on the nodes of the tree;
- a walk stands at a node whose path is the part of the text it has matched, and every node
  that shares more with the text is below it (`Ways`). For `prefix_match_tenant` the same
  holds among the nodes of the tenant.

What follows, for any texts, tenants and number of tasks:

- `OneThreadTree`: types and links, in the middle of the direct operations too;
- `OneThreadCountExact`;
- `OneThreadPassMeetsLimit`, `OneThreadRemoveComplete`: when the heap, or the queue, is
  empty, a tenant that still had nodes (over its limit, or at all) would have no leaf; but
  going down from the root among the nodes that hold it must end at one (`Grounded`);
- `OneThreadMatchExact`, `OneThreadTenantMatchExact`: a walk that ends leaves no node that
  shares more, so what it reports is the longest shared prefix.

The runs with more threads show what is lost then: `match_sound` for matches,
`OnlyStaleTouchesDrift` in `tree_threads` for counts.

`ReloadProofs`, for any files and whatever `Load` makes of them. `HandOver` says which
generation the router, the stored configuration and the stop flag belong to in each phase
of a reload, `Told` which checkers have been told to stop, `SameSettings` that no
generation differs in the settings a reload may not change, `FirstStarted` that a first
checker that has started had an interval above 0. Theorems `StoredIsInForce`
(`ConfigInForce`), `WorkersWatched` (`OneWatcher`), `ReloadsAreSurvived`
(`SurvivesReloads`), `TypeCorrect`.

`HealthCheckProofs`. `VerdictFollowsCounters` is inductive with the types.
`ReportBracketed` speaks of the end of a request; `PassedBracketed` says it for the
part of the list that has been passed, and that the workers healthy now lie between
the two sets, which is what the next worker looked at needs. Theorems `Verdicts`,
`HealthReport`, `TypeCorrect`.

`ModelsCacheProofs`. A request gets to read with content of its own or because the
entry has not expired; `ContentOrExpired` says that the second kind has content too.
For `GoneAfterTTL`, `QuietBounded`: whenever somebody can still store an answer,
`quiet` is 0, so the entry is never younger than `quiet`, and a request that comes
after a quiet time-to-live finds it expired. Theorems `CacheNeverEmpty`,
`NoAnswerBeyondTTL`, `TypeCorrect`.

Only model-checked:

- liveness (`EveryRequestEnds`, `RetiredDrain`, `Recovers`, `DroppedTreeFreed`,
  `DownDetected`, `UpDetected`, `Stops`, `LatestServed`, `RetiredCheckersEnd`,
  `FreshInTheEnd`), which is out of the prover's reach;
- `LastFileWins`: `merge_yaml` is recursive, and what it computes takes an induction over
  documents.

Every other invariant of the runs, and every action property, is a theorem. The theorems about
the tree with any number of threads leave `remove_tenant` and `prefix_match_tenant` out
(`~DirectOps`), which nothing in the program calls.

## Not modelled, and the plan

How texts are extracted and media URLs refused (pure functions on JSON, no property
here is about the strings they make; `Proxy` keeps whether the text is empty); delays
and back-off times; statistics, logging and metrics (empty bodies); `debug.rs`, which
is not part of the crate; UTF-8 and the shards of the maps; YAML syntax and the float
arithmetic of the thresholds beyond a fraction; `--config-check`, the HTTP server and
its graceful shutdown.

Next, in this order:

1. The direct operations with several threads: `remove_tenant` takes a tenant off while
   others insert, so an insert may stand at a node that is no longer attached, and what is
   true of the links then is weaker than `LinksAgree`.
2. The locks of insert and eviction inside the maps, and that `eviction_lock` is
   what keeps them from waiting on each other. Of this, only the exclusion itself is
   modelled.
