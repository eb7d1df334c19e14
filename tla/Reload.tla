------------------------------- MODULE Reload ------------------------------
(***************************************************************************)
(* The life of the router process (main.rs): start-up, the task that       *)
(* reloads the configuration on SIGHUP, and the health checkers it starts  *)
(* and stops (worker.rs).  Outside the process, somebody edits the files   *)
(* and sends SIGHUP, and a supervisor restarts the process when it ends.   *)
(*                                                                         *)
(* The files are read one after the other, while they may change.  The     *)
(* reload task has no await between two signals, but other threads see its *)
(* stores one by one: the stop flag of the old checker, the start of the   *)
(* new one, the new router; these are steps.  SIGHUP is one pending bit:   *)
(* signals that arrive before the task asks for the next one coalesce, and *)
(* until it has installed its handler a SIGHUP ends the process.           *)
(*                                                                         *)
(* Data.  A generation is what one start or reload builds: worker objects, *)
(* router and checker, all from pool[g].  What a round of probes does is   *)
(* module HealthCheck, what requests do across reloads is module Proxy.    *)
(***************************************************************************)
EXTENDS Config

CONSTANTS
  Content,     \* what a configuration file may hold
  NFiles,      \* number of --config options
  Load(_),     \* AppConfig::load of what was read, as a set: one configuration or none
  MaxEvents    \* bound on edits, signals and crashes

ASSUME ReloadAssumption ==
  /\ NFiles \in Nat \ {0}
  /\ MaxEvents \in Nat

Files == 1 .. NFiles

VARIABLES
  \* Outside the process.
  files,         \* the configuration files
  dirty,         \* a file has been edited and no SIGHUP sent since
  left,          \* edits, signals and crashes that may still happen
  \* The process.
  proc,          \* "down", "starting" or "up"
  pending,       \* a SIGHUP has not been received yet
  hpc,           \* where the reload task is
  parts,         \* the files load() has read so far
  pool,          \* the configurations, by generation
  router,        \* the generation whose router the ArcSwap holds
  stored,        \* the generation whose configuration is current_config
  flag,          \* the stop flags, by generation
  health_stop,   \* the flag the reload task will set next
  checker        \* the checkers, by generation: where it is, and its flag

outside == <<files, dirty, left>>
served == <<pool, router, stored>>
checkers == <<flag, health_stop, checker>>
vars == <<outside, proc, pending, hpc, parts, served, checkers>>

interval(g) == health_config(pool[g]).interval_secs

----------------------------------------------------------------------------
(* Start-up and end of the process. *)

\* The process ends and all it had is gone.
Down ==
  /\ proc' = "down" /\ pending' = FALSE /\ hpc' = "none" /\ parts' = << >>
  /\ pool' = << >> /\ router' = 0 /\ stored' = 0
  /\ flag' = << >> /\ health_stop' = 0 /\ checker' = << >>

Init ==
  /\ files \in [Files -> Content]
  /\ dirty = FALSE
  /\ left = MaxEvents
  /\ proc = "down" /\ pending = FALSE /\ hpc = "none" /\ parts = << >>
  /\ pool = << >> /\ router = 0 /\ stored = 0
  /\ flag = << >> /\ health_stop = 0 /\ checker = << >>

\* The supervisor starts the process.
Boot ==
  /\ proc = "down"
  /\ proc' = "starting"
  /\ UNCHANGED <<outside, pending, hpc, parts, served, checkers>>

\* load(): the next file is read, by main or by the reload task.
ReadFile ==
  /\ proc = "starting" \/ hpc = "reading"
  /\ Len(parts) < NFiles
  /\ parts' = Append(parts, files[Len(parts) + 1])
  /\ UNCHANGED <<outside, proc, pending, hpc, served, checkers>>

AllRead == Len(parts) = NFiles

\* Mutant: the process goes on without a configuration.
BootRefusedStays ==
  /\ proc = "starting" /\ AllRead
  /\ Load(parts) = {}
  /\ proc' = "up" /\ hpc' = "install" /\ parts' = << >>
  /\ UNCHANGED <<outside, pending, served, checkers>>

\* "Configuration error": exit(1).
BootRefused ==
  /\ proc = "starting" /\ AllRead
  /\ Load(parts) = {}
  /\ Down
  /\ UNCHANGED outside

NewChecker(f) == [pc |-> "new", flag |-> f]

\* The first workers, their checker and router; the reload task is spawned.
BootUp ==
  /\ proc = "starting" /\ AllRead
  /\ \E c \in Load(parts) : pool' = <<c>>
  /\ proc' = "up" /\ hpc' = "install" /\ parts' = << >>
  /\ router' = 1 /\ stored' = 1
  /\ flag' = <<FALSE>> /\ health_stop' = 1 /\ checker' = <<NewChecker(1)>>
  /\ UNCHANGED <<outside, pending>>

----------------------------------------------------------------------------
(* spawn_reload_handler *)

\* signal(SignalKind::hangup())
Install ==
  /\ hpc = "install"
  /\ hpc' = "recv"
  /\ UNCHANGED <<outside, proc, pending, parts, served, checkers>>

\* sig.recv() returns.
Receive ==
  /\ hpc = "recv" /\ pending
  /\ pending' = FALSE
  /\ hpc' = "reading"
  /\ UNCHANGED <<outside, proc, parts, served, checkers>>

\* The files do not load, or more than the workers has changed.
Reject ==
  /\ hpc = "reading" /\ AllRead
  /\ \A c \in Load(parts) : ~validate_reload_compatibility(pool[stored], c)
  /\ hpc' = "recv" /\ parts' = << >>
  /\ UNCHANGED <<outside, proc, pending, served, checkers>>

\* New workers are built, and the old checker is told to stop.
Accept ==
  /\ hpc = "reading" /\ AllRead
  /\ \E c \in Load(parts) :
       /\ validate_reload_compatibility(pool[stored], c)
       /\ pool' = Append(pool, c)
  /\ flag' = [flag EXCEPT ![health_stop] = TRUE]
  /\ hpc' = "spawn" /\ parts' = << >>
  /\ UNCHANGED <<outside, proc, pending, router, stored, health_stop, checker>>

\* Mutant: the new checker gets the old flag.
SpawnSharing ==
  /\ hpc = "spawn"
  /\ flag' = Append(flag, FALSE)
  /\ checker' = Append(checker, NewChecker(health_stop))
  /\ health_stop' = Len(pool)
  /\ hpc' = "swap"
  /\ UNCHANGED <<outside, proc, pending, parts, served>>

\* Mutant: the task keeps the flag of the first checker.
SpawnKeeping ==
  /\ hpc = "spawn"
  /\ flag' = Append(flag, FALSE)
  /\ checker' = Append(checker, NewChecker(Len(pool)))
  /\ hpc' = "swap"
  /\ UNCHANGED <<outside, proc, pending, parts, served, health_stop>>

\* The new checker, with a flag of its own.
Spawn ==
  /\ hpc = "spawn"
  /\ flag' = Append(flag, FALSE)
  /\ checker' = Append(checker, NewChecker(Len(pool)))
  /\ health_stop' = Len(pool)
  /\ hpc' = "swap"
  /\ UNCHANGED <<outside, proc, pending, parts, served>>

\* router.store
Swap ==
  /\ hpc = "swap"
  /\ router' = Len(pool)
  /\ hpc' = "store"
  /\ UNCHANGED <<outside, proc, pending, parts, pool, stored, checkers>>

\* Mutant: signals that came in meanwhile are taken for served.
StoreDrained ==
  /\ hpc = "store"
  /\ stored' = Len(pool)
  /\ hpc' = "recv"
  /\ pending' = FALSE
  /\ UNCHANGED <<outside, proc, parts, pool, router, checkers>>

\* *current_config.lock() = new_config
Store ==
  /\ hpc = "store"
  /\ stored' = Len(pool)
  /\ hpc' = "recv"
  /\ UNCHANGED <<outside, proc, pending, parts, pool, router, checkers>>

----------------------------------------------------------------------------
(* run_health_checker *)

\* The interval is created; one of zero seconds panics, and a panic aborts the
\* process.
CheckerPanic(g) ==
  /\ checker[g].pc = "new" /\ interval(g) = 0
  /\ Down
  /\ UNCHANGED outside

CheckerStart(g) ==
  /\ checker[g].pc = "new" /\ interval(g) > 0
  /\ checker' = [checker EXCEPT ![g].pc = "tick"]
  /\ UNCHANGED <<outside, proc, pending, hpc, parts, served, flag, health_stop>>

\* A tick: the flag, then a round of probes.
CheckerTick(g) ==
  /\ checker[g].pc = "tick"
  /\ checker' = [checker EXCEPT ![g].pc = IF flag[checker[g].flag] THEN "gone" ELSE "round"]
  /\ UNCHANGED <<outside, proc, pending, hpc, parts, served, flag, health_stop>>

\* All probes have ended.
CheckerJoin(g) ==
  /\ checker[g].pc = "round"
  /\ checker' = [checker EXCEPT ![g].pc = "tick"]
  /\ UNCHANGED <<outside, proc, pending, hpc, parts, served, flag, health_stop>>

----------------------------------------------------------------------------
(* Outside the process. *)

Event == left > 0 /\ left' = left - 1

Edit(i, x) ==
  /\ Event
  /\ files[i] # x
  /\ files' = [files EXCEPT ![i] = x]
  /\ dirty' = TRUE
  /\ UNCHANGED <<proc, pending, hpc, parts, served, checkers>>

Sighup ==
  /\ Event
  /\ dirty' = FALSE
  /\ IF proc = "starting" \/ hpc = "install"
       THEN Down
       ELSE /\ pending' = (proc = "up")
            /\ UNCHANGED <<proc, hpc, parts, served, checkers>>
  /\ UNCHANGED files

\* SIGTERM, or any other end of the process.
Crash ==
  /\ Event
  /\ proc = "up"
  /\ Down
  /\ UNCHANGED <<files, dirty>>

----------------------------------------------------------------------------
BootStep == Boot \/ BootRefused \/ BootUp
ReloadStep == Install \/ Receive \/ Reject \/ Accept \/ Spawn \/ Swap \/ Store
CheckerStep(g) == CheckerPanic(g) \/ CheckerStart(g) \/ CheckerTick(g) \/ CheckerJoin(g)

Next ==
  \/ BootStep \/ ReadFile \/ ReloadStep
  \/ \E g \in DOMAIN checker : CheckerStep(g)
  \/ \E i \in Files, x \in Content : Edit(i, x)
  \/ Sighup \/ Crash

Spec == Init /\ [][Next]_vars

Gens == 1 .. MaxEvents + 1

\* The supervisor restarts the process, tasks that can run do run, ticks keep
\* coming and probes time out.
Fairness ==
  /\ WF_vars(BootStep) /\ WF_vars(ReadFile) /\ WF_vars(ReloadStep)
  /\ \A g \in Gens : WF_vars(g \in DOMAIN checker /\ CheckerStep(g))

FairSpec == Spec /\ Fairness

----------------------------------------------------------------------------
(* Properties. *)

Idle == hpc \in {"install", "recv", "reading"}

\* The generations are in step with the phase of the reload task.
TypeOK ==
  /\ files \in [Files -> Content]
  /\ dirty \in BOOLEAN /\ pending \in BOOLEAN
  /\ left \in 0 .. MaxEvents
  /\ proc \in {"down", "starting", "up"}
  /\ hpc \in {"none", "install", "recv", "reading", "spawn", "swap", "store"}
  /\ hpc = "none" <=> proc # "up"
  /\ Len(parts) <= NFiles
  /\ Len(flag) = Len(checker)
  /\ Len(pool) = Len(checker) + (IF hpc = "spawn" THEN 1 ELSE 0)
  /\ proc = "up" => {router, stored, health_stop} \subseteq DOMAIN checker
  /\ \A g \in DOMAIN checker :
       /\ checker[g].pc \in {"new", "tick", "round", "gone"}
       /\ checker[g].flag \in DOMAIN flag

\* The configuration that is stored, and dumped to the log, is the one in
\* force: its workers are those of the router, and its settings are those the
\* process started with, which the listening socket, the request path (AppState),
\* the log filter and every generation of workers still use.
ConfigInForce ==
  Idle =>
    /\ pool[stored].workers = pool[router].workers
    /\ \A g \in DOMAIN pool : \A s \in Sections : pool[g][s] = pool[1][s]

\* Outside a hand-over the workers in use are watched, by a checker that nobody
\* has told to stop, and every other checker has been told.
OneWatcher ==
  Idle =>
    /\ checker[router].pc # "gone"
    /\ \A g \in DOMAIN checker : flag[checker[g].flag] <=> g # router

\* No file content can bring down a process that runs: but for signals and
\* crashes it ends only when its first checker cannot start (interval_secs is 0,
\* which validate accepts).
SurvivesReloads ==
  [][proc = "up" /\ proc' = "down" /\ left' = left => checker[1].pc = "new"]_vars

\* Once the files are left alone and a SIGHUP has followed the last edit, the
\* process serves their worker list, if they load and change nothing else --
\* whatever was half read, rejected, coalesced or killed before; and it is up,
\* if they load at all.
Served ==
  \A c \in Load(files) :
    /\ health_config(c).interval_secs > 0 => proc = "up"
    /\ proc = "up" /\ validate_reload_compatibility(pool[stored], c) =>
         pool[router].workers = c.workers

LatestServed == <>[](~dirty) => <>[]Served

\* The checker of a generation that is no longer in use ends.
Retired(g) == g \in DOMAIN checker /\ g < router /\ checker[g].pc # "gone"
RetiredCheckersEnd == \A g \in Gens : Retired(g) ~> ~Retired(g)

=============================================================================
