---------------------------- MODULE ReloadProofs ----------------------------
(***************************************************************************)
(* Proofs about module Reload, for any number of files, whatever they hold *)
(* and however they load, and any number of edits, signals and crashes.    *)
(***************************************************************************)
EXTENDS Reload, TLAPS

\* The configurations that can come out of the files.
Loadable == UNION {Load(p) : p \in Seq(Content)}

Checkers == [pc : {"new", "tick", "round", "gone"}, flag : Nat]

Typed ==
  /\ files \in [Files -> Content]
  /\ dirty \in BOOLEAN /\ pending \in BOOLEAN
  /\ left \in 0 .. MaxEvents
  /\ proc \in {"down", "starting", "up"}
  /\ hpc \in {"none", "install", "recv", "reading", "spawn", "swap", "store"}
  /\ hpc = "none" <=> proc # "up"
  /\ parts \in Seq(Content) /\ Len(parts) <= NFiles
  /\ pool \in Seq(Loadable)
  /\ flag \in Seq(BOOLEAN)
  /\ checker \in Seq(Checkers)
  /\ router \in Nat /\ stored \in Nat /\ health_stop \in Nat

\* Which generation is the router's, the stored configuration's and the checker's
\* in each phase of a hand-over.
HandOver ==
  /\ proc # "up" => Len(checker) = 0 /\ Len(pool) = 0
  /\ Len(flag) = Len(checker)
  /\ hpc = "spawn" => Len(pool) = Len(checker) + 1
  /\ hpc # "spawn" => Len(pool) = Len(checker)
  /\ proc = "up" => Len(checker) >= 1 /\ health_stop = Len(checker)
  /\ Idle \/ hpc = "spawn" => router = Len(checker) /\ stored = Len(checker)
  /\ hpc = "swap" =>
       Len(checker) >= 2 /\ router = Len(checker) - 1 /\ stored = Len(checker) - 1
  /\ hpc = "store" =>
       Len(checker) >= 2 /\ router = Len(checker) /\ stored = Len(checker) - 1

\* Only the newest checker has not been told to stop, and it has while its
\* successor is awaited.
Told ==
  \A g \in DOMAIN checker :
    /\ checker[g].flag = g
    /\ g # health_stop \/ hpc = "spawn" => flag[g] = TRUE
    /\ g = health_stop /\ hpc # "spawn" => flag[g] = FALSE
    /\ checker[g].pc = "gone" => flag[g] = TRUE

SameSettings == \A g \in DOMAIN pool : \A s \in Sections : pool[g][s] = pool[1][s]

\* A first checker that has started had an interval it could start with.
FirstStarted == Len(checker) >= 1 /\ checker[1].pc # "new" => interval(1) > 0

IndInv == Typed /\ HandOver /\ Told /\ SameSettings /\ FirstStarted

\* The sections of a configuration, one by one.
LEMMA SectionNames ==
  Sections = {"server", "cache", "health", "proxy", "circuit_breaker", "logging"}
BY DEF Sections, Defaults

----------------------------------------------------------------------------
(* The steps. *)

\* Nothing is left of a process that has ended.
LEMMA DownStep ==
  ASSUME Down, files' \in [Files -> Content], dirty' \in BOOLEAN, left' \in 0 .. MaxEvents
  PROVE  IndInv'
<1> USE DEF Down
<1>1. /\ Len(<< >>) = 0 /\ DOMAIN << >> = {}
      /\ \A S : << >> \in Seq(S)
  OBVIOUS
<1>2. Typed'
  <2>1. pending' \in BOOLEAN
    OBVIOUS
  <2>2. /\ proc' = "down" /\ hpc' = "none"
        /\ parts' \in Seq(Content) /\ pool' \in Seq(Loadable) /\ flag' \in Seq(BOOLEAN)
        /\ checker' \in Seq(Checkers)
        /\ router' \in Nat /\ stored' \in Nat /\ health_stop' \in Nat
    BY <1>1
  <2>3. Len(parts') <= NFiles
    BY <1>1, ReloadAssumption
  <2> QED
    BY <2>1, <2>2, <2>3 DEF Typed
<1>3. HandOver'
  BY <1>1 DEF HandOver, Idle
<1>4. Told'
  BY <1>1 DEF Told
<1>5. SameSettings'
  BY <1>1 DEF SameSettings
<1>6. FirstStarted'
  BY <1>1 DEF FirstStarted
<1> QED
  BY <1>2, <1>3, <1>4, <1>5, <1>6 DEF IndInv

\* main: the process starts, reads its files and builds the first generation.
LEMMA BootStepInv ==
  ASSUME IndInv, BootStep
  PROVE  IndInv'
<1> USE DEF outside, served, checkers
<1>1. CASE Boot
  <2>1. /\ files' = files /\ dirty' = dirty /\ left' = left /\ pending' = pending
        /\ hpc' = hpc /\ parts' = parts /\ pool' = pool /\ router' = router
        /\ stored' = stored /\ flag' = flag /\ health_stop' = health_stop
        /\ checker' = checker
        /\ proc = "down" /\ proc' = "starting"
    BY <1>1 DEF Boot
  <2> QED
    BY <2>1 DEF IndInv, Typed, HandOver, Told, SameSettings, FirstStarted, Idle, interval
<1>2. CASE BootRefused
  BY <1>2, DownStep DEF BootRefused, IndInv, Typed
<1>3. CASE BootUp
  <2>1. PICK c \in Load(parts) : pool' = <<c>>
    BY <1>3 DEF BootUp
  <2>2. c \in Loadable
    BY <2>1 DEF Loadable, IndInv, Typed
  <2>3. /\ files' = files /\ dirty' = dirty /\ left' = left /\ pending' = pending
        /\ proc' = "up" /\ hpc' = "install" /\ parts' = << >>
        /\ router' = 1 /\ stored' = 1 /\ health_stop' = 1
        /\ checker' = <<[pc |-> "new", flag |-> 1]>>
    BY <1>3 DEF BootUp, NewChecker
  <2>4. flag' = <<FALSE>>
    BY <1>3 DEF BootUp
  <2>5. Len(flag') = 1 /\ flag'[1] = FALSE /\ flag' \in Seq(BOOLEAN)
    BY <2>4
  <2>6. Typed'
    <3>1. parts' \in Seq(Content) /\ Len(parts') <= NFiles
      BY <2>3, ReloadAssumption
    <3>2. pool' \in Seq(Loadable)
      BY <2>1, <2>2
    <3>3. checker' \in Seq(Checkers)
      BY <2>3 DEF Checkers
    <3> QED
      BY <2>3, <2>5, <3>1, <3>2, <3>3 DEF Typed, IndInv
  <2>7. HandOver'
    BY <2>1, <2>3, <2>5 DEF HandOver, Idle
  <2>8. Told'
    BY <2>3, <2>5 DEF Told
  <2>9. SameSettings'
    BY <2>1 DEF SameSettings
  <2>10. FirstStarted'
    BY <2>3 DEF FirstStarted
  <2> QED
    BY <2>6, <2>7, <2>8, <2>9, <2>10 DEF IndInv
<1> QED
  BY <1>1, <1>2, <1>3 DEF BootStep

\* load reads the next file.
LEMMA ReadFileInv ==
  ASSUME IndInv, ReadFile
  PROVE  IndInv'
<1>1. /\ files' = files /\ dirty' = dirty /\ left' = left /\ proc' = proc
      /\ pending' = pending /\ hpc' = hpc /\ pool' = pool /\ router' = router
      /\ stored' = stored /\ flag' = flag /\ health_stop' = health_stop
      /\ checker' = checker
      /\ Len(parts) < NFiles /\ parts' = Append(parts, files[Len(parts) + 1])
  BY DEF ReadFile, outside, served, checkers
<1>2. parts' \in Seq(Content) /\ Len(parts') <= NFiles
  BY <1>1, ReloadAssumption DEF IndInv, Typed, Files
<1> QED
  BY <1>1, <1>2 DEF IndInv, Typed, HandOver, Told, SameSettings, FirstStarted, Idle, interval

\* The steps of the reload task that build nothing.
LEMMA WaitStepInv ==
  ASSUME IndInv, Install \/ Receive \/ Reject
  PROVE  IndInv'
<1> USE DEF outside, served, checkers
<1>1. /\ files' = files /\ dirty' = dirty /\ left' = left /\ proc' = proc
      /\ pool' = pool /\ router' = router /\ stored' = stored /\ flag' = flag
      /\ health_stop' = health_stop /\ checker' = checker
  BY DEF Install, Receive, Reject
<1>2. pending' \in BOOLEAN
  BY DEF Install, Receive, Reject, IndInv, Typed
<1>3. parts' \in Seq(Content) /\ Len(parts') <= NFiles
  <2>1. parts' = parts \/ parts' = << >>
    BY DEF Install, Receive, Reject
  <2>2. parts \in Seq(Content) /\ Len(parts) <= NFiles
    BY DEF IndInv, Typed
  <2>3. << >> \in Seq(Content) /\ Len(<< >>) <= NFiles
    BY ReloadAssumption
  <2>4. CASE parts' = parts
    BY <2>2, <2>4
  <2>5. CASE parts' = << >>
    BY <2>3, <2>5
  <2> QED
    BY <2>1, <2>4, <2>5
<1>4. hpc \in {"install", "recv", "reading"} /\ hpc' \in {"install", "recv", "reading"}
  BY DEF Install, Receive, Reject
<1>5. Typed'
  BY <1>1, <1>2, <1>3, <1>4 DEF IndInv, Typed
<1>6. HandOver'
  BY <1>1, <1>4 DEF IndInv, HandOver, Idle
<1>7. Told'
  BY <1>1, <1>4 DEF IndInv, Told
<1> QED
  BY <1>1, <1>5, <1>6, <1>7 DEF IndInv, SameSettings, FirstStarted, interval

\* A configuration is accepted only if it keeps every setting, so the new
\* generation has those of the first.
LEMMA AcceptInv ==
  ASSUME IndInv, Accept
  PROVE  IndInv'
<1> USE DEF outside, served, checkers
<1>1. PICK c \in Load(parts) :
        validate_reload_compatibility(pool[stored], c) /\ pool' = Append(pool, c)
  BY DEF Accept
<1>2. c \in Loadable
  BY <1>1 DEF Loadable, IndInv, Typed
<1>3. /\ files' = files /\ dirty' = dirty /\ left' = left /\ proc' = proc
      /\ pending' = pending /\ router' = router /\ stored' = stored
      /\ health_stop' = health_stop /\ checker' = checker
      /\ hpc = "reading" /\ hpc' = "spawn" /\ parts' = << >>
  BY DEF Accept
<1>4. flag' = [flag EXCEPT ![health_stop] = TRUE]
  BY DEF Accept
<1>5. /\ Len(pool) = Len(checker) /\ Len(checker) >= 1 /\ Len(flag) = Len(checker)
      /\ stored = Len(pool) /\ router = Len(pool) /\ health_stop = Len(checker)
  BY <1>3 DEF IndInv, Typed, HandOver, Idle
<1>6. /\ flag' \in Seq(BOOLEAN) /\ Len(flag') = Len(flag)
      /\ \A g \in DOMAIN checker : g # health_stop => flag'[g] = flag[g]
      /\ flag'[health_stop] = TRUE
  <2>1. flag \in Seq(BOOLEAN) /\ health_stop \in 1 .. Len(flag)
    BY <1>5 DEF IndInv, Typed
  <2>2. DOMAIN checker = 1 .. Len(flag)
    BY <1>5 DEF IndInv, Typed
  <2>3. flag \in [1 .. Len(flag) -> BOOLEAN]
    BY <2>1
  <2>4. flag' \in [1 .. Len(flag) -> BOOLEAN]
    BY <1>4, <2>1, <2>3, Zenon
  <2>5. flag' \in Seq(BOOLEAN) /\ Len(flag') = Len(flag)
    BY <2>1, <2>4
  <2> QED
    BY <1>4, <2>1, <2>2, <2>3, <2>5, Zenon
<1>7. Typed'
  <2>1. pool' \in Seq(Loadable)
    BY <1>1, <1>2 DEF IndInv, Typed
  <2>2. parts' \in Seq(Content) /\ Len(parts') <= NFiles
    BY <1>3, ReloadAssumption
  <2> QED
    BY <1>3, <1>6, <2>1, <2>2 DEF Typed, IndInv
<1>8. HandOver'
  BY <1>1, <1>3, <1>5, <1>6 DEF HandOver, Idle, IndInv, Typed
<1>9. Told'
  BY <1>3, <1>6 DEF Told, IndInv
<1>10. SameSettings'
  <2>1. \A s \in Sections : pool[stored][s] = c[s]
    BY <1>1, SectionNames DEF validate_reload_compatibility
  <2>2. \A s \in Sections : pool[stored][s] = pool[1][s]
    BY <1>5 DEF IndInv, Typed, SameSettings
  <2>3. \A g \in DOMAIN pool' : pool'[g] = IF g = Len(pool) + 1 THEN c ELSE pool[g]
    BY <1>1 DEF IndInv, Typed
  <2>4. pool'[1] = pool[1]
    BY <1>1, <1>5 DEF IndInv, Typed
  <2> QED
    BY <1>1, <2>1, <2>2, <2>3, <2>4 DEF SameSettings, IndInv, Typed
<1>11. FirstStarted'
  BY <1>1, <1>3, <1>5 DEF FirstStarted, IndInv, Typed, interval
<1> QED
  BY <1>7, <1>8, <1>9, <1>10, <1>11 DEF IndInv

\* The hand-over to the new generation.
LEMMA SpawnInv ==
  ASSUME IndInv, Spawn
  PROVE  IndInv'
<1> USE DEF outside, served, checkers
<1> DEFINE new == [pc |-> "new", flag |-> Len(pool)]
<1>1. /\ files' = files /\ dirty' = dirty /\ left' = left /\ proc' = proc
      /\ pending' = pending /\ parts' = parts /\ pool' = pool /\ router' = router
      /\ stored' = stored
      /\ hpc = "spawn" /\ hpc' = "swap" /\ health_stop' = Len(pool)
      /\ checker' = Append(checker, new)
  BY DEF Spawn, NewChecker
<1>2. flag' = Append(flag, FALSE)
  BY DEF Spawn
<1>3. /\ Len(pool) = Len(checker) + 1 /\ Len(checker) >= 1 /\ Len(flag) = Len(checker)
      /\ stored = Len(checker) /\ router = Len(checker) /\ health_stop = Len(checker)
  BY <1>1 DEF IndInv, Typed, HandOver, Idle
<1>4. /\ flag' \in Seq(BOOLEAN) /\ Len(flag') = Len(checker) + 1
      /\ \A g \in DOMAIN checker : flag'[g] = flag[g]
      /\ flag'[Len(pool)] = FALSE
  BY <1>2, <1>3 DEF IndInv, Typed
<1>5. /\ checker' \in Seq(Checkers)
      /\ Len(checker') = Len(checker) + 1
      /\ \A g \in DOMAIN checker : checker'[g] = checker[g]
      /\ checker'[Len(pool)].pc = "new" /\ checker'[Len(pool)].flag = Len(pool)
      /\ DOMAIN checker' = DOMAIN checker \cup {Len(pool)}
  <2>1. new \in Checkers /\ new.pc = "new" /\ new.flag = Len(pool)
    BY DEF IndInv, Typed, Checkers
  <2> HIDE DEF new
  <2> QED
    BY <1>1, <1>3, <2>1 DEF IndInv, Typed
<1>6. Typed'
  BY <1>1, <1>4, <1>5 DEF Typed, IndInv
<1>7. HandOver'
  BY <1>1, <1>3, <1>4, <1>5 DEF HandOver, Idle, IndInv, Typed
<1>8. Told'
  BY <1>1, <1>3, <1>4, <1>5 DEF Told, IndInv, Typed
<1>9. SameSettings'
  BY <1>1 DEF SameSettings, IndInv
<1>10. FirstStarted'
  BY <1>1, <1>3, <1>5 DEF FirstStarted, IndInv, Typed, interval
<1> QED
  BY <1>6, <1>7, <1>8, <1>9, <1>10 DEF IndInv

\* Storing the router, then the configuration.
LEMMA SwapStoreInv ==
  ASSUME IndInv, Swap \/ Store
  PROVE  IndInv'
<1> USE DEF outside, served, checkers
<1>1. /\ files' = files /\ dirty' = dirty /\ left' = left /\ proc' = proc
      /\ pending' = pending /\ parts' = parts /\ pool' = pool /\ flag' = flag
      /\ health_stop' = health_stop /\ checker' = checker
  BY DEF Swap, Store
<1>2. \/ hpc = "swap" /\ hpc' = "store" /\ router' = Len(pool) /\ stored' = stored
      \/ hpc = "store" /\ hpc' = "recv" /\ router' = router /\ stored' = Len(pool)
  BY DEF Swap, Store
<1>3. Typed'
  BY <1>1, <1>2 DEF IndInv, Typed
<1>4. HandOver'
  BY <1>1, <1>2 DEF HandOver, Idle, IndInv, Typed
<1> QED
  BY <1>1, <1>2, <1>3, <1>4 DEF IndInv, Told, SameSettings, FirstStarted, interval

----------------------------------------------------------------------------
(* run_health_checker, and what happens outside the process. *)

\* What a step of checker g that does not panic does to it.
LEMMA CheckerMoves ==
  ASSUME IndInv, NEW g \in DOMAIN checker, NEW l \in {"tick", "round", "gone"},
         checker' = [checker EXCEPT ![g].pc = l],
         UNCHANGED <<outside, proc, pending, hpc, parts, served, flag, health_stop>>,
         l = "gone" => flag[g] = TRUE,
         checker[g].pc = "new" => interval(g) > 0
  PROVE  IndInv'
<1>1. /\ files' = files /\ dirty' = dirty /\ left' = left /\ proc' = proc
      /\ pending' = pending /\ hpc' = hpc /\ parts' = parts /\ pool' = pool
      /\ router' = router /\ stored' = stored /\ flag' = flag
      /\ health_stop' = health_stop
  BY DEF outside, served
<1>2. /\ checker' \in Seq(Checkers)
      /\ Len(checker') = Len(checker) /\ DOMAIN checker' = DOMAIN checker
      /\ \A h \in DOMAIN checker : h # g => checker'[h] = checker[h]
      /\ checker'[g].pc = l /\ checker'[g].flag = checker[g].flag
  <2> DEFINE new == [checker[g] EXCEPT !.pc = l]
  <2>1. checker \in Seq(Checkers)
    BY DEF IndInv, Typed
  <2>2. checker[g] \in Checkers
    BY <2>1
  <2>3. new \in Checkers /\ new.pc = l /\ new.flag = checker[g].flag
    BY <2>2 DEF Checkers
  <2>4. checker' = [checker EXCEPT ![g] = new]
    OBVIOUS
  <2> HIDE DEF new
  <2> QED
    BY <2>1, <2>3, <2>4
<1>3. Typed' /\ HandOver' /\ SameSettings'
  BY <1>1, <1>2 DEF IndInv, Typed, HandOver, Idle, SameSettings
<1>4. Told'
  BY <1>1, <1>2 DEF IndInv, Told
<1>5. FirstStarted'
  BY <1>1, <1>2 DEF IndInv, Typed, FirstStarted, interval
<1> QED
  BY <1>3, <1>4, <1>5 DEF IndInv

\* A health checker takes a step.
LEMMA CheckerStepInv ==
  ASSUME IndInv, NEW g \in DOMAIN checker, CheckerStep(g)
  PROVE  IndInv'
<1>1. CASE CheckerPanic(g)
  BY <1>1, DownStep DEF CheckerPanic, IndInv, Typed, outside
<1>2. CASE CheckerStart(g)
  BY <1>2, CheckerMoves DEF CheckerStart
<1>3. CASE CheckerTick(g)
  <2> DEFINE l == IF flag[checker[g].flag] THEN "gone" ELSE "round"
  <2>1. l \in {"tick", "round", "gone"}
    OBVIOUS
  <2>2. checker[g].flag = g
    BY DEF IndInv, Told
  <2>3. flag[g] \in BOOLEAN
    BY DEF IndInv, Typed, HandOver
  <2>4. l = "gone" => flag[g] = TRUE
    BY <2>2, <2>3
  <2>5. /\ checker' = [checker EXCEPT ![g].pc = l]
        /\ UNCHANGED <<outside, proc, pending, hpc, parts, served, flag, health_stop>>
        /\ checker[g].pc # "new"
    BY <1>3 DEF CheckerTick
  <2> HIDE DEF l
  <2> QED
    BY <2>1, <2>4, <2>5, CheckerMoves
<1>4. CASE CheckerJoin(g)
  BY <1>4, CheckerMoves DEF CheckerJoin
<1> QED
  BY <1>1, <1>2, <1>3, <1>4 DEF CheckerStep

\* A file is edited, a signal comes, the process dies.
LEMMA OutsideInv ==
  ASSUME IndInv, (\E i \in Files, x \in Content : Edit(i, x)) \/ Sighup \/ Crash
  PROVE  IndInv'
<1>1. left' \in 0 .. MaxEvents /\ dirty' \in BOOLEAN
  <2>1. left > 0 /\ left' = left - 1
    BY DEF Edit, Sighup, Crash, Event
  <2>2. left' \in 0 .. MaxEvents
    BY <2>1, ReloadAssumption DEF IndInv, Typed
  <2>3. dirty' \in BOOLEAN
    BY DEF Edit, Sighup, Crash, IndInv, Typed
  <2> QED
    BY <2>2, <2>3
<1>2. files' \in [Files -> Content]
  BY DEF Edit, Sighup, Crash, IndInv, Typed
<1>3. CASE Down
  BY <1>1, <1>2, <1>3, DownStep
<1>4. CASE ~Down
  <2>1. /\ proc' = proc /\ hpc' = hpc /\ parts' = parts /\ pool' = pool
        /\ router' = router /\ stored' = stored /\ flag' = flag
        /\ health_stop' = health_stop /\ checker' = checker
    BY <1>4 DEF Edit, Sighup, Crash, served, checkers
  <2>2. pending' \in BOOLEAN
    BY <1>4 DEF Edit, Sighup, Crash, IndInv, Typed
  <2> QED
    BY <1>1, <1>2, <2>1, <2>2
       DEF IndInv, Typed, HandOver, Told, SameSettings, FirstStarted, Idle, interval
<1> QED
  BY <1>3, <1>4

----------------------------------------------------------------------------
(* The theorems. *)

\* The inductive invariant holds in every reachable state.
THEOREM Invariance == Spec => []IndInv
<1>1. Init => IndInv
  <2> SUFFICES ASSUME Init PROVE IndInv
    OBVIOUS
  <2> USE DEF Init
  <2>1. Len(<< >>) = 0 /\ DOMAIN << >> = {} /\ \A S : << >> \in Seq(S)
    OBVIOUS
  <2>2. dirty \in BOOLEAN /\ pending \in BOOLEAN
    OBVIOUS
  <2>3. Typed
    BY <2>1, <2>2, ReloadAssumption DEF Typed
  <2>4. HandOver /\ Told /\ SameSettings /\ FirstStarted
    BY <2>1 DEF HandOver, Told, SameSettings, FirstStarted, Idle
  <2> QED
    BY <2>3, <2>4 DEF IndInv
<1>2. ASSUME IndInv, [Next]_vars PROVE IndInv'
  <2>1. CASE UNCHANGED vars
    BY <1>2, <2>1 DEF vars, outside, served, checkers, IndInv, Typed, HandOver, Told,
       SameSettings, FirstStarted, Idle, interval
  <2>2. CASE Next
    BY <1>2, <2>2, BootStepInv, ReadFileInv, WaitStepInv, AcceptInv, SpawnInv,
       SwapStoreInv, CheckerStepInv, OutsideInv DEF Next, ReloadStep
  <2> QED
    BY <1>2, <2>1, <2>2
<1> QED
  BY <1>1, <1>2, PTL DEF Spec

\* Types, and the generations in step with the phase of the reload task.
THEOREM TypeCorrect == Spec => []TypeOK
<1>1. ASSUME IndInv PROVE TypeOK
  <2>1. proc = "up" => {router, stored, health_stop} \subseteq DOMAIN checker
    BY <1>1 DEF IndInv, Typed, HandOver, Idle
  <2>2. \A g \in DOMAIN checker : /\ checker[g].pc \in {"new", "tick", "round", "gone"}
                                 /\ checker[g].flag \in DOMAIN flag
    <3>1. \A g \in DOMAIN checker : checker[g] \in Checkers
      BY <1>1 DEF IndInv, Typed
    <3>2. DOMAIN flag = DOMAIN checker
      BY <1>1 DEF IndInv, Typed, HandOver
    <3>3. \A g \in DOMAIN checker : checker[g].flag = g
      BY <1>1 DEF IndInv, Told
    <3> QED
      BY <3>1, <3>2, <3>3 DEF Checkers
  <2>3. Len(pool) = Len(checker) + (IF hpc = "spawn" THEN 1 ELSE 0)
    BY <1>1 DEF IndInv, Typed, HandOver
  <2> QED
    BY <1>1, <2>1, <2>2, <2>3 DEF IndInv, Typed, HandOver, TypeOK
<1> QED
  BY <1>1, Invariance, PTL

\* Whatever the files hold and whenever they are edited or reloaded, the stored
\* configuration is the one in force and keeps the settings of the start.
THEOREM StoredIsInForce == Spec => []ConfigInForce
<1>1. ASSUME IndInv PROVE ConfigInForce
  BY <1>1 DEF IndInv, HandOver, SameSettings, ConfigInForce
<1> QED
  BY <1>1, Invariance, PTL

\* Outside a hand-over exactly the checker of the router's workers runs on.
THEOREM WorkersWatched == Spec => []OneWatcher
<1>1. ASSUME IndInv, Idle PROVE checker[router].pc # "gone"
                              /\ \A g \in DOMAIN checker : flag[checker[g].flag] <=> g # router
  <2>1. hpc # "spawn" /\ proc = "up" /\ router = health_stop /\ router \in DOMAIN checker
    BY <1>1 DEF IndInv, Typed, HandOver, Idle
  <2>2. ASSUME NEW g \in DOMAIN checker PROVE flag[checker[g].flag] <=> g # router
    <3>1. checker[g].flag = g
      BY <1>1 DEF IndInv, Told
    <3>2. g # router => flag[g] = TRUE
      BY <1>1, <2>1 DEF IndInv, Told
    <3>3. g = router => flag[g] = FALSE
      BY <1>1, <2>1 DEF IndInv, Told
    <3> QED
      BY <3>1, <3>2, <3>3
  <2>3. checker[router].pc # "gone"
    BY <1>1, <2>1 DEF IndInv, Told
  <2> QED
    BY <2>2, <2>3
<1>2. IndInv => OneWatcher
  BY <1>1 DEF OneWatcher
<1> QED
  BY <1>2, Invariance, PTL

\* But for signals and crashes a running process ends only when its first
\* checker cannot start: no reload brings in an interval that panics.
THEOREM ReloadsAreSurvived == Spec => SurvivesReloads
<1> DEFINE Ends == proc = "up" /\ proc' = "down" /\ left' = left => checker[1].pc = "new"
<1>1. ASSUME IndInv, [Next]_vars PROVE [Ends]_vars
  <2> SUFFICES ASSUME Next, proc = "up", proc' = "down", left' = left
               PROVE  checker[1].pc = "new"
    BY <1>1
  <2>1. ~BootStep /\ ~ReadFile /\ ~ReloadStep
    BY DEF BootStep, Boot, BootRefused, BootUp, ReadFile, ReloadStep, Install, Receive,
       Reject, Accept, Spawn, Swap, Store
  <2>2. ~Event
    BY <1>1 DEF Event, IndInv, Typed
  <2>3. PICK g \in DOMAIN checker : CheckerStep(g)
    BY <2>1, <2>2 DEF Next, Edit, Sighup, Crash
  <2>4. interval(g) = 0
    BY <2>3 DEF CheckerStep, CheckerPanic, CheckerStart, CheckerTick, CheckerJoin
  <2>5. "health" \in Sections /\ g \in DOMAIN pool /\ Len(checker) >= 1
    BY <1>1, SectionNames DEF IndInv, Typed, HandOver
  <2>6. interval(1) = 0
    BY <1>1, <2>4, <2>5 DEF IndInv, SameSettings, interval, health_config
  <2> QED
    BY <1>1, <2>5, <2>6 DEF IndInv, FirstStarted
<1> QED
  BY <1>1, Invariance, PTL DEF Spec, SurvivesReloads

=============================================================================
