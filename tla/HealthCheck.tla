---------------------------- MODULE HealthCheck ----------------------------
(***************************************************************************)
(* The health checker of one worker list (worker.rs: run_health_checker,   *)
(* check_health) and the endpoint that reports on it (server.rs:           *)
(* health_handler).  On every tick the checker probes all workers at once, *)
(* each in a task of its own, and awaits them all before the next tick; a  *)
(* reload (module Reload) asks it to stop.  Meanwhile GET /health counts   *)
(* the healthy workers one after the other.                                *)
(*                                                                         *)
(* Data.  A backend answers a probe with 2xx, with another status, or not  *)
(* at all: the probe's client gives up after ten seconds.  A counter is    *)
(* only compared with its threshold, so it stops there.  A worker's flag   *)
(* and counters are written by its probe alone, and of the three only the  *)
(* flag is read by others, so what follows the await of a probe is a step. *)
(***************************************************************************)
EXTENDS Naturals, FiniteSets

CONSTANTS
  NWorkers,           \* length of the worker list
  FailureThreshold,   \* health.failure_threshold
  SuccessThreshold    \* health.success_threshold

\* validate() refuses an empty list; it says nothing of the thresholds.
ASSUME HealthAssumption ==
  /\ NWorkers \in Nat \ {0}
  /\ FailureThreshold \in Nat
  /\ SuccessThreshold \in Nat

Workers == 1 .. NWorkers

VARIABLES
  backend,     \* how the backends answer probes now
  healthy,     \* Worker::healthy
  failures,    \* consecutive_failures
  successes,   \* consecutive_successes
  probe,       \* the probe tasks of the round
  checker,     \* where the checker is
  stop,        \* its stop flag
  report       \* a GET /health request

workerVars == <<healthy, failures, successes>>
vars == <<backend, workerVars, probe, checker, stop, report>>

Answers == {"ok", "error_status", "silence"}

\* A threshold of 0 is reached by the first probe, like a threshold of 1.
Needed(threshold) == IF threshold = 0 THEN 1 ELSE threshold

\* fetch_add, kept at the threshold.
Count(n, threshold) == IF n < Needed(threshold) THEN n + 1 ELSE n

HealthyOnes == {w \in Workers : healthy[w]}

NoReport == [pc |-> "idle", pos |-> 1, count |-> 0, always |-> {}, ever |-> {}]

\* A new Worker is healthy until probes say otherwise.
Init ==
  /\ backend \in [Workers -> Answers]
  /\ healthy = [w \in Workers |-> TRUE]
  /\ failures = [w \in Workers |-> 0]
  /\ successes = [w \in Workers |-> 0]
  /\ probe = [w \in Workers |-> "none"]
  /\ checker = "tick"
  /\ stop = FALSE
  /\ report = NoReport

----------------------------------------------------------------------------
(* The environment: backends, and the reload that stores the stop flag. *)

BackendChange(w, a) ==
  /\ backend[w] # a
  /\ backend' = [backend EXCEPT ![w] = a]
  /\ UNCHANGED <<workerVars, probe, checker, stop, report>>

Stop ==
  /\ ~stop
  /\ stop' = TRUE
  /\ UNCHANGED <<backend, workerVars, probe, checker, report>>

----------------------------------------------------------------------------
(* run_health_checker *)

\* Mutant: a worker that is out is not probed again.
ProbedHealthy == HealthyOnes

Probed == Workers

\* Mutant: the flag is not looked at.
TickOn ==
  /\ checker = "tick"
  /\ checker' = "round"
  /\ probe' = [w \in Workers |-> IF w \in Probed THEN "sent" ELSE "none"]
  /\ UNCHANGED <<backend, workerVars, stop, report>>

\* The flag is looked at between two rounds only.
Tick ==
  /\ checker = "tick"
  /\ IF stop
       THEN checker' = "gone" /\ UNCHANGED probe
       ELSE /\ checker' = "round"
            /\ probe' = [w \in Workers |-> IF w \in Probed THEN "sent" ELSE "none"]
  /\ UNCHANGED <<backend, workerVars, stop, report>>

\* Mutant: the probe tasks are not awaited.
JoinNone == checker = "round"

Joined == checker = "round" /\ \A w \in Workers : probe[w] = "none"

RoundEnd ==
  /\ Joined
  /\ checker' = "tick"
  /\ UNCHANGED <<backend, workerVars, probe, stop, report>>

----------------------------------------------------------------------------
(* check_health *)

\* The answer, or the error, is on its way back.
ProbeAnswered(w) ==
  /\ probe[w] = "sent"
  /\ probe' = [probe EXCEPT ![w] = backend[w]]
  /\ UNCHANGED <<backend, workerVars, checker, stop, report>>

\* History of the request that is being answered, for ReportBracketed: which
\* workers have been healthy all the time, and at some time.
Witness(flags) ==
  LET now == {w \in Workers : flags[w]}
  IN  IF report.pc = "idle" THEN report
      ELSE [report EXCEPT !.always = @ \cap now, !.ever = @ \cup now]

\* A 2xx.
ProbeOk(w) ==
  LET n == Count(successes[w], SuccessThreshold)
  IN  /\ probe[w] = "ok"
      /\ successes' = [successes EXCEPT ![w] = n]
      /\ failures' = [failures EXCEPT ![w] = 0]
      /\ healthy' = [healthy EXCEPT ![w] = @ \/ n >= SuccessThreshold]
      /\ report' = Witness(healthy')
      /\ probe' = [probe EXCEPT ![w] = "none"]
      /\ UNCHANGED <<backend, checker, stop>>

\* Mutant: the successes before the failure still count afterwards.
HealthFailureKeeps(w) ==
  LET n == Count(failures[w], FailureThreshold)
  IN  /\ failures' = [failures EXCEPT ![w] = n]
      /\ healthy' = [healthy EXCEPT ![w] = @ /\ n < FailureThreshold]
      /\ report' = Witness(healthy')
      /\ UNCHANGED successes

handle_health_failure(w) ==
  LET n == Count(failures[w], FailureThreshold)
  IN  /\ failures' = [failures EXCEPT ![w] = n]
      /\ successes' = [successes EXCEPT ![w] = 0]
      /\ healthy' = [healthy EXCEPT ![w] = @ /\ n < FailureThreshold]
      /\ report' = Witness(healthy')

\* Mutant: a probe without an answer is not counted.
ProbeFailAnswered(w) ==
  /\ probe[w] \in {"error_status", "silence"}
  /\ IF probe[w] = "error_status" THEN handle_health_failure(w)
                                  ELSE UNCHANGED <<workerVars, report>>
  /\ probe' = [probe EXCEPT ![w] = "none"]
  /\ UNCHANGED <<backend, checker, stop>>

\* Another status, or no answer.
ProbeFail(w) ==
  /\ probe[w] \in {"error_status", "silence"}
  /\ handle_health_failure(w)
  /\ probe' = [probe EXCEPT ![w] = "none"]
  /\ UNCHANGED <<backend, checker, stop>>

----------------------------------------------------------------------------
(* health_handler *)

ReportStart ==
  /\ report.pc = "idle"
  /\ report' = [NoReport EXCEPT !.pc = "count", !.always = HealthyOnes, !.ever = HealthyOnes]
  /\ UNCHANGED <<backend, workerVars, probe, checker, stop>>

\* Mutant: every worker is counted.
CountsAll(w) == TRUE

Counts(w) == healthy[w]

ReportCount ==
  /\ report.pc = "count" /\ report.pos <= NWorkers
  /\ report' = [report EXCEPT !.pos = @ + 1,
                              !.count = IF Counts(report.pos) THEN @ + 1 ELSE @]
  /\ UNCHANGED <<backend, workerVars, probe, checker, stop>>

\* 200 with the count, or 503 when it is 0.
ReportEnd ==
  /\ report.pc = "count" /\ report.pos > NWorkers
  /\ report' = NoReport
  /\ UNCHANGED <<backend, workerVars, probe, checker, stop>>

----------------------------------------------------------------------------
CheckerStep == Tick \/ RoundEnd
ProbeStep(w) == ProbeAnswered(w) \/ ProbeOk(w) \/ ProbeFail(w)

Next ==
  \/ CheckerStep
  \/ \E w \in Workers : ProbeStep(w) \/ \E a \in Answers : BackendChange(w, a)
  \/ Stop
  \/ ReportStart \/ ReportCount \/ ReportEnd

Spec == Init /\ [][Next]_vars

\* The interval keeps ticking, and a probe ends within the ten seconds of
\* HEALTH_CLIENT.
Fairness == WF_vars(CheckerStep) /\ \A w \in Workers : WF_vars(ProbeStep(w))

FairSpec == Spec /\ Fairness

----------------------------------------------------------------------------
(* Properties. *)

\* Types, and the join: outside a round no probe is under way, so that the
\* checker of a replaced list leaves nothing behind when it ends.
TypeOK ==
  /\ backend \in [Workers -> Answers]
  /\ healthy \in [Workers -> BOOLEAN]
  /\ failures \in [Workers -> 0 .. Needed(FailureThreshold)]
  /\ successes \in [Workers -> 0 .. Needed(SuccessThreshold)]
  /\ probe \in [Workers -> {"none", "sent"} \cup Answers]
  /\ checker \in {"tick", "round", "gone"}
  /\ checker # "round" => \A w \in Workers : probe[w] = "none"
  /\ stop \in BOOLEAN
  /\ report.pos \in 1 .. NWorkers + 1

\* Between probes the flag is what the counters call for: a worker in rotation
\* has not failed failure_threshold probes in a row, one out of rotation has not
\* passed success_threshold in a row, and a run of one kind ends the other.
VerdictFollowsCounters ==
  \A w \in Workers :
    /\ healthy[w] => failures[w] < Needed(FailureThreshold)
    /\ ~healthy[w] => successes[w] < Needed(SuccessThreshold)
    /\ failures[w] = 0 \/ successes[w] = 0

\* health_handler reads the flags one by one while probes flip them: the count
\* lies between the workers that were healthy all along and those that were
\* healthy at some moment of the request.  In particular GET /health is not a
\* 503 while some worker stays healthy.
ReportBracketed ==
  report.pc = "count" /\ report.pos > NWorkers =>
    Cardinality(report.always) <= report.count /\ report.count <= Cardinality(report.ever)

\* A backend that stays down is taken out of rotation for good (by a checker
\* that is not stopped), however it fails its probes.
DownDetected ==
  \A w \in Workers :
    <>[](backend[w] # "ok" /\ ~stop) => <>[](~healthy[w])

\* A backend that stays up is brought back for good.
UpDetected ==
  \A w \in Workers :
    <>[](backend[w] = "ok" /\ ~stop) => <>[](healthy[w])

\* A checker that is told to stop ends.
Stops == stop ~> checker = "gone"

=============================================================================
