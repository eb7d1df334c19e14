------------------------- MODULE HealthCheckProofs -------------------------
(***************************************************************************)
(* Proofs about module HealthCheck, for any number of workers and any      *)
(* thresholds.                                                             *)
(***************************************************************************)
EXTENDS HealthCheck, FiniteSetTheorems, TLAPS

\* The workers that a GET /health request has looked at.
Passed == 1 .. report.pos - 1

ReportType ==
  report \in [pc : {"idle", "count"}, pos : 1 .. NWorkers + 1, count : Nat,
              always : SUBSET Workers, ever : SUBSET Workers]

\* ReportBracketed, for the part of the list that has been passed.
PassedBracketed ==
  report.pc = "count" =>
    /\ report.always \subseteq HealthyOnes
    /\ HealthyOnes \subseteq report.ever
    /\ Cardinality(report.always \cap Passed) <= report.count
    /\ report.count <= Cardinality(report.ever \cap Passed)

IndInv == TypeOK /\ VerdictFollowsCounters /\ ReportType /\ PassedBracketed

----------------------------------------------------------------------------
(* Operators. *)

\* A saturating count keeps its range and passes its threshold when the code's would.
LEMMA CountBounded ==
  ASSUME NEW k \in Nat, NEW n \in 0 .. Needed(k)
  PROVE  /\ Count(n, k) \in 0 .. Needed(k)
         /\ Count(n, k) < k => Count(n, k) < Needed(k)
         /\ Count(n, k) >= k <=> Count(n, k) >= Needed(k)
         /\ 0 < Needed(k)
BY DEF Count, Needed

\* Sets of workers are finite, and so are those of the ones passed.
LEMMA WorkerSets ==
  ASSUME ReportType, NEW S \in SUBSET Workers, NEW T \in SUBSET S
  PROVE  /\ IsFiniteSet(S)
         /\ IsFiniteSet(S \cap Passed)
         /\ Cardinality(S \cap Passed) \in Nat
         /\ Cardinality(T \cap Passed) <= Cardinality(S \cap Passed)
<1>1. IsFiniteSet(Workers)
  BY FS_Interval, HealthAssumption DEF Workers
<1>2. IsFiniteSet(S) /\ IsFiniteSet(S \cap Passed)
  <2>1. S \cap Passed \in SUBSET Workers
    OBVIOUS
  <2> QED
    BY <1>1, <2>1, FS_Subset
<1>3. T \cap Passed \in SUBSET (S \cap Passed)
  OBVIOUS
<1> QED
  BY <1>2, <1>3, FS_Subset, FS_CardinalityType

----------------------------------------------------------------------------
(* Types and verdicts. *)

\* A probe that ends leaves flag and counters of its worker in agreement, and
\* those of the others alone.
LEMMA ProbeEnds ==
  ASSUME IndInv, NEW w \in Workers, ProbeOk(w) \/ ProbeFail(w)
  PROVE  /\ healthy' \in [Workers -> BOOLEAN]
         /\ failures' \in [Workers -> 0 .. Needed(FailureThreshold)]
         /\ successes' \in [Workers -> 0 .. Needed(SuccessThreshold)]
         /\ probe' \in [Workers -> {"none", "sent"} \cup Answers]
         /\ VerdictFollowsCounters'
         /\ report' = Witness(healthy')
<1> USE DEF IndInv, TypeOK, VerdictFollowsCounters
<1>0. FailureThreshold \in Nat /\ SuccessThreshold \in Nat
  BY HealthAssumption
<1>1. CASE ProbeOk(w)
  <2> DEFINE n == Count(successes[w], SuccessThreshold)
  <2>1. /\ n \in 0 .. Needed(SuccessThreshold)
        /\ n >= SuccessThreshold <=> n >= Needed(SuccessThreshold)
        /\ 0 < Needed(SuccessThreshold) /\ 0 < Needed(FailureThreshold)
        /\ 0 \in 0 .. Needed(FailureThreshold)
    BY <1>0, CountBounded DEF Needed
  <2>2. /\ successes' = [successes EXCEPT ![w] = n]
        /\ failures' = [failures EXCEPT ![w] = 0]
        /\ healthy' = [healthy EXCEPT ![w] = @ \/ n >= SuccessThreshold]
        /\ probe' = [probe EXCEPT ![w] = "none"]
        /\ report' = Witness(healthy')
    BY <1>1 DEF ProbeOk
  <2> HIDE DEF n
  <2>3. healthy' \in [Workers -> BOOLEAN]
    BY <2>2
  <2>4. VerdictFollowsCounters'
    <3>1. ASSUME NEW v \in Workers, v # w
          PROVE  /\ healthy'[v] = healthy[v]
                 /\ failures'[v] = failures[v] /\ successes'[v] = successes[v]
      BY <2>2, <3>1
    <3>2. successes'[w] = n /\ failures'[w] = 0
      BY <2>2
    <3>3. healthy'[w] <=> healthy[w] \/ n >= SuccessThreshold
      BY <2>2, Zenon
    <3>4. ~healthy'[w] => n < Needed(SuccessThreshold)
      BY <1>0, <2>1, <3>3 DEF Needed
    <3> QED
      BY <2>1, <3>1, <3>2, <3>4
  <2> QED
    BY <2>1, <2>2, <2>3, <2>4
<1>2. CASE ProbeFail(w)
  <2> DEFINE n == Count(failures[w], FailureThreshold)
  <2>1. /\ n \in 0 .. Needed(FailureThreshold)
        /\ n >= FailureThreshold <=> n >= Needed(FailureThreshold)
        /\ 0 < Needed(SuccessThreshold) /\ 0 < Needed(FailureThreshold)
        /\ 0 \in 0 .. Needed(SuccessThreshold)
    BY <1>0, CountBounded DEF Needed
  <2>2. /\ failures' = [failures EXCEPT ![w] = n]
        /\ successes' = [successes EXCEPT ![w] = 0]
        /\ healthy' = [healthy EXCEPT ![w] = @ /\ n < FailureThreshold]
        /\ probe' = [probe EXCEPT ![w] = "none"]
        /\ report' = Witness(healthy')
    BY <1>2 DEF ProbeFail, handle_health_failure
  <2> HIDE DEF n
  <2>3. healthy' \in [Workers -> BOOLEAN]
    BY <2>2
  <2>4. VerdictFollowsCounters'
    <3>1. ASSUME NEW v \in Workers, v # w
          PROVE  /\ healthy'[v] = healthy[v]
                 /\ failures'[v] = failures[v] /\ successes'[v] = successes[v]
      BY <2>2, <3>1
    <3>2. failures'[w] = n /\ successes'[w] = 0
      BY <2>2
    <3>3. healthy'[w] <=> healthy[w] /\ n < FailureThreshold
      BY <2>2, Zenon
    <3>4. healthy'[w] => n < Needed(FailureThreshold)
      BY <1>0, <2>1, <3>3 DEF Needed
    <3> QED
      BY <2>1, <3>1, <3>2, <3>4
  <2> QED
    BY <2>1, <2>2, <2>3, <2>4
<1> QED
  BY <1>1, <1>2

\* The history of a report stays between the healthy workers of the moment and
\* those of any moment.
LEMMA WitnessBracketed ==
  ASSUME IndInv, healthy' \in [Workers -> BOOLEAN], report' = Witness(healthy')
  PROVE  /\ ReportType'
         /\ report'.pos = report.pos
         /\ PassedBracketed'
<1> DEFINE now == {w \in Workers : healthy'[w]}
<1>0. now = HealthyOnes'
  BY DEF HealthyOnes
<1>1. CASE report.pc = "idle"
  BY <1>1 DEF Witness, IndInv, ReportType, PassedBracketed
<1>2. CASE report.pc # "idle"
  <2>1. /\ report' = [report EXCEPT !.always = @ \cap now, !.ever = @ \cup now]
        /\ report.pc = "count"
    BY <1>2 DEF Witness, IndInv, ReportType
  <2> HIDE DEF now
  <2>2. now \in SUBSET Workers
    BY DEF now
  <2>3. /\ ReportType'
        /\ report'.pos = report.pos /\ report'.count = report.count
        /\ report'.always = report.always \cap now
        /\ report'.ever = report.ever \cup now
    BY <2>1, <2>2 DEF IndInv, ReportType
  <2>4. Passed' = Passed
    BY <2>3 DEF Passed
  <2>5. Cardinality(report'.always \cap Passed) <= Cardinality(report.always \cap Passed)
    BY <2>3, WorkerSets DEF IndInv, ReportType
  <2>6. Cardinality(report.ever \cap Passed) <= Cardinality(report'.ever \cap Passed)
    BY <2>2, <2>3, WorkerSets DEF IndInv, ReportType
  <2>7. /\ Cardinality(report'.always \cap Passed) \in Nat
        /\ Cardinality(report.always \cap Passed) \in Nat
        /\ Cardinality(report'.ever \cap Passed) \in Nat
        /\ Cardinality(report.ever \cap Passed) \in Nat
        /\ report.count \in Nat
    BY <2>2, <2>3, WorkerSets DEF IndInv, ReportType
  <2>8. /\ Cardinality(report.always \cap Passed) <= report.count
        /\ report.count <= Cardinality(report.ever \cap Passed)
    BY <2>1 DEF IndInv, PassedBracketed
  <2>9. /\ Cardinality(report'.always \cap Passed') <= report'.count
        /\ report'.count <= Cardinality(report'.ever \cap Passed')
    BY <2>3, <2>4, <2>5, <2>6, <2>7, <2>8
  <2> QED
    BY <1>0, <2>3, <2>9 DEF PassedBracketed
<1> QED
  BY <1>1, <1>2

----------------------------------------------------------------------------
(* GET /health. *)

\* health_handler looks at the next worker of the list.
LEMMA CountStep ==
  ASSUME IndInv, ReportCount
  PROVE  ReportType' /\ PassedBracketed'
<1> DEFINE p == report.pos
<1> DEFINE c == IF healthy[p] THEN report.count + 1 ELSE report.count
<1>0. report \in [pc : {"idle", "count"}, pos : 1 .. NWorkers + 1, count : Nat,
                  always : SUBSET Workers, ever : SUBSET Workers]
  BY DEF IndInv, ReportType
<1>1. /\ p \in Workers
      /\ report.pc = "count"
      /\ report' = [report EXCEPT !.pos = p + 1, !.count = c]
      /\ UNCHANGED healthy
  BY <1>0, HealthAssumption DEF ReportCount, Workers, workerVars, Counts
<1>2. /\ ReportType'
      /\ report'.pc = "count"
      /\ report'.pos = p + 1
      /\ report'.always = report.always
      /\ report'.ever = report.ever
      /\ report'.count = c
  <2>1. c \in Nat /\ p + 1 \in 1 .. NWorkers + 1
    BY <1>0, <1>1, HealthAssumption DEF Workers
  <2> HIDE DEF c
  <2> QED
    BY <1>0, <1>1, <2>1 DEF ReportType
<1>3. HealthyOnes' = HealthyOnes
  BY <1>1 DEF HealthyOnes
<1>4. Passed' = Passed \cup {p} /\ p \notin Passed
  BY <1>1, <1>2, HealthAssumption DEF Passed, Workers
<1>5. ASSUME NEW S \in SUBSET Workers
      PROVE  /\ p \in S => Cardinality(S \cap Passed') = Cardinality(S \cap Passed) + 1
             /\ p \notin S => Cardinality(S \cap Passed') = Cardinality(S \cap Passed)
             /\ Cardinality(S \cap Passed) \in Nat
  <2>1. IsFiniteSet(S \cap Passed) /\ Cardinality(S \cap Passed) \in Nat
    BY WorkerSets DEF IndInv
  <2>2. CASE p \in S
    <3>1. S \cap Passed' = (S \cap Passed) \cup {p} /\ p \notin S \cap Passed
      BY <1>4, <2>2
    <3> QED
      BY <2>1, <2>2, <3>1, FS_AddElement
  <2>3. CASE p \notin S
    <3>1. S \cap Passed' = S \cap Passed
      BY <1>4, <2>3
    <3> QED
      BY <2>1, <2>3, <3>1
  <2> QED
    BY <2>1, <2>2, <2>3
<1>6. /\ report.always \in SUBSET Workers /\ report.ever \in SUBSET Workers
      /\ report.count \in Nat
      /\ healthy[p] => p \in report.ever
      /\ ~healthy[p] => p \notin report.always
      /\ Cardinality(report.always \cap Passed) <= report.count
      /\ report.count <= Cardinality(report.ever \cap Passed)
  BY <1>1 DEF IndInv, ReportType, PassedBracketed, HealthyOnes
<1>7. /\ Cardinality(report.always \cap Passed') <= c
      /\ c <= Cardinality(report.ever \cap Passed')
  <2>1. /\ p \in report.always =>
             Cardinality(report.always \cap Passed') = Cardinality(report.always \cap Passed) + 1
        /\ p \notin report.always =>
             Cardinality(report.always \cap Passed') = Cardinality(report.always \cap Passed)
        /\ Cardinality(report.always \cap Passed) \in Nat
    BY <1>5, <1>6
  <2>2. /\ p \in report.ever =>
             Cardinality(report.ever \cap Passed') = Cardinality(report.ever \cap Passed) + 1
        /\ p \notin report.ever =>
             Cardinality(report.ever \cap Passed') = Cardinality(report.ever \cap Passed)
        /\ Cardinality(report.ever \cap Passed) \in Nat
    BY <1>5, <1>6
  <2>3. CASE healthy[p]
    BY <1>6, <2>1, <2>2, <2>3
  <2>4. CASE ~healthy[p]
    BY <1>6, <2>1, <2>2, <2>4
  <2> QED
    BY <2>3, <2>4
<1>8. report.always \subseteq HealthyOnes' /\ HealthyOnes' \subseteq report.ever
  BY <1>1, <1>3 DEF IndInv, PassedBracketed
<1> HIDE DEF c
<1> QED
  BY <1>2, <1>7, <1>8 DEF PassedBracketed

\* A GET /health request that begins has passed nothing yet.
LEMMA StartStep ==
  ASSUME IndInv, ReportStart
  PROVE  ReportType' /\ PassedBracketed'
<1>1. /\ report'.pc = "count" /\ report'.pos = 1 /\ report'.count = 0
      /\ report'.always = HealthyOnes /\ report'.ever = HealthyOnes
      /\ ReportType'
  <2> DEFINE H == HealthyOnes
  <2>1. H \in SUBSET Workers /\ 1 \in 1 .. NWorkers + 1 /\ 0 \in Nat
    BY HealthAssumption DEF HealthyOnes
  <2>2. report' = [pc |-> "count", pos |-> 1, count |-> 0, always |-> H, ever |-> H]
    BY DEF ReportStart, NoReport
  <2> HIDE DEF H
  <2>3. ReportType'
    BY <2>1, <2>2 DEF ReportType
  <2> QED
    BY <2>2, <2>3 DEF H
<1>2. HealthyOnes' = HealthyOnes
  BY DEF ReportStart, HealthyOnes, workerVars
<1>3. Passed' = {}
  BY <1>1 DEF Passed
<1>4. report'.always \cap Passed' = {} /\ report'.ever \cap Passed' = {}
  BY <1>3
<1> QED
  BY <1>1, <1>2, <1>4, FS_EmptySet DEF PassedBracketed

----------------------------------------------------------------------------
(* The theorems. *)

\* The invariant holds before the first round.
LEMMA InitInd == Init => IndInv
<1> SUFFICES ASSUME Init PROVE IndInv
  OBVIOUS
<1>1. 0 < Needed(FailureThreshold) /\ 0 < Needed(SuccessThreshold)
      /\ 0 \in 0 .. Needed(FailureThreshold) /\ 0 \in 0 .. Needed(SuccessThreshold)
  BY HealthAssumption DEF Needed
<1>2. ReportType /\ PassedBracketed /\ report.pos = 1
  BY HealthAssumption DEF Init, NoReport, ReportType, PassedBracketed
<1>3. TypeOK
  <2>1. healthy \in [Workers -> BOOLEAN] /\ stop \in BOOLEAN
    BY Zenon DEF Init
  <2>2. /\ failures \in [Workers -> 0 .. Needed(FailureThreshold)]
        /\ successes \in [Workers -> 0 .. Needed(SuccessThreshold)]
        /\ report.pos \in 1 .. NWorkers + 1
    BY <1>1, <1>2, HealthAssumption DEF Init
  <2> QED
    BY <2>1, <2>2 DEF Init, TypeOK
<1>4. VerdictFollowsCounters
  BY <1>1 DEF Init, VerdictFollowsCounters
<1> QED
  BY <1>2, <1>3, <1>4 DEF IndInv

\* Every step of checker, probes, workers and report keeps the invariant.
LEMMA Step ==
  ASSUME IndInv, [Next]_vars
  PROVE  IndInv'
<1> USE DEF IndInv, workerVars
<1>1. CASE Tick
  BY <1>1 DEF Tick, Probed, TypeOK, VerdictFollowsCounters, ReportType, PassedBracketed,
     HealthyOnes, Passed, Answers
<1>2. CASE RoundEnd
  BY <1>2 DEF RoundEnd, Joined, TypeOK, VerdictFollowsCounters, ReportType,
     PassedBracketed, HealthyOnes, Passed
<1>3. ASSUME NEW w \in Workers, ProbeAnswered(w) PROVE IndInv'
  BY <1>3 DEF ProbeAnswered, TypeOK, VerdictFollowsCounters, ReportType,
     PassedBracketed, HealthyOnes, Passed
<1>4. ASSUME NEW w \in Workers, ProbeOk(w) \/ ProbeFail(w) PROVE IndInv'
  <2>1. /\ healthy' \in [Workers -> BOOLEAN]
        /\ failures' \in [Workers -> 0 .. Needed(FailureThreshold)]
        /\ successes' \in [Workers -> 0 .. Needed(SuccessThreshold)]
        /\ probe' \in [Workers -> {"none", "sent"} \cup Answers]
        /\ VerdictFollowsCounters'
        /\ report' = Witness(healthy')
    BY <1>4, ProbeEnds
  <2>2. ReportType' /\ PassedBracketed' /\ report'.pos = report.pos
    BY <2>1, WitnessBracketed
  <2>3. /\ checker = "round"
        /\ UNCHANGED <<backend, checker, stop>>
    BY <1>4 DEF ProbeOk, ProbeFail, TypeOK
  <2> QED
    BY <2>1, <2>2, <2>3 DEF TypeOK
<1>5. ASSUME NEW w \in Workers, NEW a \in Answers, BackendChange(w, a) PROVE IndInv'
  BY <1>5 DEF BackendChange, TypeOK, VerdictFollowsCounters, ReportType,
     PassedBracketed, HealthyOnes, Passed
<1>6. CASE Stop
  BY <1>6 DEF Stop, TypeOK, VerdictFollowsCounters, ReportType, PassedBracketed,
     HealthyOnes, Passed
<1>7. CASE ReportStart \/ ReportCount \/ ReportEnd
  <2>1. /\ UNCHANGED <<backend, workerVars, probe, checker, stop>>
    BY <1>7 DEF ReportStart, ReportCount, ReportEnd
  <2>2. ReportType' /\ PassedBracketed'
    <3>1. CASE ReportEnd
      BY <3>1, HealthAssumption DEF ReportEnd, NoReport, ReportType, PassedBracketed
    <3> QED
      BY <1>7, <3>1, StartStep, CountStep
  <2>3. report'.pos \in 1 .. NWorkers + 1
    BY <2>2 DEF ReportType
  <2> QED
    BY <2>1, <2>2, <2>3 DEF TypeOK, VerdictFollowsCounters
<1>8. CASE UNCHANGED vars
  BY <1>8 DEF vars, TypeOK, VerdictFollowsCounters, ReportType, PassedBracketed,
     HealthyOnes, Passed
<1> QED
  BY <1>1, <1>2, <1>3, <1>4, <1>5, <1>6, <1>7, <1>8
     DEF Next, CheckerStep, ProbeStep

\* The inductive invariant holds in every reachable state.
THEOREM Invariance == Spec => []IndInv
<1> QED
  BY InitInd, Step, PTL DEF Spec

\* Types, and: run_health_checker has joined every probe when its round is over.
THEOREM TypeCorrect == Spec => []TypeOK
<1>1. IndInv => TypeOK
  BY DEF IndInv
<1> QED
  BY <1>1, Invariance, PTL

\* For all thresholds, 0 included, check_health leaves flag and counters of every
\* worker in agreement.
THEOREM Verdicts == Spec => []VerdictFollowsCounters
<1>1. IndInv => VerdictFollowsCounters
  BY DEF IndInv
<1> QED
  BY <1>1, Invariance, PTL

\* However probes interleave with it, health_handler reports a number of healthy
\* workers between those that were healthy throughout and those that ever were.
THEOREM HealthReport == Spec => []ReportBracketed
<1>1. IndInv => ReportBracketed
  <2> SUFFICES ASSUME IndInv, report.pc = "count", report.pos > NWorkers
               PROVE  /\ Cardinality(report.always) <= report.count
                      /\ report.count <= Cardinality(report.ever)
    BY DEF ReportBracketed
  <2>1. Passed = Workers
    BY HealthAssumption DEF IndInv, ReportType, Passed, Workers
  <2>2. report.always \cap Passed = report.always /\ report.ever \cap Passed = report.ever
    BY <2>1 DEF IndInv, ReportType
  <2> QED
    BY <2>2 DEF IndInv, PassedBracketed
<1> QED
  BY <1>1, Invariance, PTL

=============================================================================
