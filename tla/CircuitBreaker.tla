--------------------------- MODULE CircuitBreaker ---------------------------
(***************************************************************************)
(* The circuit breaker of one worker, shared by all request tasks          *)
(* (src/src/circuit_breaker.rs), one atomic access or lock section per     *)
(* step.  A thread asks can_execute(), may then send a request to the      *)
(* worker, and records its outcome; between any two of its accesses other  *)
(* threads take steps.                                                     *)
(*                                                                         *)
(* state is behind a RwLock: transition_to holds the write lock from the   *)
(* change of the state to the last reset of the counters, every other      *)
(* access is a read that only waits for a writer.  The counters are        *)
(* atomics that anyone may change at any time.                             *)
(*                                                                         *)
(* Time is the age of the last state change, counted no further than       *)
(* Timeout.  The statistics, last_failure_time and the unused              *)
(* window_duration are left out.                                           *)
(***************************************************************************)
EXTENDS BreakerRules, FiniteSets

CONSTANTS
  Thread,       \* threads that use the breaker
  Nobody,       \* not a thread
  Timeout,      \* timeout_duration, in ticks of the model
  CounterMax,   \* u32::MAX
  ManualOps     \* reset() and force_open() are called too

ASSUME BreakerAssumption ==
  /\ Nobody \notin Thread
  /\ Timeout \in Nat
  /\ CounterMax \in Nat
  /\ FailureThreshold <= CounterMax
  /\ SuccessThreshold <= CounterMax
  /\ ManualOps \in BOOLEAN

VARIABLES
  state,      \* state
  writer,     \* the thread that holds its write lock, or Nobody
  fails,      \* consecutive_failures
  succs,      \* consecutive_successes
  age,        \* last_state_change.elapsed()
  aborted,    \* a checked addition overflowed and the process is gone
  up,         \* the backend answers with successes
  pc,         \* per thread: the access it makes next
  count,      \* per thread: the value its fetch_add returned, plus one
  target,     \* per thread: the argument of transition_to
  then        \* per thread: where transition_to returns to

breakerVars == <<state, writer, fails, succs, age>>
threadVars == <<pc, count, target, then>>
vars == <<breakerVars, aborted, up, threadVars>>

\* Mutant: nothing waits for the lock.
NeverLocked == TRUE

LockFree == writer = Nobody

Goto(t, l) == pc' = [pc EXCEPT ![t] = l]

\* Calling transition_to(s), to continue at l.
Transition(t, s, l) ==
  /\ target' = [target EXCEPT ![t] = s]
  /\ then' = [then EXCEPT ![t] = l]
  /\ Goto(t, "enter")

Return(t) ==
  /\ Goto(t, then[t])
  /\ target' = [target EXCEPT ![t] = "Closed"]
  /\ then' = [then EXCEPT ![t] = "idle"]

Init ==
  /\ state = "Closed"
  /\ writer = Nobody
  /\ fails = 0
  /\ succs = 0
  /\ age = 0
  /\ aborted = FALSE
  /\ up = TRUE
  /\ pc = [t \in Thread |-> "idle"]
  /\ count = [t \in Thread |-> 0]
  /\ target = [t \in Thread |-> "Closed"]
  /\ then = [t \in Thread |-> "idle"]

----------------------------------------------------------------------------
(* can_execute, and state() *)

\* Mutant: can_execute answers without check_and_update_state, which alone
\* half-opens a circuit.
NoUpdate(t) ==
  /\ pc[t] = "idle"
  /\ LockFree
  /\ Goto(t, "admit")
  /\ UNCHANGED <<breakerVars, up, count, target, then>>

\* check_and_update_state reads the state ...
CheckState(t) ==
  /\ pc[t] = "idle"
  /\ LockFree
  /\ Goto(t, IF state = "Open" THEN "check_age" ELSE "admit")
  /\ UNCHANGED <<breakerVars, up, count, target, then>>

Expired == age >= Timeout

\* ... and then, the lock released, the time of the last change.
CheckAge(t) ==
  /\ pc[t] = "check_age"
  /\ IF Expired
       THEN Transition(t, "HalfOpen", "admit")
       ELSE Goto(t, "admit") /\ UNCHANGED <<target, then>>
  /\ UNCHANGED <<breakerVars, up, count>>

\* can_execute reads the state again for its answer.
Admit(t) ==
  /\ pc[t] = "admit"
  /\ LockFree
  /\ Goto(t, IF state = "Open" THEN "idle" ELSE "admitted")
  /\ UNCHANGED <<breakerVars, up, count, target, then>>

\* The worker is chosen and the request sent, or it is not.
Send(t) ==
  /\ pc[t] = "admitted"
  /\ Goto(t, "sent")
  /\ UNCHANGED <<breakerVars, up, count, target, then>>

NotChosen(t) ==
  /\ pc[t] = "admitted"
  /\ Goto(t, "idle")
  /\ UNCHANGED <<breakerVars, up, count, target, then>>

\* The client disconnects before there is an outcome.
Cancel(t) ==
  /\ pc[t] = "sent"
  /\ Goto(t, "idle")
  /\ UNCHANGED <<breakerVars, up, count, target, then>>

----------------------------------------------------------------------------
(* record_success and record_failure *)

\* record_success clears the failures ...
Success(t) ==
  /\ pc[t] = "sent"
  /\ up
  /\ fails' = 0
  /\ Goto(t, "count_success")
  /\ UNCHANGED <<state, writer, succs, age, up, count, target, then>>

\* ... counts itself (the + 1 is checked, overflow panics, panics abort) ...
CountSuccess(t) ==
  /\ pc[t] = "count_success"
  /\ succs < CounterMax
  /\ succs' = succs + 1
  /\ count' = [count EXCEPT ![t] = succs + 1]
  /\ Goto(t, "decide_success")
  /\ UNCHANGED <<state, writer, fails, age, up, target, then>>

\* ... and closes a half-open circuit on reaching the threshold.
DecideSuccess(t) ==
  /\ pc[t] = "decide_success"
  /\ LockFree
  /\ IF state = "HalfOpen" /\ count[t] >= SuccessThreshold
       THEN Transition(t, "Closed", "idle")
       ELSE Goto(t, "idle") /\ UNCHANGED <<target, then>>
  /\ count' = [count EXCEPT ![t] = 0]
  /\ UNCHANGED <<breakerVars, up>>

Failure(t) ==
  /\ pc[t] = "sent"
  /\ ~up
  /\ succs' = 0
  /\ Goto(t, "count_failure")
  /\ UNCHANGED <<state, writer, fails, age, up, count, target, then>>

CountFailure(t) ==
  /\ pc[t] = "count_failure"
  /\ fails < CounterMax
  /\ fails' = fails + 1
  /\ count' = [count EXCEPT ![t] = fails + 1]
  /\ Goto(t, "decide_failure")
  /\ UNCHANGED <<state, writer, succs, age, up, target, then>>

\* Mutant: > instead of >=.
OpensLate(t) ==
  \/ state = "Closed" /\ count[t] > FailureThreshold
  \/ state = "HalfOpen"

Opens(t) ==
  \/ state = "Closed" /\ count[t] >= FailureThreshold
  \/ state = "HalfOpen"

DecideFailure(t) ==
  /\ pc[t] = "decide_failure"
  /\ LockFree
  /\ IF Opens(t)
       THEN Transition(t, "Open", "idle")
       ELSE Goto(t, "idle") /\ UNCHANGED <<target, then>>
  /\ count' = [count EXCEPT ![t] = 0]
  /\ UNCHANGED <<breakerVars, up>>

\* A counter at u32::MAX: the process aborts in the middle of everything.
Overflow(t) ==
  /\ \/ pc[t] = "count_success" /\ succs = CounterMax
     \/ pc[t] = "count_failure" /\ fails = CounterMax
  /\ aborted' = TRUE
  /\ UNCHANGED <<breakerVars, up, threadVars>>

----------------------------------------------------------------------------
(* transition_to *)

\* The write lock; nothing else happens if the state is the target already.
Enter(t) ==
  /\ pc[t] = "enter"
  /\ LockFree
  /\ IF state # target[t]
       THEN /\ state' = target[t]
            /\ writer' = t
            /\ Goto(t, "stamp")
            /\ UNCHANGED <<target, then>>
       ELSE /\ Return(t)
            /\ UNCHANGED <<state, writer>>
  /\ UNCHANGED <<fails, succs, age, up, count>>

Stamp(t) ==
  /\ pc[t] = "stamp"
  /\ age' = 0
  /\ Goto(t, IF target[t] = "Open" THEN "reset_succs" ELSE "reset_fails")
  /\ UNCHANGED <<state, writer, fails, succs, up, count, target, then>>

\* Mutant: the failures survive the transition.
KeepFails(t) ==
  /\ pc[t] = "reset_fails"
  /\ Goto(t, "reset_succs")
  /\ UNCHANGED <<breakerVars, up, count, target, then>>

ResetFails(t) ==
  /\ pc[t] = "reset_fails"
  /\ fails' = 0
  /\ Goto(t, "reset_succs")
  /\ UNCHANGED <<state, writer, succs, age, up, count, target, then>>

\* The last reset; the lock is released.
ResetSuccs(t) ==
  /\ pc[t] = "reset_succs"
  /\ succs' = 0
  /\ writer' = Nobody
  /\ Return(t)
  /\ UNCHANGED <<state, fails, age, up, count>>

----------------------------------------------------------------------------
(* reset and force_open (no caller in the router) *)

CallForceOpen(t) ==
  /\ ManualOps
  /\ pc[t] = "idle"
  /\ Transition(t, "Open", "idle")
  /\ UNCHANGED <<breakerVars, up, count>>

CallReset(t) ==
  /\ ManualOps
  /\ pc[t] = "idle"
  /\ Transition(t, "Closed", "zero_fails")
  /\ UNCHANGED <<breakerVars, up, count>>

ZeroFails(t) ==
  /\ pc[t] = "zero_fails"
  /\ fails' = 0
  /\ Goto(t, "zero_succs")
  /\ UNCHANGED <<state, writer, succs, age, up, count, target, then>>

ZeroSuccs(t) ==
  /\ pc[t] = "zero_succs"
  /\ succs' = 0
  /\ Goto(t, "idle")
  /\ UNCHANGED <<state, writer, fails, age, up, count, target, then>>

----------------------------------------------------------------------------
(* The specification. *)

\* What a thread that is inside an operation of the breaker does next.
Continue(t) ==
  \/ CheckAge(t) \/ Admit(t)
  \/ CountSuccess(t) \/ DecideSuccess(t) \/ CountFailure(t) \/ DecideFailure(t)
  \/ Enter(t) \/ Stamp(t) \/ ResetFails(t) \/ ResetSuccs(t)
  \/ ZeroFails(t) \/ ZeroSuccs(t)

\* What the requests bring.
Call(t) ==
  \/ CheckState(t) \/ Send(t) \/ NotChosen(t) \/ Cancel(t)
  \/ Success(t) \/ Failure(t) \/ CallForceOpen(t) \/ CallReset(t)

ThreadStep(t) ==
  /\ ~aborted
  /\ \/ (Continue(t) \/ Call(t)) /\ UNCHANGED aborted
     \/ Overflow(t)

Tick ==
  /\ ~aborted
  /\ age < Timeout
  /\ age' = age + 1
  /\ UNCHANGED <<state, writer, fails, succs, aborted, up, threadVars>>

BackendChange ==
  /\ up' = ~up
  /\ UNCHANGED <<breakerVars, aborted, threadVars>>

\* A supervisor starts the process again.
Restart ==
  /\ aborted
  /\ aborted' = FALSE
  /\ state' = "Closed"
  /\ writer' = Nobody
  /\ fails' = 0
  /\ succs' = 0
  /\ age' = 0
  /\ pc' = [t \in Thread |-> "idle"]
  /\ count' = [t \in Thread |-> 0]
  /\ target' = [t \in Thread |-> "Closed"]
  /\ then' = [t \in Thread |-> "idle"]
  /\ UNCHANGED up

Next == (\E t \in Thread : ThreadStep(t)) \/ Tick \/ BackendChange \/ Restart

Spec == Init /\ [][Next]_vars

\* Threads inside an operation go on, time passes, and a supervisor restarts.
\* That requests keep asking, and that of those admitted again and again one is
\* sent and one is answered, is an assumption about the traffic, not the code:
\* the breaker half-opens only when it is asked.
Fairness ==
  /\ WF_vars(Tick)
  /\ WF_vars(Restart)
  /\ \A t \in Thread :
       /\ WF_vars(~aborted /\ (Continue(t) \/ CheckState(t)) /\ UNCHANGED aborted)
       /\ WF_vars(~aborted /\ Overflow(t))
       /\ SF_vars(~aborted /\ Send(t) /\ UNCHANGED aborted)
       /\ SF_vars(~aborted /\ Success(t) /\ UNCHANGED aborted)

FairSpec == Spec /\ Fairness

----------------------------------------------------------------------------
(* Properties. *)

Locking == {"stamp", "reset_fails", "reset_succs"}
Recording == {"count_success", "decide_success", "count_failure", "decide_failure"}
Busy == {"enter", "zero_fails", "zero_succs"} \cup Locking \cup Recording
PCs == {"idle", "check_age", "admit", "admitted", "sent"} \cup Busy

\* Types, and that the write lock is held by exactly the thread that is inside
\* transition_to, whose target state nobody else changes.
TypeOK ==
  /\ state \in CircuitState
  /\ writer \in Thread \cup {Nobody}
  /\ fails \in 0 .. CounterMax
  /\ succs \in 0 .. CounterMax
  /\ age \in 0 .. Timeout
  /\ aborted \in BOOLEAN
  /\ up \in BOOLEAN
  /\ pc \in [Thread -> PCs]
  /\ count \in [Thread -> 0 .. CounterMax]
  /\ target \in [Thread -> CircuitState]
  /\ then \in [Thread -> {"idle", "admit", "zero_fails"}]
  /\ \A t \in Thread : /\ pc[t] \in Locking <=> writer = t
                       /\ pc[t] \in Locking => state = target[t]

AtLeastOne(n) == IF n = 0 THEN 1 ELSE n

\* No interleaving of threads loses a threshold: when no thread is recording an
\* outcome or changing the state, a closed circuit has seen fewer consecutive
\* failures than the threshold, and a half-open one no failure at all and fewer
\* successes than would close it.
QuiescentConsistent ==
  (\A t \in Thread : pc[t] \notin Busy) =>
    /\ state = "Closed" => fails < AtLeastOne(FailureThreshold)
    /\ state = "HalfOpen" => fails = 0 /\ succs < AtLeastOne(SuccessThreshold)

\* What makes QuiescentConsistent inductive: once the resets of a transition are
\* done, a counter at its threshold is always some thread's business.
ThresholdsServed ==
  /\ \/ state # "Closed"
     \/ fails < AtLeastOne(FailureThreshold)
     \/ \E t \in Thread : pc[t] \in {"stamp", "reset_fails"}
     \/ \E t \in Thread : \/ pc[t] = "decide_failure" /\ count[t] >= FailureThreshold
                          \/ pc[t] = "enter" /\ target[t] = "Open"
  /\ \/ state # "HalfOpen"
     \/ fails = 0
     \/ \E t \in Thread : pc[t] \in {"stamp", "reset_fails"}
     \/ \E t \in Thread : \/ pc[t] = "decide_failure"
                          \/ pc[t] = "enter" /\ target[t] = "Open"
  /\ \/ state # "HalfOpen"
     \/ succs < AtLeastOne(SuccessThreshold)
     \/ \E t \in Thread : pc[t] \in Locking
     \/ \E t \in Thread : \/ pc[t] = "decide_success" /\ count[t] >= SuccessThreshold
                          \/ pc[t] = "enter" /\ target[t] = "Closed"

\* With a backend that stays up and requests that keep coming, the circuit does
\* not stay open or half-open for ever.
Recovers == <>[]up => []<>(state = "Closed")

\* README: after the failures the breaker "opens, stops sending traffic for
\* timeout_secs, then half-opens": it does not leave Open before that.
OpenForTimeout ==
  [][state = "Open" /\ state' # "Open" => age >= Timeout \/ aborted]_vars

----------------------------------------------------------------------------
(* One thread: the operations of module AtomicBreaker, each taking effect  *)
(* with its first access.                                                  *)

\* n, counted no further than cap.
Saturate(n, cap) == IF n < cap THEN n ELSE cap

Current ==
  [state |-> state, fails |-> Saturate(fails, FailureThreshold),
   succs |-> Saturate(succs, SuccessThreshold),
   expired |-> state = "Open" /\ age >= Timeout]

\* What the breaker will be once thread t is through with its operation.
Outcome(t) ==
  CASE pc[t] = "count_success"  -> RecordSuccess(Current)
    [] pc[t] = "count_failure"  -> RecordFailure(Current)
    [] pc[t] = "decide_success" ->
         IF state = "HalfOpen" /\ count[t] >= SuccessThreshold
           THEN TransitionTo(Current, "Closed") ELSE Current
    [] pc[t] = "decide_failure" ->
         IF Opens(t) THEN TransitionTo(Current, "Open") ELSE Current
    [] pc[t] = "enter" /\ then[t] # "zero_fails" -> TransitionTo(Current, target[t])
    [] pc[t] = "enter" /\ then[t] = "zero_fails" ->
         [TransitionTo(Current, "Closed") EXCEPT !.fails = 0, !.succs = 0]
    [] pc[t] \in Locking ->
         [Current EXCEPT !.fails = IF state = "Open" THEN @ ELSE 0,
                         !.succs = 0, !.expired = FALSE]
    [] pc[t] \in {"zero_fails", "zero_succs"} ->
         [Current EXCEPT !.fails = 0, !.succs = 0]
    [] OTHER -> Current

Atomic == INSTANCE AtomicBreaker
            WITH breaker <- Outcome(CHOOSE t \in Thread : TRUE)

\* One thread at a time, the breaker behaves as documented: in every state of an
\* operation it is what the atomic breaker is after that operation.
ImplementsAtomic == Atomic!Spec

=============================================================================
