---------------------------- MODULE BreakerRules ----------------------------
(***************************************************************************)
(* What each operation of a worker's circuit breaker does to it when no    *)
(* other operation interleaves (src/src/circuit_breaker.rs), as operators  *)
(* on a breaker record.  Module AtomicBreaker makes a specification of     *)
(* them, module Proxy applies them to the breakers of its workers, and     *)
(* module CircuitBreaker models the same operations one atomic access at   *)
(* a time.                                                                 *)
(*                                                                         *)
(* The two consecutive counters are only ever compared with their          *)
(* thresholds, so they saturate there; the clock is reduced to one bit,    *)
(* "at least timeout_duration has passed since last_state_change".         *)
(* total_failures, total_successes and last_failure_time are statistics    *)
(* nothing reads back, and window_duration is never read at all.           *)
(***************************************************************************)
EXTENDS Naturals

CONSTANTS
  FailureThreshold,   \* circuit_breaker.failure_threshold
  SuccessThreshold    \* circuit_breaker.success_threshold

\* AppConfig::validate puts no lower bound on either threshold.
ASSUME ThresholdAssumption ==
  /\ FailureThreshold \in Nat
  /\ SuccessThreshold \in Nat

CircuitState == {"Closed", "Open", "HalfOpen"}

Breakers ==
  [state : CircuitState, fails : 0 .. FailureThreshold,
   succs : 0 .. SuccessThreshold, expired : BOOLEAN]

NewBreaker == [state |-> "Closed", fails |-> 0, succs |-> 0, expired |-> FALSE]

\* n + 1, counted no further than cap.
CountUpTo(n, cap) == IF n < cap THEN n + 1 ELSE cap

\* Entering Open keeps the failure count; the other two states clear both.
TransitionTo(b, s) ==
  IF b.state = s
    THEN b
    ELSE [state |-> s, fails |-> IF s = "Open" THEN b.fails ELSE 0,
          succs |-> 0, expired |-> FALSE]

\* check_and_update_state, which can_execute() and state() call first.
Refresh(b) ==
  IF b.state = "Open" /\ b.expired THEN TransitionTo(b, "HalfOpen") ELSE b

\* The answer can_execute gives once the state is refreshed.
Admits(b) == b.state # "Open"

RecordSuccess(b) ==
  LET c == [b EXCEPT !.fails = 0, !.succs = CountUpTo(@, SuccessThreshold)]
  IN  IF c.state = "HalfOpen" /\ c.succs >= SuccessThreshold
        THEN TransitionTo(c, "Closed")
        ELSE c

RecordFailure(b) ==
  LET c == [b EXCEPT !.succs = 0, !.fails = CountUpTo(@, FailureThreshold)]
  IN  IF \/ c.state = "Closed" /\ c.fails >= FailureThreshold
         \/ c.state = "HalfOpen"
        THEN TransitionTo(c, "Open")
        ELSE c

RecordOutcome(b, success) == IF success THEN RecordSuccess(b) ELSE RecordFailure(b)

\* timeout_duration passes while the circuit is open.
TimeOut(b) == [b EXCEPT !.expired = TRUE]

=============================================================================
