--------------------------- MODULE AtomicBreaker ---------------------------
(***************************************************************************)
(* The circuit breaker as its documentation describes it: every operation  *)
(* takes effect at once.  Module CircuitBreaker, in which operations are   *)
(* sequences of accesses to shared atomics and locks, implements this      *)
(* specification when only one thread uses the breaker.                    *)
(***************************************************************************)
EXTENDS BreakerRules

VARIABLE breaker

Init == breaker = NewBreaker

Succeed == breaker' = RecordSuccess(breaker)
Fail    == breaker' = RecordFailure(breaker)
Check   == breaker' = Refresh(breaker)
Elapse  == breaker.state = "Open" /\ breaker' = TimeOut(breaker)

\* reset() and force_open()
Reset     == breaker' = [TransitionTo(breaker, "Closed") EXCEPT !.fails = 0, !.succs = 0]
ForceOpen == breaker' = TransitionTo(breaker, "Open")

\* The process starts again.
Restart == breaker' = NewBreaker

Next == Succeed \/ Fail \/ Check \/ Elapse \/ Reset \/ ForceOpen \/ Restart

Spec == Init /\ [][Next]_breaker

=============================================================================
