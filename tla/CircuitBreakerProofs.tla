------------------------ MODULE CircuitBreakerProofs ------------------------
(***************************************************************************)
(* Proofs about module CircuitBreaker, for any thresholds and timeout and  *)
(* any width of the counters: first for any number of threads, then that   *)
(* the breaker used by one thread implements module AtomicBreaker.         *)
(***************************************************************************)
EXTENDS CircuitBreaker, TLAPS

IndInv == TypeOK /\ ThresholdsServed

\* Every step of every thread keeps the types.
LEMMA TypeStep ==
  ASSUME TypeOK, [Next]_vars
  PROVE  TypeOK'
<1> USE BreakerAssumption DEF TypeOK, breakerVars, threadVars, Goto, LockFree
<1>0. CircuitState = {"Closed", "Open", "HalfOpen"}
  BY DEF CircuitState
<1>1. CASE UNCHANGED vars
  BY <1>1 DEF vars
<1>2. ASSUME NEW t \in Thread, ThreadStep(t) PROVE TypeOK'
  <2> USE DEF PCs, Busy, Locking, Recording
  <2>1. CASE CheckState(t) /\ UNCHANGED aborted
    BY <2>1 DEF CheckState
  <2>2. CASE CheckAge(t) /\ UNCHANGED aborted
    BY <2>2, <1>0 DEF CheckAge, Transition
  <2>3. CASE Admit(t) /\ UNCHANGED aborted
    BY <2>3 DEF Admit
  <2>4. CASE (Send(t) \/ NotChosen(t) \/ Cancel(t)) /\ UNCHANGED aborted
    BY <2>4 DEF Send, NotChosen, Cancel
  <2>5. CASE Success(t) /\ UNCHANGED aborted
    BY <2>5 DEF Success
  <2>6. CASE CountSuccess(t) /\ UNCHANGED aborted
    BY <2>6 DEF CountSuccess
  <2>7. CASE DecideSuccess(t) /\ UNCHANGED aborted
    BY <2>7, <1>0 DEF DecideSuccess, Transition
  <2>8. CASE Failure(t) /\ UNCHANGED aborted
    BY <2>8 DEF Failure
  <2>9. CASE CountFailure(t) /\ UNCHANGED aborted
    BY <2>9 DEF CountFailure
  <2>10. CASE DecideFailure(t) /\ UNCHANGED aborted
    BY <2>10, <1>0 DEF DecideFailure, Transition
  <2>11. CASE Enter(t) /\ UNCHANGED aborted
    BY <2>11, <1>0 DEF Enter, Return
  <2>12. CASE Stamp(t) /\ UNCHANGED aborted
    BY <2>12 DEF Stamp
  <2>13. CASE ResetFails(t) /\ UNCHANGED aborted
    BY <2>13 DEF ResetFails
  <2>14. CASE ResetSuccs(t) /\ UNCHANGED aborted
    BY <2>14, <1>0 DEF ResetSuccs, Return
  <2>15. CASE (CallForceOpen(t) \/ CallReset(t)) /\ UNCHANGED aborted
    BY <2>15, <1>0 DEF CallForceOpen, CallReset, Transition
  <2>16. CASE (ZeroFails(t) \/ ZeroSuccs(t)) /\ UNCHANGED aborted
    BY <2>16 DEF ZeroFails, ZeroSuccs
  <2>17. CASE Overflow(t)
    BY <2>17 DEF Overflow
  <2> QED
    BY <1>2, <2>1, <2>2, <2>3, <2>4, <2>5, <2>6, <2>7, <2>8, <2>9, <2>10, <2>11,
       <2>12, <2>13, <2>14, <2>15, <2>16, <2>17
       DEF ThreadStep, Continue, Call
<1>3. CASE Tick
  BY <1>3 DEF Tick
<1>4. CASE BackendChange
  <2>1. up' \in BOOLEAN
    BY <1>4 DEF BackendChange
  <2>2. /\ state' = state /\ writer' = writer /\ fails' = fails /\ succs' = succs
        /\ age' = age /\ aborted' = aborted /\ pc' = pc /\ count' = count
        /\ target' = target /\ then' = then
    BY <1>4 DEF BackendChange
  <2> QED
    BY <2>1, <2>2
<1>5. CASE Restart
  <2>1. aborted' \in BOOLEAN /\ up' \in BOOLEAN
    BY <1>5 DEF Restart
  <2>2. \A t \in Thread : pc'[t] \notin Locking /\ writer' # t
    BY <1>5 DEF Restart, Locking
  <2>3. /\ pc' \in [Thread -> PCs]
        /\ target' \in [Thread -> CircuitState]
        /\ then' \in [Thread -> {"idle", "admit", "zero_fails"}]
        /\ state' \in CircuitState
    BY <1>5 DEF Restart, PCs, CircuitState
  <2>4. /\ writer' = Nobody /\ fails' = 0 /\ succs' = 0 /\ age' = 0
        /\ count' = [t \in Thread |-> 0]
    BY <1>5 DEF Restart
  <2> QED
    BY <2>1, <2>2, <2>3, <2>4
<1> QED
  BY <1>1, <1>2, <1>3, <1>4, <1>5 DEF Next

----------------------------------------------------------------------------
(* Thresholds. *)

\* Every step keeps a reached threshold watched by a thread.
LEMMA ThresholdsStep ==
  ASSUME TypeOK, ThresholdsServed, [Next]_vars
  PROVE  ThresholdsServed'
<1> USE BreakerAssumption, ThresholdAssumption
    DEF TypeOK, ThresholdsServed, breakerVars, threadVars, Goto, LockFree, Locking, AtLeastOne
<1>1. CASE UNCHANGED vars
  BY <1>1 DEF vars
<1>2. ASSUME NEW t \in Thread, ThreadStep(t) PROVE ThresholdsServed'
  <2>1. CASE CheckState(t)
    BY <2>1 DEF CheckState
  <2>2. CASE CheckAge(t)
    BY <2>2 DEF CheckAge, Transition
  <2>3. CASE Admit(t)
    BY <2>3 DEF Admit
  <2>4. CASE Send(t) \/ NotChosen(t) \/ Cancel(t)
    BY <2>4 DEF Send, NotChosen, Cancel
  <2>5. CASE Success(t)
    BY <2>5 DEF Success
  <2>6. CASE CountSuccess(t)
    BY <2>6 DEF CountSuccess
  <2>7. CASE DecideSuccess(t)
    BY <2>7 DEF DecideSuccess, Transition
  <2>8. CASE Failure(t)
    BY <2>8 DEF Failure
  <2>9. CASE CountFailure(t)
    BY <2>9 DEF CountFailure
  <2>10. CASE DecideFailure(t)
    BY <2>10 DEF DecideFailure, Transition, Opens
  <2>11. CASE Enter(t)
    BY <2>11 DEF Enter, Return
  <2>12. CASE Stamp(t)
    BY <2>12 DEF Stamp
  <2>13. CASE ResetFails(t)
    BY <2>13 DEF ResetFails
  <2>14. CASE ResetSuccs(t)
    BY <2>14 DEF ResetSuccs, Return
  <2>15. CASE CallForceOpen(t) \/ CallReset(t)
    BY <2>15 DEF CallForceOpen, CallReset, Transition
  <2>16. CASE ZeroFails(t) \/ ZeroSuccs(t)
    BY <2>16 DEF ZeroFails, ZeroSuccs
  <2>17. CASE Overflow(t)
    BY <2>17 DEF Overflow
  <2> QED
    BY <1>2, <2>1, <2>2, <2>3, <2>4, <2>5, <2>6, <2>7, <2>8, <2>9, <2>10, <2>11,
       <2>12, <2>13, <2>14, <2>15, <2>16, <2>17
       DEF ThreadStep, Continue, Call
<1>3. CASE Tick
  BY <1>3 DEF Tick
<1>4. CASE BackendChange
  BY <1>4 DEF BackendChange
<1>5. CASE Restart
  BY <1>5 DEF Restart
<1> QED
  BY <1>1, <1>2, <1>3, <1>4, <1>5 DEF Next

----------------------------------------------------------------------------
(* The theorems. *)

\* The inductive invariant holds in every reachable state.
THEOREM Invariance == Spec => []IndInv
<1>1. Init => IndInv
  <2> SUFFICES ASSUME Init PROVE IndInv
    OBVIOUS
  <2>1. TypeOK
    <3>1. aborted \in BOOLEAN /\ up \in BOOLEAN
      BY DEF Init
    <3>2. \A t \in Thread : /\ pc[t] \in Locking <=> writer = t
                            /\ pc[t] \in Locking => state = target[t]
      BY BreakerAssumption DEF Init, Locking
    <3>3. /\ pc \in [Thread -> PCs]
          /\ target \in [Thread -> CircuitState]
          /\ then \in [Thread -> {"idle", "admit", "zero_fails"}]
          /\ state \in CircuitState
      BY DEF Init, PCs, CircuitState
    <3> QED
      BY <3>1, <3>2, <3>3, BreakerAssumption DEF Init, TypeOK
  <2>2. ThresholdsServed
    BY ThresholdAssumption DEF Init, ThresholdsServed, AtLeastOne
  <2> QED
    BY <2>1, <2>2 DEF IndInv
<1>2. ASSUME IndInv, [Next]_vars PROVE IndInv'
  BY <1>2, TypeStep, ThresholdsStep DEF IndInv
<1> QED
  BY <1>1, <1>2, PTL DEF Spec

\* Types, and mutual exclusion in transition_to.
THEOREM TypeCorrect == Spec => []TypeOK
<1>1. IndInv => TypeOK
  BY DEF IndInv
<1> QED
  BY <1>1, Invariance, PTL

\* A threshold that has been reached always has a thread on its way to act on it
\* (record_success, record_failure, transition_to).
THEOREM ThresholdsWatched == Spec => []ThresholdsServed
<1>1. IndInv => ThresholdsServed
  BY DEF IndInv
<1> QED
  BY <1>1, Invariance, PTL

\* No interleaving of any number of threads loses a threshold of the breaker.
THEOREM NoThresholdLost == Spec => []QuiescentConsistent
<1>1. IndInv => QuiescentConsistent
  BY DEF IndInv, ThresholdsServed, QuiescentConsistent, Busy, Locking, Recording
<1> QED
  BY <1>1, Invariance, PTL

----------------------------------------------------------------------------
(* One thread: the breaker implements AtomicBreaker. *)

\* What thread t, when there is no other, finds unchanged from one of its
\* accesses to the next.
Undisturbed(t) ==
  /\ pc[t] \in {"count_success", "decide_success"} => fails = 0
  /\ pc[t] \in {"count_failure", "decide_failure"} => succs = 0
  /\ pc[t] = "decide_success" => count[t] = succs
  /\ pc[t] = "decide_failure" => count[t] = fails
  /\ pc[t] = "check_age" => state = "Open"
  /\ pc[t] \in Locking \cup {"enter"} =>
       /\ then[t] = "admit" => target[t] = "HalfOpen"
       /\ then[t] = "zero_fails" => target[t] = "Closed"
  /\ pc[t] = "enter" /\ then[t] = "admit" => state = "Open" /\ age >= Timeout
  /\ pc[t] = "reset_fails" => state # "Open"
  /\ pc[t] = "reset_succs" => state = "Open" \/ fails = 0
  /\ pc[t] = "zero_succs" => fails = 0

\* With one thread, what it read stays true until it acts on it.
LEMMA UndisturbedStep ==
  ASSUME NEW t, Thread = {t}, TypeOK, Undisturbed(t), [Next]_vars
  PROVE  Undisturbed(t)'
<1> USE BreakerAssumption, ThresholdAssumption
    DEF TypeOK, Undisturbed, breakerVars, threadVars, Goto, Locking
<1>1. CASE UNCHANGED vars
  BY <1>1 DEF vars
<1>2. CASE ThreadStep(t)
  <2>1. CASE CheckState(t) \/ Admit(t) \/ Send(t) \/ NotChosen(t) \/ Cancel(t)
    BY <2>1 DEF CheckState, Admit, Send, NotChosen, Cancel
  <2>2. CASE CheckAge(t)
    BY <2>2 DEF CheckAge, Transition, Expired
  <2>3. CASE Success(t) \/ Failure(t)
    BY <2>3 DEF Success, Failure
  <2>4. CASE CountSuccess(t) \/ CountFailure(t)
    BY <2>4 DEF CountSuccess, CountFailure
  <2>5. CASE DecideSuccess(t)
    BY <2>5 DEF DecideSuccess, Transition
  <2>6. CASE DecideFailure(t)
    BY <2>6 DEF DecideFailure, Transition
  <2>7. CASE Enter(t)
    BY <2>7 DEF Enter, Return
  <2>8. CASE Stamp(t) \/ ResetFails(t)
    BY <2>8 DEF Stamp, ResetFails
  <2>9. CASE ResetSuccs(t)
    BY <2>9 DEF ResetSuccs, Return
  <2>10. CASE CallForceOpen(t) \/ CallReset(t)
    BY <2>10 DEF CallForceOpen, CallReset, Transition
  <2>11. CASE ZeroFails(t) \/ ZeroSuccs(t)
    BY <2>11 DEF ZeroFails, ZeroSuccs
  <2>12. CASE Overflow(t)
    BY <2>12 DEF Overflow
  <2> QED
    BY <1>2, <2>1, <2>2, <2>3, <2>4, <2>5, <2>6, <2>7, <2>8, <2>9, <2>10, <2>11, <2>12
       DEF ThreadStep, Continue, Call
<1>3. CASE Tick
  BY <1>3 DEF Tick
<1>4. CASE BackendChange
  BY <1>4 DEF BackendChange
<1>5. CASE Restart
  BY <1>5 DEF Restart
<1> QED
  BY <1>1, <1>2, <1>3, <1>4, <1>5 DEF Next

----------------------------------------------------------------------------
(* The counters, which the atomic breaker counts no further than their     *)
(* thresholds.                                                             *)

\* Counting a saturated counter up is saturating the counter counted up.
LEMMA SaturateIs ==
  ASSUME NEW n \in Nat, NEW cap \in Nat
  PROVE  /\ Saturate(n, cap) \in 0 .. cap
         /\ CountUpTo(Saturate(n, cap), cap) = Saturate(n + 1, cap)
         /\ Saturate(n, cap) >= cap <=> n >= cap
         /\ Saturate(0, cap) = 0
BY DEF Saturate, CountUpTo

\* The operations on a breaker given field by field.
Brk(s, f, u, e) == [state |-> s, fails |-> f, succs |-> u, expired |-> e]
Fresh(s, f) == Brk(s, f, 0, FALSE)

\* The breaker the variables stand for when no call is under way.
LEMMA CurrentIs ==
  Current = Brk(state, Saturate(fails, FailureThreshold), Saturate(succs, SuccessThreshold),
                state = "Open" /\ age >= Timeout)
BY DEF Current, Brk

\* The fields of a breaker record.
LEMMA BrkFields ==
  ASSUME NEW s, NEW f, NEW u, NEW e
  PROVE  /\ Brk(s, f, u, e).state = s
         /\ Brk(s, f, u, e).fails = f
         /\ Brk(s, f, u, e).succs = u
         /\ Brk(s, f, u, e).expired = e
         /\ DOMAIN Brk(s, f, u, e) = {"state", "fails", "succs", "expired"}
BY DEF Brk

\* Every breaker record is given by its fields.
LEMMA IsBrk ==
  ASSUME NEW r, r = [d \in {"state", "fails", "succs", "expired"} |-> r[d]]
  PROVE  r = Brk(r.state, r.fails, r.succs, r.expired)
BY DEF Brk

\* The updates of the model, named so that lemmas can be cited for them.
FailsSuccs(b, f, u) == [b EXCEPT !.fails = f, !.succs = u]
SuccsFails(b, u, f) == [b EXCEPT !.succs = u, !.fails = f]
Settle(b, f) == [b EXCEPT !.fails = f, !.succs = 0, !.expired = FALSE]

\* Setting the failures, then the successes.
LEMMA FailsSuccsOf ==
  ASSUME NEW s, NEW f, NEW u, NEW e, NEW x, NEW y
  PROVE  FailsSuccs(Brk(s, f, u, e), x, y) = Brk(s, x, y, e)
<1> DEFINE b == Brk(s, f, u, e)
           q == [b EXCEPT !.fails = x, !.succs = y]
<1>1. DOMAIN b = {"state", "fails", "succs", "expired"}
  BY BrkFields
<1>2. q.state = s /\ q.fails = x /\ q.succs = y /\ q.expired = e
  BY BrkFields
<1>3. q = [d \in DOMAIN b |-> q[d]]
  BY <1>1
<1> HIDE DEF q, b
<1>4. q = Brk(s, x, y, e)
  BY <1>1, <1>2, <1>3, IsBrk
<1> QED
  BY <1>4 DEF q, b, FailsSuccs

\* Setting the successes, then the failures.
LEMMA SuccsFailsOf ==
  ASSUME NEW s, NEW f, NEW u, NEW e, NEW x, NEW y
  PROVE  SuccsFails(Brk(s, f, u, e), y, x) = Brk(s, x, y, e)
<1> DEFINE b == Brk(s, f, u, e)
           q == [b EXCEPT !.succs = y, !.fails = x]
<1>1. DOMAIN b = {"state", "fails", "succs", "expired"}
  BY BrkFields
<1>2. q.state = s /\ q.fails = x /\ q.succs = y /\ q.expired = e
  BY BrkFields
<1>3. q = [d \in DOMAIN b |-> q[d]]
  BY <1>1
<1> HIDE DEF q, b
<1>4. q = Brk(s, x, y, e)
  BY <1>1, <1>2, <1>3, IsBrk
<1> QED
  BY <1>4 DEF q, b, SuccsFails

\* What a transition leaves behind.
LEMMA SettleOf ==
  ASSUME NEW s, NEW f, NEW u, NEW e, NEW x
  PROVE  Settle(Brk(s, f, u, e), x) = Fresh(s, x)
<1> DEFINE b == Brk(s, f, u, e)
           z == FALSE
           q == [b EXCEPT !.fails = x, !.succs = 0, !.expired = z]
<1>1. DOMAIN b = {"state", "fails", "succs", "expired"}
  BY BrkFields
<1> HIDE DEF z
<1>2. q.state = s /\ q.fails = x /\ q.succs = 0 /\ q.expired = z
  BY BrkFields
<1>3. q = [d \in DOMAIN b |-> q[d]]
  BY <1>1
<1> HIDE DEF q, b
<1>4. q = Brk(s, x, 0, z)
  BY <1>1, <1>2, <1>3, IsBrk
<1> QED
  BY <1>4 DEF q, b, z, Settle, Fresh

\* Clearing the counters of a fresh state.
LEMMA FreshOf ==
  ASSUME NEW s, NEW f
  PROVE  FailsSuccs(Fresh(s, f), 0, 0) = Fresh(s, 0)
<1> DEFINE z == FALSE
<1>1. Fresh(s, f) = Brk(s, f, 0, z) /\ Fresh(s, 0) = Brk(s, 0, 0, z)
  BY DEF Fresh
<1> HIDE DEF z
<1> QED
  BY <1>1, FailsSuccsOf

\* The timeout passes.
LEMMA TimeOutOf ==
  ASSUME NEW s, NEW f, NEW u, NEW e
  PROVE  TimeOut(Brk(s, f, u, e)) = Brk(s, f, u, TRUE)
<1> DEFINE b == Brk(s, f, u, e)
           z == TRUE
           q == [b EXCEPT !.expired = z]
<1>1. DOMAIN b = {"state", "fails", "succs", "expired"}
  BY BrkFields
<1> HIDE DEF z
<1>2. q.state = s /\ q.fails = f /\ q.succs = u /\ q.expired = z
  BY BrkFields
<1>3. q = [d \in DOMAIN b |-> q[d]]
  BY <1>1
<1> HIDE DEF q, b
<1>4. q = Brk(s, f, u, z)
  BY <1>1, <1>2, <1>3, IsBrk
<1> QED
  BY <1>4 DEF q, b, z, TimeOut

\* record_success, on the fields.
LEMMA RecordSuccessOf ==
  ASSUME NEW s, NEW f, NEW u, NEW e
  PROVE  LET n == CountUpTo(u, SuccessThreshold)
         IN  RecordSuccess(Brk(s, f, u, e)) =
               IF s = "HalfOpen" /\ n >= SuccessThreshold
                 THEN TransitionTo(Brk(s, 0, n, e), "Closed") ELSE Brk(s, 0, n, e)
<1> DEFINE b == Brk(s, f, u, e)
           n == CountUpTo(u, SuccessThreshold)
           c == FailsSuccs(b, 0, n)
<1>1. b.succs = u
  BY BrkFields
<1>2. RecordSuccess(b) = IF c.state = "HalfOpen" /\ c.succs >= SuccessThreshold
                           THEN TransitionTo(c, "Closed") ELSE c
  <2> HIDE DEF b
  <2> QED
    BY <1>1 DEF RecordSuccess, FailsSuccs
<1>3. c = Brk(s, 0, n, e)
  BY FailsSuccsOf
<1> QED
  BY <1>2, <1>3, BrkFields

\* record_failure, on the fields.
LEMMA RecordFailureOf ==
  ASSUME NEW s, NEW f, NEW u, NEW e
  PROVE  LET n == CountUpTo(f, FailureThreshold)
         IN  RecordFailure(Brk(s, f, u, e)) =
               IF (s = "Closed" /\ n >= FailureThreshold) \/ s = "HalfOpen"
                 THEN TransitionTo(Brk(s, n, 0, e), "Open") ELSE Brk(s, n, 0, e)
<1> DEFINE b == Brk(s, f, u, e)
           n == CountUpTo(f, FailureThreshold)
           c == SuccsFails(b, 0, n)
<1>1. b.fails = f
  BY BrkFields
<1>2. RecordFailure(b) =
        IF (c.state = "Closed" /\ c.fails >= FailureThreshold) \/ c.state = "HalfOpen"
          THEN TransitionTo(c, "Open") ELSE c
  <2> HIDE DEF b
  <2> QED
    BY <1>1 DEF RecordFailure, SuccsFails
<1>3. c = Brk(s, n, 0, e)
  BY SuccsFailsOf
<1> QED
  BY <1>2, <1>3, BrkFields

\* transition_to, on the fields.
LEMMA TransitionToOf ==
  ASSUME NEW s, NEW f, NEW u, NEW e, NEW to
  PROVE  TransitionTo(Brk(s, f, u, e), to) =
           IF s = to THEN Brk(s, f, u, e)
           ELSE Fresh(to, IF to = "Open" THEN f ELSE 0)
BY DEF TransitionTo, Brk, Fresh

----------------------------------------------------------------------------
(* What each step does to the outcome of the operation. *)

\* Asking, sending and giving up do not touch the breaker.
LEMMA CallStutters ==
  ASSUME NEW t \in Thread, TypeOK, Undisturbed(t),
         CheckState(t) \/ Admit(t) \/ Send(t) \/ NotChosen(t) \/ Cancel(t)
  PROVE  Outcome(t)' = Outcome(t)
<1>1. /\ state' = state /\ fails' = fails /\ succs' = succs /\ age' = age
      /\ pc[t] \in {"idle", "check_age", "admit", "admitted", "sent"}
      /\ pc'[t] \in {"idle", "check_age", "admit", "admitted", "sent"}
  BY DEF CheckState, Admit, Send, NotChosen, Cancel, breakerVars, Goto, TypeOK
<1> QED
  BY <1>1 DEF Outcome, Current, Locking

\* Looking at the age of an open circuit is the abstract Refresh.
LEMMA CheckAgeRefreshes ==
  ASSUME NEW t \in Thread, TypeOK, Undisturbed(t), CheckAge(t)
  PROVE  Outcome(t)' = Refresh(Outcome(t))
<1>1. /\ state' = state /\ fails' = fails /\ succs' = succs /\ age' = age
      /\ pc[t] = "check_age" /\ state = "Open"
      /\ IF age >= Timeout
           THEN pc'[t] = "enter" /\ target'[t] = "HalfOpen" /\ then'[t] = "admit"
           ELSE pc'[t] = "admit"
  BY DEF CheckAge, breakerVars, Goto, TypeOK, Transition, Expired, Undisturbed
<1>2. Outcome(t) = Current /\ Current' = Current
  BY <1>1 DEF Outcome, Current, Locking
<1>3. Current.state = "Open" /\ (Current.expired <=> age >= Timeout)
  BY <1>1 DEF Current
<1>4. CASE age >= Timeout
  <2>1. Outcome(t)' = TransitionTo(Current, "HalfOpen")
    BY <1>1, <1>2, <1>4 DEF Outcome, Locking
  <2> QED
    BY <1>2, <1>3, <1>4, <2>1 DEF Refresh
<1>5. CASE ~(age >= Timeout)
  <2>1. Outcome(t)' = Current
    BY <1>1, <1>2, <1>5 DEF Outcome, Locking
  <2> QED
    BY <1>2, <1>3, <1>5, <2>1 DEF Refresh
<1> QED
  BY <1>4, <1>5

\* The clock and the state stay as they are in a step that only counts.
LEMMA CurrentStep ==
  ASSUME state' = state, age' = age
  PROVE  \E e : /\ Current = Brk(state, Saturate(fails, FailureThreshold),
                                Saturate(succs, SuccessThreshold), e)
               /\ Current' = Brk(state, Saturate(fails', FailureThreshold),
                                 Saturate(succs', SuccessThreshold), e)
<1> DEFINE e == state = "Open" /\ age >= Timeout
<1>1. Current = Brk(state, Saturate(fails, FailureThreshold),
                    Saturate(succs, SuccessThreshold), e)
  BY CurrentIs
<1>2. Current' = Brk(state, Saturate(fails', FailureThreshold),
                     Saturate(succs', SuccessThreshold), e)
  BY DEF Current, Brk
<1> HIDE DEF e
<1> QED
  BY <1>1, <1>2

\* The abstract record_success happens when the request's outcome is known.
LEMMA SuccessRecords ==
  ASSUME NEW t \in Thread, TypeOK, Undisturbed(t), Success(t)
  PROVE  Outcome(t)' = RecordSuccess(Outcome(t))
<1>1. /\ state' = state /\ fails' = 0 /\ succs' = succs /\ age' = age
      /\ pc[t] = "sent" /\ pc'[t] = "count_success"
  BY DEF Success, Goto, TypeOK
<1>2. Outcome(t) = Current /\ Outcome(t)' = RecordSuccess(Current')
  BY <1>1 DEF Outcome, Locking
<1>3. PICK e : /\ Current = Brk(state, Saturate(fails, FailureThreshold),
                                Saturate(succs, SuccessThreshold), e)
               /\ Current' = Brk(state, Saturate(fails', FailureThreshold),
                                 Saturate(succs', SuccessThreshold), e)
  BY <1>1, CurrentStep
<1> QED
  BY <1>1, <1>2, <1>3, RecordSuccessOf

\* The abstract record_failure happens when the request's outcome is known.
LEMMA FailureRecords ==
  ASSUME NEW t \in Thread, TypeOK, Undisturbed(t), Failure(t)
  PROVE  Outcome(t)' = RecordFailure(Outcome(t))
<1>1. /\ state' = state /\ fails' = fails /\ succs' = 0 /\ age' = age
      /\ pc[t] = "sent" /\ pc'[t] = "count_failure"
  BY DEF Failure, Goto, TypeOK
<1>2. Outcome(t) = Current /\ Outcome(t)' = RecordFailure(Current')
  BY <1>1 DEF Outcome, Locking
<1>3. PICK e : /\ Current = Brk(state, Saturate(fails, FailureThreshold),
                                Saturate(succs, SuccessThreshold), e)
               /\ Current' = Brk(state, Saturate(fails', FailureThreshold),
                                 Saturate(succs', SuccessThreshold), e)
  BY <1>1, CurrentStep
<1> QED
  BY <1>1, <1>2, <1>3, RecordFailureOf

\* fetch_add does what has been accounted for already.
LEMMA CountStutters ==
  ASSUME NEW t \in Thread, TypeOK, Undisturbed(t), CountSuccess(t) \/ CountFailure(t)
  PROVE  Outcome(t)' = Outcome(t)
<1> USE BreakerAssumption, ThresholdAssumption
<1>1. CASE CountSuccess(t)
  <2>1. /\ state' = state /\ fails' = fails /\ fails = 0 /\ succs' = succs + 1 /\ age' = age
        /\ pc[t] = "count_success" /\ pc'[t] = "decide_success" /\ count'[t] = succs + 1
        /\ succs \in Nat
    BY <1>1 DEF CountSuccess, Goto, TypeOK, Undisturbed
  <2>2. PICK e : /\ Current = Brk(state, Saturate(fails, FailureThreshold),
                                  Saturate(succs, SuccessThreshold), e)
                 /\ Current' = Brk(state, Saturate(fails', FailureThreshold),
                                   Saturate(succs', SuccessThreshold), e)
    BY <2>1, CurrentStep
  <2> DEFINE n == Saturate(succs + 1, SuccessThreshold)
  <2>3. /\ CountUpTo(Saturate(succs, SuccessThreshold), SuccessThreshold) = n
        /\ n >= SuccessThreshold <=> succs + 1 >= SuccessThreshold
        /\ Saturate(0, FailureThreshold) = 0
    BY <2>1, SaturateIs
  <2> HIDE DEF n
  <2>4. Current' = Brk(state, 0, n, e)
    BY <2>1, <2>2, <2>3 DEF n
  <2>5. Outcome(t) = RecordSuccess(Current)
    BY <2>1 DEF Outcome, Locking
  <2>6. Outcome(t)' = IF state = "HalfOpen" /\ succs + 1 >= SuccessThreshold
                        THEN TransitionTo(Current', "Closed") ELSE Current'
    BY <2>1 DEF Outcome, Locking
  <2>7. RecordSuccess(Current) =
          IF state = "HalfOpen" /\ n >= SuccessThreshold
            THEN TransitionTo(Brk(state, 0, n, e), "Closed") ELSE Brk(state, 0, n, e)
    BY <2>2, <2>3, RecordSuccessOf
  <2> QED
    BY <2>3, <2>4, <2>5, <2>6, <2>7
<1>2. CASE CountFailure(t)
  <2>1. /\ state' = state /\ succs' = succs /\ succs = 0 /\ fails' = fails + 1 /\ age' = age
        /\ pc[t] = "count_failure" /\ pc'[t] = "decide_failure" /\ count'[t] = fails + 1
        /\ fails \in Nat
    BY <1>2 DEF CountFailure, Goto, TypeOK, Undisturbed
  <2>2. PICK e : /\ Current = Brk(state, Saturate(fails, FailureThreshold),
                                  Saturate(succs, SuccessThreshold), e)
                 /\ Current' = Brk(state, Saturate(fails', FailureThreshold),
                                   Saturate(succs', SuccessThreshold), e)
    BY <2>1, CurrentStep
  <2> DEFINE n == Saturate(fails + 1, FailureThreshold)
  <2>3. /\ CountUpTo(Saturate(fails, FailureThreshold), FailureThreshold) = n
        /\ n >= FailureThreshold <=> fails + 1 >= FailureThreshold
        /\ Saturate(0, SuccessThreshold) = 0
    BY <2>1, SaturateIs
  <2> HIDE DEF n
  <2>4. Current' = Brk(state, n, 0, e)
    BY <2>1, <2>2, <2>3 DEF n
  <2>5. Outcome(t) = RecordFailure(Current)
    BY <2>1 DEF Outcome, Locking
  <2>6. Outcome(t)' = IF Opens(t)' THEN TransitionTo(Current', "Open") ELSE Current'
    BY <2>1 DEF Outcome, Locking
  <2>7. Opens(t)' <=> (state = "Closed" /\ n >= FailureThreshold) \/ state = "HalfOpen"
    BY <2>1, <2>3 DEF Opens
  <2>8. RecordFailure(Current) =
          IF (state = "Closed" /\ n >= FailureThreshold) \/ state = "HalfOpen"
            THEN TransitionTo(Brk(state, n, 0, e), "Open") ELSE Brk(state, n, 0, e)
    BY <2>2, <2>3, RecordFailureOf
  <2> QED
    BY <2>4, <2>5, <2>6, <2>7, <2>8
<1> QED
  BY <1>1, <1>2

\* So does comparing the count with the threshold,
LEMMA DecideStutters ==
  ASSUME NEW t \in Thread, TypeOK, Undisturbed(t), DecideSuccess(t) \/ DecideFailure(t)
  PROVE  Outcome(t)' = Outcome(t)
<1>1. state' = state /\ fails' = fails /\ succs' = succs /\ age' = age
  BY DEF DecideSuccess, DecideFailure, breakerVars
<1>2. Current' = Current
  BY <1>1 DEF Current
<1>3. CASE DecideSuccess(t)
  <2>1. /\ pc[t] = "decide_success"
        /\ IF state = "HalfOpen" /\ count[t] >= SuccessThreshold
             THEN pc'[t] = "enter" /\ target'[t] = "Closed" /\ then'[t] = "idle"
             ELSE pc'[t] = "idle"
    BY <1>3 DEF DecideSuccess, Transition, Goto, TypeOK
  <2> QED
    BY <1>2, <2>1 DEF Outcome, Locking
<1>4. CASE DecideFailure(t)
  <2>1. /\ pc[t] = "decide_failure"
        /\ IF Opens(t)
             THEN pc'[t] = "enter" /\ target'[t] = "Open" /\ then'[t] = "idle"
             ELSE pc'[t] = "idle"
    BY <1>4 DEF DecideFailure, Transition, Goto, TypeOK
  <2> QED
    BY <1>2, <2>1 DEF Outcome, Locking
<1> QED
  BY <1>3, <1>4

\* taking the lock and changing the state,
LEMMA EnterStutters ==
  ASSUME NEW t \in Thread, TypeOK, Undisturbed(t), Enter(t)
  PROVE  Outcome(t)' = Outcome(t)
<1> DEFINE e == state = "Open" /\ age >= Timeout
           f == Saturate(fails, FailureThreshold)
           u == Saturate(succs, SuccessThreshold)
<1>1. pc[t] = "enter" /\ fails' = fails /\ succs' = succs /\ age' = age
  BY DEF Enter
<1>2. Current = Brk(state, f, u, e)
  BY CurrentIs
<1>3. Current' = Brk(state', f, u, state' = "Open" /\ age >= Timeout)
  BY <1>1 DEF Current, Brk
<1>4. then[t] = "zero_fails" => target[t] = "Closed"
  BY <1>1 DEF Undisturbed
<1>5. Outcome(t) = IF then[t] # "zero_fails" THEN TransitionTo(Current, target[t])
                   ELSE FailsSuccs(TransitionTo(Current, "Closed"), 0, 0)
  BY <1>1 DEF Outcome, Locking, FailsSuccs
<1> HIDE DEF e, f, u
<1>6. CASE state # target[t]
  <2>1. state' = target[t] /\ pc'[t] = "stamp"
    BY <1>6 DEF Enter, Goto, TypeOK
  <2>2. Outcome(t)' =
          Settle(Current', IF state' = "Open" THEN Current'.fails ELSE 0)
    BY <2>1 DEF Outcome, Locking, Settle
  <2>3. Outcome(t)' = Fresh(target[t], IF target[t] = "Open" THEN f ELSE 0)
    <3> DEFINE x == state' = "Open" /\ age >= Timeout
    <3> HIDE DEF x
    <3>1. Current' = Brk(target[t], f, u, x)
      BY <1>3, <2>1 DEF x
    <3>2. Current'.fails = f
      BY <3>1, BrkFields
    <3> QED
      BY <2>1, <2>2, <3>1, <3>2, SettleOf
  <2>4. TransitionTo(Current, target[t]) =
          Fresh(target[t], IF target[t] = "Open" THEN f ELSE 0)
    BY <1>2, <1>6, TransitionToOf
  <2>5. CASE then[t] = "zero_fails"
    <3>1. TransitionTo(Current, "Closed") = Fresh("Closed", 0)
      BY <1>4, <2>4, <2>5
    <3> QED
      BY <1>4, <1>5, <2>3, <2>5, <3>1, FreshOf
  <2> QED
    BY <1>5, <2>3, <2>4, <2>5
<1>7. CASE state = target[t]
  <2>1. state' = state /\ pc'[t] = then[t]
    BY <1>7 DEF Enter, Return, Goto, TypeOK
  <2>2. Current' = Current
    BY <1>2, <1>3, <2>1 DEF e
  <2>3. TransitionTo(Current, target[t]) = Current
    BY <1>2, <1>7, TransitionToOf
  <2>4. then[t] \in {"idle", "admit", "zero_fails"}
    BY DEF TypeOK
  <2>5. CASE then[t] = "zero_fails"
    <3>1. Outcome(t)' = FailsSuccs(Current', 0, 0)
      BY <2>1, <2>5 DEF Outcome, Locking, FailsSuccs
    <3> QED
      BY <1>4, <1>5, <2>2, <2>3, <2>5, <3>1
  <2>6. CASE then[t] # "zero_fails"
    <3>1. Outcome(t)' = Current'
      BY <2>1, <2>4, <2>6 DEF Outcome, Locking
    <3> QED
      BY <1>5, <2>2, <2>3, <2>6, <3>1
  <2> QED
    BY <2>5, <2>6
<1> QED
  BY <1>6, <1>7

\* While the lock is held the outcome is a breaker that has just changed state.
LEMMA LockedOutcome ==
  ASSUME NEW t
  PROVE  /\ pc[t] \in Locking =>
              Outcome(t) = Fresh(state, IF state = "Open"
                                          THEN Saturate(fails, FailureThreshold) ELSE 0)
         /\ pc'[t] \in Locking =>
              Outcome(t)' = Fresh(state', IF state' = "Open"
                                            THEN Saturate(fails', FailureThreshold) ELSE 0)
<1>1. ASSUME pc[t] \in Locking
      PROVE  Outcome(t) = Fresh(state, IF state = "Open"
                                         THEN Saturate(fails, FailureThreshold) ELSE 0)
  <2>1. Outcome(t) = Settle(Current, IF state = "Open" THEN Current.fails ELSE 0)
    BY <1>1 DEF Outcome, Locking, Settle
  <2> DEFINE e == state = "Open" /\ age >= Timeout
  <2>2. Current = Brk(state, Saturate(fails, FailureThreshold),
                      Saturate(succs, SuccessThreshold), e)
    BY CurrentIs
  <2> HIDE DEF e
  <2> QED
    BY <2>1, <2>2, BrkFields, SettleOf
<1>2. ASSUME pc'[t] \in Locking
      PROVE  Outcome(t)' = Fresh(state', IF state' = "Open"
                                           THEN Saturate(fails', FailureThreshold) ELSE 0)
  <2>1. Outcome(t)' = Settle(Current', IF state' = "Open" THEN Current'.fails ELSE 0)
    BY <1>2 DEF Outcome, Locking, Settle
  <2> DEFINE e == state' = "Open" /\ age' >= Timeout
  <2>2. Current' = Brk(state', Saturate(fails', FailureThreshold),
                       Saturate(succs', SuccessThreshold), e)
    BY DEF Current, Brk
  <2> HIDE DEF e
  <2> QED
    BY <2>1, <2>2, BrkFields, SettleOf
<1> QED
  BY <1>1, <1>2

\* and stamping the time and clearing the failures.
LEMMA LockedStutters ==
  ASSUME NEW t \in Thread, TypeOK, Undisturbed(t), Stamp(t) \/ ResetFails(t)
  PROVE  Outcome(t)' = Outcome(t)
<1>1. /\ state' = state /\ pc[t] \in Locking /\ pc'[t] \in Locking
      /\ state = "Open" => fails' = fails
  BY DEF Stamp, ResetFails, Goto, TypeOK, Undisturbed, Locking
<1> QED
  BY <1>1, LockedOutcome

\* With a timeout of 0 the circuit is expired as soon as it is open.
LEMMA UnlockElapses ==
  ASSUME NEW t \in Thread, TypeOK, Undisturbed(t), ResetSuccs(t)
  PROVE  \/ Outcome(t)' = Outcome(t)
         \/ Outcome(t).state = "Open" /\ Outcome(t)' = TimeOut(Outcome(t))
<1> DEFINE f == Saturate(fails, FailureThreshold)
<1>1. /\ state' = state /\ fails' = fails /\ succs' = 0 /\ age' = age
      /\ pc[t] = "reset_succs" /\ pc'[t] = then[t] /\ state = target[t]
      /\ then[t] \in {"idle", "admit", "zero_fails"}
  BY DEF ResetSuccs, Return, Goto, TypeOK, Locking
<1>2. Outcome(t) = Fresh(state, IF state = "Open" THEN f ELSE 0)
  BY <1>1, LockedOutcome DEF Locking
<1>3. Saturate(0, SuccessThreshold) = 0 /\ Saturate(0, FailureThreshold) = 0
  BY ThresholdAssumption, SaturateIs
<1>4. Current' = Brk(state, f, 0, state = "Open" /\ age >= Timeout)
  BY <1>1, <1>3 DEF Current, Brk
<1> HIDE DEF f
<1>5. CASE state = "Open"
  <2>1. then[t] = "idle"
    BY <1>1, <1>5 DEF Undisturbed, Locking
  <2>2. Outcome(t)' = Current'
    BY <1>1, <2>1 DEF Outcome, Locking
  <2>3. CASE age >= Timeout
    <3>1. Current' = Brk("Open", f, 0, TRUE)
      BY <1>4, <1>5, <2>3
    <3> DEFINE z == FALSE
    <3>2. Outcome(t) = Brk("Open", f, 0, z)
      BY <1>2, <1>5 DEF Fresh
    <3> HIDE DEF z
    <3>3. Outcome(t).state = "Open"
      BY <3>2, BrkFields
    <3>4. TimeOut(Outcome(t)) = Brk("Open", f, 0, TRUE)
      BY <3>2, TimeOutOf
    <3> QED
      BY <2>2, <3>1, <3>3, <3>4
  <2>4. CASE ~(age >= Timeout)
    <3>1. Current' = Brk("Open", f, 0, FALSE)
      BY <1>4, <1>5, <2>4
    <3>2. Outcome(t) = Brk("Open", f, 0, FALSE)
      BY <1>2, <1>5 DEF Fresh
    <3> QED
      BY <2>2, <3>1, <3>2
  <2> QED
    BY <2>3, <2>4
<1>6. CASE state # "Open"
  <2>1. f = 0
    BY <1>1, <1>3, <1>6 DEF Undisturbed, f
  <2>2. Current' = Fresh(state, 0)
    BY <1>4, <1>6, <2>1 DEF Fresh
  <2>3. CASE then[t] = "zero_fails"
    <3>1. Outcome(t)' = FailsSuccs(Current', 0, 0)
      BY <1>1, <2>3 DEF Outcome, Locking, FailsSuccs
    <3> QED
      BY <1>2, <1>6, <2>2, <3>1, FreshOf
  <2>4. CASE then[t] # "zero_fails"
    <3>1. Outcome(t)' = Current'
      BY <1>1, <2>4 DEF Outcome, Locking
    <3> QED
      BY <1>2, <1>6, <2>2, <3>1
  <2> QED
    BY <2>3, <2>4
<1> QED
  BY <1>5, <1>6

\* force_open and reset take effect when they are called.
LEMMA ManualCalls ==
  ASSUME NEW t \in Thread, TypeOK, Undisturbed(t)
  PROVE  /\ CallForceOpen(t) => Outcome(t)' = TransitionTo(Outcome(t), "Open")
         /\ CallReset(t) =>
              Outcome(t)' = FailsSuccs(TransitionTo(Outcome(t), "Closed"), 0, 0)
<1>1. ASSUME CallForceOpen(t) \/ CallReset(t)
      PROVE  pc[t] = "idle" /\ pc'[t] = "enter" /\ Current' = Current /\ Outcome(t) = Current
  <2>1. pc[t] = "idle" /\ pc'[t] = "enter"
    BY <1>1 DEF CallForceOpen, CallReset, Transition, Goto, TypeOK
  <2>2. state' = state /\ fails' = fails /\ succs' = succs /\ age' = age
    BY <1>1 DEF CallForceOpen, CallReset, breakerVars
  <2>3. Current' = Current
    BY <2>2 DEF Current
  <2>4. Outcome(t) = Current
    BY <2>1 DEF Outcome, Locking
  <2> QED
    BY <2>1, <2>3, <2>4
<1>2. ASSUME CallForceOpen(t) PROVE Outcome(t)' = TransitionTo(Outcome(t), "Open")
  <2>1. target'[t] = "Open" /\ then'[t] = "idle"
    BY <1>2 DEF CallForceOpen, Transition, TypeOK
  <2>2. Outcome(t)' = TransitionTo(Current', "Open")
    BY <1>1, <1>2, <2>1 DEF Outcome, Locking
  <2> QED
    BY <1>1, <1>2, <2>2
<1>3. ASSUME CallReset(t)
      PROVE  Outcome(t)' = FailsSuccs(TransitionTo(Outcome(t), "Closed"), 0, 0)
  <2>1. then'[t] = "zero_fails"
    BY <1>3 DEF CallReset, Transition, TypeOK
  <2>2. Outcome(t)' = FailsSuccs(TransitionTo(Current', "Closed"), 0, 0)
    BY <1>1, <1>3, <2>1 DEF Outcome, Locking, FailsSuccs
  <2> QED
    BY <1>1, <1>3, <2>2
<1> QED
  BY <1>2, <1>3

\* The two stores of reset do what has been accounted for already.
LEMMA ZeroStutters ==
  ASSUME NEW t \in Thread, TypeOK, Undisturbed(t), ZeroFails(t) \/ ZeroSuccs(t)
  PROVE  Outcome(t)' = Outcome(t)
<1>1. /\ state' = state /\ age' = age /\ pc[t] \in {"zero_fails", "zero_succs"}
      /\ \/ pc'[t] = "zero_succs"
         \/ pc'[t] = "idle" /\ fails' = 0 /\ succs' = 0
  BY DEF ZeroFails, ZeroSuccs, Goto, TypeOK, Undisturbed
<1>2. PICK e : /\ Current = Brk(state, Saturate(fails, FailureThreshold),
                                Saturate(succs, SuccessThreshold), e)
               /\ Current' = Brk(state, Saturate(fails', FailureThreshold),
                                 Saturate(succs', SuccessThreshold), e)
  BY <1>1, CurrentStep
<1>3. Outcome(t) = Brk(state, 0, 0, e)
  <2>1. Outcome(t) = FailsSuccs(Current, 0, 0)
    BY <1>1 DEF Outcome, Locking, FailsSuccs
  <2> QED
    BY <1>2, <2>1, FailsSuccsOf
<1>4. CASE pc'[t] = "zero_succs"
  <2>1. Outcome(t)' = FailsSuccs(Current', 0, 0)
    BY <1>4 DEF Outcome, Locking, FailsSuccs
  <2> QED
    BY <1>2, <1>3, <2>1, FailsSuccsOf
<1>5. CASE pc'[t] = "idle" /\ fails' = 0 /\ succs' = 0
  <2>1. Outcome(t)' = Current'
    BY <1>5 DEF Outcome, Locking
  <2>2. Saturate(0, SuccessThreshold) = 0 /\ Saturate(0, FailureThreshold) = 0
    BY ThresholdAssumption, SaturateIs
  <2> QED
    BY <1>2, <1>3, <1>5, <2>1, <2>2
<1> QED
  BY <1>1, <1>4, <1>5

\* A step that leaves the thread and the breaker as they are but for the clock.
LEMMA TickElapses ==
  ASSUME NEW t \in Thread, TypeOK, Undisturbed(t), Tick
  PROVE  \/ Outcome(t)' = Outcome(t)
         \/ Outcome(t).state = "Open" /\ Outcome(t)' = TimeOut(Outcome(t))
<1> DEFINE f == Saturate(fails, FailureThreshold)
           u == Saturate(succs, SuccessThreshold)
<1>1. /\ state' = state /\ fails' = fails /\ succs' = succs /\ age' = age + 1
      /\ pc' = pc /\ count' = count /\ target' = target /\ then' = then
      /\ age \in Nat /\ Timeout \in Nat
  BY BreakerAssumption DEF Tick, threadVars, TypeOK
<1>2. CASE Current' = Current
  BY <1>1, <1>2 DEF Outcome, Opens
<1>3. CASE Current' # Current
  <2>1. state = "Open" /\ age < Timeout /\ age' >= Timeout
    <3>1. ~((state = "Open" /\ age >= Timeout) <=> (state = "Open" /\ age' >= Timeout))
      BY <1>1, <1>3 DEF Current
    <3> QED
      BY <1>1, <3>1
  <2> DEFINE z == FALSE
             y == TRUE
  <2>2. Current = Brk("Open", f, u, z)
    <3>0. ~(age >= Timeout)
      BY <1>1, <2>1
    <3>1. Current = Brk(state, f, u, state = "Open" /\ age >= Timeout)
      BY CurrentIs
    <3> HIDE DEF f, u
    <3>2. Current = Brk(state, f, u, FALSE)
      BY <3>0, <3>1
    <3> QED
      BY <2>1, <3>2
  <2>3. Current' = Brk("Open", f, u, y)
    <3>1. Current' = Brk(state', f, u, TRUE)
      BY <2>1, <1>1 DEF Current, Brk
    <3> QED
      BY <1>1, <2>1, <3>1
  <2> HIDE DEF f, u, z
  <2>4. ASSUME NEW a, NEW b, Outcome(t) = Brk("Open", a, b, z), Outcome(t)' = Brk("Open", a, b, y)
        PROVE  Outcome(t).state = "Open" /\ Outcome(t)' = TimeOut(Outcome(t))
    <3>1. Outcome(t).state = "Open"
      BY <2>4, BrkFields
    <3>2. TimeOut(Outcome(t)) = Brk("Open", a, b, TRUE)
      BY <2>4, TimeOutOf
    <3> QED
      BY <2>4, <3>1, <3>2
  <2> HIDE DEF y
  <2>5. CASE pc[t] = "count_success"
    <3>1. Outcome(t) = RecordSuccess(Current) /\ Outcome(t)' = RecordSuccess(Current')
      BY <1>1, <2>5 DEF Outcome, Locking
    <3> DEFINE n == CountUpTo(u, SuccessThreshold)
    <3>2. RecordSuccess(Current) = Brk("Open", 0, n, z) /\ RecordSuccess(Current') = Brk("Open", 0, n, y)
      BY <2>2, <2>3, RecordSuccessOf
    <3> QED
      BY <2>4, <3>1, <3>2
  <2>6. CASE pc[t] = "count_failure"
    <3>1. Outcome(t) = RecordFailure(Current) /\ Outcome(t)' = RecordFailure(Current')
      BY <1>1, <2>6 DEF Outcome, Locking
    <3> DEFINE n == CountUpTo(f, FailureThreshold)
    <3>2. RecordFailure(Current) = Brk("Open", n, 0, z) /\ RecordFailure(Current') = Brk("Open", n, 0, y)
      BY <2>2, <2>3, RecordFailureOf
    <3> QED
      BY <2>4, <3>1, <3>2
  <2>7. CASE pc[t] \in {"zero_fails", "zero_succs"}
    <3>1. Outcome(t) = FailsSuccs(Current, 0, 0) /\ Outcome(t)' = FailsSuccs(Current', 0, 0)
      BY <1>1, <2>7 DEF Outcome, Locking, FailsSuccs
    <3>2. Outcome(t) = Brk("Open", 0, 0, z) /\ Outcome(t)' = Brk("Open", 0, 0, y)
      BY <2>2, <2>3, <3>1, FailsSuccsOf
    <3> QED
      BY <2>4, <3>2
  <2>8. CASE pc[t] \in Locking
    BY <1>1, <2>8, LockedOutcome
  <2>9. CASE pc[t] = "enter" /\ target[t] # "Open"
    <3>1. /\ TransitionTo(Current, target[t]) = Fresh(target[t], 0)
          /\ TransitionTo(Current', target[t]) = Fresh(target[t], 0)
      BY <2>2, <2>3, <2>9, TransitionToOf
    <3>2. CASE then[t] # "zero_fails"
      <4>1. Outcome(t) = TransitionTo(Current, target[t])
        BY <2>9, <3>2 DEF Outcome, Locking
      <4>2. Outcome(t)' = TransitionTo(Current', target[t])
        BY <1>1, <2>9, <3>2 DEF Outcome, Locking
      <4> QED
        BY <3>1, <4>1, <4>2
    <3>3. CASE then[t] = "zero_fails"
      <4>1. target[t] = "Closed"
        BY <2>9, <3>3 DEF Undisturbed
      <4>2. Outcome(t) = FailsSuccs(TransitionTo(Current, "Closed"), 0, 0)
        BY <2>9, <3>3 DEF Outcome, Locking, FailsSuccs
      <4>3. Outcome(t)' = FailsSuccs(TransitionTo(Current', "Closed"), 0, 0)
        BY <1>1, <2>9, <3>3 DEF Outcome, Locking, FailsSuccs
      <4> QED
        BY <3>1, <4>1, <4>2, <4>3
    <3> QED
      BY <3>2, <3>3
  <2>10. CASE pc[t] = "enter" /\ target[t] = "Open"
    <3>1. then[t] # "zero_fails"
      BY <2>10 DEF Undisturbed
    <3>2. Outcome(t) = TransitionTo(Current, "Open") /\ Outcome(t)' = TransitionTo(Current', "Open")
      BY <1>1, <2>10, <3>1 DEF Outcome, Locking
    <3>3. TransitionTo(Current, "Open") = Current /\ TransitionTo(Current', "Open") = Current'
      BY <2>2, <2>3, TransitionToOf
    <3> QED
      BY <2>2, <2>3, <2>4, <3>2, <3>3
  <2>11. CASE pc[t] \in PCs \ ({"count_success", "count_failure", "zero_fails", "zero_succs",
                                "enter"} \cup Locking)
    <3>1. ~Opens(t) /\ ~Opens(t)'
      BY <1>1, <2>1 DEF Opens
    <3>2. Outcome(t) = Current
      BY <2>1, <2>11, <3>1 DEF Outcome, PCs, Busy, Recording, Locking
    <3>3. Outcome(t)' = Current'
      BY <1>1, <2>1, <2>11, <3>1 DEF Outcome, PCs, Busy, Recording, Locking
    <3> QED
      BY <2>2, <2>3, <2>4, <3>2, <3>3
  <2> QED
    BY <2>5, <2>6, <2>7, <2>8, <2>9, <2>10, <2>11 DEF TypeOK
<1> QED
  BY <1>2, <1>3

----------------------------------------------------------------------------
(* The theorem. *)

\* The breaker of a thread that is not in the middle of anything.
LEMMA StartIsNew ==
  ASSUME NEW t
  PROVE  /\ state = "Closed" /\ fails = 0 /\ succs = 0 /\ pc[t] = "idle"
              => Outcome(t) = NewBreaker
         /\ state' = "Closed" /\ fails' = 0 /\ succs' = 0 /\ pc'[t] = "idle"
              => Outcome(t)' = NewBreaker
<1>1. Saturate(0, SuccessThreshold) = 0 /\ Saturate(0, FailureThreshold) = 0
  BY ThresholdAssumption, SaturateIs
<1> QED
  BY <1>1 DEF Outcome, Current, NewBreaker, Locking

\* The atomic breaker goes by the rules of module BreakerRules.
LEMMA SameRules ==
  ASSUME NEW b
  PROVE  /\ Atomic!RecordSuccess(b) = RecordSuccess(b)
         /\ Atomic!RecordFailure(b) = RecordFailure(b)
         /\ Atomic!Refresh(b) = Refresh(b)
         /\ Atomic!TimeOut(b) = TimeOut(b)
         /\ Atomic!NewBreaker = NewBreaker
         /\ \A s : Atomic!TransitionTo(b, s) = TransitionTo(b, s)
<1>1. \A x, s : Atomic!TransitionTo(x, s) = TransitionTo(x, s)
  BY DEF TransitionTo, Atomic!TransitionTo
<1>2. \A n, cap : Atomic!CountUpTo(n, cap) = CountUpTo(n, cap)
  BY DEF CountUpTo, Atomic!CountUpTo
<1>3. Atomic!RecordSuccess(b) = RecordSuccess(b)
  BY <1>1, <1>2 DEF RecordSuccess, Atomic!RecordSuccess
<1>4. Atomic!RecordFailure(b) = RecordFailure(b)
  BY <1>1, <1>2 DEF RecordFailure, Atomic!RecordFailure
<1>5. Atomic!Refresh(b) = Refresh(b)
  BY <1>1 DEF Refresh, Atomic!Refresh
<1>6. Atomic!TimeOut(b) = TimeOut(b) /\ Atomic!NewBreaker = NewBreaker
  BY DEF TimeOut, NewBreaker, Atomic!TimeOut, Atomic!NewBreaker
<1> QED
  BY <1>1, <1>3, <1>4, <1>5, <1>6

\* Every step is a step of the atomic breaker, or none.
LEMMA AtomicStep ==
  ASSUME NEW t, Thread = {t}, TypeOK, Undisturbed(t), [Next]_vars
  PROVE  [Atomic!Next]_(Outcome(CHOOSE x \in Thread : TRUE))
<1> DEFINE b == Outcome(t)
<1>0. (CHOOSE x \in Thread : TRUE) = t /\ t \in Thread
  OBVIOUS
<1>1. \/ b' = b \/ b' = RecordSuccess(b) \/ b' = RecordFailure(b) \/ b' = Refresh(b)
      \/ b.state = "Open" /\ b' = TimeOut(b)
      \/ b' = FailsSuccs(TransitionTo(b, "Closed"), 0, 0)
      \/ b' = TransitionTo(b, "Open") \/ b' = NewBreaker
  <2>1. CASE UNCHANGED vars
    BY <2>1 DEF vars, breakerVars, threadVars, Outcome, Current, Opens
  <2>2. CASE ThreadStep(t)
    <3>1. CASE Overflow(t)
      BY <3>1 DEF Overflow, breakerVars, threadVars, Outcome, Current, Opens
    <3> HIDE DEF b
    <3>2. CASE Continue(t) \/ Call(t)
      BY <1>0, <3>2, CallStutters, CheckAgeRefreshes, SuccessRecords, FailureRecords,
         CountStutters, DecideStutters, EnterStutters, LockedStutters, UnlockElapses,
         ManualCalls, ZeroStutters DEF Continue, Call, b
    <3> QED
      BY <2>2, <3>1, <3>2 DEF ThreadStep
  <2>3. CASE Tick
    BY <1>0, <2>3, TickElapses
  <2>4. CASE BackendChange
    BY <2>4 DEF BackendChange, breakerVars, threadVars, Outcome, Current, Opens
  <2>5. CASE Restart
    <3>1. state' = "Closed" /\ fails' = 0 /\ succs' = 0 /\ pc'[t] = "idle"
      BY <1>0, <2>5 DEF Restart
    <3> QED
      BY <3>1, StartIsNew
  <2> QED
    BY <1>0, <2>1, <2>2, <2>3, <2>4, <2>5 DEF Next
<1>2. /\ Outcome(CHOOSE x \in Thread : TRUE) = b
      /\ Outcome(CHOOSE x \in Thread : TRUE)' = b'
  BY <1>0
<1> HIDE DEF b
<1>3. b' = RecordSuccess(b) => Atomic!Succeed
  BY <1>2, SameRules DEF Atomic!Succeed
<1>4. b' = RecordFailure(b) => Atomic!Fail
  BY <1>2, SameRules DEF Atomic!Fail
<1>5. b' = Refresh(b) => Atomic!Check
  BY <1>2, SameRules DEF Atomic!Check
<1>6. b.state = "Open" /\ b' = TimeOut(b) => Atomic!Elapse
  BY <1>2, SameRules DEF Atomic!Elapse
<1>7. b' = FailsSuccs(TransitionTo(b, "Closed"), 0, 0) => Atomic!Reset
  BY <1>2, SameRules DEF Atomic!Reset, FailsSuccs
<1>8. b' = TransitionTo(b, "Open") => Atomic!ForceOpen
  BY <1>2, SameRules DEF Atomic!ForceOpen
<1>9. b' = NewBreaker => Atomic!Restart
  BY <1>2, SameRules DEF Atomic!Restart
<1> QED
  BY <1>1, <1>2, <1>3, <1>4, <1>5, <1>6, <1>7, <1>8, <1>9 DEF Atomic!Next

\* Used by one thread, the breaker of atomics and locks behaves as the documented
\* one, whose operations take effect at once: record_success, record_failure,
\* can_execute, reset and force_open, for any thresholds and timeout.
THEOREM OneThreadIsAtomic ==
  ASSUME NEW one, Thread = {one}
  PROVE  Spec => ImplementsAtomic
<1>1. Init => Undisturbed(one)
  BY DEF Init, Undisturbed, Locking
<1>2. TypeOK /\ Undisturbed(one) /\ [Next]_vars => Undisturbed(one)'
  BY UndisturbedStep
<1>3. Init => Atomic!Init
  <2> SUFFICES ASSUME Init PROVE Atomic!Init
    OBVIOUS
  <2>1. (CHOOSE t \in Thread : TRUE) = one
    OBVIOUS
  <2>2. Outcome(one) = NewBreaker
    BY StartIsNew DEF Init
  <2> QED
    BY <2>1, <2>2, SameRules DEF Atomic!Init
<1>4. TypeOK /\ Undisturbed(one) /\ [Next]_vars =>
        [Atomic!Next]_(Outcome(CHOOSE t \in Thread : TRUE))
  BY AtomicStep
<1>5. Spec => []Undisturbed(one)
  BY <1>1, <1>2, TypeCorrect, PTL DEF Spec
<1>6. Spec => [][Atomic!Next]_(Outcome(CHOOSE t \in Thread : TRUE))
  BY <1>4, <1>5, TypeCorrect, PTL DEF Spec
<1>7. Spec => Atomic!Init
  BY <1>3 DEF Spec
<1>8. Spec => Atomic!Spec
  BY <1>6, <1>7, PTL DEF Atomic!Spec
<1> QED
  BY <1>8, PTL DEF ImplementsAtomic

=============================================================================
