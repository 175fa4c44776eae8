--------------------------- MODULE CircuitBreaker ---------------------------
(***************************************************************************)
(* internal/router/circuitbreaker.go.  A breaker is a value; each operator *)
(* is one method, run under cb.mu, and returns the breaker after the call. *)
(*                                                                         *)
(* Time is relative: sinceFail is the number of ticks since lastFailAt,    *)
(* saturating one past the recovery timeout, because the code only asks    *)
(* whether time.Since(lastFailAt) > recoveryTimeout.  failCount saturates  *)
(* at the threshold, because the code only asks whether it has reached it  *)
(* and only ever resets it to 0.  Both saturations are exact.              *)
(***************************************************************************)
EXTENDS Integers

CBState == {"closed", "open", "half_open"}

\* The fields of the struct, for a failure threshold and a recovery timeout.
Breaker(threshold, timeout) ==
    [state : CBState, failCount : 0..threshold, sinceFail : 0..(timeout + 1)]

\* lastFailAt is the zero time: longer ago than any timeout.
NewCircuitBreaker(timeout) ==
    [state |-> "closed", failCount |-> 0, sinceFail |-> timeout + 1]

RecoveryElapsed(cb, timeout) == cb.sinceFail > timeout

\* What AllowRequest returns.  A half-open breaker lets every caller through.
Allows(cb, timeout) ==
    \/ cb.state \in {"closed", "half_open"}
    \/ RecoveryElapsed(cb, timeout)

\* What AllowRequest (and State, which shares the transition) does.
\* (Mutant: the request is allowed, the state is not changed.)
AllowRequest_NoTransition(cb, timeout) == cb

AllowRequest(cb, timeout) ==
    IF cb.state = "open" /\ RecoveryElapsed(cb, timeout)
    THEN [cb EXCEPT !.state = "half_open"]
    ELSE cb

\* Closes the breaker from every state, an open one included.
RecordSuccess(cb) ==
    [state |-> "closed", failCount |-> 0, sinceFail |-> cb.sinceFail]

\* (Mutant: one failure too late.)
Trips_OffByOne(cb, threshold) == cb.state = "half_open" \/ cb.failCount + 1 > threshold

Trips(cb, threshold) == cb.state = "half_open" \/ cb.failCount + 1 >= threshold

RecordFailure(cb, threshold) ==
    [state     |-> IF Trips(cb, threshold) THEN "open" ELSE cb.state,
     failCount |-> IF cb.failCount < threshold THEN cb.failCount + 1 ELSE threshold,
     sinceFail |-> 0]

\* One tick of the clock.  lastFailAt is read in state open only, which is
\* entered only by RecordFailure, so the age of other breakers is irrelevant.
AgeBreaker(cb, timeout) ==
    IF cb.state = "open" /\ cb.sinceFail <= timeout
    THEN [cb EXCEPT !.sinceFail = @ + 1]
    ELSE cb

\* What the methods keep true of a breaker: it is closed exactly when fewer
\* than threshold failures were recorded since the last success, and half-open
\* only when the recovery timeout is over.
BreakerOK(cb, threshold, timeout) ==
    /\ (cb.state = "closed") <=> (cb.failCount < threshold)
    /\ cb.state = "half_open" => RecoveryElapsed(cb, timeout)

=============================================================================
