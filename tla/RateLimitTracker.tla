-------------------------- MODULE RateLimitTracker --------------------------
(***************************************************************************)
(* internal/router/ratelimit.go.  A tracker is a value; each operator is   *)
(* one method, run under its own mutex.  windowAge is the number of ticks  *)
(* since the window began (resetAt - window), saturating one past the      *)
(* window: the code only asks whether now is after resetAt.                *)
(***************************************************************************)
EXTENDS Integers

Tracker(limit, window) == [remaining : 0..limit, windowAge : 0..(window + 1)]

NewRateLimitTracker(limit) == [remaining |-> limit, windowAge |-> 0]

WindowOver(rl, window) == rl.windowAge > window

\* Every public method starts with this lazy reset of an expired window.
\* (Mutant: the limit is added to what is left.)
CheckReset_Accumulates(rl, limit, window) ==
    IF WindowOver(rl, window) THEN [remaining |-> rl.remaining + limit, windowAge |-> 0] ELSE rl

CheckReset(rl, limit, window) ==
    IF WindowOver(rl, window) THEN NewRateLimitTracker(limit) ELSE rl

\* Takes one token if there is one, and does nothing otherwise.
Consume(rl, limit, window) ==
    LET fresh == CheckReset(rl, limit, window)
    IN  IF fresh.remaining > 0 THEN [fresh EXCEPT !.remaining = @ - 1] ELSE fresh

Remaining(rl, limit, window) == CheckReset(rl, limit, window).remaining

IsExhausted(rl, limit, window) == Remaining(rl, limit, window) <= 0

AgeTracker(rl, window) ==
    IF WindowOver(rl, window) THEN rl ELSE [rl EXCEPT !.windowAge = @ + 1]

=============================================================================
