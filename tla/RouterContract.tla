--------------------------- MODULE RouterContract ---------------------------
(***************************************************************************)
(* What a user of the router may rely on.  Select gives its caller a       *)
(* provider that it may use and takes one of the calls that the provider   *)
(* has left; it fails only when, since it began, it has found every        *)
(* provider unfit, each at some moment, and never once it has found one    *)
(* fit.  Windows of calls end by themselves, all at once: that the code    *)
(* resets them when it happens to look is not to be seen.                  *)
(***************************************************************************)
EXTENDS Integers

CONSTANTS
    Providers, Callers, NoProvider,
    Limit,      \* provider -> calls per window
    Excluded    \* providers that are never given

VARIABLES
    fit,        \* the providers that are healthy and have a call left
    left,       \* provider -> calls left in its window
    stage,      \* caller -> where it is
    ruledOut,   \* caller -> providers its Select has found unfit
    holds       \* caller -> the provider it was given

vars == <<fit, left, stage, ruledOut, holds>>

Init ==
    /\ fit \subseteq Providers
    /\ left = Limit
    /\ stage = [c \in Callers |-> "out"]
    /\ ruledOut = [c \in Callers |-> {}]
    /\ holds = [c \in Callers |-> NoProvider]

Move(c, from, to) == stage[c] = from /\ stage' = [stage EXCEPT ![c] = to]

Ask(c) ==
    /\ Move(c, "out", "asking")
    /\ UNCHANGED <<left, ruledOut, holds>>

RuleOut(c, p) ==
    /\ stage[c] = "asking" /\ p \notin fit
    /\ ruledOut' = [ruledOut EXCEPT ![c] = @ \cup {p}]
    /\ UNCHANGED <<left, stage, holds>>

\* One is found: from now on the Select cannot fail.
Settle(c) ==
    /\ Move(c, "asking", "settled")
    /\ ruledOut' = [ruledOut EXCEPT ![c] = {}]
    /\ UNCHANGED <<left, holds>>

Grant(c, p) ==
    /\ Move(c, "settled", "holding")
    /\ p \notin Excluded /\ left[p] > 0
    /\ left' = [left EXCEPT ![p] = @ - 1]
    /\ holds' = [holds EXCEPT ![c] = p]
    /\ UNCHANGED ruledOut

Fail(c) ==
    /\ ruledOut[c] = Providers
    /\ Move(c, "asking", "out")
    /\ ruledOut' = [ruledOut EXCEPT ![c] = {}]
    /\ UNCHANGED <<left, holds>>

Release(c) ==
    /\ Move(c, "holding", "out")
    /\ holds' = [holds EXCEPT ![c] = NoProvider]
    /\ UNCHANGED <<left, ruledOut>>

\* Windows end, and providers become fit or unfit.
Elapse ==
    /\ \E over \in SUBSET Providers :
         left' = [p \in Providers |-> IF p \in over THEN Limit[p] ELSE left[p]]
    /\ UNCHANGED <<stage, ruledOut, holds>>

Next ==
    /\ fit' \subseteq Providers
    /\ \/ \E c \in Callers : Ask(c) \/ Settle(c) \/ Fail(c) \/ Release(c)
       \/ \E c \in Callers, p \in Providers : RuleOut(c, p) \/ Grant(c, p)
       \/ Elapse

Spec == Init /\ [][Next]_vars
=============================================================================
