--------------------------- MODULE MCMultiRouter ---------------------------
(* Values for TLC: two or three providers with deliberately different settings. *)
EXTENDS MultiRouter, TLC

CONSTANTS p1, p2, p3

MCRegistered2 == <<p1, p2>>
MCRegistered3 == <<p1, p2, p3>>

\* p1 is the tight one: a single token per window, trips at the second failure.
MCThreshold == [p \in Providers |-> IF p = p1 THEN 2 ELSE 1]
MCLimit     == [p \in Providers |-> IF p = p1 THEN 1 ELSE 2]
MCPriority  == [p \in Providers |-> IF p = p3 THEN 2 ELSE 1]
MCCost      == [p \in Providers |-> IF p = p2 THEN 1 ELSE 0]
MCWeights   == [rate |-> 2, latency |-> 1, cost |-> 1]

\* Round robin: no latencies to tell apart, one token, one failure trips.
MCOne  == [p \in Providers |-> 1]
MCZero == [p \in Providers |-> 0]

\* Callers are interchangeable: nothing compares or orders them.
CallerSymmetry == Permutations(Callers)
=============================================================================
