--------------------------- MODULE MCPriceService ---------------------------
(* Values for TLC. *)
EXTENDS PriceService, TLC

CONSTANTS p1, p2, p3

MCPriority == [p \in Providers |-> CASE p = p1 -> 1 [] p = p2 -> 2 [] p = p3 -> 3]

Good == [value |-> 10, old |-> FALSE]
Zero == [value |-> 0, old |-> FALSE]
Far  == [value |-> 40, old |-> FALSE]

GoodOrZero == {Good, Zero}

\* Two answers far off, one below the other.
ThreeApart == {Good, Far, [value |-> 41, old |-> FALSE]}

RequestSymmetry == Permutations(Requests)
=============================================================================
