------------------------------ MODULE MCPrices ------------------------------
(* Sequences of prices for TLC. *)
EXTENDS SavedPrices

\* Values with times of arrival: two at one instant, some out of order.
MCSamples == {[value |-> 0, at |-> 3], [value |-> 1, at |-> 0], [value |-> 7, at |-> 4],
              [value |-> 10, at |-> 2], [value |-> 10, at |-> 7], [value |-> 11, at |-> 4]}
MCWindows == {w \in (0..8) \X (0..8) : w[1] <= w[2]}
MCIntervals == {2, 3}
MCAmounts == {1, 3}
=============================================================================
