--------------------------- MODULE MCAlertService ---------------------------
(* Values for TLC: one alert either way; two updates at the boundary meet both *)
(* alerts, one meets only the first.                                           *)
EXTENDS AlertService

CONSTANTS high, low, u1, u2, u3

MCAlertOf ==
    [a \in Alerts |-> IF a = high THEN [coin |-> "btc", condition |-> "above", threshold |-> 5]
                                  ELSE [coin |-> "btc", condition |-> "below", threshold |-> 5]]
MCPriceOf ==
    [u \in Updates |-> CASE u = u1 -> [coin |-> "btc", value |-> 5]
                         [] u = u2 -> [coin |-> "btc", value |-> 6]
                         [] u = u3 -> [coin |-> "btc", value |-> 5]]
=============================================================================
