------------------------------ MODULE MCServer ------------------------------
(* Values for TLC. *)
EXTENDS Server

Default ==
    [enabled |-> {}, port |-> 8080, readTimeout |-> 5, writeTimeout |-> 10, cacheTTL |-> 30,
     maxRetries |-> 3, limited |-> FALSE, rps |-> 10, burst |-> 20, cbThreshold |-> 5,
     minInterval |-> 10, refreshInterval |-> 3600]

\* The default with postgres and redis; everything enabled and corrected; the two
\* intervals that may be zero; and one that is refused for each of the checks.
MCConfigs ==
    {[Default EXCEPT !.enabled = {"postgres", "redis"}],
     [Default EXCEPT !.enabled = {"postgres", "clickhouse", "binance"}, !.maxRetries = 0,
                     !.limited = TRUE, !.cbThreshold = -1],
     [Default EXCEPT !.minInterval = 0],
     [Default EXCEPT !.enabled = {"registry"}, !.refreshInterval = 0],
     [Default EXCEPT !.port = 65536], [Default EXCEPT !.port = 0],
     [Default EXCEPT !.readTimeout = 0], [Default EXCEPT !.writeTimeout = 0],
     [Default EXCEPT !.cacheTTL = 0], [Default EXCEPT !.limited = TRUE, !.rps = 0],
     [Default EXCEPT !.limited = TRUE, !.burst = 0]}

MCIntervals == {-1, 0, 60}
=============================================================================
