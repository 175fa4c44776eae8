---------------------------- MODULE PriceStores ----------------------------
(***************************************************************************)
(* What the three stores answer from the prices saved for one coin and     *)
(* currency: internal/adapter/storage/memory in Go, postgres and           *)
(* clickhouse in SQL.  `saved` is the sequence of prices in the order of   *)
(* the saves, each with its value and ReceivedAt.  Prices received at one  *)
(* instant come out of a sort in any order, so that a candle may open and  *)
(* close with any of them: open and close are sets.                        *)
(***************************************************************************)
EXTENDS Integers, Sequences, FiniteSets

\* Prices received in [from, to).
\* (Mutant: both ends are included.)
Within_Closed(saved, from, to) == {i \in DOMAIN saved : from <= saved[i].at /\ saved[i].at <= to}

Within(saved, from, to) == {i \in DOMAIN saved : from <= saved[i].at /\ saved[i].at < to}

\* GetLatest of the memory store: the scan keeps the first of equal times.
\* (Mutant: the last one saved.)
GetLatest_LastSaved(saved) == saved[Len(saved)]

GetLatest(saved) ==
    saved[CHOOSE i \in DOMAIN saved :
            \A j \in DOMAIN saved : \/ saved[j].at < saved[i].at
                                    \/ saved[j].at = saved[i].at /\ i <= j]

\* ORDER BY received_at DESC LIMIT 1: any of equal times.
SQLLatest(saved) ==
    {saved[i] : i \in {j \in DOMAIN saved : \A k \in DOMAIN saved : saved[k].at <= saved[j].at}}

----------------------------------------------------------------------------
(* Candles *)

Values(saved, S) == {saved[i].value : i \in S}

Earliest(saved, S) == {i \in S : \A j \in S : saved[i].at <= saved[j].at}
Last(saved, S)     == {i \in S : \A j \in S : saved[j].at <= saved[i].at}

Candle(saved, S, time) ==
    [time  |-> time,
     open  |-> Values(saved, Earliest(saved, S)),
     high  |-> CHOOSE v \in Values(saved, S) : \A w \in Values(saved, S) : w <= v,
     low   |-> CHOOSE v \in Values(saved, S) : \A w \in Values(saved, S) : v <= w,
     close |-> Values(saved, Last(saved, S))]

\* time.Truncate and toStartOfInterval.
Truncate(t, interval) == t - (t % interval)

\* GetOHLC of the memory store: the prices of the window, in buckets of truncated
\* time.  The candles are sorted by time, which tells them apart: a set.
MemoryOHLC(saved, from, to, interval) ==
    LET window    == Within(saved, from, to)
        Bucket(t) == {i \in window : Truncate(saved[i].at, interval) = t}
    IN  {Candle(saved, Bucket(t), t) : t \in {Truncate(saved[i].at, interval) : i \in window}}

\* clickhouse: GROUP BY toStartOfInterval, argMin and argMax.
ClickHouseOHLC(saved, from, to, interval) ==
    LET window == Within(saved, from, to)
        starts == {Truncate(saved[i].at, interval) : i \in window}
    IN  {Candle(saved, {i \in window : t <= saved[i].at /\ saved[i].at < t + interval}, t) :
           t \in starts}

\* postgres: generate_series(from, to - interval, interval), and those with prices.
\* (Mutant: the series goes on to the end of the window.)
Series_ToEnd(from, to, interval) == {t \in from..to : (t - from) % interval = 0}

Series(from, to, interval) == {t \in from..(to - interval) : (t - from) % interval = 0}

PostgresOHLC(saved, from, to, interval) ==
    LET Bucket(t) == Within(saved, t, t + interval)
    IN  {Candle(saved, Bucket(t), t) :
           t \in {s \in Series(from, to, interval) : Bucket(s) # {}}}
=============================================================================
