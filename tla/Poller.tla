------------------------------- MODULE Poller -------------------------------
(***************************************************************************)
(* internal/scheduler/poller.go: the registry of subscriptions and the     *)
(* goroutine that each Subscribe starts.  Cancelling is asynchronous: the  *)
(* goroutine learns of it in its select, where a tick may be waiting too,  *)
(* and a fetch that is under way goes on until it returns.                 *)
(***************************************************************************)
EXTENDS Integers, FiniteSets

CONSTANTS
    Keys,       \* "coin:currency"
    Pollers,    \* bound: the goroutines that Subscribe calls may start
    NoPoller

ASSUME PollerConstants == NoPoller \notin Pollers

VARIABLES
    subs,       \* key -> the goroutine of the active subscription
    polls,      \* goroutine -> its key, once started
    pc,         \* goroutine -> where poll is
    cancelled,  \* goroutines whose context is cancelled
    tick        \* goroutines with a tick waiting in ticker.C

vars == <<subs, polls, pc, cancelled, tick>>

TypeOK ==
    /\ subs \in [Keys -> Pollers \cup {NoPoller}]
    /\ polls \in [Pollers -> Keys \cup {NoPoller}]
    /\ pc \in [Pollers -> {"unborn", "first", "select", "fetch", "exited"}]
    /\ cancelled \subseteq Pollers
    /\ tick \subseteq Pollers

----------------------------------------------------------------------------

\* cancel() of the subscriptions of some keys.  (Mutant: not called.)
CancelAll_Missing(ks) == UNCHANGED cancelled

CancelAll(ks) == cancelled' = cancelled \cup ({subs[k] : k \in ks} \ {NoPoller})

\* Subscribe replaces a subscription of the same key: cancel, register, start.
Subscribe(k, g) ==
    /\ pc[g] = "unborn"
    /\ CancelAll({k})
    /\ subs' = [subs EXCEPT ![k] = g]
    /\ polls' = [polls EXCEPT ![g] = k]
    /\ pc' = [pc EXCEPT ![g] = "first"]
    /\ UNCHANGED tick

Unsubscribe(k) ==
    /\ subs[k] # NoPoller
    /\ CancelAll({k})
    /\ subs' = [subs EXCEPT ![k] = NoPoller]
    /\ UNCHANGED <<polls, pc, tick>>

\* Stop leaves the poller usable: a Subscribe after it starts a goroutine.
Stop ==
    /\ CancelAll(Keys)
    /\ subs' = [k \in Keys |-> NoPoller]
    /\ UNCHANGED <<polls, pc, tick>>

\* poll: the first fetch, without a look at the context.
FirstFetch(g) ==
    /\ pc[g] = "first"
    /\ pc' = [pc EXCEPT ![g] = "fetch"]
    /\ UNCHANGED <<subs, polls, cancelled, tick>>

\* time.Ticker, from NewTicker to ticker.Stop; the channel holds one tick.
TickerFires(g) ==
    /\ pc[g] \in {"first", "select", "fetch"}
    /\ tick' = tick \cup {g}
    /\ UNCHANGED <<subs, polls, pc, cancelled>>

\* fetchOnce returns; an error is logged.
FetchReturns(g) ==
    /\ pc[g] = "fetch"
    /\ pc' = [pc EXCEPT ![g] = "select"]
    /\ UNCHANGED <<subs, polls, cancelled, tick>>

\* The two cases of the select; with both ready either may be taken.
TakeTick(g) ==
    /\ pc[g] = "select" /\ g \in tick
    /\ tick' = tick \ {g}
    /\ pc' = [pc EXCEPT ![g] = "fetch"]
    /\ UNCHANGED <<subs, polls, cancelled>>

\* (Mutant: the select has no case for the context.)
TakeDone_Missing(g) == FALSE

TakeDone(g) ==
    /\ pc[g] = "select" /\ g \in cancelled
    /\ tick' = tick \ {g}
    /\ pc' = [pc EXCEPT ![g] = "exited"]
    /\ UNCHANGED <<subs, polls, cancelled>>

Init ==
    /\ subs = [k \in Keys |-> NoPoller]
    /\ polls = [g \in Pollers |-> NoPoller]
    /\ pc = [g \in Pollers |-> "unborn"]
    /\ cancelled = {} /\ tick = {}

Next ==
    \/ \E k \in Keys, g \in Pollers : Subscribe(k, g)
    \/ \E k \in Keys : Unsubscribe(k)
    \/ Stop
    \/ \E g \in Pollers : FirstFetch(g) \/ TickerFires(g) \/ FetchReturns(g)
                          \/ TakeTick(g) \/ TakeDone(g)

Spec == Init /\ [][Next]_vars

----------------------------------------------------------------------------
(* Properties *)

\* The goroutines that poll and have not been told to stop.
Live == {g \in Pollers : pc[g] \notin {"unborn", "exited"} /\ g \notin cancelled}

\* However Subscribe, Unsubscribe and Stop are mixed, no goroutine leaks: one
\* that has not been cancelled is the one registered for its key, so that a
\* key is never polled by two and can always be unsubscribed.
LiveIsRegistered ==
    /\ \A g \in Live : polls[g] \in Keys /\ subs[polls[g]] = g
    /\ \A k \in Keys : subs[k] # NoPoller => subs[k] \in Live /\ polls[subs[k]] = k

\* The inductive invariant behind LiveIsRegistered.
PollerInv ==
    /\ TypeOK
    /\ LiveIsRegistered
    /\ \A g \in Pollers : pc[g] = "unborn" => polls[g] = NoPoller /\ g \notin cancelled
=============================================================================
