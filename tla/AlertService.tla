---------------------------- MODULE AlertService ----------------------------
(***************************************************************************)
(* internal/app/alert_service.go.  Price updates reach the service in      *)
(* goroutines of their own (price_service.go starts one per price), so     *)
(* several OnPriceUpdate calls run at once, beside Create, Delete and the  *)
(* Stop of the server's shutdown.  Alerts are pointers: a goroutine that   *)
(* has collected an alert keeps it, even if it is deleted from the map.    *)
(***************************************************************************)
EXTENDS Integers, FiniteSets

CONSTANTS
    Alerts,         \* alerts that clients may create (IDs are never reused)
    Updates,        \* price updates, each with its goroutine
    NoAlert,
    AlertOf,        \* alert -> [coin, condition, threshold]
    PriceOf,        \* update -> [coin, value]
    MaxAttempts     \* webhook attempts (3)

ASSUME AlertConstants ==
    /\ NoAlert \notin Alerts
    /\ \A a \in Alerts : AlertOf[a].condition \in {"above", "below"}
                         /\ AlertOf[a].threshold \in Int
    /\ \A u \in Updates : PriceOf[u].value \in Int
    /\ MaxAttempts \in Nat \ {0}

VARIABLES
    alerts,     \* the map: the alerts that are listed
    created,    \* the alerts that exist, deleted ones included
    active,     \* the alerts with Active = TRUE
    pc,         \* update -> where its OnPriceUpdate is
    triggered,  \* update -> local `triggered`: alerts it has still to trigger
    firing,     \* update -> the alert it has deactivated and not yet started
    hook,       \* alert -> its webhook
    posts,      \* alert -> posts made by fireWebhook
    started,    \* history: alert -> webhook goroutines started
    server      \* the shutdown in main.go

vars == <<alerts, created, active, pc, triggered, firing, hook, posts, started, server>>

TypeOK ==
    /\ alerts \subseteq created /\ created \subseteq Alerts /\ active \subseteq created
    /\ pc \in [Updates -> {"spawned", "triggering", "starting", "done"}]
    /\ triggered \in [Updates -> SUBSET Alerts]
    /\ firing \in [Updates -> Alerts \cup {NoAlert}]
    /\ hook \in [Alerts -> {"none", "posting", "delivered", "failed"}]
    /\ posts \in [Alerts -> 0..MaxAttempts]
    /\ started \in [Alerts -> Nat]
    /\ server \in {"up", "stopping", "stopped", "exited"}

----------------------------------------------------------------------------

\* conditionMet, after the tests for coin and currency.
ConditionMet(a, u) ==
    /\ AlertOf[a].coin = PriceOf[u].coin
    /\ \/ AlertOf[a].condition = "above" /\ PriceOf[u].value >= AlertOf[a].threshold
       \/ AlertOf[a].condition = "below" /\ PriceOf[u].value <= AlertOf[a].threshold

\* The HTTP server is shut down before the alert service is.
Create(a) ==
    /\ server = "up"
    /\ a \notin created
    /\ created' = created \cup {a}
    /\ alerts' = alerts \cup {a}
    /\ active' = active \cup {a}
    /\ UNCHANGED <<pc, triggered, firing, hook, posts, started, server>>

Delete(a) ==
    /\ server = "up"
    /\ a \in alerts
    /\ alerts' = alerts \ {a}
    /\ UNCHANGED <<created, active, pc, triggered, firing, hook, posts, started, server>>

\* When main returns the process is gone, with every goroutine in it.
Running == server # "exited"

\* OnPriceUpdate under the read lock.
Collect(u) ==
    /\ Running
    /\ pc[u] = "spawned"
    /\ triggered' = [triggered EXCEPT ![u] = {a \in alerts \cap active : ConditionMet(a, u)}]
    /\ pc' = [pc EXCEPT ![u] = "triggering"]
    /\ UNCHANGED <<alerts, created, active, firing, hook, posts, started, server>>

\* trigger looks at Active again, and clears it.  (Mutants: it does not.)
StillActive_Assumed(a) == TRUE

StillActive(a) == a \in active

Deactivate_Forgotten(a) == UNCHANGED active

Deactivate(a) == active' = active \ {a}

\* trigger under the write lock: deactivate, unless another goroutine has.
Trigger(u, a) ==
    /\ Running
    /\ pc[u] = "triggering"
    /\ a \in triggered[u]
    /\ triggered' = [triggered EXCEPT ![u] = @ \ {a}]
    /\ IF StillActive(a)
       THEN /\ Deactivate(a)
            /\ firing' = [firing EXCEPT ![u] = a]
            /\ pc' = [pc EXCEPT ![u] = "starting"]
       ELSE UNCHANGED <<active, firing, pc>>
    /\ UNCHANGED <<alerts, created, hook, posts, started, server>>

\* trigger after the unlock: wg.Add(1) and the webhook's goroutine.
StartWebhook(u) ==
    /\ Running
    /\ pc[u] = "starting"
    /\ hook' = [hook EXCEPT ![firing[u]] = "posting"]
    /\ started' = [started EXCEPT ![firing[u]] = @ + 1]
    /\ firing' = [firing EXCEPT ![u] = NoAlert]
    /\ pc' = [pc EXCEPT ![u] = "triggering"]
    /\ UNCHANGED <<alerts, created, active, triggered, posts, server>>

\* (Mutant: OnPriceUpdate returns before it has triggered them all.)
UpdateDone_Early(u) ==
    /\ Running
    /\ pc[u] = "triggering"
    /\ pc' = [pc EXCEPT ![u] = "done"]
    /\ UNCHANGED <<alerts, created, active, triggered, firing, hook, posts, started, server>>

UpdateDone(u) ==
    /\ Running
    /\ pc[u] = "triggering"
    /\ triggered[u] = {}
    /\ pc' = [pc EXCEPT ![u] = "done"]
    /\ UNCHANGED <<alerts, created, active, triggered, firing, hook, posts, started, server>>

LastAttempt(a) == posts[a] + 1 = MaxAttempts

\* One attempt of fireWebhook: a status below 500 ends it, anything else is
\* retried until the attempts are used up.  The end is wg.Done.
Post(a) ==
    /\ Running
    /\ hook[a] = "posting"
    /\ posts' = [posts EXCEPT ![a] = @ + 1]
    /\ \/ hook' = [hook EXCEPT ![a] = "delivered"]
       \/ hook' = [hook EXCEPT ![a] = IF LastAttempt(a) THEN "failed" ELSE "posting"]
    /\ UNCHANGED <<alerts, created, active, pc, triggered, firing, started, server>>

\* wg.Wait: goroutines that have not reached wg.Add are not waited for.
Stop ==
    /\ \/ server = "up" /\ server' = "stopping"
       \/ /\ server = "stopping"
          /\ \A a \in Alerts : hook[a] # "posting"
          /\ server' = "stopped"
       \/ server = "stopped" /\ server' = "exited"
    /\ UNCHANGED <<alerts, created, active, pc, triggered, firing, hook, posts, started>>

Init ==
    /\ alerts = {} /\ created = {} /\ active = {}
    /\ pc = [u \in Updates |-> "spawned"]
    /\ triggered = [u \in Updates |-> {}]
    /\ firing = [u \in Updates |-> NoAlert]
    /\ hook = [a \in Alerts |-> "none"]
    /\ posts = [a \in Alerts |-> 0]
    /\ started = [a \in Alerts |-> 0]
    /\ server = "up"

OnPriceUpdate(u) ==
    Collect(u) \/ (\E a \in Alerts : Trigger(u, a)) \/ StartWebhook(u) \/ UpdateDone(u)

Next ==
    \/ \E a \in Alerts : Create(a) \/ Delete(a) \/ Post(a)
    \/ \E u \in Updates : OnPriceUpdate(u)
    \/ Stop

Spec == Init /\ [][Next]_vars

\* Goroutines go on until the process exits; nobody need ever stop the server.
FairSpec ==
    /\ Spec
    /\ \A u \in Updates : WF_vars(OnPriceUpdate(u))
    /\ \A a \in Alerts : WF_vars(Post(a))

----------------------------------------------------------------------------
(* Properties *)

\* However many price updates meet an alert's condition at once, one webhook
\* goroutine is started for it: the check of Active under the read lock is
\* stale when trigger runs, and trigger's own check must make up for it.
FiresOnce == \A a \in Alerts : started[a] <= 1

\* An alert is out of action exactly if somebody is responsible for telling
\* its owner: an update about to start the webhook, or the webhook itself.
TriggeredHasOwner ==
    \A a \in created :
        a \notin active <=> (hook[a] # "none" \/ \E u \in Updates : firing[u] = a)

\* An alert whose condition an update was seen to meet is settled: its webhook
\* is delivered or has used up its attempts, unless the process ends before.
MetAlertSettles ==
    \A u \in Updates, a \in Alerts :
        a \in triggered[u] ~> (hook[a] \in {"delivered", "failed"} \/ server = "exited")

\* The inductive invariant behind FiresOnce: an update that has deactivated an
\* alert is the only one to fire it, the webhook has not been started, and one
\* that is still posting has attempts left.
FiringInv ==
    /\ \A u \in Updates : pc[u] = "starting" <=> firing[u] # NoAlert
    /\ \A u \in Updates : firing[u] # NoAlert => started[firing[u]] = 0
    /\ \A u, v \in Updates : firing[u] = firing[v] /\ firing[u] # NoAlert => u = v
    /\ \A u \in Updates : triggered[u] \subseteq created /\ firing[u] \notin active
    /\ \A u \in Updates : firing[u] # NoAlert => firing[u] \in created
    /\ \A a \in Alerts : a \in active => started[a] = 0
    /\ \A a \in Alerts : started[a] = 0 <=> hook[a] = "none"
    /\ \A a \in Alerts \ created : started[a] = 0
    /\ \A a \in Alerts : hook[a] = "none" => posts[a] = 0
    /\ \A a \in Alerts : hook[a] = "posting" => posts[a] < MaxAttempts

AlertInv == TypeOK /\ FiringInv /\ FiresOnce /\ TriggeredHasOwner
=============================================================================
