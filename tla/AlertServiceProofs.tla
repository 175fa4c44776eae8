------------------------- MODULE AlertServiceProofs -------------------------
(***************************************************************************)
(* For any number of alerts and of concurrent price updates: AlertInv is   *)
(* inductive, and so every alert fires at most once.                       *)
(***************************************************************************)
EXTENDS AlertService, TLAPS

\* Nothing exists, nothing fires.
LEMMA AlertInit == Init => AlertInv
  BY AlertConstants
     DEF Init, AlertInv, TypeOK, FiringInv, FiresOnce, TriggeredHasOwner

\* The alert in the hands of trigger, between its unlock and wg.Add.
LEMMA AlertTrigger ==
    ASSUME AlertInv, NEW u \in Updates, NEW a \in Alerts, Trigger(u, a)
    PROVE  AlertInv'
<1> USE DEF Trigger, StillActive, Deactivate
<1>1. TypeOK'
  BY DEF AlertInv, TypeOK
<1>2. CASE a \in active
  <2>1. /\ a \in created /\ started[a] = 0 /\ a # NoAlert
        /\ \A v \in Updates : firing[v] # a
    BY <1>2, AlertConstants DEF AlertInv, TypeOK, FiringInv
  <2>2. FiringInv'
    BY <1>2, <2>1, AlertConstants DEF AlertInv, TypeOK, FiringInv
  <2>3. firing'[u] = a /\ \A v \in Updates : v # u => firing'[v] = firing[v]
    BY <1>2 DEF AlertInv, TypeOK
  <2>4. TriggeredHasOwner'
    BY <1>2, <2>1, <2>3, AlertConstants DEF AlertInv, TypeOK, FiringInv, TriggeredHasOwner
  <2>5. QED BY <1>1, <2>2, <2>4 DEF AlertInv, FiresOnce
<1>3. CASE a \notin active
  BY <1>1, <1>3 DEF AlertInv, TypeOK, FiringInv, FiresOnce, TriggeredHasOwner
<1>4. QED BY <1>2, <1>3

\* wg.Add and the goroutine: the first and only one of this alert.
LEMMA AlertStart ==
    ASSUME AlertInv, NEW u \in Updates, StartWebhook(u)
    PROVE  AlertInv'
<1> USE DEF StartWebhook
<1>1. PICK a \in Alerts : a = firing[u]
  BY DEF AlertInv, TypeOK, FiringInv
<1>2. /\ started[a] = 0 /\ a \in created /\ a \notin active /\ a # NoAlert
      /\ \A v \in Updates : v # u => firing[v] # a
  BY <1>1, AlertConstants DEF AlertInv, TypeOK, FiringInv
<1>3. TypeOK'
  BY <1>1, <1>2 DEF AlertInv, TypeOK
<1>4. /\ hook'[a] = "posting" /\ started'[a] = 1
      /\ \A b \in Alerts : b # a => hook'[b] = hook[b] /\ started'[b] = started[b]
      /\ firing'[u] = NoAlert
      /\ \A v \in Updates : v # u => firing'[v] = firing[v]
  BY <1>1, <1>2 DEF AlertInv, TypeOK
<1>5. FiringInv'
  <2>1. UNCHANGED <<created, active, triggered, posts>> /\ pc'[u] = "triggering"
    BY DEF AlertInv, TypeOK
  <2>2. \A v \in Updates : v # u => pc'[v] = pc[v]
    BY DEF AlertInv, TypeOK
  <2>3. \A v \in Updates : pc'[v] = "starting" <=> firing'[v] # NoAlert
    BY <1>4, <2>1, <2>2 DEF AlertInv, FiringInv
  <2>4. \A v \in Updates : firing'[v] # NoAlert =>
            started'[firing'[v]] = 0 /\ firing'[v] \in created'
    BY <1>2, <1>4, <2>1 DEF AlertInv, TypeOK, FiringInv
  <2>5. \A v, w \in Updates : firing'[v] = firing'[w] /\ firing'[v] # NoAlert => v = w
    BY <1>4 DEF AlertInv, FiringInv
  <2>6. \A v \in Updates : triggered'[v] \subseteq created' /\ firing'[v] \notin active'
    <3>1. NoAlert \notin active
      BY AlertConstants DEF AlertInv, TypeOK
    <3>2. QED BY <1>4, <2>1, <3>1 DEF AlertInv, FiringInv
  <2>7. /\ \A b \in Alerts : b \in active' => started'[b] = 0
        /\ \A b \in Alerts : started'[b] = 0 <=> hook'[b] = "none"
        /\ \A b \in Alerts \ created' : started'[b] = 0
    BY <1>2, <1>4, <2>1 DEF AlertInv, FiringInv
  <2>8. /\ \A b \in Alerts : hook'[b] = "none" => posts'[b] = 0
        /\ \A b \in Alerts : hook'[b] = "posting" => posts'[b] < MaxAttempts
    BY <1>2, <1>4, <2>1, AlertConstants DEF AlertInv, FiringInv
  <2>9. QED BY <2>3, <2>4, <2>5, <2>6, <2>7, <2>8 DEF FiringInv
<1>6. FiresOnce'
  BY <1>4 DEF AlertInv, FiresOnce
<1>7. TriggeredHasOwner'
  <2>1. UNCHANGED <<created, active>>
    OBVIOUS
  <2>2. ASSUME NEW b \in created
        PROVE  b \notin active <=> (hook'[b] # "none" \/ \E v \in Updates : firing'[v] = b)
    <3>1. b \in Alerts /\ b # NoAlert
      BY AlertConstants DEF AlertInv, TypeOK
    <3>2. CASE b = a
      BY <1>2, <1>4, <3>2
    <3>3. CASE b # a
      BY <1>1, <1>4, <3>1, <3>3 DEF AlertInv, TriggeredHasOwner
    <3>4. QED BY <3>2, <3>3
  <2>3. QED BY <2>1, <2>2 DEF TriggeredHasOwner
<1>8. QED BY <1>3, <1>5, <1>6, <1>7 DEF AlertInv

\* Every step of the service keeps the invariant.
LEMMA AlertNext == AlertInv /\ [Next]_vars => AlertInv'
<1> SUFFICES ASSUME AlertInv, [Next]_vars PROVE AlertInv'
  OBVIOUS
<1> USE DEF AlertInv
<1>1. ASSUME NEW a \in Alerts, Create(a) PROVE AlertInv'
  <2>1. TypeOK' /\ FiresOnce'
    BY <1>1 DEF Create, TypeOK, FiresOnce
  <2>2. started[a] = 0 /\ hook[a] = "none" /\ \A u \in Updates : firing[u] # a
    BY <1>1, AlertConstants DEF Create, TypeOK, FiringInv
  <2>3. FiringInv'
    BY <1>1, <2>2, AlertConstants DEF Create, TypeOK, FiringInv
  <2>4. TriggeredHasOwner'
    BY <1>1, <2>2 DEF Create, TypeOK, TriggeredHasOwner
  <2>5. QED BY <2>1, <2>3, <2>4
<1>2. ASSUME NEW a \in Alerts, Delete(a) PROVE AlertInv'
  BY <1>2 DEF Delete, TypeOK, FiringInv, FiresOnce, TriggeredHasOwner
<1>3. ASSUME NEW a \in Alerts, Post(a) PROVE AlertInv'
  <2>1. hook' \in [Alerts -> {"none", "posting", "delivered", "failed"}]
    BY <1>3 DEF Post, TypeOK
  <2>a. /\ posts[a] \in Nat /\ posts[a] < MaxAttempts /\ MaxAttempts \in Nat
        /\ posts'[a] = posts[a] + 1 /\ \A b \in Alerts : b # a => posts'[b] = posts[b]
    BY <1>3, AlertConstants DEF Post, TypeOK, FiringInv
  <2>b. \A b \in Alerts : hook'[b] = "posting" => hook[b] = "posting" /\ posts'[b] < MaxAttempts
    <3>1. hook'[a] = "posting" => posts[a] + 1 # MaxAttempts
      BY <1>3 DEF Post, TypeOK, LastAttempt
    <3>2. \A b \in Alerts : b # a => hook'[b] = hook[b]
      BY <1>3 DEF Post, TypeOK
    <3>3. QED BY <1>3, <2>a, <3>1, <3>2 DEF FiringInv, Post
  <2>2. \A b \in Alerts : hook'[b] = "none" <=> hook[b] = "none"
    BY <1>3 DEF Post, TypeOK
  <2>3. TypeOK'
    BY <1>3, <2>1, <2>a DEF Post, TypeOK
  <2>4. FiringInv'
    <3>1. \A b \in Alerts : hook'[b] = "none" => posts'[b] = 0
      BY <1>3, <2>2, <2>a DEF Post, FiringInv
    <3>2. UNCHANGED <<created, active, pc, triggered, firing, started>>
      BY <1>3 DEF Post
    <3>3. QED BY <2>2, <2>b, <3>1, <3>2 DEF FiringInv
  <2>5. FiresOnce' /\ TriggeredHasOwner'
    BY <1>3, <2>2 DEF Post, TypeOK, FiresOnce, TriggeredHasOwner
  <2>6. QED BY <2>3, <2>4, <2>5
<1>4. ASSUME NEW u \in Updates, Collect(u) PROVE AlertInv'
  <2>1. TypeOK'
    BY <1>4 DEF Collect, TypeOK
  <2>2. FiringInv'
    BY <1>4, AlertConstants DEF Collect, TypeOK, FiringInv
  <2>3. FiresOnce' /\ TriggeredHasOwner'
    BY <1>4 DEF Collect, FiresOnce, TriggeredHasOwner
  <2>4. QED BY <2>1, <2>2, <2>3
<1>5. ASSUME NEW u \in Updates, UpdateDone(u) PROVE AlertInv'
  BY <1>5 DEF UpdateDone, TypeOK, FiringInv, FiresOnce, TriggeredHasOwner
<1>6. CASE Stop
  BY <1>6 DEF Stop, TypeOK, FiringInv, FiresOnce, TriggeredHasOwner
<1>7. CASE UNCHANGED vars
  BY <1>7 DEF vars, TypeOK, FiringInv, FiresOnce, TriggeredHasOwner
<1>8. QED
  BY <1>1, <1>2, <1>3, <1>4, <1>5, <1>6, <1>7, AlertTrigger, AlertStart DEF Next, OnPriceUpdate

\* The invariant of the alert service holds in every reachable state.
THEOREM AlertInvariant == Spec => []AlertInv
  BY AlertInit, AlertNext, PTL DEF Spec

\* However many updates meet its condition at once, an alert fires at most
\* once in its life: trigger's second look at Active makes up for the stale
\* one of OnPriceUpdate.
THEOREM AlertsFireOnce == Spec => []FiresOnce
<1>1. AlertInv => FiresOnce
  BY DEF AlertInv
<1>2. QED BY <1>1, AlertInvariant, PTL

\* An alert that has been deactivated always has a goroutine, or a webhook,
\* that answers for it.
THEOREM TriggeredAlertsOwned == Spec => []TriggeredHasOwner
<1>1. AlertInv => TriggeredHasOwner
  BY DEF AlertInv
<1>2. QED BY <1>1, AlertInvariant, PTL

=============================================================================
