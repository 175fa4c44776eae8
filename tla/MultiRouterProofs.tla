------------------------- MODULE MultiRouterProofs -------------------------
(***************************************************************************)
(* For every set of providers and callers, every strategy and every        *)
(* setting: the router's state stays well typed, breakers are sound, and   *)
(* grants stay within the rate limit.  RouterInv is inductive; each action *)
(* has a lemma.  On top of it RotationInv is: round robin starves nobody.  *)
(* And the router implements RouterContract, whichever strategy it has.    *)
(***************************************************************************)
EXTENDS MultiRouter, TLAPS

----------------------------------------------------------------------------
(* The operators on breakers and trackers *)

\* AllowRequest keeps a breaker well formed and sound.
LEMMA AllowRequestOK ==
    ASSUME NEW t \in Nat \ {0}, NEW to \in Nat, NEW b \in Breaker(t, to), BreakerOK(b, t, to)
    PROVE  AllowRequest(b, to) \in Breaker(t, to) /\ BreakerOK(AllowRequest(b, to), t, to)
  BY DEF Breaker, BreakerOK, AllowRequest, RecoveryElapsed, CBState

\* RecordSuccess, at any time, keeps a breaker well formed and sound.
LEMMA RecordSuccessOK ==
    ASSUME NEW t \in Nat \ {0}, NEW to \in Nat, NEW b \in Breaker(t, to)
    PROVE  RecordSuccess(b) \in Breaker(t, to) /\ BreakerOK(RecordSuccess(b), t, to)
  BY DEF Breaker, BreakerOK, RecordSuccess, RecoveryElapsed, CBState

\* RecordFailure keeps a breaker well formed and sound.
LEMMA RecordFailureOK ==
    ASSUME NEW t \in Nat \ {0}, NEW to \in Nat, NEW b \in Breaker(t, to), BreakerOK(b, t, to)
    PROVE  RecordFailure(b, t) \in Breaker(t, to) /\ BreakerOK(RecordFailure(b, t), t, to)
  BY DEF Breaker, BreakerOK, RecordFailure, Trips, RecoveryElapsed, CBState

\* So does the clock.
LEMMA AgeBreakerOK ==
    ASSUME NEW t \in Nat \ {0}, NEW to \in Nat, NEW b \in Breaker(t, to), BreakerOK(b, t, to)
    PROVE  AgeBreaker(b, to) \in Breaker(t, to) /\ BreakerOK(AgeBreaker(b, to), t, to)
  BY DEF Breaker, BreakerOK, AgeBreaker, RecoveryElapsed, CBState

\* The lazy reset yields a well formed tracker, full if the window was over.
LEMMA CheckResetOK ==
    ASSUME NEW l \in Nat, NEW w \in Nat, NEW r \in Tracker(l, w)
    PROVE  /\ CheckReset(r, l, w) \in Tracker(l, w)
           /\ WindowOver(r, w) => CheckReset(r, l, w).remaining = l
           /\ ~WindowOver(r, w) => CheckReset(r, l, w) = r
  BY DEF Tracker, CheckReset, NewRateLimitTracker, WindowOver

\* Consume takes exactly one token off the tracker after the lazy reset.
LEMMA ConsumeOK ==
    ASSUME NEW l \in Nat, NEW w \in Nat, NEW r \in Tracker(l, w)
    PROVE  /\ Consume(r, l, w) \in Tracker(l, w)
           /\ CheckReset(r, l, w).remaining > 0 =>
                Consume(r, l, w).remaining = CheckReset(r, l, w).remaining - 1
  BY DEF Tracker, Consume, CheckReset, NewRateLimitTracker, WindowOver

\* The clock leaves the tokens alone.
LEMMA AgeTrackerOK ==
    ASSUME NEW l \in Nat, NEW w \in Nat, NEW r \in Tracker(l, w)
    PROVE  /\ AgeTracker(r, w) \in Tracker(l, w)
           /\ AgeTracker(r, w).remaining = r.remaining
  BY DEF Tracker, AgeTracker, WindowOver

----------------------------------------------------------------------------
(* The strategies *)

\* Whatever the strategy, a Select looks at a sequence of providers.
LEMMA ScanOrdersOK ==
    ASSUME rrIndex \in 0..Len(Registered)
    PROVE  ScanOrders \subseteq Seq(Providers)
<1>1. Registered \in Seq(Providers)
  BY RouterConstants
<1>2. PriorityOrders \subseteq Seq(Providers)
  <2>1. SUFFICES ASSUME NEW s \in [1..Len(Registered) -> Providers] PROVE s \in Seq(Providers)
    BY DEF PriorityOrders
  <2>2. QED BY <1>1
<1>3. RoundRobinOrder \in Seq(Providers)
  <2> DEFINE n == Len(Registered)
             at(i) == ((rrIndex + i - 1) % n) + 1
  <2>1. n \in Nat /\ rrIndex \in Nat
    BY <1>1
  <2>2. ASSUME NEW i \in 1..n
        PROVE  at(i) \in 1..n
    <3> HIDE DEF n
    <3> QED BY <2>1, <2>2, SMT
  <2>3. ASSUME NEW k \in 1..n
        PROVE  Registered[k] \in Providers
    BY <1>1
  <2>4. RoundRobinOrder = [i \in 1..n |-> Registered[at(i)]]
    BY DEF RoundRobinOrder
  <2>5. RoundRobinOrder \in [1..n -> Providers]
    <3> HIDE DEF n, at
    <3> QED BY <2>2, <2>3, <2>4, Zenon
  <2>6. QED BY <1>1, <2>5
<1>4. QED BY <1>1, <1>2, <1>3, RouterConstants DEF ScanOrders

\* Round robin's next index is an index.
LEMMA IndexAfterOK ==
    ASSUME NEW p \in Providers
    PROVE  IndexAfter(p) \in 0..Len(Registered)
<1> DEFINE k == CHOOSE i \in 1..Len(Registered) : Registered[i] = p
<1>1. k \in 1..Len(Registered)
  BY RouterConstants
<1>2. Len(Registered) \in Nat
  BY RouterConstants
<1>3. k % Len(Registered) \in 0..Len(Registered)
  <2> HIDE DEF k
  <2> QED BY <1>1, <1>2, SMT
<1>4. QED BY <1>3 DEF IndexAfter

----------------------------------------------------------------------------
(* What an action does to one breaker, and to one tracker *)

\* The breakers' part of the invariant survives a method call on one of them.
LEMMA OneBreaker ==
    ASSUME RouterInv, NEW p \in Providers,
           NEW b \in Breaker(CBThreshold[p], CBTimeout[p]),
           BreakerOK(b, CBThreshold[p], CBTimeout[p]),
           cb' = [cb EXCEPT ![p] = b]
    PROVE  BreakerType' /\ BreakerSound'
<1>1. b \in [state : CBState, failCount : Nat, sinceFail : Nat]
  BY RouterConstants DEF Breaker
<1>2. \A q \in Providers : cb'[q] = IF q = p THEN b ELSE cb[q]
  BY DEF RouterInv, TypeOK, BreakerType
<1>3. BreakerType'
  BY <1>1, <1>2 DEF RouterInv, TypeOK, BreakerType
<1>4. BreakerSound'
  BY <1>2 DEF RouterInv, BreakerSound
<1>5. QED BY <1>3, <1>4

\* The trackers' part survives the lazy reset of one window, and no tracker
\* has fewer tokens after it: what was reserved is still there.
LEMMA OneReset ==
    ASSUME RouterInv, NEW p \in Providers, ResetWindow(p)
    PROVE  /\ TrackerType' /\ TokensConserved'
           /\ \A q \in Providers : rl'[q].remaining >= rl[q].remaining
           /\ rl'[p].remaining = Remaining(rl[p], RateLimit[p], RateWindow[p])
<1> DEFINE r == CheckReset(rl[p], RateLimit[p], RateWindow[p])
<1>1. /\ r \in Tracker(RateLimit[p], RateWindow[p])
      /\ Resets(p) => r.remaining = RateLimit[p]
      /\ ~Resets(p) => r = rl[p]
  BY CheckResetOK, RouterConstants DEF RouterInv, TypeOK, TrackerType, Resets
<1>2. /\ RateLimit[p] \in Nat /\ r \in [remaining : Nat, windowAge : Nat]
      /\ r.remaining \in 0..RateLimit[p]
      /\ rl[p].remaining \in 0..RateLimit[p]
  BY <1>1, RouterConstants DEF Tracker, RouterInv, TypeOK, TrackerType
<1>3. /\ \A q \in Providers : rl'[q] = IF q = p THEN r ELSE rl[q]
      /\ \A q \in Providers : granted'[q] = IF q = p /\ Resets(p) THEN 0 ELSE granted[q]
      /\ rl' = [rl EXCEPT ![p] = r]
      /\ granted' = [granted EXCEPT ![p] = IF Resets(p) THEN 0 ELSE @]
  BY DEF ResetWindow, RouterInv, TypeOK, TrackerType
<1> HIDE DEF r
<1>4. TrackerType'
  BY <1>1, <1>2, <1>3 DEF RouterInv, TypeOK, TrackerType
<1>5. TokensConserved'
  BY <1>1, <1>2, <1>3 DEF RouterInv, TypeOK, TrackerType, TokensConserved
<1>6. \A q \in Providers : rl'[q].remaining >= rl[q].remaining
  BY <1>1, <1>2, <1>3 DEF RouterInv, TypeOK, TrackerType
<1>7. rl'[p].remaining = Remaining(rl[p], RateLimit[p], RateWindow[p])
  BY <1>3 DEF Remaining, r
<1>8. QED BY <1>4, <1>5, <1>6, <1>7

----------------------------------------------------------------------------
(* The steps of Select *)

USE DEF PC, Selecting

\* The provider a Select looks at is a provider, and one is left to look at.
LEMMA HeadOK ==
    ASSUME RouterInv, NEW c \in Callers, todo[c] # <<>>
    PROVE  /\ Head(todo[c]) \in Providers
           /\ Tail(todo[c]) \in Seq(Providers)
  BY DEF RouterInv, TypeOK, CallerType

\* Taking the router lock.
LEMMA SelectBeginInv ==
    ASSUME RouterInv, NEW c \in Callers, SelectBegin(c)
    PROVE  RouterInv'
<1> USE DEF SelectBegin, Lock, routerVars
<1>1. TypeOK'
  <2>1. todo' \in [Callers -> Seq(Providers)]
    BY ScanOrdersOK DEF RouterInv, TypeOK, CallerType
  <2>2. QED BY <2>1 DEF RouterInv, TypeOK, BreakerType, TrackerType, ScoreType, CallerType
<1>2. LockHeld'
  BY RouterConstants DEF RouterInv, TypeOK, CallerType, LockHeld
<1>3. TokensConserved'
  BY DEF RouterInv, TokensConserved
<1>4. TokenReserved'
  BY DEF RouterInv, TypeOK, CallerType, TokenReserved
<1>5. HeldOK'
  BY DEF RouterInv, TypeOK, CallerType, HeldOK
<1>6. BreakerSound'
  BY DEF RouterInv, BreakerSound
<1>7. QED BY <1>1, <1>2, <1>3, <1>4, <1>5, <1>6 DEF RouterInv

\* AllowRequest on the provider at the head of the scan.
LEMMA CheckBreakerInv ==
    ASSUME RouterInv, NEW c \in Callers, CheckBreaker(c)
    PROVE  RouterInv'
<1> DEFINE p == Head(todo[c])
<1>1. /\ p \in Providers /\ Tail(todo[c]) \in Seq(Providers)
      /\ todo[c] \in Seq(Providers) /\ todo[c] # <<>>
  BY HeadOK DEF RouterInv, TypeOK, CallerType, CheckBreaker
<1>2. UNCHANGED cb \/ cb' = [cb EXCEPT ![p] = AllowRequest(cb[p], CBTimeout[p])]
  BY DEF CheckBreaker
<1>3. \/ /\ pc' = [pc EXCEPT ![c] = "scan"]
         /\ todo' = [todo EXCEPT ![c] = Tail(@)]
         /\ owed' = [q \in Providers |-> owed[q] \ {p}]
      \/ /\ pc' = [pc EXCEPT ![c] = "exhausted"]
         /\ UNCHANGED <<todo, owed>>
  BY DEF CheckBreaker, Skip
<1>4. pc[c] = "scan" /\ UNCHANGED <<rl, latency, accuracy, rrIndex, mu, best, held, granted>>
  BY DEF CheckBreaker
<1> HIDE DEF p
<1>5. BreakerType' /\ BreakerSound'
  <2>1. CASE UNCHANGED cb
    BY <2>1 DEF RouterInv, TypeOK, BreakerType, BreakerSound
  <2>2. CASE cb' = [cb EXCEPT ![p] = AllowRequest(cb[p], CBTimeout[p])]
    <3>1. /\ AllowRequest(cb[p], CBTimeout[p]) \in Breaker(CBThreshold[p], CBTimeout[p])
          /\ BreakerOK(AllowRequest(cb[p], CBTimeout[p]), CBThreshold[p], CBTimeout[p])
      BY <1>1, AllowRequestOK, RouterConstants DEF RouterInv, TypeOK, BreakerType, BreakerSound
    <3>2. QED BY <1>1, <2>2, <3>1, OneBreaker
  <2>3. QED BY <1>2, <2>1, <2>2
<1>6. TrackerType' /\ ScoreType' /\ TokensConserved'
  BY <1>4 DEF RouterInv, TypeOK, TrackerType, ScoreType, TokensConserved
<1>7. CallerType'
  <2>1. pc' \in [Callers -> PC]
    BY <1>3 DEF RouterInv, TypeOK, CallerType
  <2>2. todo' \in [Callers -> Seq(Providers)]
    BY <1>1, <1>3 DEF RouterInv, TypeOK, CallerType
  <2>3. owed' \in [Providers -> SUBSET Providers]
    BY <1>3 DEF RouterInv, TypeOK, CallerType
  <2>4. QED BY <1>4, <2>1, <2>2, <2>3 DEF RouterInv, TypeOK, CallerType
<1>8. LockHeld'
  BY <1>3, <1>4 DEF RouterInv, TypeOK, CallerType, LockHeld
<1>9. TokenReserved'
  BY <1>1, <1>3, <1>4 DEF RouterInv, TypeOK, CallerType, TokenReserved
<1>10. HeldOK'
  BY <1>3, <1>4 DEF RouterInv, TypeOK, CallerType, HeldOK
<1>11. QED BY <1>5, <1>6, <1>7, <1>8, <1>9, <1>10 DEF RouterInv, TypeOK

\* IsExhausted on it: from here on the scan relies on the token it saw.
LEMMA CheckExhaustedInv ==
    ASSUME RouterInv, NEW c \in Callers, CheckExhausted(c)
    PROVE  RouterInv'
<1> DEFINE p == Head(todo[c])
<1>1. todo[c] # <<>> /\ todo[c] \in Seq(Providers)
  BY DEF RouterInv, TokenReserved, TypeOK, CallerType, CheckExhausted
<1>2. p \in Providers /\ Tail(todo[c]) \in Seq(Providers)
  BY <1>1, HeadOK
<1>3. /\ pc[c] = "exhausted"
      /\ ResetWindow(p)
      /\ UNCHANGED <<cb, latency, accuracy, rrIndex, mu, best, held>>
  BY DEF CheckExhausted
<1>4. \/ /\ pc' = [pc EXCEPT ![c] = "scan"]
         /\ todo' = [todo EXCEPT ![c] = Tail(@)]
         /\ owed' = [q \in Providers |-> owed[q] \ {p}]
      \/ /\ pc' = [pc EXCEPT ![c] = "outliers"]
         /\ ~IsExhausted(rl[p], RateLimit[p], RateWindow[p])
         /\ UNCHANGED <<todo, owed>>
  BY DEF CheckExhausted, Skip
<1> HIDE DEF p
<1>5. /\ TrackerType' /\ TokensConserved'
      /\ \A q \in Providers : rl'[q].remaining >= rl[q].remaining
      /\ rl'[p].remaining = Remaining(rl[p], RateLimit[p], RateWindow[p])
  BY <1>2, <1>3, OneReset
<1>6. /\ \A q \in Providers : rl[q].remaining \in Nat /\ rl'[q].remaining \in Nat
      /\ \A q \in Providers : rl[q].remaining > 0 => rl'[q].remaining > 0
  BY <1>5 DEF RouterInv, TypeOK, TrackerType
<1>7. ~IsExhausted(rl[p], RateLimit[p], RateWindow[p]) => rl'[p].remaining > 0
  BY <1>2, <1>5, <1>6 DEF IsExhausted
<1>8. BreakerType' /\ ScoreType' /\ BreakerSound'
  BY <1>3 DEF RouterInv, TypeOK, BreakerType, ScoreType, BreakerSound
<1>9. CallerType'
  <2>1. pc' \in [Callers -> PC]
    BY <1>4 DEF RouterInv, TypeOK, CallerType
  <2>2. todo' \in [Callers -> Seq(Providers)]
    BY <1>2, <1>4 DEF RouterInv, TypeOK, CallerType
  <2>3. owed' \in [Providers -> SUBSET Providers]
    BY <1>4 DEF RouterInv, TypeOK, CallerType
  <2>4. QED BY <1>3, <2>1, <2>2, <2>3 DEF RouterInv, TypeOK, CallerType
<1>10. LockHeld'
  BY <1>3, <1>4 DEF RouterInv, TypeOK, CallerType, LockHeld
<1>11. TokenReserved'
  <2> SUFFICES ASSUME NEW d \in Callers
               PROVE  /\ pc'[d] \in Selecting \ {"scan"} => todo'[d] # <<>>
                      /\ pc'[d] \in {"outliers", "snapshot"} => rl'[Head(todo'[d])].remaining > 0
                      /\ best'[d].provider # NoProvider =>
                            pc'[d] \in Selecting /\ rl'[best'[d].provider].remaining > 0
    BY DEF TokenReserved
  <2>1. best[d].provider \in Providers \cup {NoProvider}
    BY DEF RouterInv, TypeOK, CallerType, Best
  <2>2. best'[d].provider # NoProvider =>
           pc'[d] \in Selecting /\ rl'[best'[d].provider].remaining > 0
    BY <1>3, <1>4, <1>6, <2>1 DEF RouterInv, TypeOK, CallerType, TokenReserved
  <2>3. CASE d = c
    BY <1>1, <1>4, <1>7, <2>2, <2>3 DEF RouterInv, TypeOK, CallerType, p
  <2>4. CASE d # c
    <3>1. pc'[d] = pc[d] /\ todo'[d] = todo[d]
      BY <1>4, <2>4 DEF RouterInv, TypeOK, CallerType
    <3>2. todo[d] # <<>> => Head(todo[d]) \in Providers
      BY HeadOK
    <3>3. QED BY <1>6, <2>2, <3>1, <3>2 DEF RouterInv, TokenReserved
  <2>5. QED BY <2>3, <2>4
<1>12. HeldOK'
  BY <1>3, <1>4 DEF RouterInv, TypeOK, CallerType, HeldOK
<1>13. QED BY <1>5, <1>8, <1>9, <1>10, <1>11, <1>12 DEF RouterInv, TypeOK

\* OutlierCount: the scan goes on, scores the provider, or chooses it.
LEMMA CheckOutliersInv ==
    ASSUME RouterInv, NEW c \in Callers, CheckOutliers(c)
    PROVE  RouterInv'
<1> DEFINE p == Head(todo[c])
<1>1. todo[c] # <<>> /\ todo[c] \in Seq(Providers) /\ rl[p].remaining > 0
  BY DEF RouterInv, TokenReserved, TypeOK, CallerType, CheckOutliers
<1>2. p \in Providers /\ Tail(todo[c]) \in Seq(Providers)
  BY <1>1, HeadOK
<1>3. pc[c] = "outliers" /\ UNCHANGED <<cb, rl, latency, accuracy, mu, held, granted>>
  BY DEF CheckOutliers, routerVars
<1>4. \/ /\ pc' = [pc EXCEPT ![c] = "scan"]
         /\ todo' = [todo EXCEPT ![c] = Tail(@)]
         /\ owed' = [q \in Providers |-> owed[q] \ {p}]
         /\ UNCHANGED <<best, rrIndex>>
      \/ /\ pc' = [pc EXCEPT ![c] = "snapshot"]
         /\ UNCHANGED <<todo, best, rrIndex, owed>>
      \/ /\ pc' = [pc EXCEPT ![c] = "scan"]
         /\ todo' = [todo EXCEPT ![c] = <<>>]
         /\ best' = [best EXCEPT ![c] = [provider |-> p, score |-> <<0, 1>>]]
         /\ rrIndex' = IF Strategy = "round_robin" THEN IndexAfter(p) ELSE rrIndex
         /\ UNCHANGED owed
  BY DEF CheckOutliers, Skip
<1> HIDE DEF p
<1>5. /\ BreakerType' /\ TrackerType' /\ ScoreType'
      /\ TokensConserved' /\ BreakerSound'
  BY <1>3 DEF RouterInv, TypeOK, BreakerType, TrackerType, ScoreType, TokensConserved, BreakerSound
<1>6. CallerType'
  <2>1. pc' \in [Callers -> PC]
    BY <1>4 DEF RouterInv, TypeOK, CallerType
  <2>2. todo' \in [Callers -> Seq(Providers)]
    <3>1. \E t \in Seq(Providers) : todo' = [todo EXCEPT ![c] = t]
      <4>1. <<>> \in Seq(Providers)
        OBVIOUS
      <4>2. todo = [todo EXCEPT ![c] = todo[c]]
        BY DEF RouterInv, TypeOK, CallerType
      <4>3. QED BY <1>1, <1>2, <1>4, <4>1, <4>2
    <3>2. QED BY <3>1 DEF RouterInv, TypeOK, CallerType
  <2>3. owed' \in [Providers -> SUBSET Providers]
    BY <1>4 DEF RouterInv, TypeOK, CallerType
  <2>4. rrIndex' \in 0..Len(Registered)
    BY <1>2, <1>4, IndexAfterOK DEF RouterInv, TypeOK, CallerType
  <2>5. best' \in [Callers -> Best]
    <3>1. [provider |-> p, score |-> <<0, 1>>] \in Best
      BY <1>2 DEF Best
    <3>2. QED BY <1>4, <3>1 DEF RouterInv, TypeOK, CallerType
  <2>6. QED BY <1>3, <2>1, <2>2, <2>3, <2>4, <2>5 DEF RouterInv, TypeOK, CallerType
<1>7. LockHeld'
  BY <1>3, <1>4 DEF RouterInv, TypeOK, CallerType, LockHeld
<1>8. TokenReserved'
  BY <1>1, <1>3, <1>4 DEF RouterInv, TypeOK, CallerType, Best, TokenReserved, p
<1>9. HeldOK'
  BY <1>3, <1>4 DEF RouterInv, TypeOK, CallerType, HeldOK
<1>10. QED BY <1>5, <1>6, <1>7, <1>8, <1>9 DEF RouterInv, TypeOK

\* A score is a pair of integers.
LEMMA ScoreOK ==
    ASSUME RouterInv, NEW p \in Providers
    PROVE  Score(p) \in Int \X Int
<1>1. /\ latency[p].avg \in Int
      /\ accuracy[p].total \in Int /\ accuracy[p].accurate \in Int
  <2>1. latency[p] \in Latency /\ accuracy[p] \in Accuracy
    BY DEF RouterInv, TypeOK, ScoreType
  <2>2. latency[p].avg \in Latencies \cup {0}
    BY <2>1 DEF Latency
  <2>3. /\ accuracy[p].total \in 0..MaxResponses
        /\ accuracy[p].accurate \in 0..MaxResponses
    BY <2>1 DEF Accuracy
  <2>4. Latencies \subseteq Nat
    BY RouterConstants
  <2>5. latency[p].avg \in Int
    <3>1. \A x \in Latencies \cup {0} : x \in Int
      BY <2>4
    <3>2. QED BY <2>2, <3>1, Zenon
  <2>6. accuracy[p].total \in Int /\ accuracy[p].accurate \in Int
    BY <2>3
  <2>7. QED BY <2>5, <2>6
<1>2. Remaining(rl[p], RateLimit[p], RateWindow[p]) \in Int
  <2>1. rl[p] \in Tracker(RateLimit[p], RateWindow[p])
    BY DEF RouterInv, TypeOK, TrackerType
  <2>2. CheckReset(rl[p], RateLimit[p], RateWindow[p]) \in Tracker(RateLimit[p], RateWindow[p])
    BY <2>1, CheckResetOK, RouterConstants
  <2>3. QED BY <2>2 DEF Tracker, Remaining
<1>3. /\ RateLimit[p] \in Int /\ CostPerCall[p] \in Int
      /\ Weights.rate \in Int /\ Weights.latency \in Int /\ Weights.cost \in Int
  BY RouterConstants
<1> DEFINE ms    == IF latency[p].avg > 0 THEN latency[p].avg ELSE 1
           limit == IF RateLimit[p] = 0 THEN 1 ELSE RateLimit[p]
           left  == Remaining(rl[p], RateLimit[p], RateWindow[p])
           acc   == IF accuracy[p].total = 0 THEN 1 ELSE accuracy[p].accurate
           tot   == IF accuracy[p].total = 0 THEN 1 ELSE accuracy[p].total
<1>4. ms \in Int /\ limit \in Int /\ left \in Int /\ acc \in Int /\ tot \in Int
  BY <1>1, <1>2, <1>3
<1>5. Score(p) = << (Weights.rate * left * ms + Weights.latency * limit
                       - Weights.cost * CostPerCall[p] * limit * ms) * acc,
                    limit * ms * tot >>
  BY DEF Score
<1> HIDE DEF ms, limit, left, acc, tot
<1>6. QED BY <1>3, <1>4, <1>5

\* The smart strategy scores the provider; its token stays reserved.
LEMMA TakeSnapshotInv ==
    ASSUME RouterInv, NEW c \in Callers, TakeSnapshot(c)
    PROVE  RouterInv'
<1> DEFINE p == Head(todo[c])
<1>1. todo[c] # <<>> /\ todo[c] \in Seq(Providers) /\ rl[p].remaining > 0
  BY DEF RouterInv, TokenReserved, TypeOK, CallerType, TakeSnapshot
<1>2. p \in Providers /\ Tail(todo[c]) \in Seq(Providers)
  BY <1>1, HeadOK
<1>3. /\ pc[c] = "snapshot"
      /\ ResetWindow(p)
      /\ pc' = [pc EXCEPT ![c] = "scan"]
      /\ todo' = [todo EXCEPT ![c] = Tail(@)]
      /\ UNCHANGED <<cb, latency, accuracy, rrIndex, mu, held, owed>>
  BY DEF TakeSnapshot
<1>4. \/ best' = [best EXCEPT ![c] = [provider |-> p, score |-> Score(p)]]
      \/ best' = [best EXCEPT ![c] = best[c]]
  BY DEF TakeSnapshot
<1> HIDE DEF p
<1>5. /\ TrackerType' /\ TokensConserved'
      /\ \A q \in Providers : rl'[q].remaining >= rl[q].remaining
  BY <1>2, <1>3, OneReset
<1>6. \A q \in Providers : rl[q].remaining > 0 => rl'[q].remaining > 0
  BY <1>5 DEF RouterInv, TypeOK, TrackerType
<1>7. BreakerType' /\ ScoreType' /\ BreakerSound'
  BY <1>3 DEF RouterInv, TypeOK, BreakerType, ScoreType, BreakerSound
<1>8. best' \in [Callers -> Best]
  <2>1. [provider |-> p, score |-> Score(p)] \in Best
    BY <1>2, ScoreOK DEF Best
  <2>2. QED BY <1>4, <2>1 DEF RouterInv, TypeOK, CallerType
<1>9. CallerType'
  BY <1>2, <1>3, <1>8 DEF RouterInv, TypeOK, CallerType
<1>10. LockHeld'
  BY <1>3 DEF RouterInv, TypeOK, CallerType, LockHeld
<1>11. TokenReserved'
  <2> SUFFICES ASSUME NEW d \in Callers
               PROVE  /\ pc'[d] \in Selecting \ {"scan"} => todo'[d] # <<>>
                      /\ pc'[d] \in {"outliers", "snapshot"} => rl'[Head(todo'[d])].remaining > 0
                      /\ best'[d].provider # NoProvider =>
                            pc'[d] \in Selecting /\ rl'[best'[d].provider].remaining > 0
    BY DEF TokenReserved
  <2>1. best[d].provider \in Providers \cup {NoProvider}
    BY DEF RouterInv, TypeOK, CallerType, Best
  <2>2. CASE d = c
    <3>1. pc'[d] = "scan"
      BY <1>3, <2>2 DEF RouterInv, TypeOK, CallerType
    <3>2. best'[d].provider \in {p, best[d].provider}
      BY <1>4, <2>2 DEF RouterInv, TypeOK, CallerType
    <3>3. QED BY <1>1, <1>2, <1>6, <2>1, <3>1, <3>2 DEF RouterInv, TokenReserved
  <2>3. CASE d # c
    <3>1. pc'[d] = pc[d] /\ todo'[d] = todo[d] /\ best'[d] = best[d]
      BY <1>3, <1>4, <2>3 DEF RouterInv, TypeOK, CallerType
    <3>2. todo[d] # <<>> => Head(todo[d]) \in Providers
      BY HeadOK
    <3>3. QED BY <1>6, <2>1, <3>1, <3>2 DEF RouterInv, TokenReserved
  <2>4. QED BY <2>2, <2>3
<1>12. HeldOK'
  BY <1>3 DEF RouterInv, TypeOK, CallerType, HeldOK
<1>13. QED BY <1>5, <1>7, <1>9, <1>10, <1>11, <1>12 DEF RouterInv, TypeOK

\* Select returns: the token it reserved is consumed, and counted.
LEMMA SelectReturnInv ==
    ASSUME RouterInv, NEW c \in Callers, SelectReturn(c)
    PROVE  RouterInv'
<1> DEFINE p == best[c].provider
           r == Consume(rl[p], RateLimit[p], RateWindow[p])
<1>1. /\ p \in Providers /\ rl[p].remaining > 0
      /\ pc[c] = "scan" /\ mu = c
  BY DEF SelectReturn, Unlock, RouterInv, TypeOK, CallerType, Best, LockHeld, TokenReserved
<1>2. /\ pc' = [pc EXCEPT ![c] = "holding"]
      /\ best' = [best EXCEPT ![c] = NoBest]
      /\ held' = [held EXCEPT ![c] = p]
      /\ mu' = NoCaller
      /\ rl' = [rl EXCEPT ![p] = r]
      /\ granted' = [granted EXCEPT ![p] = IF Resets(p) THEN 1 ELSE @ + 1]
      /\ \/ owed' = [q \in Providers |-> IF q = p THEN Providers \ {p} ELSE owed[q] \ {p}]
         \/ UNCHANGED owed
      /\ UNCHANGED <<cb, latency, accuracy, rrIndex, todo>>
  BY DEF SelectReturn, Unlock
<1>3. /\ r \in Tracker(RateLimit[p], RateWindow[p])
      /\ r.remaining = (IF Resets(p) THEN RateLimit[p] ELSE rl[p].remaining) - 1
      /\ RateLimit[p] \in Nat
  <2>1. rl[p] \in Tracker(RateLimit[p], RateWindow[p])
        /\ RateLimit[p] \in Nat /\ RateWindow[p] \in Nat
    BY <1>1, RouterConstants DEF RouterInv, TypeOK, TrackerType
  <2>2. rl[p].remaining \in 0..RateLimit[p]
    BY <2>1 DEF Tracker
  <2>3. CheckReset(rl[p], RateLimit[p], RateWindow[p]).remaining
          = IF Resets(p) THEN RateLimit[p] ELSE rl[p].remaining
    BY <2>1, CheckResetOK DEF Resets
  <2>4. CheckReset(rl[p], RateLimit[p], RateWindow[p]).remaining > 0
    BY <1>1, <2>1, <2>2, <2>3
  <2>5. QED BY <2>1, <2>3, <2>4, ConsumeOK
<1>4. \A d \in Callers : d # c => pc[d] \notin Selecting /\ best[d].provider = NoProvider
  BY <1>1 DEF RouterInv, LockHeld, TokenReserved
<1> HIDE DEF p, r
<1>5. TrackerType' /\ TokensConserved'
  <2>1. r \in [remaining : Nat, windowAge : Nat]
    BY <1>1, <1>3, RouterConstants DEF Tracker
  <2>2. /\ \A q \in Providers : rl'[q] = IF q = p THEN r ELSE rl[q]
        /\ \A q \in Providers :
              granted'[q] = IF q = p THEN (IF Resets(p) THEN 1 ELSE granted[q] + 1) ELSE granted[q]
    BY <1>1, <1>2 DEF RouterInv, TypeOK, TrackerType
  <2>3. TrackerType'
    BY <1>1, <1>2, <1>3, <2>1, <2>2 DEF RouterInv, TypeOK, TrackerType
  <2>4. TokensConserved'
    BY <1>1, <1>3, <2>1, <2>2 DEF RouterInv, TypeOK, TrackerType, TokensConserved
  <2>5. QED BY <2>3, <2>4
<1>6. BreakerType' /\ ScoreType' /\ BreakerSound'
  BY <1>2 DEF RouterInv, TypeOK, BreakerType, ScoreType, BreakerSound
<1>7. CallerType'
  <2>1. pc' \in [Callers -> PC] /\ held' \in [Callers -> Providers \cup {NoProvider}]
    BY <1>1, <1>2 DEF RouterInv, TypeOK, CallerType
  <2>2. best' \in [Callers -> Best]
    <3>1. NoBest \in Best
      BY DEF NoBest, Best
    <3>2. QED BY <1>2, <3>1 DEF RouterInv, TypeOK, CallerType
  <2>3. owed' \in [Providers -> SUBSET Providers]
    BY <1>2 DEF RouterInv, TypeOK, CallerType
  <2>4. QED BY <1>2, <2>1, <2>2, <2>3 DEF RouterInv, TypeOK, CallerType
<1>8. LockHeld'
  BY <1>2, <1>4, RouterConstants DEF RouterInv, TypeOK, CallerType, LockHeld
<1>9. TokenReserved'
  BY <1>2, <1>4 DEF RouterInv, TypeOK, CallerType, TokenReserved, NoBest
<1>10. HeldOK'
  BY <1>1, <1>2, RouterConstants DEF RouterInv, TypeOK, CallerType, HeldOK
<1>11. QED BY <1>5, <1>6, <1>7, <1>8, <1>9, <1>10 DEF RouterInv, TypeOK

\* ErrNoHealthyProvider.
LEMMA SelectErrorInv ==
    ASSUME RouterInv, NEW c \in Callers, SelectError(c)
    PROVE  RouterInv'
<1> USE DEF SelectError, Unlock, routerVars
<1>1. TypeOK'
  BY DEF RouterInv, TypeOK, BreakerType, TrackerType, ScoreType, CallerType
<1>2. LockHeld'
  BY RouterConstants DEF RouterInv, TypeOK, CallerType, LockHeld
<1>3. TokensConserved' /\ BreakerSound'
  BY DEF RouterInv, TokensConserved, BreakerSound
<1>4. TokenReserved'
  BY DEF RouterInv, TypeOK, CallerType, TokenReserved
<1>5. HeldOK'
  BY DEF RouterInv, TypeOK, CallerType, HeldOK
<1>6. QED BY <1>1, <1>2, <1>3, <1>4, <1>5 DEF RouterInv

----------------------------------------------------------------------------
(* Reports, statuses, the clock *)

\* Steps of a caller outside Select: they move it between phases in which it
\* neither holds the lock nor reserves a token.
LEMMA OutsideSelect ==
    ASSUME RouterInv, NEW c \in Callers, NEW next \in PC \ Selecting,
           pc[c] \in PC \ Selecting,
           pc' = [pc EXCEPT ![c] = next],
           \/ UNCHANGED held /\ held[c] # NoProvider
           \/ held' = [held EXCEPT ![c] = NoProvider] /\ next = "idle",
           UNCHANGED <<rl, rrIndex, mu, todo, best, granted, owed>>
    PROVE  TrackerType' /\ CallerType' /\ LockHeld' /\ TokensConserved' /\ TokenReserved' /\ HeldOK'
<1>1. TrackerType' /\ TokensConserved'
  BY DEF RouterInv, TypeOK, TrackerType, TokensConserved
<1>2. CallerType'
  BY DEF RouterInv, TypeOK, CallerType
<1>3. LockHeld'
  BY DEF RouterInv, TypeOK, CallerType, LockHeld
<1>4. TokenReserved'
  BY DEF RouterInv, TypeOK, CallerType, TokenReserved
<1>5. HeldOK'
  BY DEF RouterInv, TypeOK, CallerType, HeldOK
<1>6. QED BY <1>1, <1>2, <1>3, <1>4, <1>5

\* ReportSuccess closes the breaker of the provider the caller holds.
LEMMA ReportSuccessInv ==
    ASSUME RouterInv, NEW c \in Callers, ReportSuccess(c)
    PROVE  RouterInv'
<1> DEFINE p == held[c]
<1>1. p \in Providers /\ p # NoProvider
  BY DEF ReportSuccess, RouterInv, TypeOK, CallerType, HeldOK
<1>2. /\ pc[c] = "holding" /\ pc' = [pc EXCEPT ![c] = "latency"]
      /\ cb' = [cb EXCEPT ![p] = RecordSuccess(cb[p])]
      /\ UNCHANGED <<rl, latency, accuracy, rrIndex, mu, todo, best, held, granted, owed>>
  BY DEF ReportSuccess
<1>3. BreakerType' /\ BreakerSound'
  <2>1. /\ RecordSuccess(cb[p]) \in Breaker(CBThreshold[p], CBTimeout[p])
        /\ BreakerOK(RecordSuccess(cb[p]), CBThreshold[p], CBTimeout[p])
    BY <1>1, RecordSuccessOK, RouterConstants DEF RouterInv, TypeOK, BreakerType
  <2>2. QED BY <1>1, <1>2, <2>1, OneBreaker
<1>4. ScoreType'
  BY <1>2 DEF RouterInv, TypeOK, ScoreType
<1>5. QED BY <1>1, <1>2, <1>3, <1>4, OutsideSelect DEF RouterInv, TypeOK

\* LatencyTracker.Record.
LEMMA RecordLatencyInv ==
    ASSUME RouterInv, NEW c \in Callers, RecordLatency(c)
    PROVE  RouterInv'
<1>1. held[c] \in Providers /\ held[c] # NoProvider
  BY DEF RecordLatency, RouterInv, TypeOK, CallerType, HeldOK
<1>2. /\ pc[c] = "latency" /\ pc' = [pc EXCEPT ![c] = "validating"]
      /\ UNCHANGED <<cb, rl, accuracy, rrIndex, mu, todo, best, held, granted, owed>>
  BY DEF RecordLatency
<1>3. ScoreType'
  <2>1. PICK avg \in Latencies :
          latency' = [latency EXCEPT ![held[c]] = [avg |-> avg, sampled |-> TRUE]]
    BY DEF RecordLatency
  <2>2. [avg |-> avg, sampled |-> TRUE] \in Latency
    BY DEF Latency
  <2>3. QED BY <1>2, <2>1, <2>2 DEF RouterInv, TypeOK, ScoreType
<1>4. BreakerType' /\ BreakerSound'
  BY <1>2 DEF RouterInv, TypeOK, BreakerType, BreakerSound
<1>5. QED BY <1>1, <1>2, <1>3, <1>4, OutsideSelect DEF RouterInv, TypeOK

\* ReportFailure counts against the provider the caller held.
LEMMA ReportFailureInv ==
    ASSUME RouterInv, NEW c \in Callers, ReportFailure(c)
    PROVE  RouterInv'
<1> DEFINE p == held[c]
<1>1. p \in Providers
  BY DEF ReportFailure, RouterInv, TypeOK, CallerType, HeldOK
<1>2. /\ pc[c] \in {"holding", "validating"} /\ pc' = [pc EXCEPT ![c] = "idle"]
      /\ held' = [held EXCEPT ![c] = NoProvider]
      /\ cb' = [cb EXCEPT ![p] = RecordFailure(cb[p], CBThreshold[p])]
      /\ UNCHANGED <<rl, latency, accuracy, rrIndex, mu, todo, best, granted, owed>>
  BY DEF ReportFailure, Release
<1>3. BreakerType' /\ BreakerSound'
  <2>1. /\ RecordFailure(cb[p], CBThreshold[p]) \in Breaker(CBThreshold[p], CBTimeout[p])
        /\ BreakerOK(RecordFailure(cb[p], CBThreshold[p]), CBThreshold[p], CBTimeout[p])
    BY <1>1, RecordFailureOK, RouterConstants DEF RouterInv, TypeOK, BreakerType, BreakerSound
  <2>2. QED BY <1>1, <1>2, <2>1, OneBreaker
<1>4. ScoreType'
  BY <1>2 DEF RouterInv, TypeOK, ScoreType
<1>5. QED BY <1>2, <1>3, <1>4, OutsideSelect DEF RouterInv, TypeOK

\* The caller is done with the provider.
LEMMA ReturnInv ==
    ASSUME RouterInv, NEW c \in Callers, Return(c)
    PROVE  RouterInv'
<1>1. /\ pc[c] \in {"holding", "validating"} /\ pc' = [pc EXCEPT ![c] = "idle"]
      /\ held' = [held EXCEPT ![c] = NoProvider]
      /\ UNCHANGED <<cb, rl, latency, accuracy, rrIndex, mu, todo, best, granted, owed>>
  BY DEF Return, Release, routerVars
<1>2. BreakerType' /\ BreakerSound' /\ ScoreType'
  BY <1>1 DEF RouterInv, TypeOK, BreakerType, BreakerSound, ScoreType
<1>3. QED BY <1>1, <1>2, OutsideSelect DEF RouterInv, TypeOK

\* Steps that leave the callers and the trackers alone.
LEMMA CallersAlone ==
    ASSUME RouterInv, UNCHANGED <<rrIndex, mu, callerVars, owed, rl, granted>>
    PROVE  TrackerType' /\ CallerType' /\ LockHeld' /\ TokensConserved' /\ TokenReserved' /\ HeldOK'
<1> USE DEF callerVars
<1>1. TrackerType' /\ CallerType'
  BY DEF RouterInv, TypeOK, TrackerType, CallerType
<1>2. LockHeld' /\ TokensConserved' /\ TokenReserved' /\ HeldOK'
  BY DEF RouterInv, LockHeld, TokensConserved, TokenReserved, HeldOK
<1>3. QED BY <1>1, <1>2

\* Accuracy reports.
LEMMA ReportAccuracyInv ==
    ASSUME RouterInv, NEW p \in Providers, ReportAccurate(p) \/ ReportOutlier(p)
    PROVE  RouterInv'
<1>1. UNCHANGED <<cb, rl, latency, rrIndex, mu, callerVars, granted, owed>>
  BY DEF ReportAccurate, ReportOutlier
<1>2. ScoreType'
  <2>1. /\ accuracy[p].total \in 0..MaxResponses /\ accuracy[p].accurate \in 0..MaxResponses
        /\ accuracy[p].outliers \in 0..OutlierLimit
        /\ accuracy \in [Providers -> Accuracy] /\ accuracy[p].total < MaxResponses
    BY DEF RouterInv, TypeOK, ScoreType, Accuracy, ReportAccurate, ReportOutlier
  <2>2. accuracy[p].accurate <= accuracy[p].total
    BY DEF RouterInv, TypeOK, ScoreType, Accuracy
  <2>3. PICK a \in Accuracy : accuracy' = [accuracy EXCEPT ![p] = a]
    <3> DEFINE o == accuracy[p].outliers
               hit  == [outliers |-> 0, total |-> accuracy[p].total + 1,
                        accurate |-> accuracy[p].accurate + 1]
               miss == [outliers |-> IF o < OutlierLimit THEN o + 1 ELSE o,
                        total |-> accuracy[p].total + 1, accurate |-> accuracy[p].accurate]
    <3>0. OutlierLimit \in Nat \ {0} /\ MaxResponses \in Nat
      BY RouterConstants
    <3>1. hit \in Accuracy /\ miss \in Accuracy
      <4>1. ASSUME NEW o1 \in 0..OutlierLimit, NEW t1 \in 0..MaxResponses, NEW a1 \in 0..MaxResponses,
                   a1 <= t1
            PROVE  [outliers |-> o1, total |-> t1, accurate |-> a1] \in Accuracy
        BY <4>1 DEF Accuracy
      <4>2. /\ 0 \in 0..OutlierLimit
            /\ (IF o < OutlierLimit THEN o + 1 ELSE o) \in 0..OutlierLimit
        BY <2>1, <3>0
      <4>3. /\ accuracy[p].total + 1 \in 0..MaxResponses
            /\ accuracy[p].accurate + 1 \in 0..MaxResponses
            /\ accuracy[p].accurate + 1 <= accuracy[p].total + 1
            /\ accuracy[p].accurate <= accuracy[p].total + 1
        BY <2>1, <2>2, <3>0
      <4>4. hit \in Accuracy
        BY <4>1, <4>2, <4>3
      <4>5. miss \in Accuracy
        BY <2>1, <4>1, <4>2, <4>3
      <4>6. QED BY <4>4, <4>5
    <3>2. accuracy' = [accuracy EXCEPT ![p] = hit] \/ accuracy' = [accuracy EXCEPT ![p] = miss]
      BY DEF ReportAccurate, ReportOutlier
    <3> HIDE DEF hit, miss
    <3>3. QED BY <3>1, <3>2
  <2>4. QED BY <1>1, <2>1, <2>3 DEF RouterInv, TypeOK, ScoreType
<1>3. BreakerType' /\ BreakerSound'
  BY <1>1 DEF RouterInv, TypeOK, BreakerType, BreakerSound
<1>4. QED BY <1>1, <1>2, <1>3, CallersAlone DEF RouterInv, TypeOK

\* ProviderStatuses resets a window while somebody may be selecting.
LEMMA ReadStatusInv ==
    ASSUME RouterInv, NEW p \in Providers, ReadStatus(p)
    PROVE  RouterInv'
<1>1. /\ ResetWindow(p)
      /\ UNCHANGED <<cb, latency, accuracy, rrIndex, mu, pc, todo, best, held, owed>>
  BY DEF ReadStatus, callerVars
<1>2. /\ TrackerType' /\ TokensConserved'
      /\ \A q \in Providers : rl'[q].remaining >= rl[q].remaining
  BY <1>1, OneReset
<1>3. \A q \in Providers : rl[q].remaining > 0 => rl'[q].remaining > 0
  BY <1>2 DEF RouterInv, TypeOK, TrackerType
<1>4. BreakerType' /\ ScoreType' /\ BreakerSound' /\ CallerType'
  BY <1>1 DEF RouterInv, TypeOK, BreakerType, ScoreType, BreakerSound, CallerType
<1>5. LockHeld' /\ HeldOK'
  BY <1>1 DEF RouterInv, LockHeld, HeldOK
<1>6. TokenReserved'
  BY <1>1, <1>3, HeadOK DEF RouterInv, TypeOK, CallerType, Best, TokenReserved
<1>7. QED BY <1>2, <1>4, <1>5, <1>6 DEF RouterInv, TypeOK

\* The clock.
LEMMA TickInv ==
    ASSUME RouterInv, Tick
    PROVE  RouterInv'
<1>1. /\ cb' = [p \in Providers |-> AgeBreaker(cb[p], CBTimeout[p])]
      /\ rl' = [p \in Providers |-> AgeTracker(rl[p], RateWindow[p])]
      /\ UNCHANGED <<latency, accuracy, rrIndex, mu, pc, todo, best, held, granted, owed>>
  BY DEF Tick, callerVars
<1>2. \A p \in Providers : /\ AgeBreaker(cb[p], CBTimeout[p]) \in Breaker(CBThreshold[p], CBTimeout[p])
                            /\ BreakerOK(AgeBreaker(cb[p], CBTimeout[p]), CBThreshold[p], CBTimeout[p])
  <2> TAKE p \in Providers
  <2>1. /\ CBThreshold[p] \in Nat \ {0} /\ CBTimeout[p] \in Nat
        /\ cb[p] \in Breaker(CBThreshold[p], CBTimeout[p])
        /\ BreakerOK(cb[p], CBThreshold[p], CBTimeout[p])
    BY RouterConstants DEF RouterInv, TypeOK, BreakerType, BreakerSound
  <2>2. QED BY <2>1, AgeBreakerOK
<1>3. \A p \in Providers : /\ AgeTracker(rl[p], RateWindow[p]) \in Tracker(RateLimit[p], RateWindow[p])
                            /\ AgeTracker(rl[p], RateWindow[p]).remaining = rl[p].remaining
  <2> TAKE p \in Providers
  <2>1. /\ RateLimit[p] \in Nat /\ RateWindow[p] \in Nat
        /\ rl[p] \in Tracker(RateLimit[p], RateWindow[p])
    BY RouterConstants DEF RouterInv, TypeOK, TrackerType
  <2>2. QED BY <2>1, AgeTrackerOK
<1>4. BreakerType' /\ BreakerSound'
  <2>1. \A p \in Providers : AgeBreaker(cb[p], CBTimeout[p])
                                 \in [state : CBState, failCount : Nat, sinceFail : Nat]
    BY <1>2, RouterConstants DEF Breaker
  <2>2. QED BY <1>1, <1>2, <2>1 DEF BreakerType, BreakerSound
<1>5. TrackerType' /\ TokensConserved'
  <2>1. \A p \in Providers : AgeTracker(rl[p], RateWindow[p]) \in [remaining : Nat, windowAge : Nat]
    BY <1>3, RouterConstants DEF Tracker
  <2>2. QED BY <1>1, <1>3, <2>1 DEF RouterInv, TypeOK, TrackerType, TokensConserved
<1>6. ScoreType' /\ CallerType' /\ LockHeld' /\ HeldOK'
  BY <1>1 DEF RouterInv, TypeOK, ScoreType, CallerType, LockHeld, HeldOK
<1>7. TokenReserved'
  <2>1. \A p \in Providers : rl'[p].remaining = rl[p].remaining
    BY <1>1, <1>3
  <2>2. QED BY <1>1, <2>1, HeadOK DEF RouterInv, TypeOK, CallerType, Best, TokenReserved
<1>8. QED BY <1>4, <1>5, <1>6, <1>7 DEF RouterInv, TypeOK

----------------------------------------------------------------------------
(* The theorems *)

\* The state NewMultiRouter builds.
LEMMA InitInv == Init => RouterInv
<1> SUFFICES ASSUME Init PROVE RouterInv
  OBVIOUS
<1> USE DEF Init
<1>1. BreakerType /\ BreakerSound
  <2>1. ASSUME NEW p \in Providers
        PROVE  /\ cb[p] \in Breaker(CBThreshold[p], CBTimeout[p])
               /\ cb[p] \in [state : CBState, failCount : Nat, sinceFail : Nat]
               /\ BreakerOK(cb[p], CBThreshold[p], CBTimeout[p])
    <3>1. CBThreshold[p] \in Nat \ {0} /\ CBTimeout[p] \in Nat
      BY RouterConstants
    <3>2. cb[p] = [state |-> "closed", failCount |-> 0, sinceFail |-> CBTimeout[p] + 1]
      BY DEF NewCircuitBreaker
    <3>3. QED BY <3>1, <3>2 DEF BreakerOK, Breaker, CBState
  <2>2. cb = [p \in Providers |-> cb[p]]
    BY DEF NewCircuitBreaker
  <2>3. QED BY <2>1, <2>2 DEF BreakerType, BreakerSound
<1>2. TrackerType /\ TokensConserved
  <2>1. ASSUME NEW p \in Providers
        PROVE  /\ rl[p] \in Tracker(RateLimit[p], RateWindow[p])
               /\ rl[p] \in [remaining : Nat, windowAge : Nat]
               /\ granted[p] = 0 /\ granted[p] + rl[p].remaining = RateLimit[p]
    <3>1. RateLimit[p] \in Nat /\ RateWindow[p] \in Nat
      BY RouterConstants
    <3>2. rl[p] = [remaining |-> RateLimit[p], windowAge |-> 0] /\ granted[p] = 0
      BY DEF NewRateLimitTracker
    <3>3. QED BY <3>1, <3>2 DEF Tracker
  <2>2. rl = [p \in Providers |-> rl[p]] /\ granted = [p \in Providers |-> 0]
    BY DEF NewRateLimitTracker
  <2>3. QED BY <2>1, <2>2 DEF TrackerType, TokensConserved
<1>3. ScoreType
  BY RouterConstants DEF ScoreType, Latency, Accuracy
<1>4. CallerType
  BY RouterConstants DEF CallerType, Best, NoBest
<1>5. LockHeld /\ TokenReserved /\ HeldOK
  BY RouterConstants DEF LockHeld, TokenReserved, HeldOK, NoBest
<1>6. QED BY <1>1, <1>2, <1>3, <1>4, <1>5 DEF RouterInv, TypeOK

\* Every step keeps the invariant.
LEMMA NextInv == RouterInv /\ [Next]_vars => RouterInv'
<1> SUFFICES ASSUME RouterInv, [Next]_vars PROVE RouterInv'
  OBVIOUS
<1>1. ASSUME NEW c \in Callers, SelectStep(c) PROVE RouterInv'
  BY <1>1, CheckBreakerInv, CheckExhaustedInv, CheckOutliersInv, TakeSnapshotInv,
     SelectReturnInv, SelectErrorInv DEF SelectStep
<1>2. ASSUME NEW c \in Callers, ReportStep(c) PROVE RouterInv'
  BY <1>2, ReportSuccessInv, RecordLatencyInv, ReportFailureInv, ReturnInv DEF ReportStep
<1>3. CASE UNCHANGED vars
  BY <1>3 DEF vars, RouterInv, TypeOK, BreakerType, TrackerType, ScoreType, CallerType,
              LockHeld, TokensConserved, TokenReserved, HeldOK, BreakerSound
<1>4. QED
  BY <1>1, <1>2, <1>3, SelectBeginInv, ReportAccuracyInv, ReadStatusInv, TickInv DEF Next

\* The router's inductive invariant holds in every reachable state.
THEOREM RouterInvariant == Spec => []RouterInv
  BY InitInv, NextInv, PTL DEF Spec

\* The state is always well typed.
THEOREM RouterTypeOK == Spec => []TypeOK
<1>1. RouterInv => TypeOK
  BY DEF RouterInv
<1>2. QED BY <1>1, RouterInvariant, PTL

\* For any number of concurrent callers, any strategy and any settings: no
\* provider is granted more often in a rate window than its limit, although
\* the check for exhaustion and the consumption are separate critical
\* sections and status requests reset windows in between.
THEOREM RateLimitRespected == Spec => []GrantsWithinLimit
<1>1. RouterInv => GrantsWithinLimit
  <2> SUFFICES ASSUME RouterInv, NEW p \in Providers PROVE granted[p] <= RateLimit[p]
    BY DEF GrantsWithinLimit
  <2>1. granted[p] \in Nat /\ rl[p].remaining \in Nat /\ RateLimit[p] \in Nat
    BY RouterConstants DEF RouterInv, TypeOK, TrackerType
  <2>2. granted[p] + rl[p].remaining = RateLimit[p]
    BY DEF RouterInv, TokensConserved
  <2>3. QED BY <2>1, <2>2
<1>2. QED BY <1>1, RouterInvariant, PTL

\* Whatever order reports of concurrent callers arrive in, a breaker is closed
\* exactly when fewer than threshold failures were reported since the last
\* success, and half-open only after its recovery timeout.
THEOREM BreakersSound == Spec => []BreakerSound
<1>1. RouterInv => BreakerSound
  BY DEF RouterInv
<1>2. QED BY <1>1, RouterInvariant, PTL

----------------------------------------------------------------------------
(* Round robin: places in the rotation *)

\* Waits(owed, k) is OwedFrom(k).
Waits(o, k) == \A p \in Providers : \A q \in o[p] : Ahead(k, q) < Ahead(k, p)

LEMMA Positions ==
    /\ Len(Registered) \in Nat
    /\ Providers # {} => Len(Registered) # 0
    /\ \A p \in Providers : /\ Position(p) \in 0..(Len(Registered) - 1)
                            /\ Registered[Position(p) + 1] = p
    /\ \A n \in 1..Len(Registered) : Position(Registered[n]) = n - 1
    /\ \A p, q \in Providers : Position(p) = Position(q) => p = q
<1>1. /\ Registered \in Seq(Providers) /\ Len(Registered) \in Nat
      /\ \A p \in Providers : \E n \in 1..Len(Registered) : Registered[n] = p
      /\ \A n, j \in 1..Len(Registered) : Registered[n] = Registered[j] => n = j
  BY RouterConstants
<1>2. ASSUME NEW p \in Providers
      PROVE  Position(p) + 1 \in 1..Len(Registered) /\ Registered[Position(p) + 1] = p
  <2> DEFINE k == CHOOSE n \in 1..Len(Registered) : Registered[n] = p
  <2>1. k \in 1..Len(Registered) /\ Registered[k] = p
    BY <1>1
  <2>2. Position(p) = k - 1
    BY DEF Position
  <2> HIDE DEF k
  <2>3. Position(p) + 1 = k
    BY <1>1, <2>1, <2>2
  <2>4. QED BY <2>1, <2>3
<1>3. ASSUME NEW p \in Providers PROVE Position(p) \in 0..(Len(Registered) - 1)
  <2> DEFINE k == CHOOSE n \in 1..Len(Registered) : Registered[n] = p
  <2>1. k \in 1..Len(Registered)
    BY <1>1
  <2>2. Position(p) = k - 1
    BY DEF Position
  <2> HIDE DEF k
  <2>3. QED BY <1>1, <2>1, <2>2
<1>4. Providers # {} => Len(Registered) # 0
  BY <1>1
<1>5. ASSUME NEW n \in 1..Len(Registered) PROVE Position(Registered[n]) = n - 1
  <2> DEFINE p == Registered[n]
  <2>1. p \in Providers
    BY <1>1
  <2> HIDE DEF p
  <2>2. Position(p) + 1 = n
    <3>1. Position(p) + 1 \in 1..Len(Registered) /\ Registered[Position(p) + 1] = p
      BY <1>2, <2>1
    <3>2. QED BY <1>1, <3>1, Zenon DEF p
  <2>3. Position(p) \in 0..(Len(Registered) - 1)
    BY <1>3, <2>1
  <2>4. Position(p) = n - 1
    <3> DEFINE x == Position(p)
               N == Len(Registered)
    <3>1. x + 1 = n /\ x \in 0..(N - 1) /\ N \in Nat
      BY <1>1, <2>2, <2>3
    <3> HIDE DEF x, N
    <3>2. x = n - 1
      BY <3>1
    <3>3. QED BY <3>2 DEF x
  <2>5. QED BY <2>4 DEF p
<1>6. ASSUME NEW p \in Providers, NEW q \in Providers, Position(p) = Position(q) PROVE p = q
  BY <1>2, <1>6
<1>7. QED BY <1>1, <1>2, <1>3, <1>4, <1>5, <1>6

\* The remainder where it wraps once.
LEMMA RemainderWraps ==
    ASSUME NEW n \in Nat \ {0}, NEW x \in Nat, x < n + n
    PROVE  x % n = IF x < n THEN x ELSE x - n
  BY SMT

LEMMA IndexAfterWraps ==
    ASSUME NEW p \in Providers
    PROVE  IndexAfter(p) = Wrap(Position(p) + 1)
<1> DEFINE k == CHOOSE n \in 1..Len(Registered) : Registered[n] = p
           N == Len(Registered)
<1>1. Position(p) = k - 1 /\ IndexAfter(p) = k % N
  BY DEF Position, IndexAfter
<1>2. N \in Nat \ {0} /\ Position(p) \in 0..(N - 1)
  BY Positions
<1>3. k \in 1..N
  BY RouterConstants
<1> HIDE DEF k, N
<1>4. k % N = IF k < N THEN k ELSE k - N
  <2>1. k \in Nat /\ k < N + N
    BY <1>2, <1>3
  <2>2. QED BY <1>2, <2>1, RemainderWraps
<1>5. Position(p) + 1 = k
  BY <1>1, <1>2, <1>3
<1>6. QED BY <1>1, <1>4, <1>5 DEF Wrap, N

\* Arithmetic of places.
LEMMA Wraps ==
    ASSUME Len(Registered) \in Nat \ {0}
    PROVE  /\ \A k \in 0..(Len(Registered) - 1) :
                /\ Wrap(k) = k /\ Wrap(k + 1) \in 0..(Len(Registered) - 1)
                /\ Wrap(k + Len(Registered)) = k
                /\ \A n \in 1..Len(Registered) : Wrap(Wrap(k + 1) + n - 1) = Wrap(k + n)
           /\ \A k \in 0..(Len(Registered) - 1), m \in 1..Len(Registered) :
                /\ Wrap(k + Len(Registered) - m) \in 0..(Len(Registered) - 1)
                /\ Wrap(Wrap(k + Len(Registered) - m) + 1) = Wrap(k + Len(Registered) - (m - 1))
<1> DEFINE N == Len(Registered)
<1> HIDE DEF N
<1>1. N \in Nat \ {0} /\ \A x : Wrap(x) = IF x < N THEN x ELSE x - N
  BY DEF N, Wrap
<1>2. /\ \A k \in 0..(N - 1) :
           /\ Wrap(k) = k /\ Wrap(k + 1) \in 0..(N - 1)
           /\ Wrap(k + N) = k
           /\ \A n \in 1..N : Wrap(Wrap(k + 1) + n - 1) = Wrap(k + n)
  BY <1>1
<1>3. \A k \in 0..(N - 1), m \in 1..N :
           /\ Wrap(k + N - m) \in 0..(N - 1)
           /\ Wrap(Wrap(k + N - m) + 1) = Wrap(k + N - (m - 1))
  BY <1>1
<1>4. QED BY <1>2, <1>3 DEF N

\* The rotation passes a provider: it is behind all others now, and nobody waits for it.
LEMMA WaitsPassing ==
    ASSUME NEW o \in [Providers -> SUBSET Providers], NEW h \in Providers, Waits(o, Position(h))
    PROVE  /\ o[h] = {}
           /\ Waits([p \in Providers |-> o[p] \ {h}], Wrap(Position(h) + 1))
           /\ Waits([p \in Providers |-> IF p = h THEN Providers \ {h} ELSE o[p] \ {h}],
                    Wrap(Position(h) + 1))
<1> DEFINE N == Len(Registered)
           k == Position(h)
           k2 == Wrap(k + 1)
<1>1. N \in Nat \ {0} /\ \A p \in Providers : Position(p) \in 0..(N - 1)
  BY Positions
<1>2. \A p \in Providers : p # h => Position(p) # k
  BY Positions
<1>3. k \in 0..(N - 1) /\ k2 = IF k + 1 < N THEN k + 1 ELSE k + 1 - N
  BY <1>1 DEF Wrap
<1>4. \A p \in Providers : Ahead(k, p) = Position(p) - k + (IF Position(p) >= k THEN 0 ELSE N)
  BY DEF Ahead
<1>5. \A p \in Providers : Ahead(k2, p) = Position(p) - k2 + (IF Position(p) >= k2 THEN 0 ELSE N)
  BY DEF Ahead
<1>6. \A p \in Providers : \A q \in o[p] : Ahead(k, q) < Ahead(k, p)
  BY DEF Waits
<1> HIDE DEF N, k, k2
<1>7. Position(h) = k
  BY DEF k
<1>8. \A p \in Providers : Ahead(k, p) \in Nat /\ Ahead(k2, p) \in Nat
  BY <1>1, <1>3, <1>4, <1>5
<1>9. Ahead(k, h) = 0 /\ Ahead(k2, h) = N - 1
  BY <1>1, <1>3, <1>4, <1>5, <1>7
<1>10. \A p \in Providers : p # h => Ahead(k, p) = Ahead(k2, p) + 1 /\ Ahead(k2, p) < N - 1
  BY <1>1, <1>2, <1>3, <1>4, <1>5
<1>11. o[h] = {}
  BY <1>6, <1>8, <1>9
<1>12. \A p \in Providers \ {h} : \A q \in o[p] \ {h} : Ahead(k2, q) < Ahead(k2, p)
  BY <1>6, <1>8, <1>10
<1>13. \A q \in Providers \ {h} : Ahead(k2, q) < Ahead(k2, h)
  BY <1>9, <1>10
<1>14. QED BY <1>11, <1>12, <1>13 DEF Waits, k, k2

----------------------------------------------------------------------------
(* Round robin: the steps *)

\* RotationInv where it says something.
Rotation ==
    /\ rrIndex \in 0..(Len(Registered) - 1)
    /\ mu = NoCaller => Waits(owed, rrIndex)
    /\ \A c \in Callers : pc[c] \in Selecting => pc[c] # "snapshot" /\ Rotates(c)

\* Only one Select is under way.
LEMMA OneSelect ==
    ASSUME RouterInv, NEW c \in Callers, pc[c] \in Selecting
    PROVE  /\ mu = c /\ mu # NoCaller
           /\ \A d \in Callers : d # c => pc[d] \notin Selecting
  BY RouterConstants DEF RouterInv, LockHeld

\* The steps that do not move the rotation.
LEMMA RotationUnmoved ==
    ASSUME Rotation, UNCHANGED <<rrIndex, owed, mu, todo, best>>,
           \A d \in Callers : pc'[d] \in Selecting =>
               /\ pc[d] \in Selecting /\ pc'[d] # "snapshot"
               /\ pc'[d] = pc[d] \/ best[d].provider = NoProvider
    PROVE  Rotation'
<1>1. rrIndex' \in 0..(Len(Registered) - 1) /\ (mu' = NoCaller => Waits(owed', rrIndex'))
  BY DEF Rotation
<1>2. ASSUME NEW d \in Callers, pc'[d] \in Selecting PROVE pc'[d] # "snapshot" /\ Rotates(d)'
  <2>1. Rotates(d) /\ pc'[d] # "snapshot" /\ (pc'[d] = pc[d] \/ best[d].provider = NoProvider)
    BY <1>2 DEF Rotation
  <2>2. QED BY <2>1 DEF Rotates, Place, OwedFrom
<1>3. QED BY <1>1, <1>2 DEF Rotation

\* A provider found unavailable, and passed.
LEMMA RotationSkips ==
    ASSUME RouterInv, Rotation, Providers # {}, NEW c \in Callers, pc[c] \in Selecting,
           todo[c] # <<>>, Skip(c), UNCHANGED <<rrIndex, mu, best>>
    PROVE  Rotation'
<1> DEFINE N == Len(Registered)
           k == Place(c)
           h == Head(todo[c])
           m == Len(todo[c])
<1>1. /\ todo[c] \in Seq(Providers) /\ h \in Providers /\ h = todo[c][1]
      /\ owed \in [Providers -> SUBSET Providers]
      /\ todo \in [Callers -> Seq(Providers)] /\ pc \in [Callers -> PC]
  BY HeadOK DEF RouterInv, TypeOK, CallerType
<1>2. /\ todo'[c] = Tail(todo[c]) /\ pc'[c] = "scan"
      /\ \A d \in Callers : d # c => pc'[d] = pc[d]
      /\ owed' = [p \in Providers |-> owed[p] \ {h}]
  BY <1>1 DEF Skip
<1>3. N \in Nat \ {0} /\ rrIndex \in 0..(N - 1)
  BY Positions DEF Rotation
<1>4. best[c].provider = NoProvider
  BY DEF Rotation, Rotates
<1>5. /\ m <= N /\ \A n \in 1..m : Position(todo[c][n]) = Wrap(k + n - 1)
      /\ Waits(owed, k)
  BY <1>4 DEF Rotation, Rotates, OwedFrom, Waits
<1>6. m \in 1..N
  BY <1>1, <1>3, <1>5
<1>7. k = Wrap(rrIndex + N - m) /\ k \in 0..(N - 1) /\ Wrap(k + 1) = Wrap(rrIndex + N - (m - 1))
  BY <1>3, <1>6, Wraps DEF Place
<1>8. Position(h) = k
  <2>1. Position(h) = Wrap(k + 1 - 1)
    BY <1>1, <1>5, <1>6
  <2>2. k \in 0..(N - 1)
    BY <1>7
  <2> HIDE DEF k
  <2>3. k + 1 - 1 = k
    BY <1>3, <2>2
  <2>4. QED BY <1>3, <2>1, <2>2, <2>3, Wraps
<1>9. Waits(owed', Wrap(k + 1))
  <2>1. owed \in [Providers -> SUBSET Providers] /\ h \in Providers /\ Waits(owed, k)
    BY <1>1, <1>5
  <2> HIDE DEF k, h
  <2>2. Waits([p \in Providers |-> owed[p] \ {h}], Wrap(Position(h) + 1))
    BY <1>8, <2>1, WaitsPassing
  <2>3. QED BY <1>2, <1>8, <2>2
<1>10. /\ Len(todo'[c]) = m - 1
       /\ \A n \in 1..(m - 1) : todo'[c][n] = todo[c][n + 1]
  BY <1>1, <1>2, <1>6
<1>11. Place(c)' = Wrap(k + 1)
  BY <1>7, <1>10 DEF Place
<1>12. ASSUME NEW n \in 1..(m - 1) PROVE Position(todo'[c][n]) = Wrap(Wrap(k + 1) + n - 1)
  <2>1. n + 1 \in 1..m /\ n \in 1..N /\ k + (n + 1) - 1 = k + n
    BY <1>3, <1>6, <1>7
  <2>2. Position(todo[c][n + 1]) = Wrap(k + n)
    BY <1>5, <2>1
  <2>3. QED BY <1>3, <1>7, <1>10, <2>1, <2>2, Wraps
<1> HIDE DEF k, m, h, N
<1>13. Rotates(c)'
  <2>1. Len(todo'[c]) <= N
    BY <1>3, <1>6, <1>10
  <2>2. \A n \in 1..Len(todo'[c]) : Position(todo'[c][n]) = Wrap(Place(c)' + n - 1)
    BY <1>10, <1>11, <1>12
  <2>3. OwedFrom(Place(c))'
    BY <1>9, <1>11 DEF OwedFrom, Waits
  <2>4. QED BY <1>4, <2>1, <2>2, <2>3 DEF Rotates, N
<1>14. \A d \in Callers : pc'[d] \in Selecting => d = c
  BY <1>2, OneSelect
<1>15. QED BY <1>2, <1>13, <1>14, OneSelect DEF Rotation

\* A provider found available: the index is the one after it.
LEMMA RotationChooses ==
    ASSUME RouterInv, Rotation, Providers # {}, NEW c \in Callers, pc[c] \in Selecting,
           todo[c] # <<>>, UNCHANGED <<mu, owed>>,
           pc' = [pc EXCEPT ![c] = "scan"], todo' = [todo EXCEPT ![c] = <<>>],
           best' = [best EXCEPT ![c] = [provider |-> Head(todo[c]), score |-> <<0, 1>>]],
           rrIndex' = IndexAfter(Head(todo[c]))
    PROVE  Rotation'
<1> DEFINE N == Len(Registered)
           k == Place(c)
           h == Head(todo[c])
<1>1. /\ todo[c] \in Seq(Providers) /\ h \in Providers /\ h = todo[c][1] /\ Len(todo[c]) >= 1
      /\ todo \in [Callers -> Seq(Providers)] /\ pc \in [Callers -> PC]
      /\ best \in [Callers -> Best]
  BY HeadOK DEF RouterInv, TypeOK, CallerType
<1>2. /\ todo'[c] = <<>> /\ pc'[c] = "scan" /\ best'[c].provider = h
      /\ \A d \in Callers : d # c => pc'[d] = pc[d]
  BY <1>1
<1>3. N \in Nat \ {0} /\ rrIndex \in 0..(N - 1)
  BY Positions DEF Rotation
<1>4. best[c].provider = NoProvider
  BY DEF Rotation, Rotates
<1>5. /\ Len(todo[c]) <= N /\ \A n \in 1..Len(todo[c]) : Position(todo[c][n]) = Wrap(k + n - 1)
      /\ Waits(owed, k)
  BY <1>4 DEF Rotation, Rotates, OwedFrom, Waits
<1>6. Len(todo[c]) \in 1..N /\ 1 \in 1..Len(todo[c])
  <2> DEFINE m == Len(todo[c])
  <2>1. m \in Nat /\ m >= 1 /\ m <= N
    BY <1>1, <1>5
  <2> HIDE DEF m, N
  <2>2. m \in 1..N /\ 1 \in 1..m
    BY <1>3, <2>1
  <2>3. QED BY <2>2 DEF m
<1>7. k \in 0..(N - 1) /\ Position(h) = k
  <2>1. k \in 0..(N - 1)
    BY <1>3, <1>6, Wraps DEF Place
  <2>2. Position(h) = Wrap(k + 1 - 1)
    BY <1>1, <1>5, <1>6
  <2> HIDE DEF k
  <2>3. k + 1 - 1 = k
    BY <1>3, <2>1
  <2>4. QED BY <1>3, <2>1, <2>2, <2>3, Wraps
<1>8. rrIndex' = Wrap(Position(h) + 1)
  BY <1>1, IndexAfterWraps
<1>9. rrIndex' \in 0..(N - 1)
  BY <1>3, <1>7, <1>8, Wraps
<1>10. h # NoProvider
  <2>1. NoProvider \notin Providers /\ h \in Providers
    BY <1>1, RouterConstants, Zenon
  <2> HIDE DEF h
  <2>2. QED BY <2>1, Zenon
<1> HIDE DEF k, N
<1>11. OwedFrom(Position(best[c].provider))'
  BY <1>2, <1>5, <1>7 DEF OwedFrom, Waits
<1>12. Rotates(c)'
  BY <1>2, <1>10, <1>11 DEF Rotates
<1>13. \A d \in Callers : pc'[d] \in Selecting => d = c
  BY <1>2, OneSelect
<1>14. QED BY <1>2, <1>9, <1>12, <1>13, OneSelect DEF Rotation, N

\* A Select begins at the index, with every provider still to look at.
LEMMA RotationBegins ==
    ASSUME RouterInv, Rotation, Strategy = "round_robin", Providers # {},
           NEW c \in Callers, SelectBegin(c)
    PROVE  Rotation'
<1> DEFINE N == Len(Registered)
           order == RoundRobinOrder
<1>1. N \in Nat \ {0} /\ rrIndex \in 0..(N - 1)
  BY Positions DEF Rotation
<1>2. /\ mu = NoCaller /\ mu' = c /\ c # NoCaller /\ pc[c] = "idle"
      /\ pc' = [pc EXCEPT ![c] = "scan"] /\ todo' = [todo EXCEPT ![c] = order]
      /\ UNCHANGED <<rrIndex, best, owed>>
  BY RouterConstants DEF SelectBegin, Lock, ScanOrders
<1>3. best[c].provider = NoProvider
  BY <1>2 DEF RouterInv, TokenReserved, Selecting
<1>4. todo'[c] = order /\ pc'[c] = "scan" /\ \A d \in Callers : d # c => pc'[d] = pc[d]
  BY <1>2 DEF RouterInv, TypeOK, CallerType
<1>5. Len(order) = N /\ \A n \in 1..N : order[n] = Registered[((rrIndex + n - 1) % N) + 1]
  BY <1>1 DEF RoundRobinOrder
<1>6. ASSUME NEW n \in 1..N PROVE Position(order[n]) = Wrap(rrIndex + n - 1)
  <2> DEFINE x == rrIndex + n - 1
  <2>1. order[n] = Registered[(x % N) + 1]
    BY <1>5
  <2> HIDE DEF N, order
  <2>2. x \in Nat /\ x < N + N
    BY <1>1
  <2> HIDE DEF x
  <2>3. x % N = IF x < N THEN x ELSE x - N
    BY <1>1, <2>2, RemainderWraps
  <2>4. Wrap(x) = x % N
    BY <2>3 DEF Wrap, N
  <2>5. Wrap(x) \in 0..(N - 1)
    BY <1>1, <2>2, <2>3, <2>4
  <2> DEFINE y == Wrap(x)
  <2>6. y \in 0..(N - 1) /\ order[n] = Registered[y + 1]
    BY <2>1, <2>4, <2>5
  <2> HIDE DEF y
  <2>7. y + 1 \in 1..N /\ (y + 1) - 1 = y
    BY <1>1, <2>6
  <2>8. Position(order[n]) = y
    BY <2>6, <2>7, Positions DEF N
  <2>9. QED BY <2>8 DEF y, x
<1> HIDE DEF order
<1>7. Place(c)' = rrIndex
  <2>1. Place(c)' = Wrap(rrIndex + N - N)
    BY <1>2, <1>4, <1>5 DEF Place
  <2> HIDE DEF N
  <2>2. rrIndex + N - N = rrIndex
    BY <1>1
  <2>3. QED BY <1>1, <2>1, <2>2, Wraps DEF N
<1> HIDE DEF N
<1>8. Rotates(c)'
  <2>1. Len(todo'[c]) <= N
    BY <1>1, <1>4, <1>5
  <2>2. \A n \in 1..Len(todo'[c]) : Position(todo'[c][n]) = Wrap(Place(c)' + n - 1)
    BY <1>4, <1>5, <1>6, <1>7
  <2>3. OwedFrom(Place(c))'
    BY <1>2, <1>7 DEF OwedFrom, Waits, Rotation
  <2>4. best'[c].provider = NoProvider
    BY <1>2, <1>3
  <2>5. QED BY <2>1, <2>2, <2>3, <2>4 DEF Rotates, N
<1>9. \A d \in Callers : pc'[d] \in Selecting => d = c
  BY <1>2, <1>4, RouterConstants DEF RouterInv, LockHeld
<1>10. QED BY <1>1, <1>2, <1>4, <1>8, <1>9 DEF Rotation, N

\* A Select returns: its provider is last in the rotation now.
LEMMA RotationReturns ==
    ASSUME RouterInv, Rotation, Strategy = "round_robin", Providers # {},
           NEW c \in Callers, SelectReturn(c)
    PROVE  Rotation'
<1> DEFINE h == best[c].provider
<1>1. /\ pc[c] = "scan" /\ h # NoProvider /\ mu' = NoCaller
      /\ pc' = [pc EXCEPT ![c] = "holding"] /\ UNCHANGED rrIndex
      /\ owed' = [q \in Providers |-> IF q = h THEN Providers \ {h} ELSE owed[q] \ {h}]
  BY DEF SelectReturn, Unlock
<1>2. pc[c] \in Selecting
  BY <1>1 DEF Selecting
<1>3. h \in Providers /\ owed \in [Providers -> SUBSET Providers] /\ pc \in [Callers -> PC]
  BY <1>1 DEF RouterInv, TypeOK, CallerType, Best
<1>4. rrIndex = IndexAfter(h) /\ Waits(owed, Position(h))
  BY <1>1, <1>2 DEF Rotation, Rotates, OwedFrom, Waits
<1> HIDE DEF h
<1>5. rrIndex = Wrap(Position(h) + 1)
  BY <1>3, <1>4, IndexAfterWraps
<1>6. Waits([q \in Providers |-> IF q = h THEN Providers \ {h} ELSE owed[q] \ {h}],
            Wrap(Position(h) + 1))
  BY <1>3, <1>4, WaitsPassing
<1>7. Waits(owed', rrIndex')
  BY <1>1, <1>5, <1>6
<1>8. \A d \in Callers : pc'[d] \notin Selecting
  BY <1>1, <1>2, <1>3, OneSelect DEF Selecting
<1>9. QED BY <1>1, <1>7, <1>8 DEF Rotation

\* A Select that found nobody has come around to the index.
LEMMA RotationFails ==
    ASSUME RouterInv, Rotation, Providers # {}, NEW c \in Callers, SelectError(c)
    PROVE  Rotation'
<1> DEFINE N == Len(Registered)
<1>1. /\ pc[c] = "scan" /\ todo[c] = <<>> /\ best[c].provider = NoProvider
      /\ mu' = NoCaller /\ pc' = [pc EXCEPT ![c] = "idle"] /\ UNCHANGED <<rrIndex, owed>>
  BY DEF SelectError, Unlock
<1>2. pc[c] \in Selecting
  BY <1>1 DEF Selecting
<1>3. N \in Nat \ {0} /\ rrIndex \in 0..(N - 1)
  BY Positions DEF Rotation
<1>4. Waits(owed, Place(c))
  BY <1>1, <1>2 DEF Rotation, Rotates, OwedFrom, Waits
<1>5. Place(c) = rrIndex
  <2>1. Len(todo[c]) = 0
    BY <1>1
  <2>2. Place(c) = Wrap(rrIndex + N - 0)
    BY <2>1 DEF Place
  <2>3. Wrap(rrIndex + N) = rrIndex
    BY <1>3, Wraps
  <2> HIDE DEF N
  <2>4. rrIndex + N - 0 = rrIndex + N
    BY <1>3
  <2>5. QED BY <2>2, <2>3, <2>4
<1>6. \A d \in Callers : pc'[d] \notin Selecting
  BY <1>1, <1>2, OneSelect DEF Selecting, RouterInv, TypeOK, CallerType
<1>7. QED BY <1>1, <1>3, <1>4, <1>5, <1>6 DEF Rotation

\* The three checks of IsAvailable: the provider at the head is passed, is
\* looked at further, or is chosen.
LEMMA RotationChecks ==
    ASSUME RouterInv, Rotation, Strategy = "round_robin", Providers # {}, NEW c \in Callers,
           CheckBreaker(c) \/ CheckExhausted(c) \/ CheckOutliers(c)
    PROVE  Rotation'
<1>1. pc[c] \in Selecting /\ todo[c] # <<>>
  BY DEF CheckBreaker, CheckExhausted, CheckOutliers, Selecting, RouterInv, TokenReserved
<1>2. best[c].provider = NoProvider
  BY <1>1 DEF Rotation, Rotates
<1>3. CASE Skip(c) /\ UNCHANGED <<rrIndex, mu, best>>
  BY <1>1, <1>3, RotationSkips
<1>4. CASE /\ pc' = [pc EXCEPT ![c] = "exhausted"] \/ pc' = [pc EXCEPT ![c] = "outliers"]
           /\ UNCHANGED <<rrIndex, owed, mu, todo, best>>
  <2>1. \A d \in Callers : d # c => pc'[d] = pc[d]
    BY <1>4 DEF RouterInv, TypeOK, CallerType
  <2>2. pc'[c] # "snapshot"
    BY <1>4 DEF RouterInv, TypeOK, CallerType
  <2>3. ASSUME NEW d \in Callers, pc'[d] \in Selecting
        PROVE  /\ pc[d] \in Selecting /\ pc'[d] # "snapshot"
               /\ pc'[d] = pc[d] \/ best[d].provider = NoProvider
    <3>1. CASE d = c
      BY <1>1, <1>2, <2>2, <3>1
    <3>2. CASE d # c
      BY <2>1, <2>3, <3>2 DEF Rotation
    <3>3. QED BY <3>1, <3>2
  <2>4. QED BY <1>4, <2>3, RotationUnmoved
<1>5. CASE /\ UNCHANGED <<mu, owed>>
           /\ pc' = [pc EXCEPT ![c] = "scan"] /\ todo' = [todo EXCEPT ![c] = <<>>]
           /\ best' = [best EXCEPT ![c] = [provider |-> Head(todo[c]), score |-> <<0, 1>>]]
           /\ rrIndex' = IndexAfter(Head(todo[c]))
  BY <1>1, <1>5, RotationChooses
<1>6. CASE CheckBreaker(c)
  <2>1. \/ Skip(c) /\ UNCHANGED <<rrIndex, mu, best>>
        \/ /\ pc' = [pc EXCEPT ![c] = "exhausted"]
           /\ UNCHANGED <<rrIndex, owed, mu, todo, best>>
    BY <1>6 DEF CheckBreaker
  <2>2. QED BY <1>3, <1>4, <2>1
<1>7. CASE CheckExhausted(c)
  <2>1. \/ Skip(c) /\ UNCHANGED <<rrIndex, mu, best>>
        \/ /\ pc' = [pc EXCEPT ![c] = "outliers"]
           /\ UNCHANGED <<rrIndex, owed, mu, todo, best>>
    BY <1>7 DEF CheckExhausted
  <2>2. QED BY <1>3, <1>4, <2>1
<1>8. CASE CheckOutliers(c)
  <2>1. \/ Skip(c) /\ UNCHANGED <<rrIndex, mu, best>>
        \/ /\ UNCHANGED <<mu, owed>>
           /\ pc' = [pc EXCEPT ![c] = "scan"] /\ todo' = [todo EXCEPT ![c] = <<>>]
           /\ best' = [best EXCEPT ![c] = [provider |-> Head(todo[c]), score |-> <<0, 1>>]]
           /\ rrIndex' = IndexAfter(Head(todo[c]))
    BY <1>8, Zenon DEF CheckOutliers
  <2>2. QED BY <1>3, <1>5, <2>1
<1>9. QED BY <1>6, <1>7, <1>8

\* Reports and the clock are outside Select.
LEMMA RotationElsewhere ==
    ASSUME RouterInv, Rotation,
           \/ \E c \in Callers : ReportStep(c)
           \/ \E p \in Providers : ReportAccurate(p) \/ ReportOutlier(p) \/ ReadStatus(p)
           \/ Tick \/ UNCHANGED vars
    PROVE  Rotation'
<1>1. /\ UNCHANGED <<rrIndex, owed, mu, todo, best>>
      /\ \/ UNCHANGED pc
         \/ \E c \in Callers, l \in {"latency", "validating", "idle"} : pc' = [pc EXCEPT ![c] = l]
  BY DEF ReportStep, ReportSuccess, RecordLatency, ReportFailure, Return, Release,
         ReportAccurate, ReportOutlier, ReadStatus, Tick, callerVars, vars
<1>2. \A d \in Callers : pc'[d] \in Selecting => pc'[d] = pc[d]
  BY <1>1 DEF RouterInv, TypeOK, CallerType, Selecting
<1>3. \A d \in Callers : pc[d] \in Selecting => pc[d] # "snapshot"
  BY DEF Rotation
<1>4. QED BY <1>1, <1>2, <1>3, RotationUnmoved

LEMMA RotationIs ==
    RotationInv <=> (Strategy = "round_robin" /\ Providers # {} => Rotation)
  BY DEF RotationInv, Rotation, OwedFrom, Waits

LEMMA RotationInit == Init => RotationInv
<1> SUFFICES ASSUME Init, Strategy = "round_robin", Providers # {} PROVE Rotation
  BY RotationIs
<1>1. rrIndex = 0 /\ \A c \in Callers : pc[c] = "idle"
  BY DEF Init
<1>2. Waits(owed, rrIndex)
  BY DEF Init, Waits
<1>3. 0 \in 0..(Len(Registered) - 1)
  <2> DEFINE N == Len(Registered)
  <2>1. N \in Nat \ {0}
    BY Positions
  <2> HIDE DEF N
  <2>2. 0 \in 0..(N - 1)
    BY <2>1
  <2>3. QED BY <2>2 DEF N
<1>4. QED BY <1>1, <1>2, <1>3 DEF Rotation, Selecting

LEMMA RotationNext == RouterInv /\ RotationInv /\ [Next]_vars => RotationInv'
<1> SUFFICES ASSUME RouterInv, RotationInv, [Next]_vars, Strategy = "round_robin", Providers # {}
             PROVE  Rotation'
  BY DEF RotationInv, Rotation, OwedFrom, Waits
<1>1. Rotation
  BY RotationIs
<1>2. ASSUME NEW c \in Callers, SelectBegin(c) PROVE Rotation'
  BY <1>1, <1>2, RotationBegins
<1>3. ASSUME NEW c \in Callers, CheckBreaker(c) \/ CheckExhausted(c) \/ CheckOutliers(c)
      PROVE  Rotation'
  BY <1>1, <1>3, RotationChecks
<1>4. ASSUME NEW c \in Callers, TakeSnapshot(c) PROVE FALSE
  BY <1>1, <1>4 DEF TakeSnapshot, Rotation, Selecting
<1>5. ASSUME NEW c \in Callers, SelectReturn(c) PROVE Rotation'
  BY <1>1, <1>5, RotationReturns
<1>6. ASSUME NEW c \in Callers, SelectError(c) PROVE Rotation'
  BY <1>1, <1>6, RotationFails
<1>7. CASE \/ \E c \in Callers : ReportStep(c)
           \/ \E p \in Providers : ReportAccurate(p) \/ ReportOutlier(p) \/ ReadStatus(p)
           \/ Tick \/ UNCHANGED vars
  BY <1>1, <1>7, RotationElsewhere
<1>8. QED BY <1>2, <1>3, <1>4, <1>5, <1>6, <1>7 DEF Next, SelectStep

\* Under round robin every Select has the providers from its place on still to
\* look at, and every provider waits only for those that come before it.
THEOREM RotationInvariant == Spec => []RotationInv
<1>1. Init => RouterInv /\ RotationInv
  BY InitInv, RotationInit
<1>2. RouterInv /\ RotationInv /\ [Next]_vars => (RouterInv /\ RotationInv)'
  BY NextInv, RotationNext
<1>3. QED BY <1>1, <1>2, PTL DEF Spec

\* For any number of providers and concurrent callers: round robin chooses a
\* provider again only after every other one was granted or found unavailable
\* since its last grant, whatever the breakers and windows do in between.
THEOREM RoundRobinStarvesNobody == Spec => []RoundRobinRotates
<1>1. RouterInv /\ RotationInv => RoundRobinRotates
  <2> SUFFICES ASSUME RouterInv, RotationInv, Strategy = "round_robin",
                      NEW c \in Callers, Chosen(c)
               PROVE  owed[best[c].provider] = {}
    BY DEF RoundRobinRotates
  <2> DEFINE h == best[c].provider
  <2>1. pc[c] \in Selecting /\ h # NoProvider
    BY DEF Chosen, Selecting
  <2>2. h \in Providers /\ owed \in [Providers -> SUBSET Providers]
    BY <2>1 DEF RouterInv, TypeOK, CallerType, Best
  <2>3. Rotation
    BY <2>2, RotationIs
  <2>4. Waits(owed, Position(h))
    BY <2>1, <2>3 DEF Rotation, Rotates, OwedFrom, Waits
  <2> HIDE DEF h
  <2>5. owed[h] = {}
    BY <2>2, <2>4, WaitsPassing
  <2>6. QED BY <2>5 DEF h
<1>2. QED BY <1>1, RouterInvariant, RotationInvariant, PTL

----------------------------------------------------------------------------
(* The contract: a paid provider gets no further than its first check *)

\* A step that leaves the other callers alone, and keeps what FreeOnly says of c.
LEMMA FreeOthers ==
    ASSUME FreeOnly, NEW c \in Callers,
           \A d \in Callers \ {c} : pc'[d] = pc[d] /\ todo'[d] = todo[d] /\ best'[d] = best[d],
           pc'[c] \in Selecting \ {"scan"} => ~PaidAway(Head(todo'[c])),
           best'[c].provider # NoProvider => ~PaidAway(best'[c].provider)
    PROVE  FreeOnly'
<1> SUFFICES ASSUME NEW d \in Callers
             PROVE  /\ pc'[d] \in Selecting \ {"scan"} => ~PaidAway(Head(todo'[d]))
                    /\ best'[d].provider # NoProvider => ~PaidAway(best'[d].provider)
  BY DEF FreeOnly, PaidAway
<1> QED BY DEF FreeOnly

LEMMA FreeInit == Init => FreeOnly
  BY DEF Init, FreeOnly, NoBest

\* What the steps of Select do to the scan of their caller.
ScanStep(c) ==
    \/ Skip(c) /\ UNCHANGED best
    \/ /\ pc' \in {[pc EXCEPT ![c] = "exhausted"], [pc EXCEPT ![c] = "outliers"],
                   [pc EXCEPT ![c] = "snapshot"]}
       /\ UNCHANGED <<todo, best>>
    \/ /\ pc' = [pc EXCEPT ![c] = "scan"]
       /\ todo' \in {[todo EXCEPT ![c] = <<>>], [todo EXCEPT ![c] = Tail(@)]}
       /\ \/ UNCHANGED best
          \/ \E score : best' = [best EXCEPT ![c] = [provider |-> Head(todo[c]), score |-> score]]

LEMMA FreeNext == RouterInv /\ FreeOnly /\ [Next]_vars => FreeOnly'
<1> SUFFICES ASSUME RouterInv, FreeOnly, [Next]_vars PROVE FreeOnly'
  OBVIOUS
<1>1. /\ pc \in [Callers -> PC] /\ todo \in [Callers -> Seq(Providers)]
      /\ best \in [Callers -> Best]
      /\ \A c \in Callers : best[c].provider # NoProvider => pc[c] \in Selecting
  BY DEF RouterInv, TypeOK, CallerType, TokenReserved
<1>2. ASSUME NEW c \in Callers, SelectBegin(c) PROVE FreeOnly'
  <2>1. /\ \A d \in Callers \ {c} : pc'[d] = pc[d] /\ todo'[d] = todo[d] /\ best'[d] = best[d]
        /\ pc'[c] = "scan" /\ best'[c].provider = NoProvider
    BY <1>1, <1>2 DEF SelectBegin
  <2>2. QED BY <2>1, FreeOthers
<1>3. ASSUME NEW c \in Callers, pc[c] \in Selecting,
             pc[c] # "scan" \/ ~PaidAway(Head(todo[c])) \/ (Skip(c) /\ UNCHANGED best), ScanStep(c)
      PROVE  FreeOnly'
  <2>1. \A d \in Callers \ {c} : pc'[d] = pc[d] /\ todo'[d] = todo[d] /\ best'[d] = best[d]
    BY <1>1, <1>3 DEF ScanStep, Skip
  <2>2. CASE Skip(c) /\ UNCHANGED best
    <3>1. pc'[c] = "scan" /\ best'[c] = best[c]
      BY <1>1, <2>2 DEF Skip
    <3>2. QED BY <2>1, <3>1, FreeOthers DEF FreeOnly
  <2>3. CASE ~(Skip(c) /\ UNCHANGED best)
    <3>1. ~PaidAway(Head(todo[c]))
      BY <1>3, <2>3 DEF FreeOnly
    <3>2. \/ todo'[c] = todo[c] /\ best'[c] = best[c]
          \/ pc'[c] = "scan" /\ (best'[c] = best[c] \/ best'[c].provider = Head(todo[c]))
      BY <1>1, <1>3, <2>3 DEF ScanStep
    <3>3. QED BY <2>1, <3>1, <3>2, FreeOthers DEF FreeOnly
  <2>4. QED BY <2>2, <2>3
<1>4. ASSUME NEW c \in Callers, CheckBreaker(c) PROVE FreeOnly'
  <2>1. /\ ScanStep(c) /\ pc[c] \in Selecting
        /\ ~PaidAway(Head(todo[c])) \/ (Skip(c) /\ UNCHANGED best)
    BY <1>4 DEF CheckBreaker, ScanStep
  <2>2. QED BY <1>3, <2>1
<1>5. ASSUME NEW c \in Callers, CheckExhausted(c) PROVE FreeOnly'
  <2>1. ScanStep(c) /\ pc[c] = "exhausted"
    BY <1>5 DEF CheckExhausted, ScanStep
  <2>2. QED BY <1>3, <2>1
<1>6. ASSUME NEW c \in Callers, CheckOutliers(c) PROVE FreeOnly'
  <2>1. ScanStep(c) /\ pc[c] = "outliers"
    BY <1>6 DEF CheckOutliers, ScanStep
  <2>2. QED BY <1>3, <2>1
<1>7. ASSUME NEW c \in Callers, TakeSnapshot(c) PROVE FreeOnly'
  <2>1. ScanStep(c) /\ pc[c] = "snapshot"
    BY <1>1, <1>7 DEF TakeSnapshot, ScanStep
  <2>2. QED BY <1>3, <2>1
<1>8. ASSUME NEW c \in Callers, SelectReturn(c) \/ SelectError(c) \/ ReportStep(c) PROVE FreeOnly'
  <2>1. /\ \A d \in Callers \ {c} : pc'[d] = pc[d] /\ todo'[d] = todo[d] /\ best'[d] = best[d]
        /\ pc'[c] \notin Selecting
    BY <1>1, <1>8 DEF SelectReturn, SelectError, ReportStep, ReportSuccess, RecordLatency,
                      ReportFailure, Return, Release
  <2>2. best'[c].provider = NoProvider
    BY <1>1, <1>8 DEF SelectReturn, SelectError, ReportStep, ReportSuccess, RecordLatency,
                      ReportFailure, Return, NoBest
  <2>3. QED BY <2>1, <2>2, FreeOthers
<1>9. CASE \/ \E p \in Providers : ReportAccurate(p) \/ ReportOutlier(p) \/ ReadStatus(p)
           \/ Tick \/ UNCHANGED vars
  <2>1. UNCHANGED <<pc, todo, best>>
    BY <1>9 DEF ReportAccurate, ReportOutlier, ReadStatus, Tick, callerVars, vars
  <2>2. QED BY <2>1 DEF FreeOnly, PaidAway
<1>10. QED BY <1>2, <1>4, <1>5, <1>6, <1>7, <1>8, <1>9 DEF Next, SelectStep

----------------------------------------------------------------------------
(* The contract: every provider is looked at *)

LEMMA StagesOf ==
    ASSUME NEW b
    PROVE  /\ StageOf("idle", b) = "out"
           /\ \A ph \in Selecting : StageOf(ph, b) = IF b = NoProvider THEN "asking" ELSE "settled"
           /\ \A ph \in {"holding", "latency", "validating"} : StageOf(ph, b) = "holding"
  BY DEF StageOf

\* Whatever the strategy, no provider is missing in the order of a scan.
LEMMA ScanCovers ==
    ASSUME rrIndex \in 0..Len(Registered), NEW order \in ScanOrders
    PROVE  NotAmong(order) = {}
<1>1. Registered \in Seq(Providers) /\ \A p \in Providers : \E i \in 1..Len(Registered) : Registered[i] = p
  BY RouterConstants
<1>2. NotAmong(Registered) = {}
  BY <1>1 DEF NotAmong
<1>3. ASSUME NEW s \in PriorityOrders PROVE NotAmong(s) = {}
  BY <1>3 DEF PriorityOrders, NotAmong
<1>4. NotAmong(RoundRobinOrder) = {}
  <2> DEFINE n == Len(Registered)
             at(i) == ((rrIndex + i - 1) % n) + 1
  <2>1. n \in Nat /\ rrIndex \in 0..n
    BY <1>1
  <2>2. RoundRobinOrder = [i \in 1..n |-> Registered[at(i)]]
    BY DEF RoundRobinOrder
  <2>3. ASSUME NEW k \in 1..n PROVE \E i \in 1..n : at(i) = k
    <3> HIDE DEF n
    <3>1. CASE k > rrIndex
      <4>1. k - rrIndex \in 1..n /\ rrIndex + (k - rrIndex) - 1 = k - 1
        BY <2>1, <3>1
      <4>2. (k - 1) % n = k - 1
        BY <2>1
      <4>3. at(k - rrIndex) = k
        BY <2>1, <4>1, <4>2
      <4>4. QED BY <4>1, <4>3
    <3>2. CASE k <= rrIndex
      <4> DEFINE i == k - rrIndex + n
      <4>1. i \in 1..n /\ rrIndex + i - 1 = (k - 1) + n
        BY <2>1, <3>2
      <4>2. ((k - 1) + n) % n = k - 1
        BY <2>1
      <4>3. at(i) = k
        BY <2>1, <4>1, <4>2
      <4> HIDE DEF i
      <4>4. QED BY <4>1, <4>3
    <3>3. QED BY <2>1, <3>1, <3>2
  <2>4. ASSUME NEW p \in Providers PROVE \E i \in DOMAIN RoundRobinOrder : RoundRobinOrder[i] = p
    <3>1. PICK k \in 1..n : Registered[k] = p
      BY <1>1
    <3> HIDE DEF n, at
    <3>2. PICK i \in 1..n : at(i) = k
      BY <2>3
    <3>3. QED BY <2>2, <3>1, <3>2
  <2>5. QED BY <2>4 DEF NotAmong
<1>5. QED BY <1>2, <1>3, <1>4, RouterConstants DEF ScanOrders

----------------------------------------------------------------------------
(* The contract: what steps do to the state it speaks of *)

\* A due reset counts as done, so that doing it changes nothing.
LEMMA ResetKeepsLeft ==
    ASSUME RouterInv, NEW p \in Providers, ResetWindow(p)
    PROVE  Left' = Left
<1>1. rl \in [Providers -> [remaining : Nat, windowAge : Nat]] /\ RateWindow[p] \in Nat
  BY RouterConstants DEF RouterInv, TypeOK, TrackerType
<1>2. \A q \in Providers :
        rl'[q] = IF q = p THEN CheckReset(rl[p], RateLimit[p], RateWindow[p]) ELSE rl[q]
  BY <1>1 DEF ResetWindow
<1>3. Remaining(CheckReset(rl[p], RateLimit[p], RateWindow[p]), RateLimit[p], RateWindow[p])
        = Remaining(rl[p], RateLimit[p], RateWindow[p])
  BY <1>1 DEF Remaining, CheckReset, NewRateLimitTracker, WindowOver
<1>4. \A q \in Providers : Remaining(rl'[q], RateLimit[q], RateWindow[q])
                             = Remaining(rl[q], RateLimit[q], RateWindow[q])
  BY <1>2, <1>3
<1>5. QED BY <1>4 DEF Left

LEMMA SameLeft ==
    ASSUME UNCHANGED rl PROVE Left' = Left
  BY DEF Left

\* Steps of one caller.
Alone(c) == \A d \in Callers \ {c} : pc'[d] = pc[d] /\ todo'[d] = todo[d] /\ best'[d] = best[d]

LEMMA StageMoves ==
    ASSUME NEW c \in Callers, Alone(c), NEW s, StageOf(pc'[c], best'[c].provider) = s
    PROVE  Stage' = [Stage EXCEPT ![c] = s] /\ Stage'[c] = s
  BY DEF Stage, Alone

LEMMA RuledOutMoves ==
    ASSUME NEW c \in Callers, Alone(c),
           NEW R, R = IF Stage'[c] = "asking" THEN NotAmong(todo'[c]) ELSE {}
    PROVE  RuledOut' = [RuledOut EXCEPT ![c] = R]
<1>1. \A d \in Callers \ {c} : Stage'[d] = Stage[d] /\ todo'[d] = todo[d]
  BY DEF Stage, Alone
<1>2. /\ DOMAIN RuledOut = Callers /\ DOMAIN RuledOut' = Callers
      /\ RuledOut = [d \in Callers |-> RuledOut[d]] /\ RuledOut' = [d \in Callers |-> RuledOut'[d]]
      /\ \A d \in Callers : RuledOut[d] = IF Stage[d] = "asking" THEN NotAmong(todo[d]) ELSE {}
      /\ \A d \in Callers : RuledOut'[d] = IF Stage'[d] = "asking" THEN NotAmong(todo'[d]) ELSE {}
  BY DEF RuledOut, NotAmong
<1>3. RuledOut'[c] = R
  BY <1>2, Zenon
<1>4. ASSUME NEW d \in Callers \ {c} PROVE RuledOut'[d] = RuledOut[d]
  <2>1. RuledOut'[d] = IF Stage'[d] = "asking" THEN NotAmong(todo'[d]) ELSE {}
    BY <1>2, Zenon
  <2>2. RuledOut[d] = IF Stage[d] = "asking" THEN NotAmong(todo[d]) ELSE {}
    BY <1>2, Zenon
  <2>3. QED BY <1>1, <2>1, <2>2, Zenon
<1>5. QED BY <1>2, <1>3, <1>4

\* Nothing that the contract speaks of changes, except who is fit.
LEMMA Quietly ==
    ASSUME Left' = Left, UNCHANGED <<Stage, RuledOut, held>>
    PROVE  Contract!Next
<1>1. Fit' \subseteq Providers
  BY DEF Fit
<1>2. Left' = [p \in Providers |-> IF p \in {} THEN RateLimit[p] ELSE Left[p]]
  BY DEF Left
<1>3. \E over \in SUBSET Providers :
        Left' = [p \in Providers |-> IF p \in over THEN RateLimit[p] ELSE Left[p]]
  <2> WITNESS {} \in SUBSET Providers
  <2> QED BY <1>2
<1>4. Contract!Elapse
  BY <1>3, Zenon DEF Contract!Elapse
<1>5. QED BY <1>1, <1>4 DEF Contract!Next

\* So it is when one caller's stage stays, and its scan unless it is asking.
LEMMA QuietCaller ==
    ASSUME NEW c \in Callers, Alone(c), Left' = Left, UNCHANGED held,
           StageOf(pc'[c], best'[c].provider) = StageOf(pc[c], best[c].provider),
           Stage[c] = "asking" => NotAmong(todo'[c]) = NotAmong(todo[c])
    PROVE  Contract!Next
<1>1. UNCHANGED Stage
  BY DEF Stage, Alone
<1>2. UNCHANGED RuledOut
  <2>1. \A d \in Callers : Stage'[d] = "asking" => NotAmong(todo'[d]) = NotAmong(todo[d])
    BY <1>1 DEF Alone
  <2>2. QED BY <1>1, <2>1 DEF RuledOut, NotAmong
<1>3. QED BY <1>1, <1>2, Quietly

----------------------------------------------------------------------------
(* The contract: its actions, one by one *)

LEMMA FitAreProviders == Fit' \subseteq Providers
  BY DEF Fit

LEMMA NotAmongTail ==
    ASSUME NEW s \in Seq(Providers), s # <<>>
    PROVE  /\ Head(s) \in Providers
           /\ \/ NotAmong(Tail(s)) = NotAmong(s)
              \/ NotAmong(Tail(s)) = NotAmong(s) \cup {Head(s)}
<1>1. /\ Head(s) \in Providers /\ Head(s) = s[1] /\ Len(s) \in Nat /\ Len(s) >= 1
      /\ Tail(s) \in Seq(Providers) /\ Len(Tail(s)) = Len(s) - 1
      /\ \A i \in 1..(Len(s) - 1) : Tail(s)[i] = s[i + 1]
  OBVIOUS
<1>2. ASSUME NEW p \in Providers
      PROVE  p \in NotAmong(s) <=> p \in NotAmong(Tail(s)) /\ p # Head(s)
  <2>1. ASSUME p \in NotAmong(s) PROVE p \in NotAmong(Tail(s)) /\ p # Head(s)
    BY <1>1, <2>1 DEF NotAmong
  <2>2. ASSUME p \in NotAmong(Tail(s)), p # Head(s) PROVE p \in NotAmong(s)
    <3>1. ASSUME NEW i \in 1..Len(s) PROVE s[i] # p
      <4>1. CASE i = 1
        BY <1>1, <2>2, <4>1
      <4>2. CASE i # 1
        <5>1. i - 1 \in 1..(Len(s) - 1) /\ (i - 1) + 1 = i
          BY <1>1, <4>2
        <5>2. DOMAIN Tail(s) = 1..(Len(s) - 1)
          BY <1>1
        <5>3. \A j \in DOMAIN Tail(s) : Tail(s)[j] # p
          BY <2>2 DEF NotAmong
        <5>4. Tail(s)[i - 1] # p
          BY <5>1, <5>2, <5>3
        <5>5. Tail(s)[i - 1] = s[(i - 1) + 1]
          BY <1>1, <5>1
        <5>6. QED BY <5>1, <5>4, <5>5
      <4>3. QED BY <4>1, <4>2
    <3>2. DOMAIN s = 1..Len(s)
      OBVIOUS
    <3>3. QED BY <3>1, <3>2 DEF NotAmong
  <2>3. QED BY <2>1, <2>2
<1>3. NotAmong(s) \subseteq Providers /\ NotAmong(Tail(s)) \subseteq Providers
  BY DEF NotAmong
<1>4. CASE Head(s) \in NotAmong(Tail(s))
  BY <1>1, <1>2, <1>3, <1>4
<1>5. CASE Head(s) \notin NotAmong(Tail(s))
  BY <1>1, <1>2, <1>3, <1>5
<1>6. QED BY <1>1, <1>4, <1>5

\* A provider is passed over: it is ruled out, unless one was found before.
LEMMA SkipRulesOut ==
    ASSUME RouterInv, NEW c \in Callers, pc[c] \in Selecting, todo[c] # <<>>,
           Skip(c), UNCHANGED <<best, held>>, Left' = Left, Head(todo[c]) \notin Fit
    PROVE  Contract!Next
<1>1. /\ pc \in [Callers -> PC] /\ todo \in [Callers -> Seq(Providers)]
      /\ todo[c] \in Seq(Providers)
  BY DEF RouterInv, TypeOK, CallerType
<1>2. /\ Alone(c) /\ pc'[c] = "scan" /\ todo'[c] = Tail(todo[c])
      /\ best'[c].provider = best[c].provider
  BY <1>1 DEF Skip, Alone
<1>3. StageOf(pc'[c], best'[c].provider) = StageOf(pc[c], best[c].provider)
  BY <1>2, StagesOf
<1>4. CASE Stage[c] # "asking" \/ NotAmong(todo'[c]) = NotAmong(todo[c])
  BY <1>2, <1>3, <1>4, QuietCaller
<1>5. CASE Stage[c] = "asking" /\ NotAmong(todo'[c]) = NotAmong(todo[c]) \cup {Head(todo[c])}
  <2>1. Stage' = [Stage EXCEPT ![c] = Stage[c]] /\ Stage'[c] = "asking"
    BY <1>2, <1>3, <1>5, StageMoves DEF Stage
  <2>2. UNCHANGED Stage
    BY <2>1 DEF Stage
  <2>3. RuledOut[c] = NotAmong(todo[c])
    BY <1>5 DEF RuledOut
  <2>4. RuledOut' = [RuledOut EXCEPT ![c] = RuledOut[c] \cup {Head(todo[c])}]
    BY <1>2, <1>5, <2>1, <2>3, RuledOutMoves
  <2>5. Contract!RuleOut(c, Head(todo[c]))
    BY <1>5, <2>2, <2>4 DEF Contract!RuleOut
  <2>6. Head(todo[c]) \in Providers
    BY <1>1, NotAmongTail
  <2>7. QED BY <2>5, <2>6, FitAreProviders DEF Contract!Next
<1>6. QED BY <1>1, <1>2, <1>4, <1>5, NotAmongTail

\* A provider is found, the first or another one.
LEMMA FindingSettles ==
    ASSUME NEW c \in Callers, Alone(c), pc[c] \in Selecting, pc'[c] \in Selecting,
           best'[c].provider # NoProvider, Left' = Left, UNCHANGED held
    PROVE  Contract!Next
<1>1. StageOf(pc'[c], best'[c].provider) = "settled"
  BY StagesOf
<1>2. CASE best[c].provider # NoProvider
  <2>1. StageOf(pc[c], best[c].provider) = "settled" /\ Stage[c] = "settled"
    BY <1>2, StagesOf DEF Stage
  <2>2. QED BY <1>1, <2>1, QuietCaller
<1>3. CASE best[c].provider = NoProvider
  <2>1. Stage[c] = "asking"
    BY <1>3, StagesOf DEF Stage
  <2>2. Stage' = [Stage EXCEPT ![c] = "settled"] /\ Stage'[c] = "settled"
    BY <1>1, StageMoves
  <2>3. RuledOut' = [RuledOut EXCEPT ![c] = {}]
    BY <2>2, RuledOutMoves
  <2>4. Contract!Settle(c)
    BY <2>1, <2>2, <2>3 DEF Contract!Settle, Contract!Move
  <2>5. QED BY <2>4, FitAreProviders DEF Contract!Next
<1>4. QED BY <1>2, <1>3

LEMMA BeginAsks ==
    ASSUME RouterInv, NEW c \in Callers, SelectBegin(c)
    PROVE  Contract!Next
<1>1. /\ pc \in [Callers -> PC] /\ todo \in [Callers -> Seq(Providers)]
      /\ rrIndex \in 0..Len(Registered) /\ best[c].provider = NoProvider
  BY DEF RouterInv, TypeOK, CallerType, TokenReserved, SelectBegin
<1>2. PICK order \in ScanOrders : todo' = [todo EXCEPT ![c] = order]
  BY DEF SelectBegin
<1>3. /\ Alone(c) /\ pc[c] = "idle" /\ pc'[c] = "scan" /\ best'[c].provider = NoProvider
      /\ todo'[c] = order /\ Left' = Left /\ UNCHANGED held
  BY <1>1, <1>2, SameLeft DEF SelectBegin, Alone, routerVars
<1>4. Stage[c] = "out"
  BY <1>3, StagesOf DEF Stage
<1>5. Stage' = [Stage EXCEPT ![c] = "asking"] /\ Stage'[c] = "asking"
  BY <1>3, StagesOf, StageMoves
<1>6. RuledOut' = [RuledOut EXCEPT ![c] = {}]
  BY <1>1, <1>3, <1>5, ScanCovers, RuledOutMoves
<1>7. RuledOut' = RuledOut
  BY <1>4, <1>6 DEF RuledOut
<1>8. Contract!Ask(c)
  BY <1>3, <1>4, <1>5, <1>7 DEF Contract!Ask, Contract!Move
<1>9. QED BY <1>8, FitAreProviders DEF Contract!Next

\* The three checks of IsAvailable: who fails one is not fit at that moment.
LEMMA BreakerCheckContract ==
    ASSUME RouterInv, NEW c \in Callers, CheckBreaker(c)
    PROVE  Contract!Next
<1>1. pc \in [Callers -> PC] /\ todo \in [Callers -> Seq(Providers)]
  BY DEF RouterInv, TypeOK, CallerType
<1>2. pc[c] = "scan" /\ todo[c] # <<>> /\ UNCHANGED <<best, held>> /\ Left' = Left
  BY SameLeft DEF CheckBreaker
<1>3. \/ Skip(c) /\ (PaidAway(Head(todo[c])) \/ ~Allows(cb[Head(todo[c])], CBTimeout[Head(todo[c])]))
      \/ pc' = [pc EXCEPT ![c] = "exhausted"] /\ UNCHANGED todo
  BY DEF CheckBreaker
<1>4. CASE Skip(c) /\ (PaidAway(Head(todo[c])) \/ ~Allows(cb[Head(todo[c])], CBTimeout[Head(todo[c])]))
  <2>1. Head(todo[c]) \notin Fit
    BY <1>4 DEF Fit
  <2>2. QED BY <1>2, <1>4, <2>1, SkipRulesOut DEF Selecting
<1>5. CASE pc' = [pc EXCEPT ![c] = "exhausted"] /\ UNCHANGED todo
  <2>1. Alone(c) /\ pc'[c] = "exhausted" /\ UNCHANGED todo
    BY <1>1, <1>2, <1>5 DEF Alone
  <2>2. StageOf(pc'[c], best'[c].provider) = StageOf(pc[c], best[c].provider)
    BY <1>2, <2>1, StagesOf DEF Selecting
  <2>3. QED BY <1>2, <2>1, <2>2, QuietCaller
<1>6. QED BY <1>3, <1>4, <1>5

LEMMA ExhaustedCheckContract ==
    ASSUME RouterInv, NEW c \in Callers, CheckExhausted(c)
    PROVE  Contract!Next
<1> DEFINE h == Head(todo[c])
<1>1. pc \in [Callers -> PC] /\ todo \in [Callers -> Seq(Providers)]
  BY DEF RouterInv, TypeOK, CallerType
<1>2. pc[c] = "exhausted" /\ todo[c] # <<>> /\ UNCHANGED <<best, held>> /\ ResetWindow(h)
  BY DEF CheckExhausted, RouterInv, TokenReserved, Selecting
<1>3. h \in Providers
  BY <1>1, <1>2, NotAmongTail
<1>4. Left' = Left
  BY <1>2, <1>3, ResetKeepsLeft
<1>5. \/ Skip(c) /\ IsExhausted(rl[h], RateLimit[h], RateWindow[h])
      \/ pc' = [pc EXCEPT ![c] = "outliers"] /\ UNCHANGED todo
  BY DEF CheckExhausted
<1>6. CASE Skip(c) /\ IsExhausted(rl[h], RateLimit[h], RateWindow[h])
  <2>1. h \notin Fit
    BY <1>6 DEF Fit
  <2>2. QED BY <1>2, <1>4, <1>6, <2>1, SkipRulesOut DEF Selecting
<1>7. CASE pc' = [pc EXCEPT ![c] = "outliers"] /\ UNCHANGED todo
  <2>1. Alone(c) /\ pc'[c] = "outliers" /\ UNCHANGED todo
    BY <1>1, <1>2, <1>7 DEF Alone
  <2>2. StageOf(pc'[c], best'[c].provider) = StageOf(pc[c], best[c].provider)
    BY <1>2, <2>1, StagesOf DEF Selecting
  <2>3. QED BY <1>2, <1>4, <2>1, <2>2, QuietCaller
<1>8. QED BY <1>5, <1>6, <1>7

LEMMA OutlierCheckContract ==
    ASSUME RouterInv, NEW c \in Callers, CheckOutliers(c)
    PROVE  Contract!Next
<1> DEFINE h == Head(todo[c])
<1>1. /\ pc \in [Callers -> PC] /\ todo \in [Callers -> Seq(Providers)]
      /\ best \in [Callers -> Best]
  BY DEF RouterInv, TypeOK, CallerType
<1>2. pc[c] = "outliers" /\ todo[c] # <<>> /\ UNCHANGED held /\ Left' = Left
  BY SameLeft DEF CheckOutliers, RouterInv, TokenReserved, Selecting, routerVars
<1>3. h \in Providers
  BY <1>1, <1>2, NotAmongTail
<1>4. accuracy[h].outliers \in Nat
  BY <1>3, RouterConstants DEF RouterInv, TypeOK, ScoreType, Accuracy
<1>5. \/ accuracy[h].outliers >= OutlierLimit /\ Skip(c) /\ UNCHANGED best
      \/ pc' = [pc EXCEPT ![c] = "snapshot"] /\ UNCHANGED <<todo, best>>
      \/ /\ pc' = [pc EXCEPT ![c] = "scan"] /\ todo' = [todo EXCEPT ![c] = <<>>]
         /\ best' = [best EXCEPT ![c] = [provider |-> h, score |-> <<0, 1>>]]
  BY Zenon DEF CheckOutliers
<1>6. CASE accuracy[h].outliers >= OutlierLimit /\ Skip(c) /\ UNCHANGED best
  <2>1. ~(accuracy[h].outliers < OutlierLimit)
    BY <1>4, <1>6, RouterConstants
  <2> HIDE DEF h
  <2>2. h \notin Fit
    BY <2>1 DEF Fit
  <2>3. QED BY <1>2, <1>6, <2>2, SkipRulesOut DEF Selecting, h
<1>7. CASE pc' = [pc EXCEPT ![c] = "snapshot"] /\ UNCHANGED <<todo, best>>
  <2>1. Alone(c) /\ pc'[c] = "snapshot" /\ UNCHANGED <<todo, best>>
    BY <1>1, <1>2, <1>7 DEF Alone
  <2>2. StageOf(pc'[c], best'[c].provider) = StageOf(pc[c], best[c].provider)
    BY <1>2, <2>1, StagesOf DEF Selecting
  <2>3. QED BY <1>2, <2>1, <2>2, QuietCaller
<1>8. CASE /\ pc' = [pc EXCEPT ![c] = "scan"] /\ todo' = [todo EXCEPT ![c] = <<>>]
           /\ best' = [best EXCEPT ![c] = [provider |-> h, score |-> <<0, 1>>]]
  <2>1. Alone(c) /\ pc'[c] = "scan" /\ best'[c].provider = h
    BY <1>1, <1>8 DEF Alone
  <2>2. best'[c].provider # NoProvider
    BY <1>3, <2>1, RouterConstants
  <2>3. QED BY <1>2, <2>1, <2>2, FindingSettles DEF Selecting
<1>9. QED BY <1>5, <1>6, <1>7, <1>8

LEMMA SnapshotContract ==
    ASSUME RouterInv, NEW c \in Callers, TakeSnapshot(c)
    PROVE  Contract!Next
<1> DEFINE h == Head(todo[c])
<1>1. /\ pc \in [Callers -> PC] /\ todo \in [Callers -> Seq(Providers)]
      /\ best \in [Callers -> Best]
  BY DEF RouterInv, TypeOK, CallerType
<1>2. pc[c] = "snapshot" /\ todo[c] # <<>> /\ UNCHANGED held /\ ResetWindow(h)
  BY DEF TakeSnapshot, RouterInv, TokenReserved, Selecting
<1>3. h \in Providers
  BY <1>1, <1>2, NotAmongTail
<1>4. Left' = Left
  BY <1>2, <1>3, ResetKeepsLeft
<1>5. Alone(c) /\ pc'[c] = "scan"
  BY <1>1 DEF TakeSnapshot, Alone
<1>6. best'[c] = IF best[c].provider = NoProvider \/ Greater(Score(h), best[c].score)
                 THEN [provider |-> h, score |-> Score(h)] ELSE best[c]
  BY <1>1, Zenon DEF TakeSnapshot
<1>7. best'[c].provider # NoProvider
  <2>1. h # NoProvider
    BY <1>3, RouterConstants
  <2>2. CASE best'[c] = [provider |-> h, score |-> Score(h)]
    <3>1. best'[c].provider = h
      BY <2>2
    <3>2. QED BY <2>1, <3>1, Zenon
  <2>3. CASE best[c].provider # NoProvider /\ best'[c] = best[c]
    BY <2>3, Zenon
  <2>4. QED BY <1>6, <2>2, <2>3, Zenon
<1>8. QED BY <1>2, <1>4, <1>5, <1>7, FindingSettles DEF Selecting

\* What Consume takes is one of the calls that are left.
LEMMA ConsumeTakesOne ==
    ASSUME NEW l \in Nat, NEW w \in Nat, NEW r \in Tracker(l, w), r.remaining > 0
    PROVE  /\ Remaining(r, l, w) > 0
           /\ Remaining(Consume(r, l, w), l, w) = Remaining(r, l, w) - 1
  BY DEF Tracker, Consume, Remaining, CheckReset, NewRateLimitTracker, WindowOver

LEMMA ReturnGrants ==
    ASSUME RouterInv, FreeOnly, NEW c \in Callers, SelectReturn(c)
    PROVE  Contract!Next
<1> DEFINE p == best[c].provider
<1>1. /\ pc \in [Callers -> PC] /\ best \in [Callers -> Best]
      /\ rl \in [Providers -> [remaining : Nat, windowAge : Nat]]
  BY DEF RouterInv, TypeOK, CallerType, TrackerType
<1>2. /\ pc[c] = "scan" /\ p # NoProvider /\ p \in Providers /\ rl[p].remaining > 0
      /\ rl[p] \in Tracker(RateLimit[p], RateWindow[p])
      /\ RateLimit[p] \in Nat /\ RateWindow[p] \in Nat
  BY RouterConstants DEF SelectReturn, RouterInv, TypeOK, CallerType, TrackerType, Best, TokenReserved
<1>3. /\ rl' = [rl EXCEPT ![p] = Consume(rl[p], RateLimit[p], RateWindow[p])]
      /\ held' = [held EXCEPT ![c] = p]
      /\ Alone(c) /\ pc'[c] = "holding" /\ UNCHANGED todo
  BY <1>1 DEF SelectReturn, Alone
<1>4. p \notin IF AllowPaid THEN {} ELSE Paid
  BY <1>2 DEF FreeOnly, PaidAway
<1> HIDE DEF p
<1>5. Left[p] > 0 /\ Left' = [Left EXCEPT ![p] = Left[p] - 1]
  <2>1. /\ Left[p] = Remaining(rl[p], RateLimit[p], RateWindow[p])
        /\ Left[p] > 0
        /\ Remaining(rl'[p], RateLimit[p], RateWindow[p]) = Left[p] - 1
    BY <1>1, <1>2, <1>3, ConsumeTakesOne DEF Left
  <2>2. \A q \in Providers \ {p} : rl'[q] = rl[q]
    BY <1>1, <1>3
  <2>3. QED BY <1>2, <2>1, <2>2 DEF Left
<1>6. Stage[c] = "settled"
  BY <1>2, StagesOf DEF Stage, p, Selecting
<1>7. Stage' = [Stage EXCEPT ![c] = "holding"] /\ Stage'[c] = "holding"
  BY <1>3, StagesOf, StageMoves
<1>8. RuledOut' = [RuledOut EXCEPT ![c] = {}]
  BY <1>3, <1>7, RuledOutMoves
<1>9. UNCHANGED RuledOut
  BY <1>6, <1>8 DEF RuledOut
<1>10. Contract!Grant(c, p)
  BY <1>3, <1>4, <1>5, <1>6, <1>7, <1>9 DEF Contract!Grant, Contract!Move
<1>11. QED BY <1>2, <1>10, FitAreProviders DEF Contract!Next

LEMMA ErrorFails ==
    ASSUME RouterInv, NEW c \in Callers, SelectError(c)
    PROVE  Contract!Next
<1>1. pc \in [Callers -> PC]
  BY DEF RouterInv, TypeOK, CallerType
<1>2. /\ pc[c] = "scan" /\ pc'[c] = "idle" /\ todo[c] = <<>> /\ best[c].provider = NoProvider
      /\ Alone(c) /\ UNCHANGED held /\ Left' = Left
  BY <1>1, SameLeft DEF SelectError, Alone, routerVars
<1>3. Stage[c] = "asking"
  BY <1>2, StagesOf DEF Stage, Selecting
<1>4. RuledOut[c] = Providers
  BY <1>2, <1>3 DEF RuledOut, NotAmong
<1>5. Stage' = [Stage EXCEPT ![c] = "out"] /\ Stage'[c] = "out"
  BY <1>2, StagesOf, StageMoves
<1>6. RuledOut' = [RuledOut EXCEPT ![c] = {}]
  BY <1>2, <1>5, RuledOutMoves
<1>7. Contract!Fail(c)
  BY <1>2, <1>3, <1>4, <1>5, <1>6 DEF Contract!Fail, Contract!Move
<1>8. QED BY <1>7, FitAreProviders DEF Contract!Next

LEMMA ReportsContract ==
    ASSUME RouterInv, NEW c \in Callers, ReportStep(c)
    PROVE  Contract!Next
<1>1. pc \in [Callers -> PC]
  BY DEF RouterInv, TypeOK, CallerType
<1>2. Left' = Left
  BY SameLeft DEF ReportStep, ReportSuccess, RecordLatency, ReportFailure, Return, routerVars
<1>3. pc[c] \in {"holding", "latency", "validating"} /\ UNCHANGED <<todo, best>>
  BY DEF ReportStep, ReportSuccess, RecordLatency, ReportFailure, Return
<1>4. Stage[c] = "holding" /\ StageOf(pc[c], best[c].provider) = "holding"
  BY <1>3, StagesOf DEF Stage
<1>5. CASE ReportSuccess(c) \/ RecordLatency(c)
  <2>1. Alone(c) /\ pc'[c] \in {"holding", "latency", "validating"} /\ UNCHANGED held
    BY <1>1, <1>3, <1>5 DEF ReportSuccess, RecordLatency, Alone
  <2>2. StageOf(pc'[c], best'[c].provider) = "holding"
    BY <2>1, StagesOf
  <2>3. QED BY <1>2, <1>4, <2>1, <2>2, QuietCaller
<1>6. CASE ReportFailure(c) \/ Return(c)
  <2>1. Alone(c) /\ pc'[c] = "idle" /\ held' = [held EXCEPT ![c] = NoProvider]
    BY <1>1, <1>3, <1>6 DEF ReportFailure, Return, Release, Alone
  <2>2. Stage' = [Stage EXCEPT ![c] = "out"] /\ Stage'[c] = "out"
    BY <2>1, StagesOf, StageMoves
  <2>3. RuledOut' = [RuledOut EXCEPT ![c] = {}]
    BY <2>1, <2>2, RuledOutMoves
  <2>4. UNCHANGED RuledOut
    BY <1>4, <2>3 DEF RuledOut
  <2>5. Contract!Release(c)
    BY <1>2, <1>4, <2>1, <2>2, <2>4 DEF Contract!Release, Contract!Move
  <2>6. QED BY <2>5, FitAreProviders DEF Contract!Next
<1>7. QED BY <1>5, <1>6 DEF ReportStep

\* The clock: the windows that it brings to their end are those that elapse.
LEMMA TickElapses ==
    ASSUME RouterInv, Tick
    PROVE  Contract!Next
<1>1. /\ rl \in [Providers -> [remaining : Nat, windowAge : Nat]]
      /\ rl' = [p \in Providers |-> AgeTracker(rl[p], RateWindow[p])]
      /\ \A p \in Providers : RateWindow[p] \in Nat
      /\ UNCHANGED <<pc, todo, best, held>>
  BY RouterConstants DEF RouterInv, TypeOK, TrackerType, Tick, callerVars
<1> DEFINE over == {p \in Providers : WindowOver(rl'[p], RateWindow[p])}
<1>2. ASSUME NEW p \in Providers
      PROVE  Remaining(rl'[p], RateLimit[p], RateWindow[p])
               = IF WindowOver(rl'[p], RateWindow[p]) THEN RateLimit[p]
                 ELSE Remaining(rl[p], RateLimit[p], RateWindow[p])
  <2>1. rl[p] \in [remaining : Nat, windowAge : Nat] /\ rl'[p] = AgeTracker(rl[p], RateWindow[p])
        /\ RateWindow[p] \in Nat
    BY <1>1
  <2>2. QED BY <2>1 DEF Remaining, CheckReset, NewRateLimitTracker, WindowOver, AgeTracker
<1>3. Left' = [p \in Providers |-> IF p \in over THEN RateLimit[p] ELSE Left[p]]
  BY <1>2 DEF Left
<1>4. over \in SUBSET Providers
  OBVIOUS
<1> HIDE DEF over
<1>5. UNCHANGED <<Stage, RuledOut>>
  BY <1>1 DEF Stage, RuledOut, NotAmong
<1>6. Contract!Elapse
  BY <1>1, <1>3, <1>4, <1>5 DEF Contract!Elapse
<1>7. QED BY <1>6, FitAreProviders DEF Contract!Next

LEMMA ContractStep == RouterInv /\ FreeOnly /\ [Next]_vars => [Contract!Next]_(Contract!vars)
<1> SUFFICES ASSUME RouterInv, FreeOnly, [Next]_vars PROVE Contract!Next
  OBVIOUS
<1>1. ASSUME NEW c \in Callers, SelectStep(c) PROVE Contract!Next
  BY <1>1, BreakerCheckContract, ExhaustedCheckContract, OutlierCheckContract, SnapshotContract,
     ReturnGrants, ErrorFails DEF SelectStep
<1>2. ASSUME UNCHANGED <<pc, todo, best, held>>, Left' = Left PROVE Contract!Next
  <2>1. UNCHANGED <<Stage, RuledOut>>
    BY <1>2 DEF Stage, RuledOut, NotAmong
  <2>2. QED BY <1>2, <2>1, Quietly
<1>3. ASSUME NEW p \in Providers, ReportAccurate(p) \/ ReportOutlier(p) PROVE Contract!Next
  BY <1>2, <1>3, SameLeft DEF ReportAccurate, ReportOutlier, callerVars
<1>4. ASSUME NEW p \in Providers, ReadStatus(p) PROVE Contract!Next
  BY <1>2, <1>4, ResetKeepsLeft DEF ReadStatus, callerVars
<1>5. CASE UNCHANGED vars
  BY <1>2, <1>5, SameLeft DEF vars
<1>6. QED BY <1>1, <1>3, <1>4, <1>5, BeginAsks, ReportsContract, TickElapses DEF Next

LEMMA ContractInit == Init => Contract!Init
<1> SUFFICES ASSUME Init PROVE Contract!Init
  OBVIOUS
<1>1. /\ \A p \in Providers : rl[p] = NewRateLimitTracker(RateLimit[p])
      /\ \A c \in Callers : pc[c] = "idle"
      /\ held = [c \in Callers |-> NoProvider]
  BY DEF Init
<1>2. Fit \subseteq Providers
  BY DEF Fit
<1>3. Left = RateLimit
  <2>1. \A p \in Providers : Remaining(rl[p], RateLimit[p], RateWindow[p]) = RateLimit[p]
    <3> SUFFICES ASSUME NEW p \in Providers
                 PROVE  Remaining(rl[p], RateLimit[p], RateWindow[p]) = RateLimit[p]
      OBVIOUS
    <3>1. RateWindow[p] \in Nat
      BY RouterConstants
    <3>2. rl[p] = [remaining |-> RateLimit[p], windowAge |-> 0]
      BY <1>1 DEF NewRateLimitTracker
    <3>3. ~WindowOver(rl[p], RateWindow[p])
      BY <3>1, <3>2 DEF WindowOver
    <3>4. QED BY <3>2, <3>3 DEF Remaining, CheckReset
  <2>2. RateLimit \in [Providers -> Nat]
    BY RouterConstants
  <2>3. QED BY <2>1, <2>2 DEF Left
<1>4. Stage = [c \in Callers |-> "out"]
  BY <1>1, StagesOf DEF Stage
<1>5. RuledOut = [c \in Callers |-> {}]
  BY <1>4 DEF RuledOut
<1>6. QED BY <1>1, <1>2, <1>3, <1>4, <1>5 DEF Contract!Init

\* For every strategy and any number of providers and concurrent callers, the
\* router implements RouterContract: ErrNoHealthyProvider only when each
\* provider was unavailable at some moment of this very scan, never once one was
\* found available; a provider that is given has a call left, and loses it.
THEOREM RouterHonoursContract == Spec => HonoursContract
<1>1. Init => RouterInv /\ FreeOnly /\ Contract!Init
  BY InitInv, FreeInit, ContractInit
<1>2. RouterInv /\ FreeOnly /\ [Next]_vars => (RouterInv /\ FreeOnly)'
  BY NextInv, FreeNext
<1>3. RouterInv /\ FreeOnly /\ [Next]_vars => [Contract!Next]_(Contract!vars)
  BY ContractStep
<1>4. QED BY <1>1, <1>2, <1>3, PTL DEF Spec, HonoursContract, Contract!Spec

----------------------------------------------------------------------------
(* Select comes to its end *)

LEMMA Efforts ==
    ASSUME NEW s
    PROVE  /\ Effort("scan", s) = 4 * Len(s) + 3
           /\ Effort("exhausted", s) = 4 * Len(s) + 2
           /\ Effort("outliers", s) = 4 * Len(s) + 1
           /\ Effort("snapshot", s) = 4 * Len(s) + 0
  BY DEF Effort

\* To look at the next provider, or at none any more, is less to do.
LEMMA LessToDo ==
    ASSUME NEW s \in Seq(Providers), s # <<>>, NEW ph \in Selecting
    PROVE  /\ Effort("scan", Tail(s)) < Effort(ph, s)
           /\ ph = "outliers" => Effort("scan", <<>>) < Effort(ph, s)
<1> DEFINE n == Len(s)
<1>1. n \in Nat /\ n >= 1 /\ Len(Tail(s)) = n - 1 /\ Len(<<>>) = 0
  OBVIOUS
<1>2. Effort("scan", Tail(s)) = 4 * (n - 1) + 3 /\ Effort("scan", <<>>) = 4 * 0 + 3
  BY <1>1, Efforts
<1>3. /\ ph = "scan" => Effort(ph, s) = 4 * n + 3
      /\ ph = "exhausted" => Effort(ph, s) = 4 * n + 2
      /\ ph = "outliers" => Effort(ph, s) = 4 * n + 1
      /\ ph = "snapshot" => Effort(ph, s) = 4 * n + 0
  BY Efforts
<1>4. ph \in {"scan", "exhausted", "outliers", "snapshot"}
  BY DEF Selecting
<1> HIDE DEF n
<1>5. QED BY <1>1, <1>2, <1>3, <1>4

\* And so is the next check.
LEMMA Onward ==
    ASSUME NEW s \in Seq(Providers)
    PROVE  /\ Effort("exhausted", s) < Effort("scan", s)
           /\ Effort("outliers", s) < Effort("exhausted", s)
           /\ Effort("snapshot", s) < Effort("outliers", s)
<1> DEFINE n == Len(s)
<1>1. n \in Nat
  OBVIOUS
<1>2. /\ Effort("scan", s) = 4 * n + 3 /\ Effort("exhausted", s) = 4 * n + 2
      /\ Effort("outliers", s) = 4 * n + 1 /\ Effort("snapshot", s) = 4 * n + 0
  BY Efforts
<1> HIDE DEF n
<1>3. QED BY <1>1, <1>2

\* For any number of providers and callers: a Select takes at most four steps for
\* each provider, and what goes on beside it never sends it back.
THEOREM SelectsAdvance == Spec => SelectAdvances
<1> DEFINE Advance ==
      \A c \in Callers :
         pc[c] \in Selecting /\ pc'[c] \in Selecting =>
            \/ pc'[c] = pc[c] /\ todo'[c] = todo[c]
            \/ Effort(pc'[c], todo'[c]) < Effort(pc[c], todo[c])
<1>1. RouterInv /\ [Next]_vars => [Advance]_vars
  <2> SUFFICES ASSUME RouterInv, [Next]_vars, NEW c \in Callers,
                      pc[c] \in Selecting, pc'[c] \in Selecting
               PROVE  \/ pc'[c] = pc[c] /\ todo'[c] = todo[c]
                      \/ Effort(pc'[c], todo'[c]) < Effort(pc[c], todo[c])
    OBVIOUS
  <2>1. /\ pc \in [Callers -> PC] /\ todo \in [Callers -> Seq(Providers)]
        /\ todo[c] \in Seq(Providers)
    BY DEF RouterInv, TypeOK, CallerType
  <2>2. ASSUME NEW d \in Callers, SelectBegin(d) \/ SelectStep(d) \/ ReportStep(d), d # c
        PROVE  pc'[c] = pc[c] /\ todo'[c] = todo[c]
    <3>1. CASE SelectBegin(d)
      BY <2>1, <2>2, <3>1 DEF SelectBegin
    <3>2. CASE ReportStep(d)
      BY <2>1, <2>2, <3>2 DEF ReportStep, ReportSuccess, RecordLatency, ReportFailure, Return, Release
    <3>3. CASE CheckBreaker(d) \/ CheckExhausted(d) \/ CheckOutliers(d)
      BY <2>1, <2>2, <3>3 DEF CheckBreaker, CheckExhausted, CheckOutliers, Skip
    <3>4. CASE TakeSnapshot(d) \/ SelectReturn(d) \/ SelectError(d)
      BY <2>1, <2>2, <3>4 DEF TakeSnapshot, SelectReturn, SelectError
    <3>5. QED BY <2>2, <3>1, <3>2, <3>3, <3>4 DEF SelectStep
  <2>3. ASSUME SelectBegin(c) \/ ReportStep(c) PROVE FALSE
    BY <2>3 DEF SelectBegin, ReportStep, ReportSuccess, RecordLatency, ReportFailure, Return
  <2>4. ASSUME SelectReturn(c) \/ SelectError(c) PROVE FALSE
    BY <2>1, <2>4 DEF SelectReturn, SelectError
  <2>5. CASE todo[c] # <<>> /\ (Skip(c) \/ TakeSnapshot(c))
    <3>1. Effort("scan", Tail(todo[c])) < Effort(pc[c], todo[c])
      BY <2>1, <2>5, LessToDo
    <3>2. pc'[c] = "scan" /\ todo'[c] = Tail(todo[c])
      BY <2>1, <2>5 DEF Skip, TakeSnapshot
    <3>3. QED BY <3>1, <3>2
  <2>6. pc[c] # "scan" => todo[c] # <<>>
    BY DEF RouterInv, TokenReserved
  <2>7. CASE ~Skip(c) /\ (CheckBreaker(c) \/ CheckExhausted(c) \/ CheckOutliers(c))
    <3>1. \/ pc[c] = "scan" /\ pc'[c] = "exhausted" /\ todo'[c] = todo[c]
          \/ pc[c] = "exhausted" /\ pc'[c] = "outliers" /\ todo'[c] = todo[c]
          \/ pc[c] = "outliers" /\ pc'[c] = "snapshot" /\ todo'[c] = todo[c]
          \/ pc[c] = "outliers" /\ pc'[c] = "scan" /\ todo'[c] = <<>>
      BY <2>1, <2>7 DEF CheckBreaker, CheckExhausted, CheckOutliers
    <3>2. CASE todo'[c] = todo[c] /\ <<pc[c], pc'[c]>> \in {<<"scan", "exhausted">>,
                   <<"exhausted", "outliers">>, <<"outliers", "snapshot">>}
      BY <2>1, <3>2, Onward
    <3>3. CASE pc[c] = "outliers" /\ pc'[c] = "scan" /\ todo'[c] = <<>>
      BY <2>1, <2>6, <3>3, LessToDo
    <3>4. QED BY <3>1, <3>2, <3>3
  <2>8. ASSUME SelectStep(c) PROVE todo[c] # <<>> \/ SelectReturn(c) \/ SelectError(c)
    BY <2>6, <2>8 DEF SelectStep, CheckBreaker, CheckExhausted, CheckOutliers, TakeSnapshot
  <2>9. CASE \/ \E p \in Providers : ReportAccurate(p) \/ ReportOutlier(p) \/ ReadStatus(p)
             \/ Tick \/ UNCHANGED vars
    BY <2>9 DEF ReportAccurate, ReportOutlier, ReadStatus, Tick, callerVars, vars
  <2>10. QED BY <2>2, <2>3, <2>4, <2>5, <2>6, <2>7, <2>8, <2>9 DEF Next, SelectStep
<1>2. QED BY <1>1, RouterInvariant, PTL DEF Spec, SelectAdvances
=============================================================================
