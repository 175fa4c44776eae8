---------------------------- MODULE MultiRouter ----------------------------
(***************************************************************************)
(* internal/router: MultiRouter with its three strategies over the         *)
(* per-provider state (circuit breaker, rate limit, latency, accuracy).    *)
(*                                                                         *)
(* Select runs under r.mu, but everything it looks at has a lock of its    *)
(* own and changes under its feet: reports of other callers, lazy window   *)
(* resets by ProviderStatuses, the clock.  So a Select is a sequence of    *)
(* steps, one per inner critical section, of the caller that holds mu.     *)
(***************************************************************************)
EXTENDS CircuitBreaker, RateLimitTracker, Sequences, FiniteSets

CONSTANTS
    Providers,      \* the registered providers
    Callers,        \* goroutines that use the router
    NoProvider,     \* nil
    NoCaller,       \* r.mu is not held
    Strategy,       \* "smart", "priority" or "round_robin"
    Registered,     \* r.ordered: the providers in registration order
    Priority,       \* provider -> priority, smaller is preferred
    Paid,           \* providers of tier "paid"
    AllowPaid,      \* the strategies' allowPaid
    CBThreshold, CBTimeout, RateLimit, RateWindow,   \* provider -> setting
    CostPerCall,    \* provider -> cost
    Weights,        \* SmartWeights
    Latencies,      \* the latencies, in milliseconds, that can be reported
    OutlierLimit,   \* consecutive outliers that disable a provider (5)
    MaxResponses    \* bound: accuracy reports per provider

ASSUME RouterConstants ==
    /\ NoProvider \notin Providers
    /\ NoCaller \notin Callers
    /\ Strategy \in {"smart", "priority", "round_robin"}
    /\ Registered \in Seq(Providers)
    /\ \A p \in Providers : \E i \in 1..Len(Registered) : Registered[i] = p
    /\ \A i, j \in 1..Len(Registered) : Registered[i] = Registered[j] => i = j
    /\ Priority \in [Providers -> Int]
    /\ Paid \subseteq Providers
    /\ AllowPaid \in BOOLEAN
    /\ CBThreshold \in [Providers -> Nat \ {0}]
    /\ CBTimeout \in [Providers -> Nat]
    /\ RateLimit \in [Providers -> Nat]
    /\ RateWindow \in [Providers -> Nat]
    /\ CostPerCall \in [Providers -> Nat]
    /\ Weights \in [rate : Nat, latency : Nat, cost : Nat]
    /\ Latencies \subseteq Nat
    /\ OutlierLimit \in Nat \ {0}
    /\ MaxResponses \in Nat

VARIABLES
    cb,         \* provider -> CircuitBreaker
    rl,         \* provider -> RateLimitTracker
    latency,    \* provider -> LatencyTracker: the average, and whether count > 0
    accuracy,   \* provider -> OutlierCount, TotalResponses, AccurateCount
    rrIndex,    \* RoundRobinStrategy.index
    mu,         \* the holder of MultiRouter.mu
    pc,         \* caller -> where it is
    todo,       \* caller -> providers its Select has still to look at
    best,       \* caller -> best, bestScore of its Select
    held,       \* caller -> the provider Select gave it
    granted,    \* history: provider -> grants in the current rate window
    owed        \* history: provider -> providers not seen since its last grant

routerVars == <<cb, rl, latency, accuracy>>
callerVars == <<pc, todo, best, held>>
vars == <<cb, rl, latency, accuracy, rrIndex, mu, pc, todo, best, held, granted, owed>>

----------------------------------------------------------------------------
(* Types *)

PC == {"idle", "scan", "exhausted", "outliers", "snapshot",
       "holding", "latency", "validating"}

Selecting == {"scan", "exhausted", "outliers", "snapshot"}

\* A score is a fraction <<numerator, denominator>>; nil is better than nothing.
Best == [provider : Providers \cup {NoProvider}, score : Int \X Int]
NoBest == [provider |-> NoProvider, score |-> <<0, 1>>]

Accuracy ==
    {a \in [outliers : 0..OutlierLimit, total : 0..MaxResponses, accurate : 0..MaxResponses] :
        a.accurate <= a.total}
Latency == [avg : Latencies \cup {0}, sampled : BOOLEAN]

BreakerType ==
    /\ cb \in [Providers -> [state : CBState, failCount : Nat, sinceFail : Nat]]
    /\ \A p \in Providers : cb[p] \in Breaker(CBThreshold[p], CBTimeout[p])

TrackerType ==
    /\ rl \in [Providers -> [remaining : Nat, windowAge : Nat]]
    /\ \A p \in Providers : rl[p] \in Tracker(RateLimit[p], RateWindow[p])
    /\ granted \in [Providers -> Nat]

ScoreType ==
    /\ latency \in [Providers -> Latency]
    /\ accuracy \in [Providers -> Accuracy]

CallerType ==
    /\ rrIndex \in 0..Len(Registered)
    /\ mu \in Callers \cup {NoCaller}
    /\ pc \in [Callers -> PC]
    /\ todo \in [Callers -> Seq(Providers)]
    /\ best \in [Callers -> Best]
    /\ held \in [Callers -> Providers \cup {NoProvider}]
    /\ owed \in [Providers -> SUBSET Providers]

TypeOK == BreakerType /\ TrackerType /\ ScoreType /\ CallerType

----------------------------------------------------------------------------
(* Strategies: the order in which a Select looks at the providers *)

\* sort.Slice is not stable: providers of equal priority come in any order.
PriorityOrders ==
    {s \in [1..Len(Registered) -> Providers] :
        /\ \A p \in Providers : \E i \in DOMAIN s : s[i] = p
        /\ \A i, j \in DOMAIN s : i < j => Priority[s[i]] <= Priority[s[j]]}

RoundRobinOrder ==
    [i \in 1..Len(Registered) |-> Registered[((rrIndex + i - 1) % Len(Registered)) + 1]]

ScanOrders ==
    CASE Strategy = "smart"       -> {Registered}
      [] Strategy = "priority"    -> PriorityOrders
      [] Strategy = "round_robin" -> {RoundRobinOrder}

\* RoundRobin resumes after the provider it chose.
\* (Mutant: resumes at the provider itself.)
IndexAfter_Stays(p) == (CHOOSE i \in 1..Len(Registered) : Registered[i] = p) - 1

IndexAfter(p) ==
    (CHOOSE i \in 1..Len(Registered) : Registered[i] = p) % Len(Registered)

\* SmartStrategy.score of a provider's Snapshot, as a fraction.  A latency of
\* zero scores like one millisecond; without responses the accuracy is 1.
Score(p) ==
    LET ms    == IF latency[p].avg > 0 THEN latency[p].avg ELSE 1
        limit == IF RateLimit[p] = 0 THEN 1 ELSE RateLimit[p]
        left  == Remaining(rl[p], RateLimit[p], RateWindow[p])
        none  == accuracy[p].total = 0
    IN  << (Weights.rate * left * ms + Weights.latency * limit
              - Weights.cost * CostPerCall[p] * limit * ms)
             * (IF none THEN 1 ELSE accuracy[p].accurate),
           limit * ms * (IF none THEN 1 ELSE accuracy[p].total) >>

Greater(s, t) == s[1] * t[2] > t[1] * s[2]

----------------------------------------------------------------------------
(* The lazy window reset every RateLimitTracker method begins with *)

Resets(p) == WindowOver(rl[p], RateWindow[p])

ResetWindow(p) ==
    /\ rl' = [rl EXCEPT ![p] = CheckReset(@, RateLimit[p], RateWindow[p])]
    /\ granted' = [granted EXCEPT ![p] = IF Resets(p) THEN 0 ELSE @]

----------------------------------------------------------------------------
(* Select, step by step *)

\* r.mu, held from the begin of Select to its return.  (Mutants: Select does
\* not lock; a return path does not unlock.)
Lock_Missing(c) == mu' = c

Lock(c) == mu = NoCaller /\ mu' = c

Unlock_Missing == UNCHANGED mu

Unlock == mu' = NoCaller

SelectBegin(c) ==
    /\ pc[c] = "idle"
    /\ Lock(c)
    /\ pc' = [pc EXCEPT ![c] = "scan"]
    /\ \E order \in ScanOrders : todo' = [todo EXCEPT ![c] = order]
    /\ UNCHANGED <<routerVars, rrIndex, best, held, granted, owed>>

\* The scan leaves the provider at its head behind, as not available.  (Mutant:
\* it breaks off where it should continue.)
Skip_Break(c) ==
    /\ pc' = [pc EXCEPT ![c] = "scan"]
    /\ todo' = [todo EXCEPT ![c] = <<>>]
    /\ owed' = [p \in Providers |-> owed[p] \ {Head(todo[c])}]

Skip(c) ==
    /\ pc' = [pc EXCEPT ![c] = "scan"]
    /\ todo' = [todo EXCEPT ![c] = Tail(@)]
    /\ owed' = [p \in Providers |-> owed[p] \ {Head(todo[c])}]

PaidAway(p) == ~AllowPaid /\ p \in Paid

\* IsAvailable, up to CircuitBreaker.AllowRequest, which turns an open breaker
\* half-open even if the provider is not chosen in the end.
CheckBreaker(c) ==
    /\ pc[c] = "scan"
    /\ todo[c] # <<>>
    /\ LET p == Head(todo[c])
       IN  \/ /\ PaidAway(p)
              /\ Skip(c)
              /\ UNCHANGED cb
           \/ /\ ~PaidAway(p)
              /\ cb' = [cb EXCEPT ![p] = AllowRequest(@, CBTimeout[p])]
              /\ IF Allows(cb[p], CBTimeout[p])
                 THEN pc' = [pc EXCEPT ![c] = "exhausted"] /\ UNCHANGED <<todo, owed>>
                 ELSE Skip(c)
    /\ UNCHANGED <<rl, latency, accuracy, rrIndex, mu, best, held, granted>>

\* IsAvailable: RateLimit.IsExhausted.
CheckExhausted(c) ==
    /\ pc[c] = "exhausted"
    /\ LET p == Head(todo[c])
       IN  /\ ResetWindow(p)
           /\ IF IsExhausted(rl[p], RateLimit[p], RateWindow[p])
              THEN Skip(c)
              ELSE pc' = [pc EXCEPT ![c] = "outliers"] /\ UNCHANGED <<todo, owed>>
    /\ UNCHANGED <<cb, latency, accuracy, rrIndex, mu, best, held>>

\* IsAvailable: OutlierCount.  Priority and round robin stop at the first
\* available provider; the smart strategy goes on to score it.
CheckOutliers(c) ==
    /\ pc[c] = "outliers"
    /\ LET p == Head(todo[c])
       IN  \/ /\ accuracy[p].outliers >= OutlierLimit
              /\ Skip(c)
              /\ UNCHANGED <<best, rrIndex>>
           \/ /\ accuracy[p].outliers < OutlierLimit
              /\ Strategy = "smart"
              /\ pc' = [pc EXCEPT ![c] = "snapshot"]
              /\ UNCHANGED <<todo, best, rrIndex, owed>>
           \/ /\ accuracy[p].outliers < OutlierLimit
              /\ Strategy # "smart"
              /\ pc' = [pc EXCEPT ![c] = "scan"]
              /\ todo' = [todo EXCEPT ![c] = <<>>]
              /\ best' = [best EXCEPT ![c] = [provider |-> p, score |-> <<0, 1>>]]
              /\ rrIndex' = IF Strategy = "round_robin" THEN IndexAfter(p) ELSE rrIndex
              /\ UNCHANGED owed
    /\ UNCHANGED <<routerVars, mu, held, granted>>

\* SmartStrategy: Snapshot and score; only a strictly better one replaces best.
TakeSnapshot(c) ==
    /\ pc[c] = "snapshot"
    /\ LET p == Head(todo[c])
       IN  /\ ResetWindow(p)
           /\ best' = [best EXCEPT ![c] =
                  IF @.provider = NoProvider \/ Greater(Score(p), @.score)
                  THEN [provider |-> p, score |-> Score(p)]
                  ELSE @]
    /\ pc' = [pc EXCEPT ![c] = "scan"]
    /\ todo' = [todo EXCEPT ![c] = Tail(@)]
    /\ UNCHANGED <<cb, latency, accuracy, rrIndex, mu, held, owed>>

\* The strategy has chosen: consume a token, unlock, return the provider.
SelectReturn(c) ==
    /\ pc[c] = "scan"
    /\ todo[c] = <<>>
    /\ best[c].provider # NoProvider
    /\ LET p == best[c].provider
       IN  /\ rl' = [rl EXCEPT ![p] = Consume(@, RateLimit[p], RateWindow[p])]
           /\ granted' = [granted EXCEPT ![p] = IF Resets(p) THEN 1 ELSE @ + 1]
           /\ held' = [held EXCEPT ![c] = p]
           /\ owed' = IF Strategy = "round_robin"
                      THEN [q \in Providers |-> IF q = p THEN Providers \ {p}
                                                         ELSE owed[q] \ {p}]
                      ELSE owed
    /\ best' = [best EXCEPT ![c] = NoBest]
    /\ pc' = [pc EXCEPT ![c] = "holding"]
    /\ Unlock
    /\ UNCHANGED <<cb, latency, accuracy, rrIndex, todo>>

\* ErrNoHealthyProvider.
SelectError(c) ==
    /\ pc[c] = "scan"
    /\ todo[c] = <<>>
    /\ best[c].provider = NoProvider
    /\ pc' = [pc EXCEPT ![c] = "idle"]
    /\ Unlock
    /\ UNCHANGED <<routerVars, rrIndex, todo, best, held, granted, owed>>

----------------------------------------------------------------------------
(* Reports.  The caller is the price service: it reports the outcome of the *)
(* call, and a failure after the success if the price does not validate.    *)

Release(c) ==
    /\ pc' = [pc EXCEPT ![c] = "idle"]
    /\ held' = [held EXCEPT ![c] = NoProvider]

ReportSuccess(c) ==
    /\ pc[c] = "holding"
    /\ cb' = [cb EXCEPT ![held[c]] = RecordSuccess(@)]
    /\ pc' = [pc EXCEPT ![c] = "latency"]
    /\ UNCHANGED <<rl, latency, accuracy, rrIndex, mu, todo, best, held, granted, owed>>

\* LatencyTracker.Record under ps.mu: the first sample is the average; later
\* ones move the moving average to somewhere between itself and the sample.
RecordLatency(c) ==
    /\ pc[c] = "latency"
    /\ \E ms \in Latencies, avg \in Latencies :
         LET old == latency[held[c]]
         IN  /\ IF old.sampled
                THEN (old.avg <= avg /\ avg <= ms) \/ (ms <= avg /\ avg <= old.avg)
                ELSE avg = ms
             /\ latency' = [latency EXCEPT ![held[c]] = [avg |-> avg, sampled |-> TRUE]]
    /\ pc' = [pc EXCEPT ![c] = "validating"]
    /\ UNCHANGED <<cb, rl, accuracy, rrIndex, mu, todo, best, held, granted, owed>>

ReportFailure(c) ==
    /\ pc[c] \in {"holding", "validating"}
    /\ cb' = [cb EXCEPT ![held[c]] = RecordFailure(@, CBThreshold[held[c]])]
    /\ Release(c)
    /\ UNCHANGED <<rl, latency, accuracy, rrIndex, mu, todo, best, granted, owed>>

\* The caller is done, or drops a provider that it has tried before.
Return(c) ==
    /\ pc[c] \in {"holding", "validating"}
    /\ Release(c)
    /\ UNCHANGED <<routerVars, rrIndex, mu, todo, best, granted, owed>>

\* Exported, but called by tests only: nothing in the program scores accuracy.
ReportAccurate(p) ==
    /\ accuracy[p].total < MaxResponses
    /\ accuracy' = [accuracy EXCEPT ![p] =
           [outliers |-> 0, total |-> @.total + 1, accurate |-> @.accurate + 1]]
    /\ UNCHANGED <<cb, rl, latency, rrIndex, mu, callerVars, granted, owed>>

ReportOutlier(p) ==
    /\ accuracy[p].total < MaxResponses
    /\ accuracy' = [accuracy EXCEPT ![p] =
           [outliers |-> IF @.outliers < OutlierLimit THEN @.outliers + 1 ELSE @.outliers,
            total |-> @.total + 1, accurate |-> @.accurate]]
    /\ UNCHANGED <<cb, rl, latency, rrIndex, mu, callerVars, granted, owed>>

\* ProviderStatuses reads Remaining without r.mu; the read resets the window.
ReadStatus(p) ==
    /\ ResetWindow(p)
    /\ UNCHANGED <<cb, latency, accuracy, rrIndex, mu, callerVars, owed>>

Tick ==
    /\ cb' = [p \in Providers |-> AgeBreaker(cb[p], CBTimeout[p])]
    /\ rl' = [p \in Providers |-> AgeTracker(rl[p], RateWindow[p])]
    /\ UNCHANGED <<latency, accuracy, rrIndex, mu, callerVars, granted, owed>>

----------------------------------------------------------------------------

Init ==
    /\ cb = [p \in Providers |-> NewCircuitBreaker(CBTimeout[p])]
    /\ rl = [p \in Providers |-> NewRateLimitTracker(RateLimit[p])]
    /\ latency = [p \in Providers |-> [avg |-> 0, sampled |-> FALSE]]
    /\ accuracy = [p \in Providers |-> [outliers |-> 0, total |-> 0, accurate |-> 0]]
    /\ rrIndex = 0
    /\ mu = NoCaller
    /\ pc = [c \in Callers |-> "idle"]
    /\ todo = [c \in Callers |-> <<>>]
    /\ best = [c \in Callers |-> NoBest]
    /\ held = [c \in Callers |-> NoProvider]
    /\ granted = [p \in Providers |-> 0]
    /\ owed = [p \in Providers |-> {}]

SelectStep(c) ==
    \/ CheckBreaker(c) \/ CheckExhausted(c) \/ CheckOutliers(c) \/ TakeSnapshot(c)
    \/ SelectReturn(c) \/ SelectError(c)

ReportStep(c) ==
    ReportSuccess(c) \/ RecordLatency(c) \/ ReportFailure(c) \/ Return(c)

Next ==
    \/ \E c \in Callers : SelectBegin(c) \/ SelectStep(c) \/ ReportStep(c)
    \/ \E p \in Providers : ReportAccurate(p) \/ ReportOutlier(p) \/ ReadStatus(p)
    \/ Tick

Spec == Init /\ [][Next]_vars

\* A goroutine inside the router or holding a provider goes on (provider calls
\* end by the HTTP client's timeout), requests keep coming (the poller alone
\* sees to it), and the clock advances.
Fairness ==
    /\ \A c \in Callers : WF_vars(SelectStep(c)) /\ WF_vars(ReportStep(c))
    /\ WF_vars(\E c \in Callers : SelectBegin(c))
    /\ WF_vars(Tick)

FairSpec == Spec /\ Fairness

----------------------------------------------------------------------------
(* Properties *)

\* Concurrent callers never get more grants of a provider in one rate window
\* than its limit: Select checks IsExhausted and Consumes in two critical
\* sections of the tracker, and the router lock around them must be enough
\* whatever the lazy resets of ProviderStatuses do in between.
GrantsWithinLimit == \A p \in Providers : granted[p] <= RateLimit[p]

\* Whatever order reports of concurrent callers arrive in, late ones
\* included, a breaker is closed exactly when fewer than threshold failures
\* were reported since the last success, and half-open only after the
\* recovery timeout.  (So RecordFailure's test for half-open is redundant.)
BreakerSound == \A p \in Providers : BreakerOK(cb[p], CBThreshold[p], CBTimeout[p])

\* A Select about to return has chosen a provider.
Chosen(c) == pc[c] = "scan" /\ todo[c] = <<>> /\ best[c].provider # NoProvider

\* Round robin starves nobody: a provider is chosen again only after every
\* other one was granted or found unavailable since its last grant.
RoundRobinRotates ==
    Strategy = "round_robin" =>
        \A c \in Callers : Chosen(c) => owed[best[c].provider] = {}

\* The providers that IsAvailable would find available at this moment.
Fit ==
    {p \in Providers :
        /\ ~PaidAway(p) /\ Allows(cb[p], CBTimeout[p])
        /\ ~IsExhausted(rl[p], RateLimit[p], RateWindow[p])
        /\ accuracy[p].outliers < OutlierLimit}

\* What is left of a window: a reset that is due counts as done.
Left == [p \in Providers |-> Remaining(rl[p], RateLimit[p], RateWindow[p])]

\* Where a caller is for the contract, with pc ph and b the best provider so far.
StageOf(ph, b) ==
    CASE ph = "idle"                              -> "out"
      [] ph \in Selecting /\ b = NoProvider       -> "asking"
      [] ph \in Selecting /\ b # NoProvider       -> "settled"
      [] ph \in PC \ (Selecting \cup {"idle"})    -> "holding"

Stage == [c \in Callers |-> StageOf(pc[c], best[c].provider)]

\* A Select that has chosen none has ruled out whom it has no longer to look at.
NotAmong(s) == {p \in Providers : \A i \in DOMAIN s : s[i] # p}

RuledOut == [c \in Callers |-> IF Stage[c] = "asking" THEN NotAmong(todo[c]) ELSE {}]

Contract == INSTANCE RouterContract
    WITH fit <- Fit, left <- Left, stage <- Stage, ruledOut <- RuledOut, holds <- held,
         Limit <- RateLimit, Excluded <- IF AllowPaid THEN {} ELSE Paid

\* Select, a sequence of critical sections between which breakers, windows and
\* accuracy change, is what RouterContract promises: ErrNoHealthyProvider only
\* when each provider was unavailable at some moment of this very scan, never
\* after one was found available, and a provider always with a call it has left.
HonoursContract == Contract!Spec

\* Every Select ends, with a provider or with ErrNoHealthyProvider, and gives
\* the router lock back.
SelectTerminates == \A c \in Callers : mu = c ~> mu # c

\* The smart strategy looks at every provider, so that an open breaker is
\* probed (or closed by a late success) once its recovery timeout is over.
OpenIsProbed ==
    \A p \in Providers : p \notin Paid => (cb[p].state = "open" ~> cb[p].state # "open")

----------------------------------------------------------------------------
(* The inductive invariant behind GrantsWithinLimit *)

\* Only the holder of the router lock is inside Select.
LockHeld == \A c \in Callers : pc[c] \in Selecting <=> mu = c

\* Tokens are conserved: what was granted in this window is gone.
TokensConserved == \A p \in Providers : granted[p] + rl[p].remaining = RateLimit[p]

\* The provider that a Select found not exhausted, and the one it will
\* return, still has a token: nobody else can take it meanwhile.
TokenReserved ==
    \A c \in Callers :
        /\ pc[c] \in Selecting \ {"scan"} => todo[c] # <<>>
        /\ pc[c] \in {"outliers", "snapshot"} => rl[Head(todo[c])].remaining > 0
        /\ best[c].provider # NoProvider =>
               pc[c] \in Selecting /\ rl[best[c].provider].remaining > 0

\* Whoever has been given a provider holds one.
HeldOK == \A c \in Callers :
    pc[c] \in {"holding", "latency", "validating"} => held[c] # NoProvider

RouterInv == TypeOK /\ LockHeld /\ TokensConserved /\ TokenReserved /\ HeldOK /\ BreakerSound

----------------------------------------------------------------------------
(* What HonoursContract needs beyond RouterInv *)

\* A paid provider that is not allowed gets no further than its first check.
FreeOnly ==
    \A c \in Callers :
        /\ pc[c] \in Selecting \ {"scan"} => ~PaidAway(Head(todo[c]))
        /\ best[c].provider # NoProvider => ~PaidAway(best[c].provider)

----------------------------------------------------------------------------
(* The safety part of SelectTerminates *)

\* What a Select has still to do: four steps for each provider at most.
Effort(ph, s) ==
    4 * Len(s) + (CASE ph = "scan" -> 3 [] ph = "exhausted" -> 2 [] ph = "outliers" -> 1
                    [] OTHER -> 0)

\* Each step of a Select leaves it less to do, and nothing that others do (reports,
\* window resets, the clock) gives it more: it ends after four steps per provider,
\* and one to return.
SelectAdvances ==
    [][\A c \in Callers :
         pc[c] \in Selecting /\ pc'[c] \in Selecting =>
            \/ pc'[c] = pc[c] /\ todo'[c] = todo[c]
            \/ Effort(pc'[c], todo'[c]) < Effort(pc[c], todo[c])]_vars

----------------------------------------------------------------------------
(* The inductive invariant behind RoundRobinRotates *)

\* The place of a provider in r.ordered, from 0.
Position(p) == (CHOOSE i \in 1..Len(Registered) : Registered[i] = p) - 1

Wrap(n) == IF n < Len(Registered) THEN n ELSE n - Len(Registered)

\* How many others the rotation comes to before p, from place k on.
Ahead(k, p) == Position(p) - k + (IF Position(p) >= k THEN 0 ELSE Len(Registered))

\* A provider waits only for those that the rotation comes to before it.
OwedFrom(k) == \A p \in Providers : \A q \in owed[p] : Ahead(k, q) < Ahead(k, p)

\* The place that a Select has come to.
Place(c) == Wrap(rrIndex + Len(Registered) - Len(todo[c]))

\* A Select that has not chosen yet has the providers from its place on to look at;
\* the one that has chosen came to the place of the provider it chose.
Rotates(c) ==
    IF best[c].provider = NoProvider
    THEN /\ Len(todo[c]) <= Len(Registered)
         /\ \A n \in 1..Len(todo[c]) : Position(todo[c][n]) = Wrap(Place(c) + n - 1)
         /\ OwedFrom(Place(c))
    ELSE /\ todo[c] = <<>> /\ pc[c] = "scan"
         /\ rrIndex = IndexAfter(best[c].provider)
         /\ OwedFrom(Position(best[c].provider))

RotationInv ==
    Strategy = "round_robin" /\ Providers # {} =>
        /\ rrIndex \in 0..(Len(Registered) - 1)
        /\ mu = NoCaller => OwedFrom(rrIndex)
        /\ \A c \in Callers : pc[c] \in Selecting => pc[c] # "snapshot" /\ Rotates(c)
=============================================================================
