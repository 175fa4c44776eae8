--------------------------- MODULE IPRateLimiter ---------------------------
(***************************************************************************)
(* RateLimitMiddleware of internal/adapter/transport/http/middleware.go:   *)
(* a limiter per client address, made when the address is first seen, and  *)
(* a janitor that forgets those not used for a while.  getLimiter holds    *)
(* the lock, Allow comes after it.                                         *)
(***************************************************************************)
EXTENDS Integers

CONSTANTS
    IPs,
    Requests,   \* HTTP requests
    Burst,      \* capacity of a limiter
    Rate,       \* tokens it gains in a tick
    Idle        \* ticks without use that the janitor tolerates (10 minutes)

\* A limiter is full again before it may be forgotten: the configuration's
\* burst is at most what requests_per_second gives in the janitor's 10 minutes.
ASSUME LimiterConstants ==
    /\ IPs # {}
    /\ Burst \in Nat \ {0} /\ Rate \in Nat \ {0} /\ Idle \in Nat
    /\ Burst <= Rate * (Idle + 1)

VARIABLES
    limiters,   \* the addresses in the map
    tokens,     \* address -> tokens of its limiter
    idle,       \* address -> ticks since lastAccess
    stage,      \* request -> "new", "allow", "passed" or "limited"
    from,       \* request -> its address
    passed,     \* address -> history: requests let through
    limited     \* address -> history: requests answered 429

limiterVars == <<limiters, tokens, idle, stage, from, passed, limited>>

LimiterTypeOK ==
    /\ limiters \subseteq IPs
    /\ tokens \in [IPs -> 0..Burst]
    /\ idle \in [IPs -> 0..(Idle + 1)]
    /\ stage \in [Requests -> {"new", "allow", "passed", "limited"}]
    /\ from \in [Requests -> IPs]
    /\ passed \in [IPs -> Nat]
    /\ limited \in [IPs -> Nat]

AtMost(m, n) == IF m <= n THEN m ELSE n

\* A limiter that is not in the map is made with a full bucket.
\* (Mutant: one is made for every request.)
TokensOf_AlwaysNew(ip) == Burst

TokensOf(ip) == IF ip \in limiters THEN tokens[ip] ELSE Burst

\* getLimiter, under the lock.
GetLimiter(r, ip) ==
    /\ stage[r] = "new"
    /\ stage' = [stage EXCEPT ![r] = "allow"]
    /\ from' = [from EXCEPT ![r] = ip]
    /\ limiters' = limiters \cup {ip}
    /\ tokens' = [tokens EXCEPT ![ip] = TokensOf(ip)]
    /\ idle' = [idle EXCEPT ![ip] = 0]
    /\ UNCHANGED <<passed, limited>>

\* limiter.Allow, and the 429 when it says no.
Allow(r) ==
    /\ stage[r] = "allow"
    /\ tokens[from[r]] > 0
    /\ stage' = [stage EXCEPT ![r] = "passed"]
    /\ tokens' = [tokens EXCEPT ![from[r]] = @ - 1]
    /\ passed' = [passed EXCEPT ![from[r]] = @ + 1]
    /\ UNCHANGED <<limiters, idle, from, limited>>

Limit(r) ==
    /\ stage[r] = "allow"
    /\ tokens[from[r]] = 0
    /\ stage' = [stage EXCEPT ![r] = "limited"]
    /\ limited' = [limited EXCEPT ![from[r]] = @ + 1]
    /\ UNCHANGED <<limiters, tokens, idle, from, passed>>

\* The janitor's turn, under the lock.  (Mutant: it forgets all.)
Unused_All == limiters

Unused == {ip \in limiters : idle[ip] > Idle}

Prune ==
    /\ Unused # {}
    /\ limiters' = limiters \ Unused
    /\ UNCHANGED <<tokens, idle, stage, from, passed, limited>>

\* Time passes: the buckets fill.  A request does not stay between getLimiter
\* and Allow for a tick, which the janitor's 10 minutes are made of.
Pass ==
    /\ \A r \in Requests : stage[r] # "allow"
    /\ tokens' = [ip \in IPs |-> AtMost(Burst, tokens[ip] + Rate)]
    /\ idle' = [ip \in IPs |-> AtMost(Idle + 1, idle[ip] + 1)]
    /\ UNCHANGED <<limiters, stage, from, passed, limited>>

LimiterInit ==
    /\ limiters = {}
    /\ tokens = [ip \in IPs |-> Burst]
    /\ idle = [ip \in IPs |-> 0]
    /\ stage = [r \in Requests |-> "new"]
    /\ from = [r \in Requests |-> CHOOSE ip \in IPs : TRUE]
    /\ passed = [ip \in IPs |-> 0]
    /\ limited = [ip \in IPs |-> 0]

LimiterNext ==
    \/ \E r \in Requests, ip \in IPs : GetLimiter(r, ip)
    \/ \E r \in Requests : Allow(r) \/ Limit(r)
    \/ Prune \/ Pass

LimiterSpec == LimiterInit /\ [][LimiterNext]_limiterVars

----------------------------------------------------------------------------
(* Properties *)

Buckets == INSTANCE TokenBuckets
             WITH bucket <- [ip \in IPs |-> TokensOf(ip)], served <- passed, refused <- limited

\* Limiters that come and go are as good as one bucket per address for ever:
\* the janitor neither gives an address tokens that its rate has not earned nor
\* takes any away, whoever holds a limiter while it prunes.
KeepsPromise == Buckets!Spec

\* The inductive invariant behind it: a limiter unused for n ticks has earned
\* n times the rate, and one that is being used is in the map.
LimiterInv ==
    /\ LimiterTypeOK
    /\ \A ip \in limiters : AtMost(Burst, Rate * idle[ip]) <= tokens[ip]
    /\ \A r \in Requests : stage[r] = "allow" => from[r] \in limiters /\ idle[from[r]] = 0
=============================================================================
