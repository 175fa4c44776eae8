------------------------------ MODULE ApiProofs ------------------------------
(***************************************************************************)
(* The per-address limiters implement one token bucket per address, for    *)
(* any addresses, requests, burst, rate and idle time that the assumption  *)
(* on them allows.  And the token registry: what its two maps say, for any *)
(* catalogs, loads and concurrent lookups.                                 *)
(***************************************************************************)
EXTENDS Api, FiniteSetTheorems, WellFoundedInduction, TLAPS

LEMMA AtMostNat ==
    ASSUME NEW m \in Nat, NEW n \in Nat
    PROVE  AtMost(m, n) \in Nat /\ AtMost(m, n) <= m /\ AtMost(m, n) <= n
    BY DEF AtMost

\* What a bucket earns in one tick more.
LEMMA OneMoreTick ==
    ASSUME NEW n \in Nat
    PROVE  Rate * n \in Nat /\ Rate * (n + 1) = Rate * n + Rate
    BY LimiterConstants

LEMMA LimiterInitially == LimiterInit => LimiterInv
<1> SUFFICES ASSUME LimiterInit PROVE LimiterInv
    OBVIOUS
<1>1. (CHOOSE ip \in IPs : TRUE) \in IPs
    BY LimiterConstants
<1>2. LimiterTypeOK
    <2>1. from \in [Requests -> IPs]
        BY <1>1 DEF LimiterInit
    <2>2. Burst \in Nat /\ Idle \in Nat
        BY LimiterConstants
    <2>3. tokens \in [IPs -> 0..Burst] /\ idle \in [IPs -> 0..(Idle + 1)]
        BY <2>2 DEF LimiterInit
    <2>4. /\ limiters \subseteq IPs
          /\ stage \in [Requests -> {"new", "allow", "passed", "limited"}]
          /\ passed \in [IPs -> Nat] /\ limited \in [IPs -> Nat]
        BY DEF LimiterInit
    <2>5. QED
        BY <2>1, <2>3, <2>4 DEF LimiterTypeOK
<1>3. QED
    BY <1>2 DEF LimiterInit, LimiterInv

\* The three parts of the invariant, one action at a time.
LEMMA LimiterStep == LimiterInv /\ [LimiterNext]_limiterVars => LimiterInv'
<1> SUFFICES ASSUME LimiterInv, [LimiterNext]_limiterVars PROVE LimiterInv'
    OBVIOUS
<1> USE LimiterConstants
<1>1. ASSUME NEW r \in Requests, NEW ip \in IPs, GetLimiter(r, ip) PROVE LimiterInv'
    <2>1. LimiterTypeOK'
        BY <1>1 DEF LimiterInv, LimiterTypeOK, GetLimiter, TokensOf
    <2>2. \A q \in limiters' : AtMost(Burst, Rate * idle'[q]) <= tokens'[q]
        <3>1. SUFFICES ASSUME NEW q \in limiters'
                       PROVE  AtMost(Burst, Rate * idle'[q]) <= tokens'[q]
            OBVIOUS
        <3>2. CASE q = ip
            <4>1. idle'[q] = 0 /\ tokens'[q] \in Nat
                BY <3>2, <1>1, <2>1 DEF LimiterInv, LimiterTypeOK, GetLimiter
            <4>2. QED
                BY <4>1 DEF AtMost
        <3>3. CASE q # ip
            BY <3>1, <3>3, <1>1 DEF LimiterInv, LimiterTypeOK, GetLimiter
        <3>4. QED
            BY <3>2, <3>3
    <2>3. \A q \in Requests : stage'[q] = "allow" => from'[q] \in limiters' /\ idle'[from'[q]] = 0
        BY <1>1 DEF LimiterInv, LimiterTypeOK, GetLimiter
    <2>4. QED
        BY <2>1, <2>2, <2>3 DEF LimiterInv
<1>2. ASSUME NEW r \in Requests, Allow(r) PROVE LimiterInv'
    <2>1. from[r] \in limiters /\ idle[from[r]] = 0 /\ from[r] \in IPs
        BY <1>2 DEF LimiterInv, LimiterTypeOK, Allow
    <2>2. LimiterTypeOK'
        BY <1>2, <2>1 DEF LimiterInv, LimiterTypeOK, Allow
    <2>3. \A q \in limiters' : AtMost(Burst, Rate * idle'[q]) <= tokens'[q]
        <3>1. SUFFICES ASSUME NEW q \in limiters'
                       PROVE  AtMost(Burst, Rate * idle'[q]) <= tokens'[q]
            OBVIOUS
        <3>2. CASE q = from[r]
            <4>1. idle'[q] = 0 /\ tokens'[q] \in Nat
                BY <3>2, <1>2, <2>1, <2>2 DEF LimiterTypeOK, Allow
            <4>2. QED
                BY <4>1 DEF AtMost
        <3>3. CASE q # from[r]
            BY <3>1, <3>3, <1>2 DEF LimiterInv, LimiterTypeOK, Allow
        <3>4. QED
            BY <3>2, <3>3
    <2>4. \A q \in Requests : stage'[q] = "allow" => from'[q] \in limiters' /\ idle'[from'[q]] = 0
        BY <1>2 DEF LimiterInv, LimiterTypeOK, Allow
    <2>5. QED
        BY <2>2, <2>3, <2>4 DEF LimiterInv
<1>3. ASSUME NEW r \in Requests, Limit(r) PROVE LimiterInv'
    BY <1>3 DEF LimiterInv, LimiterTypeOK, Limit
<1>4. ASSUME Prune PROVE LimiterInv'
    BY <1>4 DEF LimiterInv, LimiterTypeOK, Prune, Unused
<1>5. ASSUME Pass PROVE LimiterInv'
    <2>1. LimiterTypeOK'
        BY <1>5, AtMostNat DEF LimiterInv, LimiterTypeOK, Pass, AtMost
    <2>2. \A q \in limiters' : AtMost(Burst, Rate * idle'[q]) <= tokens'[q]
        <3>1. SUFFICES ASSUME NEW q \in limiters
                       PROVE  AtMost(Burst, Rate * idle'[q]) <= tokens'[q]
            BY <1>5 DEF Pass
        <3>2. /\ q \in IPs /\ idle[q] \in 0..(Idle + 1) /\ tokens[q] \in 0..Burst
              /\ AtMost(Burst, Rate * idle[q]) <= tokens[q]
            BY DEF LimiterInv, LimiterTypeOK
        <3>3. /\ idle'[q] = AtMost(Idle + 1, idle[q] + 1)
              /\ tokens'[q] = AtMost(Burst, tokens[q] + Rate)
            BY <1>5, <3>2 DEF Pass
        <3>4. CASE idle'[q] = idle[q]
            <4>1. Rate * idle[q] \in Nat
                BY <3>2, OneMoreTick
            <4>2. QED
                BY <3>2, <3>3, <3>4, <4>1 DEF AtMost
        <3>5. CASE idle'[q] = idle[q] + 1
            <4>1. Rate * idle[q] \in Nat /\ Rate * idle'[q] = Rate * idle[q] + Rate
                BY <3>2, <3>5, OneMoreTick
            <4>2. QED
                BY <3>2, <3>3, <4>1 DEF AtMost
        <3>6. QED
            BY <3>2, <3>3, <3>4, <3>5 DEF AtMost
    <2>3. \A q \in Requests : stage'[q] = "allow" => from'[q] \in limiters' /\ idle'[from'[q]] = 0
        BY <1>5 DEF Pass
    <2>4. QED
        BY <2>1, <2>2, <2>3 DEF LimiterInv
<1>6. CASE UNCHANGED limiterVars
    BY <1>6 DEF LimiterInv, LimiterTypeOK, limiterVars
<1>7. QED
    BY <1>1, <1>2, <1>3, <1>4, <1>5, <1>6 DEF LimiterNext

\* The registry and its lookups leave the limiters alone.
LEMMA ApiStepIsLimiterStep == [Next]_apiVars => [LimiterNext]_limiterVars
    BY DEF Next, apiVars, limiterVars, HandleGetPriceByAddress, Refresh

\* The invariant of the limiters holds of the whole API.
THEOREM LimitersInvariant == Spec => []LimiterInv
<1>1. Init => LimiterInv
    BY LimiterInitially DEF Init
<1>2. LimiterInv /\ [Next]_apiVars => LimiterInv'
    BY LimiterStep, ApiStepIsLimiterStep
<1>3. QED
    BY <1>1, <1>2, PTL DEF Spec

\* A limiter that the janitor forgets is full, so that forgetting it cannot be told.
LEMMA ForgottenAreFull ==
    ASSUME LimiterInv, NEW ip \in limiters, idle[ip] > Idle
    PROVE  tokens[ip] = Burst
<1>1. idle[ip] = Idle + 1 /\ tokens[ip] \in 0..Burst /\ AtMost(Burst, Rate * idle[ip]) <= tokens[ip]
    BY LimiterConstants DEF LimiterInv, LimiterTypeOK
<1>2. Rate * (Idle + 1) \in Nat
    BY LimiterConstants, OneMoreTick
<1>3. QED
    BY <1>1, <1>2, LimiterConstants DEF AtMost

\* The refinement, step by step: Allow serves, Limit refuses, Pass refills, and
\* neither getLimiter nor the janitor changes anything that can be seen.
LEMMA LimiterStepIsBucketStep ==
    LimiterInv /\ [LimiterNext]_limiterVars => [Buckets!Next]_(Buckets!vars)
<1> SUFFICES ASSUME LimiterInv, [LimiterNext]_limiterVars PROVE [Buckets!Next]_(Buckets!vars)
    OBVIOUS
<1> DEFINE bucket == [ip \in IPs |-> TokensOf(ip)]
<1> USE LimiterConstants
<1>1. ASSUME NEW r \in Requests, NEW ip \in IPs, GetLimiter(r, ip) PROVE UNCHANGED Buckets!vars
    BY <1>1 DEF LimiterInv, LimiterTypeOK, GetLimiter, TokensOf, Buckets!vars
<1>2. ASSUME NEW r \in Requests, Allow(r) PROVE Buckets!Next
    <2>1. from[r] \in limiters /\ from[r] \in IPs
        BY <1>2 DEF LimiterInv, LimiterTypeOK, Allow
    <2>2. Buckets!Serve(from[r])
        BY <1>2, <2>1 DEF LimiterInv, LimiterTypeOK, Allow, TokensOf, Buckets!Serve
    <2>3. QED
        BY <2>1, <2>2 DEF Buckets!Next
<1>3. ASSUME NEW r \in Requests, Limit(r) PROVE Buckets!Next
    <2>1. from[r] \in limiters /\ from[r] \in IPs
        BY <1>3 DEF LimiterInv, LimiterTypeOK, Limit
    <2>2. Buckets!Refuse(from[r])
        BY <1>3, <2>1 DEF LimiterInv, LimiterTypeOK, Limit, TokensOf, Buckets!Refuse
    <2>3. QED
        BY <2>1, <2>2 DEF Buckets!Next
<1>4. ASSUME Prune PROVE UNCHANGED Buckets!vars
    <2>1. \A ip \in Unused : tokens[ip] = Burst
        BY ForgottenAreFull DEF Unused
    <2>2. QED
        BY <1>4, <2>1 DEF Prune, Unused, TokensOf, Buckets!vars
<1>5. ASSUME Pass PROVE Buckets!Next
    <2>1. \A ip \in IPs : TokensOf(ip)' = Buckets!Least(Burst, TokensOf(ip) + Rate)
        BY <1>5 DEF Pass, TokensOf, LimiterInv, LimiterTypeOK, AtMost, Buckets!Least
    <2>2. Buckets!Refill
        BY <1>5, <2>1 DEF Pass, Buckets!Refill
    <2>3. QED
        BY <2>2 DEF Buckets!Next
<1>6. CASE UNCHANGED limiterVars
    BY <1>6 DEF limiterVars, TokensOf, Buckets!vars
<1>7. QED
    BY <1>1, <1>2, <1>3, <1>4, <1>5, <1>6 DEF LimiterNext

\* The API keeps the promise of one bucket per address: the limiters that come
\* and go refine TokenBuckets.
THEOREM LimitersKeepPromise == Spec => KeepsPromise
<1>1. Init => Buckets!Init
    BY DEF Init, LimiterInit, TokensOf, Buckets!Init
<1>2. LimiterInv /\ [Next]_apiVars => [Buckets!Next]_(Buckets!vars)
    BY LimiterStepIsBucketStep, ApiStepIsLimiterStep
<1>3. QED
    BY <1>1, <1>2, LimitersInvariant, PTL DEF Spec, KeepsPromise, Buckets!Spec

----------------------------------------------------------------------------
(* The token registry: what holds of a catalog *)

\* A set of numbers has a least one.
LEMMA LeastNumber ==
    ASSUME NEW T, T \subseteq Nat, T # {}
    PROVE  \E m \in T : \A n \in T : m <= n
<1> DEFINE R == {ss \in Nat \X Nat : ss[1] < ss[2]}
<1>1. IsWellFoundedOn(R, Nat)
    BY NatLessThanWellFounded DEF OpToRel
<1> HIDE DEF R
<1>2. PICK m \in T : \A n \in T : ~(<<n, m>> \in R)
    BY <1>1, WFMin, Zenon
<1>3. ASSUME NEW n \in T PROVE m <= n
    <2>1. n \in Nat /\ m \in Nat /\ ~(<<n, m>> \in R)
        BY <1>2
    <2>2. ~(n < m)
        BY <2>1 DEF R
    <2>3. QED
        BY <2>1, <2>2
<1>4. QED
    BY <1>3

\* The entry that the loop of LoadCatalog comes to last.
LEMMA LastTaken ==
    ASSUME NEW catalog \in Catalogs, NEW k \in Keys, Taken(catalog, k) # {}
    PROVE  \E j \in Taken(catalog, k) : \A n \in Taken(catalog, k) : n <= j
<1> DEFINE at == Taken(catalog, k)
           N == Len(catalog)
           T == {N - j : j \in at}
<1>1. catalog \in Seq(CoinEntry)
    BY RegistryConstants
<1>2. N \in Nat /\ at \subseteq 1..N
    BY <1>1 DEF Taken
<1> HIDE DEF at, N
<1>3. T \subseteq Nat /\ T # {}
    BY <1>2 DEF at
<1>4. PICK m \in T : \A n \in T : m <= n
    BY <1>3, LeastNumber
<1>5. PICK j \in at : m = N - j
    BY <1>4
<1>6. \A n \in at : N - j <= N - n
    BY <1>4, <1>5
<1>7. \A n \in at : n <= j
    BY <1>2, <1>6
<1>8. QED
    BY <1>7 DEF at

\* A catalog has coins of its own for the keys it names, and leaves the others.
LEMMA CoinAfterOK ==
    ASSUME RegistryTypeOK, NEW catalog \in Catalogs, NEW k \in Keys
    PROVE  /\ Taken(catalog, k) = {} => CoinAfter(catalog, k) = byAddr[k]
           /\ Taken(catalog, k) # {} => CoinAfter(catalog, k) \in Coins
           /\ \A j \in Taken(catalog, k) :
                (\A n \in Taken(catalog, k) : n <= j) => CoinAfter(catalog, k) = catalog[j].id
<1> DEFINE at == Taken(catalog, k)
           last == CHOOSE j \in at : \A n \in at : n <= j
<1>1. catalog \in Seq(CoinEntry)
    BY RegistryConstants
<1>2. at \subseteq DOMAIN catalog /\ DOMAIN catalog \subseteq Int
    BY <1>1 DEF Taken
<1>3. CoinAfter(catalog, k) = IF at = {} THEN byAddr[k] ELSE catalog[last].id
    BY DEF CoinAfter
<1>4. ASSUME at # {} PROVE last \in at /\ \A n \in at : n <= last
    <2>1. \E j \in at : \A n \in at : n <= j
        BY <1>4, LastTaken
    <2> HIDE DEF at
    <2>2. QED
        BY <2>1
<1> HIDE DEF at, last
<1>5. at # {} => catalog[last].id \in Coins
    <2>1. at # {} => catalog[last] \in CoinEntry
        BY <1>1, <1>2, <1>4
    <2>2. QED
        BY <2>1 DEF CoinEntry
<1>6. ASSUME NEW j \in at, \A n \in at : n <= j PROVE last = j
    BY <1>2, <1>4, <1>6
<1>7. QED
    BY <1>3, <1>5, <1>6 DEF at

LEMMA ListedForFinite ==
    ASSUME NEW catalog \in Catalogs, NEW c, NEW k
    PROVE  IsFiniteSet(ListedFor(catalog, c, k)) /\ Cardinality(ListedFor(catalog, c, k)) \in Nat
<1>1. catalog \in Seq(CoinEntry)
    BY RegistryConstants
<1>2. IsFiniteSet(1..Len(catalog)) /\ ListedFor(catalog, c, k) \subseteq 1..Len(catalog)
    BY <1>1, FS_Interval DEF ListedFor, Taken
<1>3. QED
    BY <1>2, FS_Subset, FS_CardinalityType

----------------------------------------------------------------------------
(* The token registry: its steps *)

Steps == {"start", "price", "ask", "learn", "done"}
Turns == 1..(TokenProviders + 1)
Statuses == {0, 200, 404, 500, 503}

LookupType == [step : Steps, key : Keys, coin : CoinIDs \cup {NoCoin}, provider : Turns,
               status : Statuses]

LEMMA CodesAreStatuses ==
    /\ 200 \in Statuses /\ 404 \in Statuses
    /\ \A status \in ErrorStatuses : status \in Statuses
    BY SMT DEF Statuses, ErrorStatuses

LEMMA LookupsTyped ==
    ASSUME RegistryTypeOK
    PROVE  /\ lookup \in [Lookups -> LookupType]
           /\ byAddr \in [Keys -> CoinIDs \cup {NoCoin}]
    BY DEF RegistryTypeOK, LookupType, Steps, Turns, Statuses

LEMMA NextTurn == \A q \in Turns : q <= TokenProviders => q + 1 \in Turns
<1>1. TokenProviders \in Int
    BY RegistryConstants
<1>2. QED
    BY <1>1 DEF Turns

LEMMA StepForms ==
    ASSUME RegistryTypeOK, NEW l \in Lookups, LookupStep(l)
    PROVE  /\ lookup' \in [Lookups -> LookupType]
           /\ UNCHANGED <<byAddr, byCoinID, loads>> \/ Learn(l)
<1>1. /\ lookup \in [Lookups -> LookupType]
      /\ byAddr \in [Keys -> CoinIDs \cup {NoCoin}]
    BY LookupsTyped
<1>2. "learn" \in Steps /\ "done" \in Steps /\ "price" \in Steps /\ "ask" \in Steps
    BY DEF Steps
<1>3. ASSUME NEW t \in Statuses, lookup' = [lookup EXCEPT ![l].step = "done", ![l].status = t]
      PROVE  lookup' \in [Lookups -> LookupType]
    BY <1>1, <1>2, <1>3 DEF LookupType
<1>4. 200 \in Statuses /\ 404 \in Statuses
    BY CodesAreStatuses
<1>5. ASSUME CoinPriced(l) \/ TokenUnknown(l)
      PROVE  lookup' \in [Lookups -> LookupType] /\ UNCHANGED <<byAddr, byCoinID, loads>>
    BY <1>3, <1>5, <1>4 DEF CoinPriced, TokenUnknown, Answer
<1>6. ASSUME TokenPriced(l)
      PROVE  lookup' \in [Lookups -> LookupType] /\ UNCHANGED <<byAddr, byCoinID, loads>>
    BY <1>1, <1>2, <1>6 DEF TokenPriced, Goto, LookupType
<1>7. ASSUME NEW status \in ErrorStatuses, CoinFails(l, status)
      PROVE  lookup' \in [Lookups -> LookupType] /\ UNCHANGED <<byAddr, byCoinID, loads>>
    <2>1. status \in Statuses
        BY CodesAreStatuses
    <2>2. QED
        BY <1>3, <1>7, <2>1 DEF CoinFails, Answer
<1>8. ASSUME TokenFails(l)
      PROVE  lookup' \in [Lookups -> LookupType] /\ UNCHANGED <<byAddr, byCoinID, loads>>
    <2> DEFINE p == lookup[l].provider + 1
    <2>1. lookup[l].provider \in Turns
        BY <1>1 DEF LookupType
    <2>2. lookup[l].provider <= TokenProviders
        BY <1>8 DEF TokenFails
    <2>3. p \in Turns
        BY <2>1, <2>2, NextTurn
    <2>4. lookup' = [lookup EXCEPT ![l].provider = p]
        BY <1>8 DEF TokenFails
    <2> HIDE DEF p
    <2>5. lookup' \in [Lookups -> LookupType]
        BY <1>1, <2>3, <2>4 DEF LookupType
    <2>6. QED
        BY <1>8, <2>5 DEF TokenFails
<1>9. ASSUME Learn(l) PROVE lookup' \in [Lookups -> LookupType]
    BY <1>3, <1>9, <1>4 DEF Learn, Answer
<1>10. QED
    BY <1>5, <1>6, <1>7, <1>8, <1>9, Zenon DEF LookupStep

LEMMA ResolveForms ==
    ASSUME RegistryTypeOK, NEW l \in Lookups, NEW a \in Address, a.token # "", Resolve(l, a)
    PROVE  lookup' \in [Lookups -> LookupType] /\ UNCHANGED <<byAddr, byCoinID, loads>>
<1> DEFINE k == AddrKey(a)
           s == IF byAddr[k] # NoCoin THEN "price" ELSE "ask"
<1>1. k \in Keys
    BY DEF Address, AddrKey, Keys
<1>2. byAddr[k] \in CoinIDs \cup {NoCoin}
    BY LookupsTyped, <1>1
<1>3. s \in Steps
    BY DEF Steps
<1>4. lookup' = [lookup EXCEPT ![l] = [@ EXCEPT !.key = k, !.coin = byAddr[k], !.step = s]]
    BY DEF Resolve
<1> HIDE DEF k, s
<1>5. lookup' \in [Lookups -> LookupType]
    BY LookupsTyped, <1>1, <1>2, <1>3, <1>4 DEF LookupType
<1>6. QED
    BY <1>5 DEF Resolve

\* A step of a lookup: the registry changes only when it learns.
LEMMA LookupForms ==
    ASSUME RegistryTypeOK, NEW l \in Lookups,
           LookupStep(l) \/ \E a \in Address : a.token # "" /\ Resolve(l, a)
    PROVE  /\ lookup' \in [Lookups -> LookupType]
           /\ UNCHANGED <<byAddr, byCoinID, loads>> \/ Learn(l)
    BY StepForms, ResolveForms, Zenon

\* What learning does to the registry.
LEMMA LearnForms ==
    ASSUME RegistryTypeOK, NEW l \in Lookups, Learn(l)
    PROVE  /\ loads' = loads
           /\ \/ UNCHANGED <<byAddr, byCoinID>>
              \/ \E k \in Keys, t \in Tokens :
                   /\ byAddr[k] = NoCoin
                   /\ byAddr' = [byAddr EXCEPT ![k] = t]
                   /\ byCoinID' = [byCoinID EXCEPT ![t][k] = @ + 1]
<1>1. lookup[l].key \in Keys
    BY DEF RegistryTypeOK
<1>2. lookup[l].key[2] \in Tokens
    BY <1>1 DEF Keys
<1>3. QED
    BY <1>1, <1>2 DEF Learn, Add, Registered

\* Types.
LEMMA LoadCatalogType ==
    ASSUME RegistryTypeOK, NEW catalog \in Catalogs, LoadCatalog(catalog)
    PROVE  RegistryTypeOK'
<1>1. byAddr' \in [Keys -> CoinIDs \cup {NoCoin}]
    <2>1. \A k \in Keys : CoinAfter(catalog, k) \in CoinIDs \cup {NoCoin}
        BY CoinAfterOK DEF CoinIDs, RegistryTypeOK
    <2>2. QED
        BY <2>1 DEF LoadCatalog
<1>2. byCoinID' \in [CoinIDs -> [Keys -> Nat]]
    <2>1. ASSUME NEW c \in CoinIDs, NEW k \in Keys
          PROVE  byCoinID[c][k] + Cardinality(ListedFor(catalog, c, k)) \in Nat
        <3>1. byCoinID[c][k] \in Nat
            BY DEF RegistryTypeOK
        <3>2. QED
            BY <3>1, ListedForFinite
    <2>2. QED
        BY <2>1 DEF LoadCatalog
<1>3. loads' \in Seq(Catalogs)
    BY DEF LoadCatalog, RegistryTypeOK
<1>4. QED
    BY <1>1, <1>2, <1>3 DEF LoadCatalog, RegistryTypeOK

LEMMA LearnType ==
    ASSUME RegistryTypeOK, NEW l \in Lookups, Learn(l), lookup' \in [Lookups -> LookupType]
    PROVE  RegistryTypeOK'
<1>1. byAddr' \in [Keys -> CoinIDs \cup {NoCoin}] /\ byCoinID' \in [CoinIDs -> [Keys -> Nat]]
    <2>1. byAddr \in [Keys -> CoinIDs \cup {NoCoin}] /\ byCoinID \in [CoinIDs -> [Keys -> Nat]]
        BY DEF RegistryTypeOK
    <2>2. ASSUME NEW k \in Keys, NEW t \in Tokens,
                 byAddr' = [byAddr EXCEPT ![k] = t],
                 byCoinID' = [byCoinID EXCEPT ![t][k] = @ + 1]
          PROVE  /\ byAddr' \in [Keys -> CoinIDs \cup {NoCoin}]
                 /\ byCoinID' \in [CoinIDs -> [Keys -> Nat]]
        <3>1. t \in CoinIDs
            BY DEF CoinIDs
        <3>2. QED
            BY <2>1, <2>2, <3>1
    <2>3. QED
        BY <2>1, <2>2, LearnForms
<1>2. loads' \in Seq(Catalogs)
    BY LearnForms DEF RegistryTypeOK
<1>3. QED
    BY <1>1, <1>2 DEF RegistryTypeOK, LookupType, Steps, Turns, Statuses

----------------------------------------------------------------------------
(* The token registry: the catalog has the last word *)

\* A load is one catalog more; those before it are as they were.
LEMMA LoadsAfter ==
    ASSUME RegistryTypeOK, NEW catalog \in Catalogs, LoadCatalog(catalog)
    PROVE  /\ Len(loads) \in Nat /\ DOMAIN loads = 1..Len(loads)
           /\ Len(loads') = Len(loads) + 1 /\ DOMAIN loads' = 1..(Len(loads) + 1)
           /\ loads'[Len(loads) + 1] = catalog
           /\ \A n \in 1..Len(loads) : loads'[n] = loads[n]
           /\ \A k \in Keys : byAddr'[k] = CoinAfter(catalog, k)
<1>1. loads \in Seq(Catalogs) /\ loads' = Append(loads, catalog)
    BY DEF RegistryTypeOK, LoadCatalog
<1>2. QED
    BY <1>1 DEF LoadCatalog

\* What a catalog loaded before, or just now, names.
LEMMA NamesAfter ==
    ASSUME RegistryTypeOK, NEW catalog \in Catalogs, LoadCatalog(catalog), NEW k \in Keys,
           NEW N, N = Len(loads)
    PROVE  /\ \A n \in 1..N : \A j : Names(n, j, k)' <=> Names(n, j, k)
           /\ \A j \in DOMAIN catalog : Names(N + 1, j, k)' <=> j \in Taken(catalog, k)
    BY LoadsAfter DEF Names, Taken, Usable

LEMMA CatalogWinsLoad ==
    ASSUME RegistryTypeOK, CatalogWins, NEW catalog \in Catalogs, LoadCatalog(catalog)
    PROVE  CatalogWins'
<1> SUFFICES ASSUME NEW n \in DOMAIN loads', NEW j \in DOMAIN loads'[n], NEW k \in Keys,
                    NamesLast(n, j, k)'
             PROVE  byAddr'[k] = loads'[n][j].id
    BY DEF CatalogWins
<1>0. PICK N \in Nat : N = Len(loads)
    BY LoadsAfter
<1>1. /\ N \in Nat /\ DOMAIN loads = 1..N /\ Len(loads') = N + 1 /\ DOMAIN loads' = 1..(N + 1)
      /\ loads'[N + 1] = catalog
      /\ \A m \in 1..N : loads'[m] = loads[m]
      /\ byAddr'[k] = CoinAfter(catalog, k)
    BY <1>0, LoadsAfter
<1>2. /\ Names(n, j, k)'
      /\ \A m \in n..(N + 1) : \A i \in DOMAIN loads'[m] : m > n \/ i > j => ~Names(m, i, k)'
    BY <1>1 DEF NamesLast
<1>3. /\ \A m \in 1..N : \A i : Names(m, i, k)' <=> Names(m, i, k)
      /\ \A i \in DOMAIN catalog : Names(N + 1, i, k)' <=> i \in Taken(catalog, k)
    BY <1>0, NamesAfter
<1>4. CASE n = N + 1
    <2>1. j \in DOMAIN catalog /\ j \in Taken(catalog, k)
        BY <1>1, <1>2, <1>3, <1>4
    <2>2. catalog \in Seq(CoinEntry)
        BY RegistryConstants
    <2>3. \A i \in Taken(catalog, k) : i \in DOMAIN catalog /\ i \in Int /\ j \in Int
        BY <2>1, <2>2 DEF Taken
    <2>4. N + 1 \in n..(N + 1)
        BY <1>1, <1>4
    <2>5. \A i \in Taken(catalog, k) : ~(i > j)
        BY <1>1, <1>2, <1>3, <1>4, <2>3, <2>4
    <2>6. \A i \in Taken(catalog, k) : i <= j
        BY <2>3, <2>5
    <2>7. QED
        BY <1>1, <1>4, <2>1, <2>6, CoinAfterOK
<1>5. CASE n # N + 1
    <2>1. n \in 1..N
        BY <1>1, <1>5
    <2>2. N + 1 \in n..(N + 1) /\ N + 1 > n
        BY <1>1, <2>1
    <2>3. Taken(catalog, k) = {}
        <3>1. \A i \in DOMAIN catalog : i \notin Taken(catalog, k)
            BY <1>1, <1>2, <1>3, <2>2
        <3>2. QED
            BY <3>1 DEF Taken
    <2>4. byAddr'[k] = byAddr[k]
        BY <1>1, <2>3, CoinAfterOK
    <2>5. NamesLast(n, j, k)
        <3>1. \A m \in n..N : m \in n..(N + 1) /\ m \in 1..N
            BY <1>1, <2>1
        <3>2. \A m \in n..N : \A i \in DOMAIN loads[m] : m > n \/ i > j => ~Names(m, i, k)
            BY <1>1, <1>2, <1>3, <3>1
        <3>3. Names(n, j, k)
            BY <1>2, <1>3, <2>1
        <3>4. QED
            BY <1>0, <3>2, <3>3 DEF NamesLast
    <2>6. byAddr[k] = loads[n][j].id
        BY <1>1, <2>1, <2>5 DEF CatalogWins
    <2>7. QED
        BY <1>1, <2>1, <2>4, <2>6
<1>6. QED
    BY <1>4, <1>5

\* What a lookup learns, however late, is not for an address that a catalog names.
LEMMA CatalogWinsLearn ==
    ASSUME RegistryTypeOK, CatalogWins, NEW l \in Lookups, Learn(l)
    PROVE  CatalogWins'
<1>1. loads' = loads /\ loads \in Seq(Catalogs)
    BY LearnForms DEF RegistryTypeOK
<1> SUFFICES ASSUME NEW n \in DOMAIN loads, NEW j \in DOMAIN loads[n], NEW k \in Keys,
                    NamesLast(n, j, k)
             PROVE  byAddr'[k] = loads[n][j].id
    BY <1>1 DEF CatalogWins, NamesLast, Names
<1>2. byAddr[k] = loads[n][j].id
    BY DEF CatalogWins
<1>3. byAddr[k] # NoCoin
    <2>1. loads[n] \in Seq(CoinEntry)
        BY <1>1, RegistryConstants
    <2>2. loads[n][j] \in CoinEntry
        BY <2>1
    <2>3. QED
        BY <1>2, <2>2, RegistryConstants DEF CoinEntry
<1>4. byAddr'[k] = byAddr[k]
    <2>1. byAddr \in [Keys -> CoinIDs \cup {NoCoin}]
        BY LookupsTyped
    <2>2. byAddr' = byAddr \/ \E q \in Keys, t \in Tokens : byAddr[q] = NoCoin
                                                          /\ byAddr' = [byAddr EXCEPT ![q] = t]
        BY LearnForms
    <2>3. QED
        BY <1>3, <2>1, <2>2
<1>5. QED
    BY <1>2, <1>4

----------------------------------------------------------------------------
(* The token registry: how the lists grow *)

\* A load adds its own entries to those that list a key for a coin.
LEMMA ListingsAfter ==
    ASSUME RegistryTypeOK, NEW catalog \in Catalogs, LoadCatalog(catalog),
           NEW c \in Coins, NEW k \in Keys, IsFiniteSet(Listings(c, k))
    PROVE  /\ IsFiniteSet(Listings(c, k)')
           /\ Cardinality(Listings(c, k)') =
                Cardinality(Listings(c, k)) + Cardinality(ListedFor(catalog, c, k))
<1>0. PICK N \in Nat : N = Len(loads)
    BY LoadsAfter
<1>1. /\ DOMAIN loads = 1..N /\ DOMAIN loads' = 1..(N + 1) /\ loads'[N + 1] = catalog
      /\ \A m \in 1..N : loads'[m] = loads[m]
    BY <1>0, LoadsAfter
<1>2. /\ \A m \in 1..N : \A i : Names(m, i, k)' <=> Names(m, i, k)
      /\ \A i \in DOMAIN catalog : Names(N + 1, i, k)' <=> i \in Taken(catalog, k)
    BY <1>0, NamesAfter
<1> DEFINE L == ListedFor(catalog, c, k)
           old == Listings(c, k)
           added == {N + 1} \X L
<1>3. L \subseteq DOMAIN catalog
    BY DEF ListedFor, Taken
<1>4. \A e : e \in Listings(c, k)' <=>
              \E n \in 1..(N + 1) : \E j \in DOMAIN loads'[n] :
                e = <<n, j>> /\ Names(n, j, k)' /\ loads'[n][j].id = c
    BY <1>1 DEF Listings
<1>5. \A e : e \in old <=>
              \E n \in 1..N : \E j \in DOMAIN loads[n] :
                e = <<n, j>> /\ Names(n, j, k) /\ loads[n][j].id = c
    BY <1>1 DEF Listings
<1>6. \A e : e \in added <=>
              \E j \in DOMAIN catalog : e = <<N + 1, j>> /\ j \in Taken(catalog, k) /\ catalog[j].id = c
    BY <1>3 DEF ListedFor
<1> HIDE DEF old, added
<1>7. Listings(c, k)' = old \cup added
    <2>1. \A n : n \in 1..(N + 1) <=> n \in 1..N \/ n = N + 1
        OBVIOUS
    <2>2. \A e : e \in Listings(c, k)' <=> e \in old \/ e \in added
        BY <1>1, <1>2, <1>4, <1>5, <1>6, <2>1
    <2>3. QED
        BY <2>2
<1>8. old \cap added = {}
    <2>1. N + 1 \notin 1..N
        OBVIOUS
    <2>2. QED
        BY <1>5, <1>6, <2>1
<1>9. IsFiniteSet(L) /\ Cardinality(L) \in Nat
    BY ListedForFinite
<1>10. IsFiniteSet(added) /\ Cardinality(added) = Cardinality(L)
    <2>1. IsFiniteSet({N + 1}) /\ Cardinality({N + 1}) = 1
        BY FS_Singleton
    <2> HIDE DEF L
    <2>2. IsFiniteSet(added) /\ Cardinality(added) = 1 * Cardinality(L)
        BY <1>9, <2>1, FS_Product DEF added
    <2>3. QED
        BY <1>9, <2>2
<1>11. IsFiniteSet(old) /\ Cardinality(old) \in Nat
    BY FS_CardinalityType DEF old
<1>12. /\ IsFiniteSet(old \cup added)
       /\ Cardinality(old \cup added) = Cardinality(old) + Cardinality(added) - Cardinality({})
    BY <1>8, <1>10, <1>11, FS_Union
<1>13. Cardinality({}) = 0
    BY FS_EmptySet
<1> HIDE DEF L
<1>14. QED
    BY <1>7, <1>9, <1>10, <1>11, <1>12, <1>13 DEF L, old

LEMMA ListsLoad ==
    ASSUME RegistryTypeOK, ListsInv, NEW catalog \in Catalogs, LoadCatalog(catalog)
    PROVE  ListsInv'
<1>1. \A c \in CoinIDs, k \in Keys :
        byCoinID'[c][k] = byCoinID[c][k] + Cardinality(ListedFor(catalog, c, k))
    BY DEF LoadCatalog
<1>2. ASSUME NEW c \in Coins, NEW k \in Keys
      PROVE  IsFiniteSet(Listings(c, k)') /\ byCoinID'[c][k] = Cardinality(Listings(c, k)')
    <2>1. IsFiniteSet(Listings(c, k)) /\ byCoinID[c][k] = Cardinality(Listings(c, k))
        BY DEF ListsInv
    <2>2. c \in CoinIDs
        BY DEF CoinIDs
    <2>3. QED
        BY <1>1, <2>1, <2>2, ListingsAfter
<1>3. ASSUME NEW t \in Tokens, NEW k \in Keys
      PROVE  byCoinID'[t][k] <= (IF Registered(k)' THEN 1 ELSE 0)
    <2>1. t \in CoinIDs /\ byCoinID[t][k] <= (IF Registered(k) THEN 1 ELSE 0)
        BY DEF ListsInv, CoinIDs
    <2>2. byCoinID[t][k] \in Nat
        BY <2>1 DEF RegistryTypeOK
    <2>3. ListedFor(catalog, t, k) = {}
        <3>1. catalog \in Seq(CoinEntry) /\ t \notin Coins
            BY RegistryConstants
        <3>2. \A j \in DOMAIN catalog : catalog[j] \in CoinEntry
            BY <3>1
        <3>3. \A j \in DOMAIN catalog : catalog[j].id \in Coins
            BY <3>2 DEF CoinEntry
        <3>4. QED
            BY <3>1, <3>3 DEF ListedFor, Taken
    <2>4. byCoinID'[t][k] = byCoinID[t][k]
        BY <1>1, <2>1, <2>2, <2>3, FS_EmptySet
    <2>5. Registered(k) => Registered(k)'
        <3>1. byAddr'[k] = byAddr[k] \/ byAddr'[k] \in Coins
            BY LoadsAfter, CoinAfterOK
        <3>2. QED
            BY <3>1, RegistryConstants DEF Registered
    <2>6. QED
        BY <2>1, <2>2, <2>4, <2>5
<1>4. QED
    BY <1>2, <1>3 DEF ListsInv

LEMMA ListsLearn ==
    ASSUME RegistryTypeOK, ListsInv, NEW l \in Lookups, Learn(l)
    PROVE  ListsInv'
<1>1. /\ byAddr \in [Keys -> CoinIDs \cup {NoCoin}] /\ byCoinID \in [CoinIDs -> [Keys -> Nat]]
      /\ Coins \cap Tokens = {} /\ NoCoin \notin Tokens /\ Coins \subseteq CoinIDs
      /\ Tokens \subseteq CoinIDs
    BY RegistryConstants DEF RegistryTypeOK, CoinIDs
<1>2. \A c, k : Listings(c, k)' = Listings(c, k)
    BY LearnForms DEF Listings, Names
<1>3. /\ \A c \in Coins, k \in Keys :
           IsFiniteSet(Listings(c, k)) /\ byCoinID[c][k] = Cardinality(Listings(c, k))
      /\ \A t \in Tokens, k \in Keys : byCoinID[t][k] <= (IF byAddr[k] # NoCoin THEN 1 ELSE 0)
    BY DEF ListsInv, Registered
<1>4. CASE UNCHANGED <<byAddr, byCoinID>>
    BY <1>2, <1>3, <1>4 DEF ListsInv, Registered
<1>5. ASSUME NEW q \in Keys, NEW u \in Tokens, byAddr[q] = NoCoin,
             byAddr' = [byAddr EXCEPT ![q] = u], byCoinID' = [byCoinID EXCEPT ![u][q] = @ + 1]
      PROVE  ListsInv'
    <2>1. \A c \in Coins, k \in Keys : byCoinID'[c][k] = byCoinID[c][k]
        BY <1>1, <1>5
    <2>2. ASSUME NEW t \in Tokens, NEW k \in Keys
          PROVE  byCoinID'[t][k] <= (IF byAddr'[k] # NoCoin THEN 1 ELSE 0)
        <3>1. byCoinID[t][k] \in Nat /\ byCoinID[t][k] <= (IF byAddr[k] # NoCoin THEN 1 ELSE 0)
            BY <1>1, <1>3
        <3>2. CASE k = q
            <4>1. byAddr'[k] # NoCoin
                BY <1>1, <1>5, <3>2
            <4>2. byCoinID'[t][k] \in {byCoinID[t][k], byCoinID[t][k] + 1}
                BY <1>1, <1>5
            <4>3. byCoinID[t][k] = 0
                BY <1>5, <3>1, <3>2
            <4>4. QED
                BY <4>1, <4>2, <4>3
        <3>3. CASE k # q
            <4>1. byAddr'[k] = byAddr[k] /\ byCoinID'[t][k] = byCoinID[t][k]
                BY <1>1, <1>5, <3>3
            <4>2. QED
                BY <3>1, <4>1
        <3>4. QED
            BY <3>2, <3>3
    <2>3. QED
        BY <1>2, <1>3, <2>1, <2>2 DEF ListsInv, Registered
<1>6. QED
    BY <1>4, <1>5, LearnForms

----------------------------------------------------------------------------
(* The token registry: its invariant *)

LEMMA RegistryInitially == RegistryInit => RegistryInv
<1> SUFFICES ASSUME RegistryInit PROVE RegistryInv
    OBVIOUS
<1>1. RegistryTypeOK
    <2> DEFINE k0 == CHOOSE k \in Keys : TRUE
    <2>1. k0 \in Keys /\ TokenProviders \in Nat
        <3>1. PICK ch \in Chains, t \in Tokens : TRUE
            BY RegistryConstants
        <3>2. <<ch, t>> \in Keys
            BY DEF Keys
        <3>3. QED
            BY <3>2, RegistryConstants
    <2>2. 1 \in Turns
        BY <2>1 DEF Turns
    <2>3. "start" \in Steps /\ 0 \in Statuses
        BY DEF Steps, Statuses
    <2>4. lookup = [l \in Lookups |-> [step |-> "start", key |-> k0, coin |-> NoCoin,
                                       provider |-> 1, status |-> 0]]
        BY DEF RegistryInit
    <2> HIDE DEF k0
    <2>5. lookup \in [Lookups -> LookupType]
        BY <2>1, <2>2, <2>3, <2>4 DEF LookupType
    <2>6. /\ byAddr \in [Keys -> CoinIDs \cup {NoCoin}]
          /\ byCoinID \in [CoinIDs -> [Keys -> Nat]]
          /\ loads \in Seq(Catalogs)
        BY DEF RegistryInit
    <2>7. QED
        BY <2>5, <2>6 DEF RegistryTypeOK, LookupType, Steps, Turns, Statuses
<1>2. CatalogWins
    BY DEF RegistryInit, CatalogWins
<1>3. ListsInv
    <2>1. \A c, k : Listings(c, k) = {}
        BY DEF RegistryInit, Listings
    <2>2. IsFiniteSet({}) /\ Cardinality({}) = 0
        BY FS_EmptySet
    <2>3. \A c \in CoinIDs, k \in Keys : byCoinID[c][k] = 0
        BY DEF RegistryInit
    <2>4. QED
        BY <2>1, <2>2, <2>3 DEF ListsInv, CoinIDs
<1>4. QED
    BY <1>1, <1>2, <1>3 DEF RegistryInv

LEMMA RegistryStep == RegistryInv /\ [RegistryNext]_registryVars => RegistryInv'
<1> SUFFICES ASSUME RegistryInv, [RegistryNext]_registryVars PROVE RegistryInv'
    OBVIOUS
<1>1. RegistryTypeOK /\ CatalogWins /\ ListsInv
    BY DEF RegistryInv
<1>2. ASSUME UNCHANGED <<byAddr, byCoinID, loads>> PROVE CatalogWins' /\ ListsInv'
    <2>1. CatalogWins'
        BY <1>1, <1>2 DEF CatalogWins, NamesLast, Names
    <2>2. \A c, k : Listings(c, k)' = Listings(c, k)
        BY <1>2 DEF Listings, Names
    <2>3. QED
        BY <1>1, <1>2, <2>1, <2>2 DEF ListsInv, Registered
<1>3. ASSUME NEW catalog \in Catalogs, LoadCatalog(catalog) PROVE RegistryInv'
    BY <1>1, <1>3, LoadCatalogType, CatalogWinsLoad, ListsLoad DEF RegistryInv
<1>4. ASSUME NEW l \in Lookups, LookupStep(l) \/ \E a \in Address : a.token # "" /\ Resolve(l, a)
      PROVE  RegistryInv'
    <2>1. lookup' \in [Lookups -> LookupType]
        BY <1>1, <1>4, LookupForms
    <2>2. CASE Learn(l)
        BY <1>1, <2>1, <2>2, LearnType, CatalogWinsLearn, ListsLearn DEF RegistryInv
    <2>3. CASE UNCHANGED <<byAddr, byCoinID, loads>>
        <3>1. RegistryTypeOK'
            BY <1>1, <2>1, <2>3 DEF RegistryTypeOK, LookupType, Steps, Turns, Statuses
        <3>2. QED
            BY <1>2, <2>3, <3>1 DEF RegistryInv
    <2>4. QED
        BY <1>1, <1>4, <2>2, <2>3, LookupForms
<1>5. CASE UNCHANGED registryVars
    BY <1>1, <1>2, <1>5 DEF registryVars, RegistryInv, RegistryTypeOK
<1>6. QED
    BY <1>3, <1>4, <1>5 DEF RegistryNext

\* The limiters leave the registry alone, and a handler's steps are the registry's.
LEMMA ApiStepIsRegistryStep == [Next]_apiVars => [RegistryNext]_registryVars
    BY DEF Next, apiVars, registryVars, HandleGetPriceByAddress, Refresh, RegistryNext

\* The invariant of the registry holds of the whole API.
THEOREM RegistryInvariant == Spec => []RegistryInv
<1>1. Init => RegistryInv
    BY RegistryInitially DEF Init
<1>2. RegistryInv /\ [Next]_apiVars => RegistryInv'
    BY RegistryStep, ApiStepIsRegistryStep
<1>3. QED
    BY <1>1, <1>2, PTL DEF Spec

\* However requests and refreshes interleave, an address that some catalog named
\* resolves to the coin of the last entry that did: Add's look at the map under the lock
\* keeps a late lookup from overwriting it.
THEOREM CatalogHasLastWord == Spec => []CatalogWins
<1>1. RegistryInv => CatalogWins
    BY DEF RegistryInv
<1>2. QED
    BY <1>1, RegistryInvariant, PTL

\* The lists of contracts grow by the entries loaded and by one for each address
\* learned, whatever the number of concurrent lookups.
THEOREM ListsGrowByLoads == Spec => []GrowthBounded
<1>1. RegistryInv => GrowthBounded
    <2> SUFFICES ASSUME RegistryInv PROVE GrowthBounded
        OBVIOUS
    <2>1. RegistryTypeOK /\ ListsInv
        BY DEF RegistryInv
    <2>2. ASSUME NEW t \in Tokens, NEW k \in Keys PROVE byCoinID[t][k] <= 1
        <3>1. byCoinID[t][k] \in Nat
            BY <2>1 DEF RegistryTypeOK, CoinIDs
        <3>2. QED
            BY <2>1, <3>1 DEF ListsInv
    <2>3. QED
        BY <2>1, <2>2 DEF ListsInv, GrowthBounded
<1>2. QED
    BY <1>1, RegistryInvariant, PTL
=============================================================================
