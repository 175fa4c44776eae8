---------------------------- MODULE PriceService ----------------------------
(***************************************************************************)
(* internal/app/price_service.go: concurrent GetPrice requests for one     *)
(* (coin, currency) key, over the router, the cache, the store and the     *)
(* price listener that main.go wires them to.  The binance stream of       *)
(* main.go writes the same cache and store beside them.                    *)
(*                                                                         *)
(* Every call out of GetPrice is a step, so that requests interleave       *)
(* between any two of them.  Router.Select is one step here; MultiRouter   *)
(* shows what its inner interleavings may do.                              *)
(***************************************************************************)
EXTENDS CircuitBreaker, RateLimitTracker, Consensus

CONSTANTS
    Providers, Requests,
    Strategy,       \* "priority", or "any": smart and round robin, scores abstracted
    Priority,       \* provider -> priority, without ties
    CBThreshold, CBTimeout, RateLimit, RateWindow,   \* for all providers alike
    CacheTTL,
    MaxRetries,
    Validation,     \* validator.cfg.Enabled
    ResponseMode,   \* "single" or "consensus"
    ConsensusMax,   \* the literal 5 that GetPrice passes to Compute
    MinProviders, MaxDeviation,
    Responses,      \* what providers may answer: records [value, old]
    Buffered,       \* the store is clickhouse, whose Save only fills a batch
    StorageMayFail, \* calls to redis, postgres, clickhouse can fail
    MaxStream       \* bound: prices the binance stream delivers

ASSUME ServiceConstants ==
    /\ Strategy \in {"priority", "any"}
    /\ Priority \in [Providers -> Int]
    /\ \A p, q \in Providers : Priority[p] = Priority[q] => p = q
    /\ CBThreshold \in Nat \ {0} /\ CBTimeout \in Nat
    /\ RateLimit \in Nat /\ RateWindow \in Nat /\ CacheTTL \in Nat
    /\ MaxRetries \in Nat \ {0}        \* NewPriceService turns less into 1
    /\ Validation \in BOOLEAN /\ Buffered \in BOOLEAN /\ StorageMayFail \in BOOLEAN
    /\ ResponseMode \in {"single", "consensus"}
    /\ ConsensusMax \in Nat \ {0, 1} /\ MinProviders \in Nat /\ MaxDeviation \in Nat
    /\ Responses \subseteq [value : Int, old : BOOLEAN]
    /\ MaxStream \in Nat

VARIABLES
    cb, rl,     \* provider -> breaker, rate limit tracker
    cache,      \* [price, age]: the entry of the key and the ticks since Set
    store,      \* the prices of the key that a query of the store sees
    pending,    \* prices in clickhouse's batch buffer or in a batch being written
    storeFailed,\* history: a call of the store, or the write of a batch, has failed
    saving,     \* goroutines of consensus mode that have still to Save
    notifying,  \* goroutines that have still to call listener.OnPriceUpdate
    clock,      \* order of ReceivedAt stamps
    streamed,   \* prices the stream has delivered so far
    streamSave, \* what the stream goroutine has cached and not yet saved
    phase,      \* request -> where GetPrice is
    tried, attempt, lastErr, current,   \* request -> locals of the retry loop
    price,      \* request -> the price in hand, at the end the result
    source,     \* request -> where the result came from
    polls,      \* request -> Selects made by consensus.Compute
    calls,      \* request -> providers its consensus goroutines are calling
    got         \* request -> <<provider, response>> pairs they appended

routerVars  == <<cb, rl>>
storeVars   == <<store, pending, storeFailed>>
streamVars  == <<streamed, streamSave>>
retryVars   == <<tried, attempt, lastErr, current>>
computeVars == <<polls, calls, got>>
asyncVars   == <<saving, notifying>>
vars == <<cb, rl, cache, store, pending, storeFailed, saving, notifying, clock, streamed,
          streamSave, phase, tried, attempt, lastErr, current, price, source, polls, calls, got>>

\* A price: its value, its ReceivedAt stamp, who made it, and (for the
\* properties) whether every answer it is made of passes the basic checks.
Price == [value : Int, at : Nat, from : {"provider", "consensus", "stream"}, ok : BOOLEAN]

\* nil.
NoPrice == [value |-> 0, at |-> 0, from |-> "none", ok |-> FALSE]

TypeOK ==
    /\ cb \in [Providers -> Breaker(CBThreshold, CBTimeout)]
    /\ rl \in [Providers -> Tracker(RateLimit, RateWindow)]
    /\ cache \in [price : Price \cup {NoPrice}, age : 0..(CacheTTL + 1)]
    /\ store \subseteq Price /\ pending \subseteq Price /\ saving \subseteq Price /\ notifying \subseteq Price
    /\ clock \in Nat /\ storeFailed \in BOOLEAN
    /\ streamed \in 0..MaxStream
    /\ streamSave \in Price \cup {NoPrice}
    /\ phase \in [Requests -> {"new", "poll", "collect", "select", "call", "validate",
                               "set", "save", "fallback", "done"}]
    /\ tried \in [Requests -> SUBSET Providers]
    /\ attempt \in [Requests -> 0..MaxRetries]
    /\ lastErr \in [Requests -> {"none", "no_healthy", "call", "invalid"}]
    /\ current \in [Requests -> Providers \cup {NoPrice}]
    /\ price \in [Requests -> Price \cup {NoPrice}]
    /\ source \in [Requests -> {"none", "cache", "fresh", "consensus", "store", "error"}]
    /\ polls \in [Requests -> 0..ConsensusMax]
    /\ calls \in [Requests -> SUBSET Providers]
    /\ got \in [Requests -> SUBSET (Providers \X Responses)]

----------------------------------------------------------------------------
(* The router *)

Available(p) ==
    Allows(cb[p], CBTimeout) /\ ~IsExhausted(rl[p], RateLimit, RateWindow)

\* The providers Select may return.
Choices ==
    {p \in Providers :
        /\ Available(p)
        /\ Strategy = "priority" =>
             \A q \in Providers : Available(q) => Priority[p] <= Priority[q]}

\* The providers whose breaker and tracker a Select that ends at p looks at.
Scanned(p) ==
    IF Strategy = "priority" THEN {q \in Providers : Priority[q] <= Priority[p]} ELSE Providers

\* router.Select returns p: half-opens, resets, and consumes a token of p.
Selects(p) ==
    /\ p \in Choices
    /\ cb' = [q \in Providers |-> IF q \in Scanned(p) THEN AllowRequest(cb[q], CBTimeout)
                                                       ELSE cb[q]]
    /\ rl' = [q \in Providers |->
                CASE q = p                              -> Consume(rl[q], RateLimit, RateWindow)
                  [] q # p /\ q \in Scanned(p)
                           /\ Allows(cb[q], CBTimeout)  -> CheckReset(rl[q], RateLimit, RateWindow)
                  [] OTHER                              -> rl[q]]

\* router.Select returns ErrNoHealthyProvider, having looked at every provider.
SelectsNone ==
    /\ Choices = {}
    /\ cb' = [q \in Providers |-> AllowRequest(cb[q], CBTimeout)]
    /\ rl' = [q \in Providers |-> IF Allows(cb[q], CBTimeout)
                                  THEN CheckReset(rl[q], RateLimit, RateWindow) ELSE rl[q]]

ReportSuccess(p) == cb' = [cb EXCEPT ![p] = RecordSuccess(@)]
ReportFailure(p) == cb' = [cb EXCEPT ![p] = RecordFailure(@, CBThreshold)]

----------------------------------------------------------------------------
(* Cache, store, validator *)

Cached == IF cache.age > CacheTTL THEN NoPrice ELSE cache.price

\* cache.Set, and store.Save: a failure is logged and otherwise ignored.
CacheSet(p) ==
    \/ cache' = [price |-> p, age |-> 0]
    \/ StorageMayFail /\ UNCHANGED cache

\* (Mutant: the save is skipped.)
StoreSave_Skipped(p) == UNCHANGED storeVars

\* memory and postgres write at once; clickhouse appends to its buffer and
\* returns nil.
StoreSave(p) ==
    \/ ~Buffered /\ store' = store \cup {p} /\ UNCHANGED <<pending, storeFailed>>
    \/ ~Buffered /\ StorageMayFail /\ storeFailed' = TRUE /\ UNCHANGED <<store, pending>>
    \/ Buffered /\ pending' = pending \cup {p} /\ UNCHANGED <<store, storeFailed>>

\* store.GetLatest, of what is written; an error counts as no price.  (Mutant: the
\* first one saved.)
Latest_First == {p \in store : \A q \in store : p.at <= q.at}

Latest == {p \in store : \A q \in store : q.at <= p.at}

BasicChecks(response) == response.value > 0 /\ ~response.old

\* Validate of the price in hand.  (Mutant: the result is not looked at.)
Validates_Ignored(r) == TRUE

Validates(r) == Validation => price[r].ok

Goto(r, ph) == phase' = [phase EXCEPT ![r] = ph]

Finish(r, p, src) ==
    /\ Goto(r, "done")
    /\ price' = [price EXCEPT ![r] = p]
    /\ source' = [source EXCEPT ![r] = src]

----------------------------------------------------------------------------
(* GetPrice: the cache *)

CacheHit(r) ==
    /\ phase[r] = "new"
    /\ Cached # NoPrice
    /\ Finish(r, Cached, "cache")
    /\ UNCHANGED <<routerVars, cache, storeVars, asyncVars, clock, streamVars, retryVars, computeVars>>

CacheMiss(r) ==
    /\ phase[r] = "new"
    /\ Cached = NoPrice \/ StorageMayFail
    /\ Goto(r, IF ResponseMode = "consensus" THEN "poll" ELSE "select")
    /\ UNCHANGED <<routerVars, cache, storeVars, asyncVars, clock, streamVars, retryVars,
                   price, source, computeVars>>

----------------------------------------------------------------------------
(* GetPrice: consensus.Compute and what is done with its result *)

\* What the map `selected` lets through: a provider selected twice costs a
\* token and is not called again.  (Mutant: it is called again.)
NewCalls_Again(r, p) == {p}

NewCalls(r, p) == {p} \ tried[r]

\* One turn of Compute's loop.
Poll(r) ==
    /\ phase[r] = "poll"
    /\ polls[r] < ConsensusMax
    /\ \E p \in Providers :
         /\ Selects(p)
         /\ calls' = [calls EXCEPT ![r] = @ \cup NewCalls(r, p)]
         /\ tried' = [tried EXCEPT ![r] = @ \cup {p}]
    /\ polls' = [polls EXCEPT ![r] = @ + 1]
    /\ UNCHANGED <<cache, storeVars, asyncVars, clock, streamVars, phase, attempt, lastErr,
                   current, price, source, got>>

\* The loop ends; the request waits for its goroutines.  The set `selected` of
\* Compute is dead from here on, and the retry loop starts with an empty `tried`.
PollEnd(r) ==
    /\ phase[r] = "poll"
    /\ \/ polls[r] = ConsensusMax /\ UNCHANGED routerVars
       \/ polls[r] < ConsensusMax /\ SelectsNone
    /\ Goto(r, "collect")
    /\ tried' = [tried EXCEPT ![r] = {}]
    /\ UNCHANGED <<cache, storeVars, asyncVars, clock, streamVars, attempt, lastErr, current,
                   price, source, computeVars>>

\* A goroutine's provider call ends, also by the context's timeout; wg.Done.
\* (Mutant: an error path that leaves without it.)
PolledFails_NotDone(r, p) ==
    /\ p \in calls[r]
    /\ ReportFailure(p)
    /\ UNCHANGED <<rl, cache, storeVars, asyncVars, clock, streamVars, phase, retryVars, price,
                   source, computeVars>>

PolledFails(r, p) ==
    /\ p \in calls[r]
    /\ ReportFailure(p)
    /\ calls' = [calls EXCEPT ![r] = @ \ {p}]
    /\ UNCHANGED <<rl, cache, storeVars, asyncVars, clock, streamVars, phase, retryVars, price,
                   source, polls, got>>

PolledReturns(r, p) ==
    /\ p \in calls[r]
    /\ ReportSuccess(p)
    /\ calls' = [calls EXCEPT ![r] = @ \ {p}]
    /\ \E response \in Responses : got' = [got EXCEPT ![r] = @ \cup {<<p, response>>}]
    /\ UNCHANGED <<rl, cache, storeVars, asyncVars, clock, streamVars, phase, retryVars, price,
                   source, polls>>

\* The values collected, in some order; computeResult sorts them.
Collected(r) ==
    CHOOSE s \in [1..Cardinality(got[r]) -> got[r]] :
        \A i, j \in DOMAIN s : s[i] = s[j] => i = j

Result(r) ==
    LET answers == Collected(r)
    IN  ComputeResult([i \in DOMAIN answers |-> answers[i][2].value], MaxDeviation)

Agreed(r) == Cardinality(got[r]) >= MinProviders /\ Result(r).valid > 0

ConsensusPrice(r) ==
    [value |-> Result(r).median2 \div 2, at |-> clock + 1, from |-> "consensus",
     ok |-> \A g \in got[r] : BasicChecks(g[2])]

\* wg.Wait is over and the confidence is positive: cache, save and notify in
\* goroutines of their own, return.
Agree(r) ==
    /\ phase[r] = "collect" /\ calls[r] = {}
    /\ Agreed(r)
    /\ \E p \in {ConsensusPrice(r)} :
         /\ CacheSet(p)
         /\ saving' = saving \cup {p}
         /\ notifying' = notifying \cup {p}
         /\ Finish(r, p, "consensus")
    /\ clock' = clock + 1
    /\ got' = [got EXCEPT ![r] = {}]
    /\ UNCHANGED <<routerVars, storeVars, streamVars, retryVars, polls, calls>>

\* Too few prices or none agrees: fall through to the retry loop.
Disagree(r) ==
    /\ phase[r] = "collect" /\ calls[r] = {}
    /\ ~Agreed(r)
    /\ Goto(r, "select")
    /\ got' = [got EXCEPT ![r] = {}]
    /\ UNCHANGED <<routerVars, cache, storeVars, asyncVars, clock, streamVars, retryVars, price,
                   source, polls, calls>>

----------------------------------------------------------------------------
(* GetPrice: the retry loop *)

\* lastErr = err.  (Mutant: a path that forgets to set it.)
Fail_Silent(r, err) == UNCHANGED lastErr

Fail(r, err) == lastErr' = [lastErr EXCEPT ![r] = err]

\* Another provider to try.
Select(r) ==
    /\ phase[r] = "select"
    /\ attempt[r] < MaxRetries
    /\ \E p \in Providers \ tried[r] :
         /\ Selects(p)
         /\ tried' = [tried EXCEPT ![r] = @ \cup {p}]
         /\ current' = [current EXCEPT ![r] = p]
    /\ attempt' = [attempt EXCEPT ![r] = @ + 1]
    /\ Goto(r, "call")
    /\ UNCHANGED <<cache, storeVars, asyncVars, clock, streamVars, lastErr, price, source, computeVars>>

\* The router returns a provider that was tried before: break.
GiveUp(r) ==
    /\ phase[r] = "select"
    /\ attempt[r] < MaxRetries
    /\ \E p \in tried[r] : Selects(p)
    /\ Goto(r, "fallback")
    /\ UNCHANGED <<cache, storeVars, asyncVars, clock, streamVars, retryVars, price, source, computeVars>>

\* The router has nothing: break.
NoneHealthy(r) ==
    /\ phase[r] = "select"
    /\ attempt[r] < MaxRetries
    /\ SelectsNone
    /\ Fail(r, "no_healthy")
    /\ Goto(r, "fallback")
    /\ UNCHANGED <<cache, storeVars, asyncVars, clock, streamVars, tried, attempt, current, price,
                   source, computeVars>>

RetriesUsed(r) ==
    /\ phase[r] = "select"
    /\ attempt[r] = MaxRetries
    /\ Goto(r, "fallback")
    /\ UNCHANGED <<routerVars, cache, storeVars, asyncVars, clock, streamVars, retryVars, price,
                   source, computeVars>>

CallFails(r) ==
    /\ phase[r] = "call"
    /\ ReportFailure(current[r])
    /\ Fail(r, "call")
    /\ Goto(r, "select")
    /\ UNCHANGED <<rl, cache, storeVars, asyncVars, clock, streamVars, tried, attempt, current,
                   price, source, computeVars>>

\* The success is reported before the price is looked at.
CallReturns(r) ==
    /\ phase[r] = "call"
    /\ ReportSuccess(current[r])
    /\ \E response \in Responses :
         price' = [price EXCEPT ![r] = [value |-> response.value, at |-> clock + 1,
                                        from |-> "provider", ok |-> BasicChecks(response)]]
    /\ clock' = clock + 1
    /\ Goto(r, "validate")
    /\ UNCHANGED <<rl, cache, storeVars, asyncVars, streamVars, retryVars, source, computeVars>>

\* Validate passes.  (ValidateAgainstReference only logs.)
Accept(r) ==
    /\ phase[r] = "validate"
    /\ Validates(r)
    /\ Goto(r, "set")
    /\ UNCHANGED <<routerVars, cache, storeVars, asyncVars, clock, streamVars, retryVars, price,
                   source, computeVars>>

\* Validate fails: now the provider gets a failure too.
Reject(r) ==
    /\ phase[r] = "validate"
    /\ ~Validates(r)
    /\ ReportFailure(current[r])
    /\ Fail(r, "invalid")
    /\ price' = [price EXCEPT ![r] = NoPrice]
    /\ Goto(r, "select")
    /\ UNCHANGED <<rl, cache, storeVars, asyncVars, clock, streamVars, tried, attempt, current,
                   source, computeVars>>

PutInCache(r) ==
    /\ phase[r] = "set"
    /\ CacheSet(price[r])
    /\ Goto(r, "save")
    /\ UNCHANGED <<routerVars, storeVars, asyncVars, clock, streamVars, retryVars, price, source,
                   computeVars>>

\* Save, start the listener's goroutine, return.
SaveAndReturn(r) ==
    /\ phase[r] = "save"
    /\ StoreSave(price[r])
    /\ notifying' = notifying \cup {price[r]}
    /\ Finish(r, price[r], "fresh")
    /\ UNCHANGED <<routerVars, cache, saving, clock, streamVars, retryVars, computeVars>>

\* The last resort: the newest price of the store, or the last error.
Fallback(r) ==
    /\ phase[r] = "fallback"
    /\ \/ (\E p \in Latest : Finish(r, p, "store")) /\ UNCHANGED storeFailed
       \/ Latest = {} /\ Finish(r, NoPrice, "error") /\ UNCHANGED storeFailed
       \/ StorageMayFail /\ Finish(r, NoPrice, "error") /\ storeFailed' = TRUE
    /\ UNCHANGED <<routerVars, cache, store, pending, asyncVars, clock, streamVars, retryVars,
                   computeVars>>

----------------------------------------------------------------------------
(* Beside the requests *)

\* The goroutine consensus mode starts for store.Save.
AsyncSave(p) ==
    /\ p \in saving
    /\ StoreSave(p)
    /\ saving' = saving \ {p}
    /\ UNCHANGED <<routerVars, cache, notifying, clock, streamVars, phase, retryVars, price,
                   source, computeVars>>

\* The goroutine that calls listener.OnPriceUpdate (hub and alerts).
Notify(p) ==
    /\ p \in notifying
    /\ notifying' = notifying \ {p}
    /\ UNCHANGED <<routerVars, cache, storeVars, saving, clock, streamVars, phase, retryVars, price,
                   source, computeVars>>

\* main.go: the binance goroutine caches and saves what the stream delivers,
\* without a look at it, then hands it to the websocket hub (module WsHub).
StreamCache ==
    /\ streamSave = NoPrice
    /\ streamed < MaxStream
    /\ \E response \in Responses :
         LET p == [value |-> response.value, at |-> clock + 1, from |-> "stream",
                   ok |-> BasicChecks(response)]
         IN  CacheSet(p) /\ streamSave' = p
    /\ clock' = clock + 1
    /\ streamed' = streamed + 1
    /\ UNCHANGED <<routerVars, storeVars, asyncVars, phase, retryVars, price, source, computeVars>>

StreamStore ==
    /\ streamSave # NoPrice
    /\ StoreSave(streamSave)
    /\ streamSave' = NoPrice
    /\ UNCHANGED <<routerVars, cache, asyncVars, clock, streamed, phase, retryVars, price,
                   source, computeVars>>

\* clickhouse: a batch is written, or has failed twice and is dropped, of which the
\* table may have it all the same.  (Module BatchBuffer says which batches.)
Flush(batch) ==
    /\ \/ store' = store \cup batch /\ UNCHANGED storeFailed
       \/ StorageMayFail /\ store' \in {store, store \cup batch} /\ storeFailed' = TRUE
    /\ pending' = pending \ batch
    /\ UNCHANGED <<routerVars, cache, asyncVars, clock, streamVars, phase, retryVars, price,
                   source, computeVars>>

Tick ==
    /\ cb' = [p \in Providers |-> AgeBreaker(cb[p], CBTimeout)]
    /\ rl' = [p \in Providers |-> AgeTracker(rl[p], RateWindow)]
    /\ cache' = IF cache.age > CacheTTL THEN cache ELSE [cache EXCEPT !.age = @ + 1]
    /\ UNCHANGED <<storeVars, asyncVars, clock, streamVars, phase, retryVars, price, source, computeVars>>

----------------------------------------------------------------------------

Init ==
    /\ cb = [p \in Providers |-> NewCircuitBreaker(CBTimeout)]
    /\ rl = [p \in Providers |-> NewRateLimitTracker(RateLimit)]
    /\ cache = [price |-> NoPrice, age |-> 0]
    /\ store = {} /\ pending = {} /\ storeFailed = FALSE /\ saving = {} /\ notifying = {}
    /\ clock = 0 /\ streamed = 0 /\ streamSave = NoPrice
    /\ phase = [r \in Requests |-> "new"]
    /\ tried = [r \in Requests |-> {}]
    /\ attempt = [r \in Requests |-> 0]
    /\ lastErr = [r \in Requests |-> "none"]
    /\ current = [r \in Requests |-> NoPrice]
    /\ price = [r \in Requests |-> NoPrice]
    /\ source = [r \in Requests |-> "none"]
    /\ polls = [r \in Requests |-> 0]
    /\ calls = [r \in Requests |-> {}]
    /\ got = [r \in Requests |-> {}]

\* A goroutine of Compute, and the request's own.
Polled(r, p) == PolledFails(r, p) \/ PolledReturns(r, p)

GetPrice(r) ==
    \/ CacheHit(r) \/ CacheMiss(r)
    \/ Poll(r) \/ PollEnd(r) \/ Agree(r) \/ Disagree(r)
    \/ Select(r) \/ GiveUp(r) \/ NoneHealthy(r) \/ RetriesUsed(r)
    \/ CallFails(r) \/ CallReturns(r) \/ Accept(r) \/ Reject(r)
    \/ PutInCache(r) \/ SaveAndReturn(r) \/ Fallback(r)

Next ==
    \/ \E r \in Requests : GetPrice(r) \/ \E p \in Providers : Polled(r, p)
    \/ \E batch \in SUBSET pending \ {{}} : Flush(batch)
    \/ \E p \in saving : AsyncSave(p)
    \/ \E p \in notifying : Notify(p)
    \/ StreamCache \/ StreamStore
    \/ Tick

Spec == Init /\ [][Next]_vars

\* Goroutines go on, and the calls they make return: those of providers have
\* timeouts.
FairSpec ==
    /\ Spec
    /\ \A r \in Requests : WF_vars(GetPrice(r)) /\ \A p \in Providers : WF_vars(Polled(r, p))

----------------------------------------------------------------------------
(* Properties *)

Done(r) == phase[r] = "done"

\* A request that ends without a price ends with an error: on no path through
\* cache miss, consensus, break, continue and fallback does GetPrice return
\* (nil, nil), which its callers would dereference.
NeverNilNil ==
    \A r \in Requests : Done(r) /\ price[r] = NoPrice => lastErr[r] # "none"

\* Every request ends, whatever providers, router and storage do: in consensus mode
\* Compute waits for all of its goroutines, also for those that fail, and what
\* they cannot agree on leads to a retry loop that ends too.
RequestsEnd == \A r \in Requests : <>Done(r)

\* Prices the service hands out or keeps: results, cache, store, listener.
Kept == ({price[r] : r \in {q \in Requests : Done(q)}} \cup {cache.price} \cup store
            \cup pending \cup notifying)
            \ {NoPrice}

\* With validation on, no provider's answer that fails the basic checks (zero,
\* negative, stale) is served, cached, saved or passed to the listener.
OnlyValidated == Validation => \A p \in Kept : p.from # "stream" => p.ok

\* The fallback never steps behind a price that a request has already returned
\* fresh: it was saved before it was returned, so a later fallback finds it, or a
\* newer one, and does not fail.  (While no call of the store fails; and with
\* clickhouse, once the batch that has the price is written: until then the
\* fallback misses it.)
FallbackSeesServed ==
    [][\A r, q \in Requests :
         (/\ phase[r] = "fallback" /\ phase'[r] = "done" /\ ~storeFailed'
          /\ Done(q) /\ source[q] = "fresh"
          /\ Buffered => price[q] \notin pending)
         => source'[r] = "store" /\ price'[r].at >= price[q].at]_vars

\* Whoever is between cache.Set and store.Save.
Unsaved == {price[r] : r \in {q \in Requests : phase[q] = "save"}} \cup {streamSave}

\* The cache and the listener are never ahead of the store: what they hold is
\* saved or in a batch, or about to be by a goroutine that is alive (while no call
\* of the store fails: a price that could not be saved stays in the cache).
NothingAheadOfStore ==
    ~storeFailed =>
        \A p \in ({cache.price} \cup notifying) \ {NoPrice} :
            p \in store \cup pending \cup Unsaved \cup saving

\* Consensus mode trusts no single provider: with three or more answers the price
\* it returns is within the range of the other providers' answers, whoever is
\* wrong, whatever he says and in whatever order Select's repetitions and the
\* goroutines' answers come.
TrustsNobody ==
    [][\A r \in Requests, liar \in Providers :
         phase[r] = "collect" /\ phase'[r] = "done" /\ Cardinality(got[r]) >= 3 =>
            LET others == {g \in got[r] : g[1] # liar}
            IN  /\ \E g \in others : g[2].value <= price'[r].value
                /\ \E g \in others : price'[r].value <= g[2].value]_vars

\* What the comment at price_service.go:150 says of the break: when the router
\* returns a provider for the second time there are "no more alternatives".
NoMoreAlternatives ==
    [][\A r \in Requests :
         phase[r] = "select" /\ phase'[r] = "fallback" /\ attempt[r] < MaxRetries =>
            \A p \in Providers \ tried[r] : ~Available(p)]_vars

----------------------------------------------------------------------------
(* The inductive invariant behind the safety properties *)

\* What every price that is kept has: a stamp of before now, and an origin.  (Its
\* value is the provider's, or a median.)
Stamped(p, now) ==
    p.at \in Nat /\ p.at <= now /\ p.from \in {"provider", "consensus", "stream"}

RequestTypes ==
    /\ phase \in [Requests -> {"new", "poll", "collect", "select", "call", "validate",
                               "set", "save", "fallback", "done"}]
    /\ tried \in [Requests -> SUBSET Providers]
    /\ attempt \in [Requests -> 0..MaxRetries]
    /\ lastErr \in [Requests -> {"none", "no_healthy", "call", "invalid"}]
    /\ DOMAIN price = Requests /\ DOMAIN source = Requests

PricesStamped ==
    /\ clock \in Nat /\ DOMAIN cache = {"price", "age"}
    /\ \A p \in store \cup pending \cup saving \cup notifying : Stamped(p, clock)
    /\ streamSave = NoPrice \/ Stamped(streamSave, clock)
    /\ \A r \in Requests : phase[r] \in {"validate", "set", "save"} => Stamped(price[r], clock)

\* An iteration of the retry loop adds a provider to `tried`, and leaves an error
\* behind when it goes on.
RetryInv ==
    \A r \in Requests :
        /\ phase[r] \in {"new", "poll", "collect"} => attempt[r] = 0
        /\ phase[r] = "new" => tried[r] = {}
        /\ phase[r] # "poll" => IsFiniteSet(tried[r]) /\ Cardinality(tried[r]) = attempt[r]
        /\ phase[r] = "select" /\ lastErr[r] = "none" => attempt[r] = 0
        /\ phase[r] = "fallback" => lastErr[r] # "none"

\* While no call of the store fails it has, or will have, what requests have
\* returned fresh.
StoreInv ==
    /\ ~Buffered => pending = {}
    /\ ~storeFailed => \A q \in Requests :
                          Done(q) /\ source[q] = "fresh" => price[q] \in store \cup pending
    /\ NothingAheadOfStore

\* Without consensus, only the retry loop's price, once it has passed Validate,
\* and the stream's get anywhere.
SingleInv ==
    /\ saving = {}
    /\ \A r \in Requests : phase[r] \notin {"poll", "collect"}
    /\ streamSave # NoPrice => streamSave.from = "stream"
    /\ Validation => \A r \in Requests : phase[r] \in {"set", "save"} => price[r].ok
    /\ OnlyValidated

ServiceInv ==
    /\ RequestTypes /\ PricesStamped
    /\ RetryInv /\ NeverNilNil
    /\ StoreInv
    /\ ResponseMode = "single" => SingleInv

----------------------------------------------------------------------------
(* What TrustsNobody needs beyond ServiceInv *)

\* Compute gets at most one answer of a provider: one that answered is not being
\* called, and while the loop runs all of them are in `selected`.
AnswersInv ==
    /\ calls \in [Requests -> SUBSET Providers]
    /\ got \in [Requests -> SUBSET (Providers \X Responses)]
    /\ \A r \in Requests :
         /\ IsFiniteSet(got[r])
         /\ \A g \in got[r] : g[1] \notin calls[r]
         /\ \A g, h \in got[r] : g[1] = h[1] => g = h
         /\ phase[r] = "new" => calls[r] = {} /\ got[r] = {}
         /\ phase[r] = "poll" => calls[r] \cup {g[1] : g \in got[r]} \subseteq tried[r]
=============================================================================
