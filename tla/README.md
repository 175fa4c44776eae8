# Verification of the crypto price aggregator

TLA+ models of the aggregator's own logic, the TLC runs that check them, and
TLAPS proofs of the properties that matter most. Paths are relative to `src/`.

## The system

The server asks some forty public APIs for crypto prices and serves one price
per (coin, currency). `cmd/server/main.go` wires everything.

| Component | State it keeps | Operations |
|---|---|---|
| Circuit breaker `internal/router/circuitbreaker.go` | state, failure count, time of last failure, per provider | AllowRequest (which may half-open), RecordSuccess, RecordFailure, State |
| Rate limit tracker `internal/router/ratelimit.go` | tokens left, end of the window, per provider | Consume, Remaining, IsExhausted, each with a lazy window reset |
| Router `internal/router/multi.go`, `strategy.go`, `smart.go`, `priority.go`, `roundrobin.go` | the above plus latency and accuracy per provider, the round-robin index, one lock | Select, ReportSuccess, ReportFailure, RecordAccurate, RecordOutlier, ProviderStatuses |
| Price service `internal/app/price_service.go` | none of its own: locals of a request, goroutines it starts | GetPrice in single and in consensus mode, GetPrices |
| Consensus engine `internal/app/consensus.go` | results of its goroutines | Compute |
| Validator, outlier detector `internal/app/validator.go`, `outlier.go` | configuration | Validate, ValidateAgainstReference |
| Alert service `internal/app/alert_service.go` | the alerts and whether they are active, a wait group of webhooks | Create, Delete, OnPriceUpdate, Stop |
| Poller `internal/scheduler/poller.go` | key -> cancel function, one goroutine per key | Subscribe, Unsubscribe, Stop |
| Websocket hub `internal/adapter/transport/ws` | clients, a bounded queue of updates, a bounded channel per client | OnPriceUpdate, Run, HandleWS per connection |
| ClickHouse store `internal/adapter/storage/clickhouse` | a batch buffer | Save, Close, the ticker |
| Memory store, cache; redis; postgres `internal/adapter/storage` | prices, cached entries | Save, GetLatest, queries; Get, Set |
| Token registry `internal/registry`, price by address `internal/app/price_service_address.go` | address -> coin, coin -> addresses | Add, Resolve, LoadCatalog, refresh; a lookup that resolves, asks and learns |
| Conversion `internal/app/price_service_convert.go` | none | Convert |
| Binance stream `internal/adapter/stream/binance` | connection, cancel function, a bounded channel | Subscribe, read loop, Close |
| Provider adapters `internal/adapter/provider`, forty of them | health (healthy, lastError, lastSuccessAt) | GetPrice, GetPrices over HTTP |
| HTTP rate limiter `internal/adapter/transport/http/middleware.go` | address -> limiter and last access | getLimiter, Allow, the janitor |
| Configuration `internal/config/config.go` | the values | Load, Validate |
| Server `cmd/server/main.go`, `wiring.go` | open connections, the running goroutines | start, or a fatal exit; ten steps of shutdown |
| HTTP handlers, reloader, admin, analytics, telemetry, dashboard | counters, log level | decoding and encoding, reload, queries |

How they interact. A request (from the HTTP API or a poller goroutine) runs in
its own goroutine through the price service: cache, then router, provider,
router again with the outcome, validator, cache, store, and at the end a
goroutine that calls the listener, which is the hub and the alert service. All
requests share the router, cache, store, hub and alerts. The binance stream's
goroutine in `main.go` writes the same cache and store. The shutdown stops the
HTTP server, stream, hub, poller, alerts and telemetry in that order and then
closes postgres, redis and clickhouse.

What is hard here: every component is shared by many goroutines, and most
operations take several critical sections in a row (check then consume, collect
then trigger, cache then store, swap then write). Reports come in late and out of
order. Storage and providers fail at any call. Queues are bounded. Lazy time
(window resets, half-opening) happens only when somebody asks. Goroutines end
only if somebody cancels them. `PROJECT.json` lists each hazard at its line.

What makes each component correct, in a sentence:

- breaker: it is closed exactly when fewer than threshold failures were reported
  since the last success, and an open one is probed again;
- rate limit: no window has more calls than its limit, whoever asks at once;
- router: a Select ends, gives back the lock, rotates when it should rotate, grants
  a call that is left, and fails only when it has found everybody unavailable;
- price service: a request ends, with a price or an error, never neither; nothing
  unvalidated kept; nothing served that is not on its way to the store, and the
  last resort finds what was served;
- consensus: the median is one, nobody votes twice, and one liar cannot move it;
- alerts: each fires once, and once triggered is not forgotten;
- poller: no goroutine without a registered key, cancelled ones end;
- hub: no send on a closed channel, no blocking on a slow client, order kept;
- batch buffer: every price in exactly one place, what counts as written is in the
  table, nothing left behind by Stop;
- stores: three implementations of one interface, the same candles;
- adapters: the coin that was asked, in the currency it is labelled with, no
  request beyond the token taken for it, failures reported as what they are;
- HTTP rate limiter: as good as one token bucket per address for ever;
- registry: the catalog has the last word, and requests do not make it grow;
- server: no client brings it down, storage outlives its users, stopped things stay
  stopped, opened things are closed, and a shutdown ends.

## Modules

`CircuitBreaker` and `RateLimitTracker` define those types as values and their
methods as operators. Time is relative: ticks since the last failure, age of the
window, each capped just past the bound the code compares with, so `Tick` keeps
the state finite and loses nothing. Both are extended by:

- `MultiRouter`: the router with its three strategies. Everything a Select looks
  at has a lock of its own and changes under it, so Select is a sequence of
  steps, one per inner critical section (`SelectBegin`, `CheckBreaker`,
  `CheckExhausted`, `CheckOutliers`, `TakeSnapshot`, `SelectReturn` or
  `SelectError`), of the caller that holds `mu`. `ReadStatus` is
  ProviderStatuses, whose `Remaining` resets windows without `mu`. The smart
  score is an exact fraction. `granted` and `owed` are history variables.
- `RouterContract` is the abstract specification that `MultiRouter` implements
  (`HonoursContract`): what a caller of Select may rely on, without strategies,
  locks, breakers or lazy resets. A caller asks, rules providers out, settles on
  one, is granted a call or fails, and releases it; windows end all by themselves.
  The mapping computes the calls left with a due reset counted as done (`Left`),
  who would be found available now (`Fit`), where a caller is (`Stage`), and whom
  its scan has done with (`RuledOut`).
- `PriceService`: concurrent GetPrice requests for one key. Every call out of
  GetPrice is a step; `router.Select` is one step, its inner interleavings being
  MultiRouter's subject. `Strategy = "any"` stands for smart and round robin with
  scores abstracted away. Consensus mode starts one goroutine per Select
  (`Poll`), unless the provider was selected before (`NewCalls`), which answer in
  any order (`PolledReturns`, `PolledFails`).
  The store is of two kinds, by the constant `Buffered`: memory and postgres write
  in `StoreSave`, so that a query sees the price at once; clickhouse's Save puts it
  into the batch buffer (`pending`), from where `Flush` writes any part of what is
  waiting at any time, which is more than the buffer does (`BatchBuffer` has its
  order). `Latest` reads what is written. `StorageMayFail` lets every cache and
  store call fail, and every write of a batch, with or without its effect;
  `storeFailed` is a history variable. A price is a value, its `ReceivedAt` order, who made it, and
  whether its answers pass the basic checks.
- `Consensus`: sort, median (doubled, to stay in the integers) and the count of
  agreeing prices.

Pure parts have modules of their own, and `SavedPrices` feeds all of them the same
sequences of prices: `Consensus`; `PriceStores`, the candles and latest prices of
the Go store and of the two SQL ones (a sort that leaves ties in any order makes
open and close of a candle sets); `Conversion`, division rounded to a fixed number
of places, in units of the last place.

The rest stand alone, because other components meet them only by one call:

- `AlertService`: updates run concurrently; `Collect` is the read-locked part of
  OnPriceUpdate, `Trigger` the write-locked part of trigger, `StartWebhook` what
  comes after the unlock (wg.Add and go), `Post` one attempt of a webhook. `Stop`
  is the shutdown: it takes effect only when the wait group is empty.
- `BatchBuffer`: savers, the ticker's goroutine and the closer share `Add` and
  `flush`; `Swap` is the critical section, `WriteOK`/`WriteFails` the insert
  outside it with its one retry. A write that fails while the connection is open
  may have had its effect (the answer was lost); `rows` counts a price's rows in
  the table.
- `ProviderAdapters`: the forty adapters are one algorithm with variations, so
  each is a record (which method makes requests, one request or one per coin, how
  coins are looked up, which quote is asked for, what each kind of answer and each
  status lead to, which errors are passed over or not recorded), and one set of
  actions interprets the record of the adapter `name`. Bodies are abstracted to
  four kinds of answer for a coin, requests to eight kinds of failure. Concurrent
  calls share the health.
- `IPRateLimiter`: requests take the map's lock in `GetLimiter` and the limiter's
  own in `Allow` or `Limit`; `Prune` is the janitor, `Pass` the clock. `TokenBuckets`
  is the abstract specification it implements (`KeepsPromise`): the bucket of an
  address is its limiter's when there is one and full otherwise.
- `TokenRegistry`: the two maps, a catalog loaded in one critical section, and
  GetPriceByAddress as the steps of a lookup. The list of a coin's addresses is a
  count per address: its order follows Go's order of a map's keys, which is any. `Api` composes it with
  `IPRateLimiter`: a lookup runs only in a request that was let through.
- `Poller`: goroutines by identity, so that one whose cancel function is
  overwritten would show. Select with two ready cases is a choice.
- `BinanceStream`: Subscribe step by step with Close between any two steps, the
  read loop, and the loop of main over the bounded channel.
- `Server` composes `Poller` and `BinanceStream` with main: `LoadConfig` (Validate
  with its auto-correction), one step per connection, `Wire`, HTTP handlers that
  read prices, subscribe and unsubscribe, `Signal`, and the steps of the shutdown.
  Every fatal exit is an action. So is every panic of time.NewTicker: of a polling
  goroutine whose interval, after Subscribe's minimum, is not positive (`tooShort`,
  `PollerPanics`), and of the registry's refresh (`RefreshPanics`). No interval of
  the configuration is assumed to be positive: Validate does not look at them. What the handlers and goroutines do with prices
  is PriceService's subject; here they only use the storage.
- `WsHub`: hub, reader and writer of every connection. The broadcast holds the
  read lock over all clients (`Unlocked` is what the write lock waits for).

Module `X`'s `MCX` gives values for TLC where plain model values do not do.
`BatchBuffer` and `WsHub` need none and are checked themselves.
Operators named `Name_Something` next to `Name` are mutants: `Name` with one
plausible mistake, used to see that a property notices it. No specification uses
them.

## Runs

| Run | Instance | Shows |
|---|---|---|
| RouterRoundRobin | 2 callers, 2 providers of unequal limits (1 and 2) and thresholds (2 and 1), windows and timeouts that may end at every tick, one accuracy report each that disables | `GrantsWithinLimit`, `BreakerSound`, `RoundRobinRotates` |
| RouterSmart | 2 callers, 3 providers, one paid and excluded, limit 1, windows and timeouts that may end at every tick, fairness | `SelectTerminates`, `OpenIsProbed`, `HonoursContract` (refinement of `RouterContract`) |
| PriceSingle | the store of clickhouse, whose batches may fail; 2 requests, 2 providers of threshold 1 and 2 tokens, 1 attempt, answers good or zero, one stream price | `OnlyValidated`, `NothingAheadOfStore`, `FallbackSeesServed` |
| PriceConsensus | a store that writes at once; 1 request, 3 providers, 4 Selects, 2 attempts of the retry loop after them, answers 10, 40 and 41 of anybody in any order, storage that fails, fairness | `NeverNilNil`, `TrustsNobody`, `RequestsEnd` |
| Prices | every sequence of up to 5 of 6 samples (values 0, 1, 7, 10, 11; two at one instant, some out of order), all windows in 0..8, intervals 2 and 3, amounts 1 and 3, three decimal places | `MedianSplits`, `StoresAgree`, `ConvertAccurate` |
| Adapters | each of the 40 adapters, 2 concurrent calls, GetPrice of 3 coins and GetPrices of 3 lists in 2 currencies, every failure and answer of every request | `AnswersAsked`, `DollarsAreDollars`, `RequestsPaidFor`, `ThrottlingSurfaces`, `HealthTellsOutcome` |
| Alert | 2 alerts, 3 concurrent updates (two meet both alerts), deletes, shutdown, 2 attempts | `FiresOnce`, `TriggeredHasOwner`, `MetAlertSettles` |
| Buffer | 3 prices, 2 savers, ticker, closer, buffer of 2, writes that fail with or without their effect | `Conserved`, `StopLeavesNothing`, `BufferDrains` |
| Hub | 2 clients, queue of 2, channels of 1, 3 updates | `NoSendOnClosed`, `InOrder`, `QueueDrains` |
| Api | 2 addresses, 3 requests of which 2 are lookups, burst 2, rate 1, idle time 1, 2 catalogs of which one overwrites and repeats, 2 loads | `KeepsPromise` (refinement of `TokenBuckets`), `CatalogWins`, `GrowthBounded` |
| Server | 11 configurations (postgres with redis; postgres, clickhouse and binance with values to correct; one for each check of Validate; one with a min_interval of 0; one with a registry refreshed every 0 seconds), 1 key, 2 polling goroutines, channel of 2, 1 handler, intervals -1, 0 and 60 | `LiveIsRegistered`, `ClientsCannotPanic`, `HandlersHaveStorage`, `StopIsFinal`, `OpenedAreClosed`, `ShutdownCompletes`, `StreamDrains`, `CancelledExits` |
| PriceRetryGivesUp | 1 request, 2 providers, priority, threshold 2 | violates `NoMoreAlternatives` |

Why these bounds. Every interleaving property here is between two goroutines
that both want one thing (the last token, the same alert, the same buffer), so
two of each is the least that shows it; alerts get three, since a third update
can come while two are in trigger. Limits of 1 and 2 make "exhausted" and "not
yet" both happen, thresholds of 1 and 2 the same for breakers. A timeout of 0
ticks means "over at the next tick", so that before and after both occur. The
buffer of 2 with 3 prices fills and is left with one that waits for the ticker or
for Stop, while two batches can be under way at once; the queue of 2 with 3 updates overflows.
Five prices cover odd and even medians with ties, zero and an outlier, and
candles with none, one and several prices. Two calls of an adapter are what its
health can mix up; the lists hold no coin, a known one before an unknown one, and
one coin in two spellings. Three answers are the least that `TrustsNobody` speaks
of; of 10, 40 and 41 only two agree, so each may be the liar's, and with four
Selects and three providers one is selected twice. What another request does to the
one of PriceConsensus comes over the router, whose providers fail, run out and come
back anyway; over cache and store it could only add prices, and all that its three
properties say of a price is that it is there and, when it is the consensus', within
the answers. In PriceSingle one attempt is enough to reach the fallback and two
requests to have one return what the other falls back to; that the loop goes round
is PriceConsensus' part. PriceSingle with a store that writes at once is the case
that each Flush follows its Save immediately. Two lookups of one address race to learn it, two loads
can come before, between and after; a burst of 2 with a rate of 1 needs the whole
idle time to refill, the tightest that the assumption allows. Two goroutines for
one key are a subscription and its replacement. `MaxResponses`, `MaxStream`,
`MaxUpdates`, `MaxLoads`, and the sets `Pollers`, `Requests`, `Calls` bound what
may be done; all are CONSTANTS.

Symmetry (callers, requests, calls, lookups) is used in runs of safety properties
only. `KeepsPromise` is one: `TokenBuckets` has no fairness, and its mapping does
not tell lookups apart.

Deadlock is checked except where the system really ends: the process has exited
(Alert, Server), everything is saved and the store closed (Buffer), all prices are
in (Prices), all calls have returned (Adapters), all requests of the instance have
been answered (Api).

### Fairness

Stated as `FairSpec` in each module, and no more than Go gives: a goroutine that
can go on goes on (weak fairness per goroutine), a ticker fires, the clock
advances. Provider and webhook calls end because their HTTP clients have
timeouts, and calls of storage are taken to end. `PriceService`'s fairness is that of
requests and of the goroutines of Compute; no clock and no flush need to go on for
`RequestsEnd`. Strong fairness is used in one place, a `select` with two ready cases:
Go picks among ready cases at random, so a case that is ready again and again is
taken (`TakeTick`, `TakeDone` in Poller; `TakeDone` in BatchBuffer). Requests
keep coming in the router's fairness because pollers exist to send them. The hub
relies on its own goroutine only: no peer need ever read. In `Server`, main's
shutdown goes on, and so do the
loop over the stream and the polling goroutines; handlers need not, since a client
may be slow for ever, and the stream's peer need not send. Only srv.Shutdown is modelled as a wait; alertSvc.Stop
waits for webhooks, whose attempts are counted and have time limits (module
`AlertService`), the telemetry's shutdown has one of its own, and the closing of the pools and
clickhouse's last flush are calls of storage. Nobody is obliged to
call Unsubscribe, Delete or Stop, or to send the signal.

## Proofs

For all values of the constants that the modules' ASSUMEs admit (any providers,
callers, limits, strategy; any alerts and updates; any prices, goroutines and
buffer size; any keys, configurations and handlers; any connections and
capacities; any addresses, requests and catalogs):

- `MultiRouterProofs`: `RouterTypeOK`, `RateLimitRespected`, `BreakersSound`.
  "At most limit grants per window" is not inductive: between IsExhausted and
  Consume the check could become stale. `RouterInv` adds that only the holder of
  `mu` is inside Select (`LockHeld`), that grants and remaining tokens add up to
  the limit (`TokensConserved`), and that the provider a Select has found not
  exhausted, and the one it will return, keeps a token (`TokenReserved`). The last
  holds because only Select consumes and a lazy reset can only add. Type
  correctness needs that too: without it Consume could go below zero. One lemma
  per action; breaker and tracker operators have lemmas of their own. The ASSUME
  asks for thresholds above zero, which `cmd/server/wiring.go:91` sees to (it turns
  zero and less into 5), and for providers that are registered once, which the
  map they come from sees to (`wiring.go:74`).

  `RoundRobinStarvesNobody` (`RoundRobinRotates`) is about the whole history since
  a grant, which no single step shows. `RotationInv` turns it into places: seen
  from the place that the rotation has come to, a provider still waits only for
  providers that come before it (`OwedFrom`), and a Select that has not chosen has
  exactly the providers from its place on left to look at (`Rotates`). Passing a
  provider or choosing it moves the place by one, around the end of the list; the
  lemmas `Wraps`, `IndexAfterWraps` and `WaitsPassing` are that arithmetic, for any
  number of providers.

  `RouterHonoursContract` is the refinement of `RouterContract`, one lemma per
  action, for all three strategies. That a failing Select has ruled out everybody
  needs that its scan began with everybody (`ScanCovers`: the sort of
  priority and the rotation of round robin leave nobody out), and that each step
  that shortens the list found the one it drops unavailable at that moment. That a
  granted provider has a call left is `TokenReserved`; that it is not an excluded
  one is `FreeOnly`, which goes with `RouterInv` through the induction. A lazy
  reset is invisible (`ResetKeepsLeft`), and a tick that ends windows is `Elapse`.
  The contract is as strong as the code allows: a granted provider may have been
  found unhealthy by somebody else since, and an error does not mean that all were
  unavailable at one moment. In this, `PriceService`'s one-step Select is simpler
  than the code. Its theorems do not depend on it: their invariants do not mention
  breakers or tokens, and no proof looks at whom Select may choose.

  `SelectsAdvance` is the safety half of `SelectTerminates`: every step of a Select
  decreases `Effort`, and no other step raises it. What is left to TLC is
  that the holder of the lock goes on, which is fairness.
- `PriceServiceProofs`: from `ServiceInv`, for both modes and with storage that may
  fail, `NeverNothing` (a request that goes on or falls back has left an error
  behind, `RetryInv`), `StoreCatchesUp`, and the action property
  `FallbackIsCurrent`, for both kinds of store: what a request has returned fresh is
  in the store or in a batch (`StoreInv`), and a store that has a price has a latest
  one (`StoreHasLatest`), since no stamp is later than the clock
  (`PricesStamped`); so the fallback finds one, at least as new. With clickhouse the
  property begins when the price's batch is written; before that it would be false.
  `SingleModeValidates` proves
  `OnlyValidated` with the hypothesis that the mode is single: consensus mode
  does not call the validator (see below). Of a price the invariant knows
  its stamp and its origin only.

  `ConsensusTrustsNobody` (`TrustsNobody`) is about what consensus mode serves: with
  three answers or more the price lies within the range of the others' answers,
  whoever is wrong. The median bounds a liar who has one vote (`LiarsAreBounded`'s
  argument); that he has one is `OneAnswerEach`. `AnswersInv`, inductive beside
  `ServiceInv`, says that a provider that has answered is not being called, and
  that all who were called are in `selected` while the loop runs; without the
  latter a repeated Select would start a second call. The price served is the
  doubled median halved and rounded down, which stays between integers.

  The second half of the module is the pure parts, for any sequence of prices,
  of which `SavedPrices` assumes that values and times are natural numbers:
  `MedianIsOne`, `LiarsAreBounded`, `StoresAreInterchangeable`,
  `ConversionsAccurate`. Induction over a sequence is replaced by a least
  counterexample (`LeastNumber`, from the well-foundedness of the naturals). That a
  sorted arrangement exists comes from ranks: the number of prices before one, ties
  by place, maps the places one to one to themselves (`SortExists`); that there is
  only one, from the first place at which two would differ (`SortUnique`). So the
  `CHOOSE` in `SortPrices` is the sequence that sort.Slice leaves, and the first and
  the last half of it are the prices that `MedianSplits` counts. Candles agree
  because a time is in the interval of its truncation and no other (`TruncateTo`).
- `ProviderAdaptersProofs`: the five properties of the forty adapters, from
  `AdapterInv`, for any lists of coins and any number of concurrent calls. What a
  call has collected so far is an increasing choice from the coins it has passed
  (`CollectInv`); requests made are at most the known coins passed (`SentInv`); and
  for the health, which concurrent calls overwrite, there is always a call that
  accounts for it (`HealthInv`). The last needs that an adapter whose GetPrice makes
  the requests has a price for every coin so far (`LoopInv`).
- `ServerProofs`: `NoPollerLeaks` for the poller alone, from `PollerInv` (goroutines
  not started yet have no key and no cancellation), and `ServerLeaksNoPoller` for
  the server, whose every step is one of the poller's or leaves it alone. From
  `ServerInv`: `OnlyConfiguredPanics`, `StorageOutlivesHandlers`,
  `NobodySubscribesAfterStop`, `MainClosesWhatItOpened`. It says what is open at
  each step of main (`OpenInv`), that only handlers that Shutdown gave up on run
  beside the rest of the shutdown (`HandlerInv`), and that after Close the stream's
  connection is neither open nor about to be, unless Close came during the dial
  (`StreamInv`), and that a positive min_interval leaves no interval that is not
  (`PanicInv`). `OnlyConfiguredPanics` is for every configuration: a panic is of a
  min_interval or of a refresh interval that is not positive, whatever clients ask.
- `WsHubProofs`: `HubNeverPanics` and `ClientsSeeInOrder`, from `HubInv`: a client in
  the map is being read, one whose channel is closed is out of it, and the
  broadcast looks at clients in the map only (`ConnInv`); update numbers increase
  along the whole way of an update, from what a client has got over the broadcast
  and the queue to the calls still to come (`OrderInv`).
- `AlertServiceProofs`: `AlertsFireOnce`, `TriggeredAlertsOwned`, from `AlertInv`:
  an update between Trigger and StartWebhook is the only owner of its alert, and
  the alert is inactive and its webhook not started.
- `BatchBufferProofs`: `PricesConserved`, `StopDrains`, from `BufferInv`: batches,
  buffer, written and lost are disjoint; a goroutine that is not writing has an
  empty batch; a price that waits for its retry has one row at most (`RowsOK`), so
  that one that counts as written has one or two; from Stop's swap on, nothing added before Stop is in the buffer.
- `ApiProofs`: `LimitersInvariant` and `LimitersKeepPromise`, the refinement of
  `TokenBuckets` for the whole composition `Api`. A forgotten limiter is harmless
  because it was full, which is not visible in one step: `LimiterInv` says that a
  limiter unused for n ticks has at least n times the rate (or is full), and that
  one between getLimiter and Allow is in the map and was just used. The assumption
  `Burst <= Rate * (Idle + 1)` says that the idle time is long enough to fill a
  bucket: with the code's ten minutes, burst at most 600 times
  requests_per_second, which the defaults (10 and 20) are far from breaking but
  Validate does not check.

  And the registry: `CatalogHasLastWord`, `ListsGrowByLoads`, from `RegistryInv`. An
  address is listed under what was learned for it only while it is registered
  (`ListsInv`), so a second lookup finds it and does not list it again. The count
  of a load is the cardinality of the entries that name the address, added to the
  one of the loads before it.

Every inductive invariant was checked by TLC on its run's instance before it was
proved.

Only model-checked: liveness (`SelectTerminates`, `OpenIsProbed`, `RequestsEnd`, `MetAlertSettles`,
`BufferDrains`, `QueueDrains`, `ShutdownCompletes`, `StreamDrains`, `CancelledExits`),
since the prover has no fairness and no ENABLED; and the violation
in `PriceRetryGivesUp`, which is a counterexample and not a theorem.

## Where code and words disagree

Checked by a run: `internal/app/price_service.go:149`. The retry loop stops when
the router returns a provider already tried; the comment says "no more
alternatives". The priority strategy returns the same provider until its breaker
opens, so with a threshold above 1 one failure ends the loop with an untried
provider available (`PriceRetryGivesUp`).

Seen while modelling, not given a run. Prices:

- `price_service.go:108`: consensus mode never calls the validator, while
  `README.md:18` promises validation. `OnlyValidated` is of single mode.
- `price_service.go:167` reports the success before validation, which resets the
  failure count: a provider that always answers rubbish never trips a breaker of
  threshold above 1.
- Accuracy and outlier reports are exported and called by tests only, although
  `README.md:18` names outlier detection and provider reputation.
- `price_service_address.go:38` learns an address under a coin id that is the
  address itself. No provider of the router knows it, so the next lookup resolves
  it, fails where the first one succeeded, and counts as a failure against
  breakers (`README.md:21`: "auto-learning token registry").
- `registry.go:69`: every refresh appends every contract of the catalog again.

Adapters:

- Many adapters ask for dollars, tether or won whatever currency was asked, and
  label the price with the currency asked (kraken, dydx, phemex, woox, upbit and
  others: the ones whose `quote` is not "asked" or "usdt").
- A coin that an adapter does not know marks it unhealthy and is reported to the
  router as a failure of the provider.
- coinpaprika's GetPrices passes over every error, 429 included; cryptocompare does
  not record that it found nothing; no adapter records a request that could not be
  made.
- `common/base.go` is embedded by no adapter.

Storage:

- `clickhouse/buffer.go:57`: "now safe — no concurrent flush". A Save's own flush
  may still be writing.
- `clickhouse/store.go:80` returns before anything is written, and `:125` reads the
  table: when the providers fail, GetPrice's last resort (`price_service.go:208`) may
  answer with an older price than it has returned before, or with an error although
  it has returned one, for as long as the batch waits (five seconds by default).
  `FallbackSeesServed` says so in its hypothesis; with memory and postgres there is
  no such window.
- `clickhouse/buffer.go:84` writes the batch once more after an error. If the first
  write had its effect, a plain MergeTree (`schema.go:21`) keeps both: candles do not
  change, the averages and counts of the analytics do.
- `postgres/store.go:132` counts candles from the start of the window and leaves
  out what follows the last whole interval; the other two align them to the clock
  and keep partial ones. `StoresAgree` is of windows made of whole intervals.
- clickhouse stores prices as Float64, the others as decimals.
- With postgres and clickhouse both enabled, both are opened and only clickhouse
  is used.

Process:

- `alert_service.go:84` calls wg.Add after the unlock, and the goroutine that runs
  OnPriceUpdate is in no wait group: the process may exit between the alert's
  deactivation and its webhook (`CHANGELOG.md:34`: "Graceful shutdown with correct
  dependency ordering").
- The loop over the stream and the polling goroutines are cancelled and not waited
  for, nor are the goroutines that save in consensus mode: they may use the cache and
  the store after these are closed, and what they put into clickhouse's buffer then
  stays there. Handlers may
  only when they outlast Shutdown's ten seconds (`HandlersHaveStorage`).
- `binance.go:98`: a Close during the dial finds no connection and no cancel
  function, and the connection is opened behind it (`missed`).
- `poller.go:97`: with a tick waiting and the context cancelled, select may take
  the tick, so a fetch can start after Unsubscribe (`docs/openapi.yaml:326`: "The
  next scheduled fetch will not run after deletion.").
- Validate does not look at `polling.min_interval` or `registry.refresh_interval`;
  a ticker of zero or less panics (`poller.go:93`, when a client asks for such an
  interval too; `registry/coingecko.go:42`, at once). The batch interval of
  clickhouse is corrected instead (`clickhouse/store.go:57`).
- The limiters' janitor hands out tokens when burst exceeds what the rate gives in
  ten minutes, or when a request stalls for that long between getLimiter and Allow.

## Not modelled, and why

- Request decoding, query parameters, JSON, CORS, API key, logging, metrics,
  dashboard: no state that a property depends on.
- The reloader: it sets the log level and nothing else.
- Analytics: four SQL statements whose statistics are floating point.
- `router/single.go`, used by tests only; `common/base.go`, used by its own.
- DNS checks of webhook URLs. `GetPrices`, a sequence of GetPrice calls.
  `ValidateAgainstReference`, which only logs. Redis' encoding and expiry.
- The layout of the APIs' bodies, and volumes and changes in them.

## Plan

Every component with state that properties depend on has its module, every safety
property that a run checks has its theorem, and the two abstract specifications
are shown to be implemented. What could follow:

1. `PriceService` over `RouterContract`: its one-step Select replaced by Ask,
   Grant and Fail. Its safety theorems would stand as they are; what TLC checks of
   it would cover the interleavings of two Selects too.
2. Variants for the other liveness properties, as `Effort` is for
   `SelectTerminates`: that the steps of a shutdown come in order, that a webhook's
   attempts run out.
