------------------------------- MODULE Server -------------------------------
(***************************************************************************)
(* cmd/server/main.go: the life of the process.  main opens what the       *)
(* configuration enables, or exits; serves until a signal; and closes      *)
(* things in an order that must suit the goroutines which still run: HTTP  *)
(* handlers, the polling goroutines of Poller, the loop over the prices of *)
(* BinanceStream.                                                          *)
(***************************************************************************)
EXTENDS Poller, BinanceStream

CONSTANTS
    Handlers,   \* HTTP requests at a time
    Configs,    \* the configurations Load may return
    Intervals   \* what a client may ask for, in seconds

\* The parts of the configuration that main and Validate look at.
Config == [enabled : SUBSET {"postgres", "redis", "clickhouse", "binance", "registry"},
           port : Int, readTimeout : Int, writeTimeout : Int, cacheTTL : Int, maxRetries : Int,
           limited : BOOLEAN, rps : Int, burst : Int, cbThreshold : Int,
           minInterval : Int, refreshInterval : Int]

ASSUME ServerConstants == Configs \subseteq Config /\ Intervals \subseteq Int

VARIABLES
    config,     \* cfg
    main,       \* where main is
    open,       \* connections of main: "postgres", "redis", "clickhouse"
    tooShort,   \* polling goroutines whose interval is not positive
    running,    \* handlers at work
    timedOut,   \* Shutdown gave up waiting for them
    misused     \* history: a handler found its storage closed

serverVars == <<config, main, open, tooShort, running, timedOut, misused>>
allVars == <<vars, streamVars, serverVars>>

StartUp == {"load", "telemetry", "postgres", "redis", "clickhouse", "wire"}
ShutDown == {"shutdown", "closeStream", "stopHub", "stopSubs", "stopAlerts", "stopTelemetry",
             "closePostgres", "closeRedis", "closeClickHouse"}

ServerTypeOK ==
    /\ TypeOK /\ StreamTypeOK
    /\ config \in Config
    /\ main \in StartUp \cup {"serve"} \cup ShutDown \cup {"exited", "failed", "panicked"}
    /\ open \subseteq {"postgres", "redis", "clickhouse"}
    /\ tooShort \subseteq Pollers
    /\ running \subseteq Handlers
    /\ timedOut \in BOOLEAN
    /\ misused \in BOOLEAN

\* The process: exited is main's return, failed os.Exit(1), panicked the end of
\* all goroutines when one of them panics.
Alive == main \notin {"exited", "failed", "panicked"}

----------------------------------------------------------------------------
(* Configuration *)

AutoCorrect(c) == [c EXCEPT !.maxRetries = IF @ <= 0 THEN 1 ELSE @]

\* polling.min_interval and registry.refresh_interval are not looked at.
Valid(c) ==
    /\ c.port > 0 /\ c.port <= 65535
    /\ c.readTimeout > 0 /\ c.writeTimeout > 0 /\ c.cacheTTL > 0
    /\ c.limited => c.rps > 0 /\ c.burst > 0

\* buildProviderRegistrations: a threshold that is not positive becomes 5.
Registrations(c) == [c EXCEPT !.cbThreshold = IF @ <= 0 THEN 5 ELSE @]

\* Load and Validate.
LoadConfig ==
    /\ main = "load"
    /\ main' = IF Valid(config) THEN "telemetry" ELSE "failed"
    /\ config' = AutoCorrect(config)
    /\ UNCHANGED <<vars, streamVars, open, tooShort, running, timedOut, misused>>

LoadFails ==
    /\ main \in {"load", "telemetry"}
    /\ main' = "failed"
    /\ UNCHANGED <<vars, streamVars, config, open, tooShort, running, timedOut, misused>>

\* telemetry.Setup succeeds, and the router is built.
SetupTelemetry ==
    /\ main = "telemetry"
    /\ main' = "postgres"
    /\ config' = Registrations(config)
    /\ UNCHANGED <<vars, streamVars, open, tooShort, running, timedOut, misused>>

\* A store or cache: skipped when it is not enabled, else connected or fatal.
Connect(what, next) ==
    /\ main = what
    /\ main' = next
    /\ open' = open \cup ({what} \cap config.enabled)
    /\ UNCHANGED <<vars, streamVars, config, tooShort, running, timedOut, misused>>

ConnectFails ==
    /\ main \in {"postgres", "redis", "clickhouse"} \cap config.enabled
    /\ main' = "failed"
    /\ UNCHANGED <<vars, streamVars, config, open, tooShort, running, timedOut, misused>>

\* The rest of the wiring: the stream's goroutine starts, and the server.
Wire ==
    /\ main = "wire"
    /\ main' = "serve"
    /\ sub' = IF "binance" \in config.enabled THEN "dial" ELSE sub
    /\ UNCHANGED <<vars, conn, reader, queue, missed, config, open, tooShort, running, timedOut,
                   misused>>

\* The goroutine of registry.StartRefresh, which Wire has started: NewTicker panics.
RefreshPanics ==
    /\ main \in {"serve"} \cup ShutDown
    /\ "registry" \in config.enabled /\ config.refreshInterval <= 0
    /\ main' = "panicked"
    /\ UNCHANGED <<vars, streamVars, config, open, tooShort, running, timedOut, misused>>

\* ListenAndServe fails, in its goroutine, after main has gone on.
ListenFails ==
    /\ main = "serve"
    /\ main' = "failed"
    /\ UNCHANGED <<vars, streamVars, config, open, tooShort, running, timedOut, misused>>

----------------------------------------------------------------------------
(* Storage and those who use it *)

StoreInUse ==
    IF "clickhouse" \in config.enabled THEN "clickhouse"
    ELSE IF "postgres" \in config.enabled THEN "postgres" ELSE "memory"

CacheInUse == IF "redis" \in config.enabled THEN "redis" ELSE "memory"

InUseAreOpen == {StoreInUse, CacheInUse} \subseteq open \cup {"memory"}

\* A request is accepted until Shutdown closes the listener.
Accept(h) ==
    /\ main = "serve" /\ h \notin running
    /\ running' = running \cup {h}
    /\ UNCHANGED <<vars, streamVars, config, main, open, tooShort, timedOut, misused>>

\* A handler reads a price: cache, providers, store.
HandlerGetsPrice(h) ==
    /\ Alive /\ h \in running
    /\ misused' = (misused \/ ~InUseAreOpen)
    /\ running' = running \ {h}
    /\ UNCHANGED <<vars, streamVars, config, main, open, tooShort, timedOut>>

\* Subscribe raises a short interval to the minimum.  (Mutant: it does not.)
Effective_AsAsked(interval) == interval

Effective(interval) == IF interval < config.minInterval THEN config.minInterval ELSE interval

\* HandlePostSubscription: an interval that parses is passed on, whatever its sign.
HandlerSubscribes(h, k, g, interval) ==
    /\ Alive /\ h \in running
    /\ Subscribe(k, g)
    /\ tooShort' = IF Effective(interval) > 0 THEN tooShort ELSE tooShort \cup {g}
    /\ running' = running \ {h}
    /\ UNCHANGED <<streamVars, config, main, open, timedOut, misused>>

HandlerUnsubscribes(h, k) ==
    /\ Alive /\ h \in running
    /\ Unsubscribe(k)
    /\ running' = running \ {h}
    /\ UNCHANGED <<streamVars, config, main, open, tooShort, timedOut, misused>>

\* poll starts with NewTicker, which panics for an interval that is not positive.
PollerPanics(g) ==
    /\ Alive
    /\ pc[g] = "first" /\ g \in tooShort
    /\ main' = "panicked"
    /\ UNCHANGED <<vars, streamVars, config, open, tooShort, running, timedOut, misused>>

PollerTicks(g) ==
    /\ Alive /\ g \notin tooShort
    /\ FirstFetch(g) \/ TickerFires(g)
    /\ UNCHANGED <<streamVars, serverVars>>

PollerFetches(g) == Alive /\ TakeTick(g) /\ UNCHANGED <<streamVars, serverVars>>

PollerExits(g) == Alive /\ TakeDone(g) /\ UNCHANGED <<streamVars, serverVars>>

PollerFetched(g) ==
    /\ Alive
    /\ FetchReturns(g)
    /\ UNCHANGED <<streamVars, serverVars>>

StreamSubscribes ==
    /\ Alive
    /\ Dial \/ DialFails \/ WriteJSON \/ WriteFails \/ StartReading
    /\ UNCHANGED <<vars, serverVars>>

StreamReads ==
    /\ Alive
    /\ ReadTicker \/ ReadFails
    /\ UNCHANGED <<vars, serverVars>>

StreamConsumes ==
    /\ Alive
    /\ Receive \/ StreamEnds \/ Consume
    /\ UNCHANGED <<vars, serverVars>>

----------------------------------------------------------------------------
(* Shutdown *)

Signal ==
    /\ main = "serve"
    /\ main' = "shutdown"
    /\ UNCHANGED <<vars, streamVars, config, open, tooShort, running, timedOut, misused>>

\* srv.Shutdown returns when no handler runs, or after ten seconds.
\* (Mutant: nobody waits for the handlers.)
Drained_Assumed == TRUE

Drained == running = {}

ShutdownReturns ==
    /\ main = "shutdown" /\ Drained
    /\ main' = "closeStream"
    /\ UNCHANGED <<vars, streamVars, config, open, tooShort, running, timedOut, misused>>

\* (Mutant: Shutdown is called without a time limit.)
ShutdownTimesOut_Never == FALSE

ShutdownTimesOut ==
    /\ main = "shutdown" /\ running # {}
    /\ main' = "closeStream" /\ timedOut' = TRUE
    /\ UNCHANGED <<vars, streamVars, config, open, tooShort, running, misused>>

CloseStream ==
    /\ main = "closeStream"
    /\ main' = "stopHub"
    /\ IF "binance" \in config.enabled THEN Close ELSE UNCHANGED streamVars
    /\ UNCHANGED <<vars, config, open, tooShort, running, timedOut, misused>>

\* wsHub.Stop; alertSvc.Stop, which waits for webhooks that have time limits; the
\* telemetry's shutdown, which has one.
MainGoesOn(at, to) ==
    /\ main = at
    /\ main' = to
    /\ UNCHANGED <<vars, streamVars, config, open, tooShort, running, timedOut, misused>>

StopSubscriptions ==
    /\ main = "stopSubs"
    /\ Stop
    /\ main' = "stopAlerts"
    /\ UNCHANGED <<streamVars, config, open, tooShort, running, timedOut, misused>>

\* (Mutant: the deferred Close of clickhouse is missing.)
CloseConn_NoDefer(what, at, to) ==
    /\ main = at
    /\ main' = to
    /\ open' = IF what = "clickhouse" THEN open ELSE open \ {what}
    /\ UNCHANGED <<vars, streamVars, config, tooShort, running, timedOut, misused>>

CloseConn(what, at, to) ==
    /\ main = at
    /\ main' = to
    /\ open' = open \ {what}
    /\ UNCHANGED <<vars, streamVars, config, tooShort, running, timedOut, misused>>

----------------------------------------------------------------------------

ServerInit ==
    /\ Init /\ StreamInit
    /\ config \in Configs
    /\ main = "load" /\ open = {} /\ tooShort = {} /\ running = {} /\ timedOut = FALSE /\ misused = FALSE

\* main itself, once it shuts down.
MainShutsDown ==
    \/ ShutdownReturns \/ ShutdownTimesOut \/ CloseStream
    \/ MainGoesOn("stopHub", "stopSubs") \/ StopSubscriptions
    \/ MainGoesOn("stopAlerts", "stopTelemetry") \/ MainGoesOn("stopTelemetry", "closePostgres")
    \/ CloseConn("postgres", "closePostgres", "closeRedis")
    \/ CloseConn("redis", "closeRedis", "closeClickHouse")
    \/ CloseConn("clickhouse", "closeClickHouse", "exited")

MainStarts ==
    \/ LoadConfig \/ LoadFails \/ SetupTelemetry
    \/ Connect("postgres", "redis") \/ Connect("redis", "clickhouse")
    \/ Connect("clickhouse", "wire") \/ ConnectFails
    \/ Wire \/ ListenFails

ServerNext ==
    \/ MainStarts \/ Signal \/ MainShutsDown \/ RefreshPanics
    \/ \E h \in Handlers :
         \/ Accept(h) \/ HandlerGetsPrice(h)
         \/ \E k \in Keys, g \in Pollers, interval \in Intervals :
              HandlerSubscribes(h, k, g, interval)
         \/ \E k \in Keys : HandlerUnsubscribes(h, k)
    \/ \E g \in Pollers : \/ PollerPanics(g) \/ PollerTicks(g) \/ PollerFetches(g)
                           \/ PollerExits(g) \/ PollerFetched(g)
    \/ StreamSubscribes \/ StreamReads \/ StreamConsumes

ServerSpec == ServerInit /\ [][ServerNext]_allVars

\* main goes on, its waits have time limits; so do the goroutines, and calls of
\* providers and storage return.  Handlers need not: a client may be slow.  The
\* select of a polling goroutine is fair to both cases.
ServerFairSpec ==
    /\ ServerSpec
    /\ WF_allVars(MainShutsDown) /\ WF_allVars(StreamConsumes)
    /\ \A g \in Pollers :
         /\ WF_allVars(PollerPanics(g)) /\ WF_allVars(PollerTicks(g)) /\ WF_allVars(PollerFetched(g))
         /\ SF_allVars(PollerFetches(g)) /\ SF_allVars(PollerExits(g))

----------------------------------------------------------------------------
(* Properties *)

\* No interval that a client asks for, and no order of requests, brings the process
\* down: a goroutine that panics does so for an interval of the configuration,
\* polling.min_interval or registry.refresh_interval, which Validate lets through.
ClientsCannotPanic ==
    main = "panicked" =>
        \/ config.minInterval <= 0
        \/ "registry" \in config.enabled /\ config.refreshInterval <= 0

\* A handler never finds its storage closed, unless it outlived the ten seconds
\* that Shutdown waits.  (Pollers and the stream may: see the README.)
HandlersHaveStorage == misused => timedOut

\* What subSvc.Stop stopped stays stopped: no subscription is made behind it.
StopIsFinal ==
    main \in {"stopAlerts", "stopTelemetry", "closePostgres", "closeRedis", "closeClickHouse",
              "exited"} /\ ~timedOut
        => Live = {} /\ \A k \in Keys : subs[k] = NoPoller

\* main does not return before all it opened is closed.  (A stream that is still
\* being dialed when Close is called is not.)
OpenedAreClosed == main = "exited" => open = {} /\ (conn = "open" => missed)

\* After the signal the process ends, whatever handlers, pollers and stream do.
ShutdownCompletes == main = "shutdown" ~> main \in {"exited", "panicked"}

\* Prices of the stream are consumed while the process lives.
StreamDrains == queue > 0 ~> (sub = "consume" \/ ~Alive)

\* A cancelled goroutine ends, although its ticker may be ready whenever its
\* context is.
CancelledExits == \A g \in Pollers : g \in cancelled ~> (pc[g] = "exited" \/ ~Alive)

----------------------------------------------------------------------------
(* The inductive invariant behind the safety properties *)

\* The steps of main at which the configuration has been validated, and those
\* after the stream's Close.
Validated == {"telemetry", "postgres", "redis", "clickhouse", "wire", "serve"} \cup ShutDown
StreamClosed == (ShutDown \ {"shutdown", "closeStream"}) \cup {"exited"}

ConfigInv ==
    /\ main \in Validated => Valid(config) /\ config.maxRetries > 0
    /\ main \in Validated \ {"telemetry"} => config.cbThreshold > 0

\* Subscribe's minimum, if it is positive, is what keeps intervals positive.
PanicInv ==
    /\ config.minInterval > 0 => tooShort = {}
    /\ ClientsCannotPanic

\* The connections that are enabled are opened one by one and closed one by one.
OpenInv ==
    /\ main \in {"load", "telemetry", "postgres", "exited"} => open = {}
    /\ main = "redis" => open = config.enabled \cap {"postgres"}
    /\ main = "clickhouse" => open = config.enabled \cap {"postgres", "redis"}
    /\ main \in {"wire", "serve"} \cup (ShutDown \ {"closeRedis", "closeClickHouse"})
         => open = config.enabled \cap {"postgres", "redis", "clickhouse"}
    /\ main = "closeRedis" => open = config.enabled \cap {"redis", "clickhouse"}
    /\ main = "closeClickHouse" => open = config.enabled \cap {"clickhouse"}

\* Only handlers that Shutdown gave up on run beside the rest of the shutdown.
HandlerInv ==
    /\ running # {} /\ Alive => timedOut \/ main \in {"serve", "shutdown"}
    /\ HandlersHaveStorage

\* Once Close has been called the connection is not open, and will not be
\* opened, unless Close came while Subscribe was dialing.
StreamInv ==
    /\ main \in StartUp => sub = "idle"
    /\ sub \in {"idle", "dial"} => conn = "nil"
    /\ "binance" \notin config.enabled => sub = "idle"
    /\ main \in StreamClosed => (conn = "open" \/ sub = "dial" => missed)

ServerInv ==
    /\ ServerTypeOK /\ PollerInv
    /\ ConfigInv /\ PanicInv /\ OpenInv /\ HandlerInv /\ StreamInv /\ StopIsFinal
=============================================================================
