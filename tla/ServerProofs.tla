---------------------------- MODULE ServerProofs ----------------------------
(***************************************************************************)
(* The life of the process, for any configurations, handlers, keys and     *)
(* polling goroutines: first the poller on its own, then the server, whose *)
(* steps are steps of the poller or leave it alone.                        *)
(***************************************************************************)
EXTENDS Server, TLAPS

\* Nobody polls.
LEMMA PollerInit == Init => PollerInv
  BY PollerConstants DEF Init, PollerInv, TypeOK, LiveIsRegistered, Live

\* A new subscription: the goroutine it replaces, if any, is cancelled.
LEMMA SubscribeInv ==
    ASSUME PollerInv, NEW k \in Keys, NEW g \in Pollers, Subscribe(k, g)
    PROVE  PollerInv'
<1> USE DEF PollerInv, Subscribe, CancelAll
<1>1. TypeOK'
  BY DEF TypeOK
<1>2. /\ g \notin cancelled /\ g # NoPoller
      /\ \A j \in Keys : subs[j] # g
  BY PollerConstants DEF TypeOK, LiveIsRegistered, Live
<1>3. cancelled' = cancelled \cup ({subs[k]} \ {NoPoller})
  OBVIOUS
<1>4. Live' = (Live \ {subs[k]}) \cup {g}
  BY <1>2, <1>3, PollerConstants DEF TypeOK, Live
<1>5. \A h \in Live' : polls'[h] \in Keys /\ subs'[polls'[h]] = h
  BY <1>2, <1>4 DEF TypeOK, LiveIsRegistered, Live
<1>6. \A j \in Keys : subs'[j] # NoPoller => subs'[j] \in Live' /\ polls'[subs'[j]] = j
  BY <1>2, <1>4 DEF TypeOK, LiveIsRegistered
<1>7. \A h \in Pollers : pc'[h] = "unborn" => polls'[h] = NoPoller /\ h \notin cancelled'
  BY <1>3 DEF TypeOK, LiveIsRegistered, Live
<1>8. QED BY <1>1, <1>5, <1>6, <1>7 DEF LiveIsRegistered

\* A subscription leaves the map: its goroutine is cancelled.
LEMMA UnsubscribeInv ==
    ASSUME PollerInv, NEW k \in Keys, Unsubscribe(k)
    PROVE  PollerInv'
<1> USE DEF PollerInv, Unsubscribe, CancelAll
<1>1. TypeOK'
  BY DEF TypeOK
<1>2. cancelled' = cancelled \cup {subs[k]}
  OBVIOUS
<1>3. Live' = Live \ {subs[k]}
  BY <1>2 DEF Live
<1>4. LiveIsRegistered'
  BY <1>3 DEF TypeOK, LiveIsRegistered, Live
<1>5. \A h \in Pollers : pc'[h] = "unborn" => polls'[h] = NoPoller /\ h \notin cancelled'
  BY <1>2 DEF TypeOK, LiveIsRegistered, Live
<1>6. QED BY <1>1, <1>4, <1>5

\* All of them leave the map and are cancelled.
LEMMA StopInv ==
    ASSUME PollerInv, Stop
    PROVE  PollerInv'
<1> USE DEF PollerInv, Stop, CancelAll
<1>1. TypeOK'
  BY DEF TypeOK
<1>2. Live' = {}
  BY PollerConstants DEF TypeOK, LiveIsRegistered, Live
<1>3. LiveIsRegistered'
  BY <1>2 DEF LiveIsRegistered
<1>4. \A h \in Pollers : pc'[h] = "unborn" => polls'[h] = NoPoller /\ h \notin cancelled'
  BY DEF TypeOK, LiveIsRegistered, Live
<1>5. QED BY <1>1, <1>3, <1>4

\* Every step of the poller keeps the invariant.
LEMMA PollerNext == PollerInv /\ [Next]_vars => PollerInv'
<1> SUFFICES ASSUME PollerInv, [Next]_vars PROVE PollerInv'
  OBVIOUS
<1>1. ASSUME NEW g \in Pollers,
             FirstFetch(g) \/ TickerFires(g) \/ FetchReturns(g) \/ TakeTick(g) \/ TakeDone(g)
      PROVE  PollerInv'
  <2> USE DEF PollerInv, FirstFetch, TickerFires, FetchReturns, TakeTick, TakeDone
  <2>1. TypeOK' /\ UNCHANGED <<subs, polls, cancelled>>
    BY <1>1 DEF TypeOK
  <2>2. \A h \in Pollers : pc'[h] = "unborn" <=> pc[h] = "unborn"
    BY <1>1 DEF TypeOK
  <2>3. Live' = Live
    BY <1>1, <2>1 DEF TypeOK, Live
  <2>4. QED BY <2>1, <2>2, <2>3 DEF LiveIsRegistered
<1>2. CASE UNCHANGED vars
  BY <1>2 DEF vars, PollerInv, TypeOK, LiveIsRegistered, Live
<1>3. QED BY <1>1, <1>2, SubscribeInv, UnsubscribeInv, StopInv DEF Next

\* The invariant of the poller holds in every reachable state.
THEOREM PollerInvariant == Spec => []PollerInv
  BY PollerInit, PollerNext, PTL DEF Spec

\* However Subscribe, Unsubscribe and Stop are mixed, a goroutine that has not
\* been cancelled is the one registered for its key, and every registered one
\* is alive.
THEOREM NoPollerLeaks == Spec => []LiveIsRegistered
<1>1. PollerInv => LiveIsRegistered
  BY DEF PollerInv
<1>2. QED BY <1>1, PollerInvariant, PTL

----------------------------------------------------------------------------
(* The server *)

\* Handlers and main use the poller through its methods only.
LEMMA ServerStepsPoller == [ServerNext]_allVars => [Next]_vars
<1> SUFFICES ASSUME [ServerNext]_allVars PROVE [Next]_vars
  OBVIOUS
<1>1. CASE MainStarts \/ Signal \/ RefreshPanics
  BY <1>1 DEF MainStarts, Signal, LoadConfig, LoadFails, SetupTelemetry, Connect, ConnectFails,
              Wire, ListenFails, RefreshPanics
<1>2. CASE MainShutsDown
  BY <1>2 DEF MainShutsDown, ShutdownReturns, ShutdownTimesOut, CloseStream, MainGoesOn,
              StopSubscriptions, CloseConn, Next
<1>3. ASSUME NEW h \in Handlers, Accept(h) \/ HandlerGetsPrice(h) PROVE [Next]_vars
  BY <1>3 DEF Accept, HandlerGetsPrice
<1>4. ASSUME NEW h \in Handlers, NEW k \in Keys, NEW g \in Pollers, NEW interval \in Intervals,
             HandlerSubscribes(h, k, g, interval)
      PROVE  [Next]_vars
  BY <1>4 DEF HandlerSubscribes, Next
<1>5. ASSUME NEW h \in Handlers, NEW k \in Keys, HandlerUnsubscribes(h, k) PROVE [Next]_vars
  BY <1>5 DEF HandlerUnsubscribes, Next
<1>6. ASSUME NEW g \in Pollers,
             \/ PollerPanics(g) \/ PollerTicks(g) \/ PollerFetches(g)
             \/ PollerExits(g) \/ PollerFetched(g)
      PROVE  [Next]_vars
  BY <1>6 DEF PollerPanics, PollerTicks, PollerFetches, PollerExits, PollerFetched, Next
<1>7. CASE StreamSubscribes \/ StreamReads \/ StreamConsumes
  BY <1>7 DEF StreamSubscribes, StreamReads, StreamConsumes
<1>8. CASE UNCHANGED allVars
  BY <1>8 DEF allVars
<1>9. QED BY <1>1, <1>2, <1>3, <1>4, <1>5, <1>6, <1>7, <1>8 DEF ServerNext

\* The initial states: nothing is open, nobody runs.
LEMMA ServerInitially == ServerInit => ServerInv
<1> SUFFICES ASSUME ServerInit PROVE ServerInv
  OBVIOUS
<1> USE DEF ServerInit
<1>1. PollerInv
  BY PollerInit
<1>2. config \in Config
  BY ServerConstants
<1>3. StreamTypeOK
  <2>1. queue \in 0..QueueSize
    BY QueueConstant DEF StreamInit
  <2>2. QED BY <2>1 DEF StreamInit, StreamTypeOK
<1>4. ServerTypeOK
  BY <1>1, <1>2, <1>3 DEF ServerTypeOK, PollerInv, StartUp
<1>5. ConfigInv /\ PanicInv /\ OpenInv /\ HandlerInv /\ StopIsFinal
  BY DEF ConfigInv, PanicInv, ClientsCannotPanic, OpenInv, HandlerInv, HandlersHaveStorage, StopIsFinal, Validated, ShutDown
<1>6. StreamInv
  BY DEF StreamInv, StreamInit, StreamClosed, ShutDown
<1>7. QED BY <1>1, <1>4, <1>5, <1>6 DEF ServerInv

\* Every step leaves the stream's variables within their types.
LEMMA StreamTypeStep == StreamTypeOK /\ [ServerNext]_allVars => StreamTypeOK'
<1> SUFFICES ASSUME StreamTypeOK, [ServerNext]_allVars PROVE StreamTypeOK'
  OBVIOUS
<1> USE QueueConstant DEF StreamTypeOK
<1>1. CASE UNCHANGED streamVars
  BY <1>1 DEF streamVars
<1>2. CASE Wire
  BY <1>2 DEF Wire
<1>3. CASE CloseStream
  BY <1>3 DEF CloseStream, Close, streamVars
<1>4. CASE StreamSubscribes
  BY <1>4 DEF StreamSubscribes, Dial, DialFails, WriteJSON, WriteFails, StartReading
<1>5. CASE StreamReads
  BY <1>5 DEF StreamReads, ReadTicker, ReadFails
<1>6. CASE StreamConsumes
  BY <1>6 DEF StreamConsumes, Receive, StreamEnds, Consume, MayEnd
<1>7. QED
  BY <1>1, <1>2, <1>3, <1>4, <1>5, <1>6
  DEF ServerNext, allVars, MainStarts, LoadConfig, LoadFails, SetupTelemetry, Connect,
      ConnectFails, ListenFails, Signal, MainShutsDown, ShutdownReturns, ShutdownTimesOut,
      MainGoesOn, StopSubscriptions, CloseConn, Accept, HandlerGetsPrice, HandlerSubscribes,
      HandlerUnsubscribes, RefreshPanics, PollerPanics, PollerTicks, PollerFetches, PollerExits,
      PollerFetched

\* The corrections keep a configuration one, and change what they are for.
LEMMA Corrections ==
    ASSUME NEW c \in Config
    PROVE  /\ AutoCorrect(c) \in Config /\ AutoCorrect(c).maxRetries > 0
           /\ AutoCorrect(c).enabled = c.enabled /\ AutoCorrect(c).minInterval = c.minInterval
           /\ AutoCorrect(c).refreshInterval = c.refreshInterval
           /\ Valid(AutoCorrect(c)) <=> Valid(c)
           /\ Registrations(c) \in Config /\ Registrations(c).cbThreshold > 0
           /\ Registrations(c).enabled = c.enabled /\ Registrations(c).minInterval = c.minInterval
           /\ Registrations(c).refreshInterval = c.refreshInterval
           /\ Registrations(c).maxRetries = c.maxRetries
           /\ Valid(Registrations(c)) <=> Valid(c)
  BY DEF Config, AutoCorrect, Registrations, Valid

\* The parts of the type invariant that are main's and the handlers'.
MainTypeOK ==
    /\ config \in Config
    /\ main \in StartUp \cup {"serve"} \cup ShutDown \cup {"exited", "failed", "panicked"}
    /\ open \subseteq {"postgres", "redis", "clickhouse"}
    /\ tooShort \subseteq Pollers
    /\ running \subseteq Handlers
    /\ timedOut \in BOOLEAN
    /\ misused \in BOOLEAN

\* A goroutine panics.
Panics == RefreshPanics \/ \E g \in Pollers : PollerPanics(g)

\* The other steps of a poller and those of the stream leave main's variables alone.
LEMMA OthersStep ==
    ASSUME [ServerNext]_allVars
    PROVE  \/ MainStarts \/ Signal \/ MainShutsDown \/ Panics
           \/ \E h \in Handlers :
                \/ Accept(h) \/ HandlerGetsPrice(h)
                \/ \E k \in Keys, g \in Pollers, interval \in Intervals :
                     HandlerSubscribes(h, k, g, interval)
                \/ \E k \in Keys : HandlerUnsubscribes(h, k)
           \/ UNCHANGED serverVars
  BY DEF ServerNext, allVars, Panics, PollerTicks, PollerFetches, PollerExits, PollerFetched,
         StreamSubscribes, StreamReads, StreamConsumes

\* A panic ends the process, and changes nothing else.
LEMMA PanicStep ==
    ASSUME Panics
    PROVE  /\ main' = "panicked"
           /\ UNCHANGED <<vars, streamVars, config, open, tooShort, running, timedOut, misused>>
  BY DEF Panics, RefreshPanics, PollerPanics

LEMMA MainTypeStep == MainTypeOK /\ [ServerNext]_allVars => MainTypeOK'
<1> SUFFICES ASSUME MainTypeOK, [ServerNext]_allVars PROVE MainTypeOK'
  OBVIOUS
<1> USE DEF MainTypeOK, StartUp, ShutDown
<1>1. CASE MainStarts
  BY <1>1, Corrections DEF MainStarts, LoadConfig, LoadFails, SetupTelemetry, Connect,
                           ConnectFails, Wire, ListenFails
<1>2. CASE Signal \/ MainShutsDown
  BY <1>2 DEF Signal, MainShutsDown, ShutdownReturns, ShutdownTimesOut, CloseStream, MainGoesOn,
              StopSubscriptions, CloseConn
<1>3. ASSUME NEW h \in Handlers, Accept(h) \/ HandlerGetsPrice(h) PROVE MainTypeOK'
  BY <1>3 DEF Accept, HandlerGetsPrice
<1>4. ASSUME NEW h \in Handlers, NEW k \in Keys, NEW g \in Pollers, NEW interval \in Intervals,
             HandlerSubscribes(h, k, g, interval)
      PROVE  MainTypeOK'
  BY <1>4 DEF HandlerSubscribes
<1>5. ASSUME NEW h \in Handlers, NEW k \in Keys, HandlerUnsubscribes(h, k) PROVE MainTypeOK'
  BY <1>5 DEF HandlerUnsubscribes
<1>6. CASE UNCHANGED serverVars
  BY <1>6 DEF serverVars
<1>7. CASE Panics
  BY <1>7, PanicStep
<1>8. QED BY <1>1, <1>2, <1>3, <1>4, <1>5, <1>6, <1>7, OthersStep

\* The configuration that the server works with has passed Validate and the
\* corrections.
LEMMA ConfigStep == ServerInv /\ [ServerNext]_allVars => ConfigInv'
<1> SUFFICES ASSUME ServerInv, [ServerNext]_allVars PROVE ConfigInv'
  OBVIOUS
<1> USE DEF ServerInv, ServerTypeOK, ConfigInv, Validated, ShutDown
<1>1. CASE LoadConfig \/ SetupTelemetry
  BY <1>1, Corrections DEF LoadConfig, SetupTelemetry
<1>2. CASE UNCHANGED config /\ (UNCHANGED main \/ main' \in {"failed", "panicked"})
  BY <1>2 DEF Valid
<1>3. CASE MainStarts
  BY <1>1, <1>2, <1>3 DEF MainStarts, LoadFails, Connect, ConnectFails, Wire, ListenFails, Valid
<1>4. CASE Signal \/ MainShutsDown
  BY <1>4 DEF Signal, MainShutsDown, ShutdownReturns, ShutdownTimesOut, CloseStream, MainGoesOn,
              StopSubscriptions, CloseConn, Valid
<1>5. QED BY <1>2, <1>3, <1>4, OthersStep, PanicStep
          DEF Accept, HandlerGetsPrice, HandlerSubscribes, HandlerUnsubscribes, serverVars

\* The intervals stay what they were when main started.
LEMMA SameIntervals ==
    ASSUME ServerTypeOK, [ServerNext]_allVars
    PROVE  /\ config'.enabled = config.enabled
           /\ config'.minInterval = config.minInterval
           /\ config'.refreshInterval = config.refreshInterval
<1>1. CASE LoadConfig \/ SetupTelemetry
  BY <1>1, Corrections DEF ServerTypeOK, LoadConfig, SetupTelemetry
<1>2. CASE UNCHANGED config
  BY <1>2
<1>3. QED
  BY <1>1, <1>2, OthersStep, PanicStep
  DEF MainStarts, LoadFails, Connect, ConnectFails, Wire, ListenFails, Signal, MainShutsDown,
      ShutdownReturns, ShutdownTimesOut, CloseStream, MainGoesOn, StopSubscriptions, CloseConn,
      Accept, HandlerGetsPrice, HandlerSubscribes, HandlerUnsubscribes, serverVars

\* With a positive minimum no client gets a ticker that panics.
LEMMA PanicsStep == ServerInv /\ [ServerNext]_allVars => PanicInv'
<1> SUFFICES ASSUME ServerInv, [ServerNext]_allVars PROVE PanicInv'
  OBVIOUS
<1> USE DEF PanicInv, ClientsCannotPanic
<1>1. PanicInv /\ ServerTypeOK
  BY DEF ServerInv
<1>2. /\ config'.enabled = config.enabled
      /\ config'.minInterval = config.minInterval
      /\ config'.refreshInterval = config.refreshInterval
  BY <1>1, SameIntervals
<1>3. config.minInterval \in Int /\ config.refreshInterval \in Int
  BY <1>1 DEF ServerTypeOK, Config
<1>4. CASE Panics
  BY <1>1, <1>2, <1>3, <1>4, PanicStep DEF Panics, RefreshPanics, PollerPanics
<1>5. ASSUME NEW h \in Handlers, NEW k \in Keys, NEW g \in Pollers, NEW interval \in Intervals,
             HandlerSubscribes(h, k, g, interval)
      PROVE  PanicInv'
  <2>1. interval \in Int
    BY ServerConstants
  <2>2. config.minInterval > 0 => Effective(interval) > 0
    BY <1>3, <2>1 DEF Effective
  <2>3. QED BY <1>1, <1>2, <1>5, <2>2 DEF HandlerSubscribes
<1>6. CASE UNCHANGED tooShort /\ (main' = "panicked" => main = "panicked")
  BY <1>1, <1>2, <1>6
<1>7. CASE MainStarts \/ Signal
  BY <1>6, <1>7 DEF MainStarts, LoadConfig, LoadFails, SetupTelemetry, Connect, ConnectFails, Wire,
                    ListenFails, Signal
<1>8. CASE MainShutsDown
  BY <1>6, <1>8 DEF MainShutsDown, ShutdownReturns, ShutdownTimesOut, CloseStream, MainGoesOn,
                    StopSubscriptions, CloseConn
<1>9. QED BY <1>4, <1>5, <1>6, <1>7, <1>8, OthersStep
          DEF Accept, HandlerGetsPrice, HandlerUnsubscribes, serverVars

\* Connections are opened and closed one by one.
LEMMA OpenStep == ServerInv /\ [ServerNext]_allVars => OpenInv'
<1> SUFFICES ASSUME ServerInv, [ServerNext]_allVars PROVE OpenInv'
  OBVIOUS
<1> USE DEF ServerInv, ServerTypeOK, OpenInv, ShutDown
<1>1. CASE LoadConfig \/ SetupTelemetry
  BY <1>1, Corrections DEF LoadConfig, SetupTelemetry
<1>2. CASE UNCHANGED <<config, open>> /\ (UNCHANGED main \/ main' \in {"failed", "panicked"})
  BY <1>2
<1>3. CASE MainStarts
  BY <1>1, <1>2, <1>3 DEF MainStarts, LoadFails, Connect, ConnectFails, Wire, ListenFails
<1>4. CASE Signal \/ MainShutsDown
  BY <1>4 DEF Signal, MainShutsDown, ShutdownReturns, ShutdownTimesOut, CloseStream, MainGoesOn,
              StopSubscriptions, CloseConn
<1>5. QED BY <1>2, <1>3, <1>4, OthersStep, PanicStep
          DEF Accept, HandlerGetsPrice, HandlerSubscribes, HandlerUnsubscribes, serverVars

\* While the server serves, and until Shutdown has returned, what the handlers
\* use is open.
LEMMA StorageIsOpen ==
    ASSUME ServerInv, main \in {"serve", "shutdown"}
    PROVE  InUseAreOpen
<1>1. open = config.enabled \cap {"postgres", "redis", "clickhouse"}
  BY DEF ServerInv, OpenInv, ShutDown
<1>2. QED BY <1>1 DEF InUseAreOpen, StoreInUse, CacheInUse

\* Handlers run until Shutdown has returned or given up.
LEMMA HandlerStep == ServerInv /\ [ServerNext]_allVars => HandlerInv'
<1> SUFFICES ASSUME ServerInv, [ServerNext]_allVars PROVE HandlerInv'
  OBVIOUS
<1> USE DEF ServerInv, HandlerInv, HandlersHaveStorage, Alive
<1>1. CASE /\ UNCHANGED <<running, timedOut, misused>>
           /\ UNCHANGED main \/ main' \in {"failed", "panicked"}
  BY <1>1
<1>2. CASE MainStarts
  BY <1>1, <1>2 DEF MainStarts, LoadConfig, LoadFails, SetupTelemetry, Connect, ConnectFails, Wire,
                    ListenFails
<1>3. CASE Signal \/ MainShutsDown
  BY <1>3 DEF Signal, MainShutsDown, ShutdownReturns, ShutdownTimesOut, CloseStream, MainGoesOn,
              StopSubscriptions, CloseConn, Drained
<1>4. ASSUME NEW h \in Handlers, Accept(h) PROVE HandlerInv'
  BY <1>4 DEF Accept
<1>5. ASSUME NEW h \in Handlers, HandlerGetsPrice(h) PROVE HandlerInv'
  <2>1. timedOut \/ InUseAreOpen
    BY <1>5, StorageIsOpen DEF HandlerGetsPrice
  <2>2. QED BY <1>5, <2>1 DEF HandlerGetsPrice
<1>6. ASSUME NEW h \in Handlers, NEW k \in Keys, NEW g \in Pollers, NEW interval \in Intervals,
             HandlerSubscribes(h, k, g, interval)
      PROVE  HandlerInv'
  BY <1>6 DEF HandlerSubscribes
<1>7. ASSUME NEW h \in Handlers, NEW k \in Keys, HandlerUnsubscribes(h, k) PROVE HandlerInv'
  BY <1>7 DEF HandlerUnsubscribes
<1>8. QED BY <1>1, <1>2, <1>3, <1>4, <1>5, <1>6, <1>7, OthersStep, PanicStep DEF serverVars

\* A connection that is opened behind Close was being dialed then.
LEMMA StreamStep == ServerInv /\ [ServerNext]_allVars => StreamInv'
<1> SUFFICES ASSUME ServerInv, [ServerNext]_allVars PROVE StreamInv'
  OBVIOUS
<1> USE DEF ServerInv, StreamInv, StreamClosed, StartUp, ShutDown
<1>1. config'.enabled = config.enabled
  BY SameIntervals
<1>2. CASE /\ UNCHANGED <<sub, conn, missed>>
           /\ main' \in StreamClosed => main \in StreamClosed
           /\ main' \in StartUp => main \in StartUp
  BY <1>1, <1>2
<1>3. CASE MainStarts
  BY <1>1, <1>2, <1>3 DEF MainStarts, LoadConfig, LoadFails, SetupTelemetry, Connect, ConnectFails,
                          Wire, ListenFails, streamVars
<1>4. CASE Signal \/ MainShutsDown
  BY <1>1, <1>2, <1>4 DEF Signal, MainShutsDown, ShutdownReturns, ShutdownTimesOut, CloseStream,
              Close, MainGoesOn, StopSubscriptions, CloseConn, streamVars
<1>5. CASE StreamSubscribes
  BY <1>1, <1>5 DEF StreamSubscribes, Dial, DialFails, WriteJSON, WriteFails, StartReading,
                    serverVars
<1>6. CASE StreamReads \/ StreamConsumes
  BY <1>1, <1>6 DEF StreamReads, StreamConsumes, ReadTicker, ReadFails, Receive, StreamEnds,
                    Consume, serverVars
<1>7. ASSUME NEW h \in Handlers, NEW k \in Keys, NEW g \in Pollers, NEW interval \in Intervals,
             HandlerSubscribes(h, k, g, interval)
      PROVE  StreamInv'
  BY <1>2, <1>7 DEF HandlerSubscribes, streamVars
<1>8. CASE Panics
  BY <1>2, <1>8, PanicStep DEF streamVars
<1>9. QED
  BY <1>2, <1>3, <1>4, <1>5, <1>6, <1>7, <1>8
  DEF ServerNext, Panics, allVars, streamVars, serverVars, Accept, HandlerGetsPrice,
      HandlerUnsubscribes, PollerTicks, PollerFetches, PollerExits, PollerFetched

\* No step but Subscribe brings a goroutine to life, and none but it registers one.
LEMMA NoNewPoller ==
    ASSUME PollerInv, [Next]_vars, \A k \in Keys, g \in Pollers : ~Subscribe(k, g)
    PROVE  /\ Live' \subseteq Live
           /\ (\A k \in Keys : subs[k] = NoPoller) => \A k \in Keys : subs'[k] = NoPoller
<1> USE DEF PollerInv, TypeOK, Live
<1>1. CASE Stop \/ \E k \in Keys : Unsubscribe(k)
  BY <1>1 DEF Stop, Unsubscribe, CancelAll
<1>2. ASSUME NEW g \in Pollers,
             FirstFetch(g) \/ TickerFires(g) \/ FetchReturns(g) \/ TakeTick(g) \/ TakeDone(g)
      PROVE  Live' \subseteq Live /\ subs' = subs
  BY <1>2 DEF FirstFetch, TickerFires, FetchReturns, TakeTick, TakeDone
<1>3. QED BY <1>1, <1>2 DEF Next, vars

\* After Stop nobody subscribes, because no handler is left.
LEMMA StopStep == ServerInv /\ [ServerNext]_allVars => StopIsFinal'
<1> SUFFICES ASSUME ServerInv, [ServerNext]_allVars PROVE StopIsFinal'
  OBVIOUS
<1> DEFINE After == {"stopAlerts", "stopTelemetry", "closePostgres", "closeRedis",
                     "closeClickHouse", "exited"}
<1>1. CASE StopSubscriptions
  <2>1. PollerInv' /\ \A k \in Keys : subs'[k] = NoPoller
    BY <1>1, ServerStepsPoller, PollerNext DEF ServerInv, StopSubscriptions, Stop
  <2>2. Live' = {}
    BY <2>1, PollerConstants DEF PollerInv, LiveIsRegistered, Live
  <2>3. QED BY <2>1, <2>2 DEF StopIsFinal
<1>2. ASSUME NEW h \in Handlers, NEW k \in Keys, NEW g \in Pollers, NEW interval \in Intervals,
             HandlerSubscribes(h, k, g, interval)
      PROVE  StopIsFinal'
  BY <1>2 DEF HandlerSubscribes, ServerInv, HandlerInv, StopIsFinal, Alive
<1>3. CASE /\ main' \in After /\ ~timedOut' => main \in After /\ ~timedOut
           /\ \A k \in Keys, g \in Pollers : ~Subscribe(k, g)
  BY <1>3, NoNewPoller, ServerStepsPoller DEF ServerInv, StopIsFinal
<1>4. ASSUME \/ UNCHANGED pc
             \/ \E g \in Pollers : FirstFetch(g) \/ TickerFires(g) \/ FetchReturns(g)
                                   \/ TakeTick(g) \/ TakeDone(g),
             NEW k \in Keys, NEW g \in Pollers, Subscribe(k, g)
      PROVE  FALSE
  <2>1. pc \in [Pollers -> {"unborn", "first", "select", "fetch", "exited"}]
    BY DEF ServerInv, PollerInv, TypeOK
  <2>2. pc[g] = "unborn" /\ pc'[g] = "first"
    BY <1>4, <2>1 DEF Subscribe
  <2>3. QED
    BY <1>4, <2>1, <2>2 DEF FirstFetch, TickerFires, FetchReturns, TakeTick, TakeDone
<1>5. CASE MainStarts \/ Signal
  BY <1>3, <1>4, <1>5 DEF MainStarts, LoadConfig, LoadFails, SetupTelemetry, Connect, ConnectFails,
                          Wire, ListenFails, Signal, vars
<1>6. CASE MainShutsDown
  <2>1. CASE StopSubscriptions
    BY <1>1, <2>1
  <2>2. CASE ~StopSubscriptions
    <3>1. UNCHANGED pc
      BY <1>6, <2>2 DEF MainShutsDown, ShutdownReturns, ShutdownTimesOut, CloseStream, MainGoesOn,
                        CloseConn, vars
    <3>2. main' \in After /\ ~timedOut' => main \in After /\ ~timedOut
      BY <1>6, <2>2 DEF MainShutsDown, ShutdownReturns, ShutdownTimesOut, CloseStream, MainGoesOn,
                        CloseConn
    <3>3. QED BY <1>3, <1>4, <3>1, <3>2
  <2>3. QED BY <2>1, <2>2
<1>7. ASSUME NEW h \in Handlers, Accept(h) \/ HandlerGetsPrice(h) PROVE StopIsFinal'
  BY <1>3, <1>4, <1>7 DEF Accept, HandlerGetsPrice, vars
<1>8. ASSUME NEW h \in Handlers, NEW k \in Keys, HandlerUnsubscribes(h, k) PROVE StopIsFinal'
  BY <1>3, <1>4, <1>8 DEF HandlerUnsubscribes, Unsubscribe
<1>9. ASSUME NEW g \in Pollers,
             PollerTicks(g) \/ PollerFetches(g) \/ PollerExits(g) \/ PollerFetched(g)
      PROVE  StopIsFinal'
  BY <1>3, <1>4, <1>9 DEF PollerTicks, PollerFetches, PollerExits, PollerFetched, serverVars
<1>10. CASE StreamSubscribes \/ StreamReads \/ StreamConsumes \/ UNCHANGED allVars
  BY <1>3, <1>4, <1>10
  DEF StreamSubscribes, StreamReads, StreamConsumes, allVars, serverVars, vars
<1>11. CASE Panics
  BY <1>3, <1>4, <1>11, PanicStep DEF vars
<1>12. QED BY <1>2, <1>5, <1>6, <1>7, <1>8, <1>9, <1>10, <1>11 DEF ServerNext, Panics

\* ServerInv is inductive.
LEMMA ServerInvStep == ServerInv /\ [ServerNext]_allVars => ServerInv'
<1> SUFFICES ASSUME ServerInv, [ServerNext]_allVars PROVE ServerInv'
  OBVIOUS
<1>1. PollerInv'
  BY ServerStepsPoller, PollerNext DEF ServerInv
<1>2. ServerTypeOK'
  BY <1>1, StreamTypeStep, MainTypeStep DEF ServerInv, ServerTypeOK, PollerInv, MainTypeOK
<1>3. QED
  BY <1>1, <1>2, ConfigStep, PanicsStep, OpenStep, HandlerStep, StreamStep, StopStep DEF ServerInv

\* In every reachable state of the process: the types of the variables, and
\* what main, the handlers, the pollers and the stream rely on of each other.
THEOREM ServerInvariant == ServerSpec => []ServerInv
  BY ServerInitially, ServerInvStep, PTL DEF ServerSpec

\* For any configurations and any intervals: a process that panics was configured
\* with a polling.min_interval, or for the registry a refresh_interval, that is not
\* positive; no sequence of subscriptions makes NewTicker panic otherwise.
THEOREM OnlyConfiguredPanics == ServerSpec => []ClientsCannotPanic
<1>1. ServerInv => ClientsCannotPanic
  BY DEF ServerInv, PanicInv
<1>2. QED BY <1>1, ServerInvariant, PTL

\* main's deferred Close calls come after srv.Shutdown: a handler that finds its
\* storage closed outlived the ten seconds of Shutdown.
THEOREM StorageOutlivesHandlers == ServerSpec => []HandlersHaveStorage
<1>1. ServerInv => HandlersHaveStorage
  BY DEF ServerInv, HandlerInv
<1>2. QED BY <1>1, ServerInvariant, PTL

\* Although Poller.Subscribe still works after Poller.Stop, nobody calls it then:
\* once subSvc.Stop has returned no goroutine polls and none is registered.
THEOREM NobodySubscribesAfterStop == ServerSpec => []StopIsFinal
<1>1. ServerInv => StopIsFinal
  BY DEF ServerInv
<1>2. QED BY <1>1, ServerInvariant, PTL

\* When main returns it has closed every store and cache it opened, and the
\* stream's connection unless Close came while Subscribe was dialing.
THEOREM MainClosesWhatItOpened == ServerSpec => []OpenedAreClosed
<1>1. ServerInv => OpenedAreClosed
  BY DEF ServerInv, OpenInv, StreamInv, StreamClosed, OpenedAreClosed
<1>2. QED BY <1>1, ServerInvariant, PTL

\* Composed with the server too, the pollers leak no goroutine.
THEOREM ServerLeaksNoPoller == ServerSpec => []LiveIsRegistered
<1>1. ServerInv => LiveIsRegistered
  BY DEF ServerInv, PollerInv
<1>2. QED BY <1>1, ServerInvariant, PTL
=============================================================================
