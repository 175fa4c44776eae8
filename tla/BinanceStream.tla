--------------------------- MODULE BinanceStream ---------------------------
(***************************************************************************)
(* internal/adapter/stream/binance and the goroutine of main that          *)
(* subscribes once and then consumes the prices: the steps of Subscribe    *)
(* with Close between any two of them, the read loop, and the bounded      *)
(* channel that drops prices when it is full.                              *)
(***************************************************************************)
EXTENDS Integers

CONSTANT QueueSize      \* capacity of the channel (100 in the code)

ASSUME QueueConstant == QueueSize \in Nat \ {0}

VARIABLES
    sub,        \* where main's goroutine is: in Subscribe, then in the loop
    conn,       \* p.conn: "nil", "open" or "closed"
    reader,     \* readLoop: "none", "reading" or "ended" (and the channel closed)
    queue,      \* prices in the channel
    missed      \* history: Close came while Subscribe was dialing

streamVars == <<sub, conn, reader, queue, missed>>

StreamTypeOK ==
    /\ sub \in {"idle", "dial", "write", "start", "receive", "consume", "ended"}
    /\ conn \in {"nil", "open", "closed"}
    /\ reader \in {"none", "reading", "ended"}
    /\ queue \in 0..QueueSize
    /\ missed \in BOOLEAN

\* DialContext, and p.conn is set.
Dial ==
    /\ sub = "dial"
    /\ sub' = "write" /\ conn' = "open"
    /\ UNCHANGED <<reader, queue, missed>>

DialFails ==
    /\ sub = "dial"
    /\ sub' = "ended"
    /\ UNCHANGED <<conn, reader, queue, missed>>

\* The SUBSCRIBE message.
WriteJSON ==
    /\ sub = "write" /\ conn = "open"
    /\ sub' = "start"
    /\ UNCHANGED <<conn, reader, queue, missed>>

WriteFails ==
    /\ sub = "write"
    /\ sub' = "ended" /\ conn' = "closed"
    /\ UNCHANGED <<reader, queue, missed>>

StartReading ==
    /\ sub = "start"
    /\ sub' = "receive" /\ reader' = "reading"
    /\ UNCHANGED <<conn, queue, missed>>

\* p.cancel, if it is set, makes another goroutine close the connection that
\* Close itself closes here.
\* (Mutant: the connection is not closed.)
Close_CancelsOnly ==
    /\ missed' = (conn = "nil" /\ sub = "dial")
    /\ UNCHANGED <<sub, conn, reader, queue>>

Close ==
    /\ conn' = IF conn = "open" THEN "closed" ELSE conn
    /\ missed' = (conn = "nil" /\ sub = "dial")
    /\ UNCHANGED <<sub, reader, queue>>

\* ReadMessage returns a ticker that parses; others are passed over.
ReadTicker ==
    /\ reader = "reading" /\ conn = "open"
    /\ queue' = IF queue < QueueSize THEN queue + 1 ELSE queue
    /\ UNCHANGED <<sub, conn, reader, missed>>

\* ReadMessage fails: the network, the peer or Close.  Nobody subscribes again.
ReadFails ==
    /\ reader = "reading"
    /\ reader' = "ended"
    /\ UNCHANGED <<sub, conn, queue, missed>>

\* The loop of main over the channel.  (Mutant: it ends with the reader, without
\* a look at what is left.)
MayEnd_Early == reader = "ended"

MayEnd == reader = "ended" /\ queue = 0

Receive ==
    /\ sub = "receive" /\ queue > 0
    /\ sub' = "consume" /\ queue' = queue - 1
    /\ UNCHANGED <<conn, reader, missed>>

StreamEnds ==
    /\ sub = "receive" /\ MayEnd
    /\ sub' = "ended"
    /\ UNCHANGED <<conn, reader, queue, missed>>

\* cache.Set, store.Save, wsHub.OnPriceUpdate.
Consume ==
    /\ sub = "consume" /\ sub' = "receive"
    /\ UNCHANGED <<conn, reader, queue, missed>>

StreamInit ==
    /\ sub = "idle" /\ conn = "nil" /\ reader = "none" /\ queue = 0
    /\ missed = FALSE
=============================================================================
