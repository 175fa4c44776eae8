------------------------------- MODULE WsHub -------------------------------
(***************************************************************************)
(* internal/adapter/transport/ws: the hub that fans price updates out to   *)
(* websocket clients, and per connection a reader (HandleWS itself) and a  *)
(* writer goroutine joined by a bounded channel.  Broadcasting holds the   *)
(* hub's read lock over all clients; only the writers move meanwhile.      *)
(***************************************************************************)
EXTENDS Integers, Sequences, FiniteSets

CONSTANTS
    Clients, Coins,
    QueueSize,      \* capacity of h.updates (256)
    SendSize,       \* capacity of a client's send channel (64)
    NoUpdate,
    MaxUpdates      \* bound: price updates

ASSUME HubConstants == QueueSize \in Nat \ {0} /\ SendSize \in Nat \ {0} /\ MaxUpdates \in Nat

VARIABLES
    updates,    \* h.updates
    made,       \* number of OnPriceUpdate calls so far; numbers the updates
    hub,        \* Run: "select", "broadcast" or "exited"
    current,    \* the update being broadcast
    pending,    \* clients the broadcast has still to look at
    done,       \* h.done is closed
    clients,    \* h.clients
    coins,      \* client -> its CoinIDs
    reader,     \* client -> HandleWS: "idle", "reading", "removing", "closing", "ended"
    writer,     \* client -> its writer goroutine is running
    send,       \* client -> its send channel
    closed,     \* clients whose send channel is closed
    delivered,  \* client -> updates written to its socket
    panicked    \* a send on a closed channel

vars == <<updates, made, hub, current, pending, done, clients, coins, reader, writer, send,
          closed, delivered, panicked>>

hubVars == <<updates, made, hub, current, pending, done, panicked>>
connVars == <<clients, coins, reader, writer, send, closed, delivered>>

Update == [coin : Coins, n : 1..MaxUpdates]

TypeOK ==
    /\ updates \in Seq(Update) /\ Len(updates) <= QueueSize
    /\ made \in 0..MaxUpdates
    /\ hub \in {"select", "broadcast", "exited"}
    /\ current \in Update \cup {NoUpdate}
    /\ pending \subseteq Clients /\ clients \subseteq Clients /\ closed \subseteq Clients
    /\ done \in BOOLEAN /\ panicked \in BOOLEAN
    /\ coins \in [Clients -> SUBSET Coins]
    /\ reader \in [Clients -> {"idle", "reading", "removing", "closing", "ended"}]
    /\ writer \in [Clients -> BOOLEAN]
    /\ send \in [Clients -> Seq(Update)] /\ \A c \in Clients : Len(send[c]) <= SendSize
    /\ delivered \in [Clients -> Seq(Update)]

----------------------------------------------------------------------------
(* The hub *)

\* OnPriceUpdate never blocks: queued, or dropped because the queue is full or
\* the hub stopped (with room and done both ready, either).
OnPriceUpdate(coin) ==
    /\ made < MaxUpdates
    /\ made' = made + 1
    /\ \/ /\ Len(updates) < QueueSize
          /\ updates' = Append(updates, [coin |-> coin, n |-> made + 1])
       \/ (done \/ Len(updates) = QueueSize) /\ UNCHANGED updates
    /\ UNCHANGED <<hub, current, pending, done, panicked, connVars>>

\* Run takes an update and broadcast takes the read lock.
\* (Mutant: the update stays in the queue.)
Receive_Peeks ==
    /\ hub = "select"
    /\ updates # <<>>
    /\ current' = Head(updates)
    /\ pending' = clients
    /\ hub' = "broadcast"
    /\ UNCHANGED <<updates, made, done, panicked, connVars>>

Receive ==
    /\ hub = "select"
    /\ updates # <<>>
    /\ current' = Head(updates)
    /\ updates' = Tail(updates)
    /\ pending' = clients
    /\ hub' = "broadcast"
    /\ UNCHANGED <<made, done, panicked, connVars>>

HasRoom(c) == Len(send[c]) < SendSize

\* A send without waiting: a full channel drops the message, a closed one
\* panics.  (Mutant: the send waits for room.)
Offer_Waits(c) ==
    LET wants == current.coin \in coins[c]
    IN  /\ wants => HasRoom(c)
        /\ panicked' = (panicked \/ (wants /\ c \in closed))
        /\ send' = IF wants THEN [send EXCEPT ![c] = Append(@, current)] ELSE send

Offer(c) ==
    LET wants == current.coin \in coins[c]
    IN  /\ panicked' = (panicked \/ (wants /\ c \in closed))
        /\ send' = IF wants /\ c \notin closed /\ HasRoom(c)
                   THEN [send EXCEPT ![c] = Append(@, current)] ELSE send

\* One client of the broadcast.
BroadcastTo(c) ==
    /\ hub = "broadcast"
    /\ c \in pending
    /\ pending' = pending \ {c}
    /\ Offer(c)
    /\ UNCHANGED <<updates, made, hub, current, done, clients, coins, reader, writer, closed,
                   delivered>>

BroadcastEnd ==
    /\ hub = "broadcast"
    /\ pending = {}
    /\ hub' = "select"
    /\ current' = NoUpdate
    /\ UNCHANGED <<updates, made, pending, done, panicked, connVars>>

\* Run sees done; updates still queued are never broadcast.
RunEnds ==
    /\ hub = "select"
    /\ done
    /\ hub' = "exited"
    /\ UNCHANGED <<updates, made, current, pending, done, panicked, connVars>>

Stop ==
    /\ done' = TRUE
    /\ UNCHANGED <<updates, made, hub, current, pending, panicked, connVars>>

----------------------------------------------------------------------------
(* A connection.  The hub's write lock waits for a broadcast to end. *)

Unlocked == hub # "broadcast"

Connect(c) ==
    /\ reader[c] = "idle"
    /\ reader' = [reader EXCEPT ![c] = "reading"]
    /\ writer' = [writer EXCEPT ![c] = TRUE]
    /\ UNCHANGED <<hubVars, clients, coins, send, closed, delivered>>

\* "subscribe" registers the client or replaces its coins.
Subscribe(c, cs) ==
    /\ reader[c] = "reading"
    /\ Unlocked
    /\ clients' = clients \cup {c}
    /\ coins' = [coins EXCEPT ![c] = cs]
    /\ UNCHANGED <<hubVars, reader, writer, send, closed, delivered>>

\* "unsubscribe" takes coins away, and is ignored before the first subscribe.
Unsubscribe(c, cs) ==
    /\ reader[c] = "reading"
    /\ c \in clients
    /\ Unlocked
    /\ coins' = [coins EXCEPT ![c] = @ \ cs]
    /\ UNCHANGED <<hubVars, clients, reader, writer, send, closed, delivered>>

\* ReadMessage fails: the peer is gone or the writer has closed the socket.
\* (Mutant: the client is not removed from the hub.)
ReadFails_NoRemoval(c) ==
    /\ reader[c] = "reading"
    /\ reader' = [reader EXCEPT ![c] = "closing"]
    /\ UNCHANGED <<hubVars, clients, coins, writer, send, closed, delivered>>

ReadFails(c) ==
    /\ reader[c] = "reading"
    /\ reader' = [reader EXCEPT ![c] = IF c \in clients THEN "removing" ELSE "closing"]
    /\ UNCHANGED <<hubVars, clients, coins, writer, send, closed, delivered>>

\* The deferred function: RemoveClient first, close(send) only then.
RemoveClient(c) ==
    /\ reader[c] = "removing"
    /\ Unlocked
    /\ clients' = clients \ {c}
    /\ reader' = [reader EXCEPT ![c] = "closing"]
    /\ UNCHANGED <<hubVars, coins, writer, send, closed, delivered>>

CloseSend(c) ==
    /\ reader[c] = "closing"
    /\ closed' = closed \cup {c}
    /\ reader' = [reader EXCEPT ![c] = "ended"]
    /\ UNCHANGED <<hubVars, clients, coins, writer, send, delivered>>

\* The writer: a message goes out, or the write fails and ends the goroutine.
Write(c) ==
    /\ writer[c]
    /\ send[c] # <<>>
    /\ send' = [send EXCEPT ![c] = Tail(@)]
    /\ \/ /\ delivered' = [delivered EXCEPT ![c] = Append(@, Head(send[c]))]
          /\ UNCHANGED writer
       \/ /\ writer' = [writer EXCEPT ![c] = FALSE]
          /\ UNCHANGED delivered
    /\ UNCHANGED <<hubVars, clients, coins, reader, closed>>

WriterEnds(c) ==
    /\ writer[c]
    /\ send[c] = <<>> /\ c \in closed
    /\ writer' = [writer EXCEPT ![c] = FALSE]
    /\ UNCHANGED <<hubVars, clients, coins, reader, send, closed, delivered>>

Init ==
    /\ updates = <<>> /\ made = 0 /\ hub = "select" /\ current = NoUpdate /\ pending = {}
    /\ done = FALSE /\ panicked = FALSE
    /\ clients = {} /\ closed = {}
    /\ coins = [c \in Clients |-> {}]
    /\ reader = [c \in Clients |-> "idle"]
    /\ writer = [c \in Clients |-> FALSE]
    /\ send = [c \in Clients |-> <<>>]
    /\ delivered = [c \in Clients |-> <<>>]

Run == Receive \/ (\E c \in Clients : BroadcastTo(c)) \/ BroadcastEnd \/ RunEnds

Next ==
    \/ \E coin \in Coins : OnPriceUpdate(coin)
    \/ Run \/ Stop
    \/ \E c \in Clients :
         \/ Connect(c) \/ ReadFails(c) \/ RemoveClient(c) \/ CloseSend(c)
         \/ Write(c) \/ WriterEnds(c)
         \/ \E cs \in SUBSET Coins : Subscribe(c, cs) \/ Unsubscribe(c, cs)

Spec == Init /\ [][Next]_vars

\* Only the hub's own goroutine is relied upon: no peer need ever read.
FairSpec == Spec /\ WF_vars(Run)

----------------------------------------------------------------------------
(* Properties *)

\* The hub never sends on a closed channel, which would crash the server:
\* a connection that ends while updates are broadcast is out of the map, and
\* the broadcast over, before its channel is closed.
NoSendOnClosed == ~panicked

\* Increasing update numbers: the order of h.updates, nothing twice.
Ordered(s) == \A i, j \in DOMAIN s : i < j => s[i].n < s[j].n

\* A client sees updates in the order the hub received them, each at most
\* once, with gaps where something was full.
InOrder == \A c \in Clients : Ordered(delivered[c] \o send[c])

\* A client that does not read, or whose writer is gone, holds nobody up: an
\* update that is queued gets broadcast, unless the hub is stopped.
QueueDrains ==
    \A n \in 1..MaxUpdates :
        (\E i \in DOMAIN updates : updates[i].n = n)
            ~> (done \/ ~\E i \in DOMAIN updates : updates[i].n = n)

----------------------------------------------------------------------------
(* The inductive invariant behind NoSendOnClosed and InOrder *)

\* A client is in the map from its first subscribe until the deferred function
\* takes it out, and its channel is closed after that; the broadcast looks only
\* at clients in the map, which the lock keeps as it is meanwhile.
ConnInv ==
    /\ \A c \in clients : reader[c] \in {"reading", "removing"}
    /\ \A c \in closed : reader[c] = "ended"
    /\ pending \subseteq clients
    /\ hub # "broadcast" => pending = {}
    /\ hub = "broadcast" => current \in Update
    /\ NoSendOnClosed

Seen(c) == delivered[c] \o send[c]
Below(s, n) == \A i \in DOMAIN s : s[i].n < n

\* Update numbers increase along the whole way of an update: what a client has
\* got, the update being broadcast, the queue, the calls still to come.
OrderInv ==
    /\ Ordered(updates) /\ Below(updates, made + 1)
    /\ hub = "broadcast" => /\ current.n <= made
                            /\ \A j \in DOMAIN updates : current.n < updates[j].n
    /\ \A c \in Clients :
         /\ Ordered(Seen(c)) /\ Below(Seen(c), made + 1)
         /\ \A j \in DOMAIN updates : Below(Seen(c), updates[j].n)
         /\ hub = "broadcast" => Below(Seen(c), current.n + (IF c \in pending THEN 0 ELSE 1))

HubInv == TypeOK /\ ConnInv /\ OrderInv
=============================================================================
