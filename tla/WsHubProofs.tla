---------------------------- MODULE WsHubProofs ----------------------------
(***************************************************************************)
(* The hub never sends on a closed channel and every client sees updates   *)
(* in order, for any number of clients and coins and any capacities.       *)
(***************************************************************************)
EXTENDS WsHub, TLAPS

----------------------------------------------------------------------------
(* Sequences of updates *)

LEMMA UpdateNumber == \A u \in Update : u.n \in Int
  BY HubConstants DEF Update

\* A sequence of updates extended by a higher one.
LEMMA OrderedAppend ==
    ASSUME NEW s \in Seq(Update), NEW u \in Update, Ordered(s), Below(s, u.n)
    PROVE  Ordered(Append(s, u)) /\ \A m \in Int : Below(s, m) /\ u.n < m => Below(Append(s, u), m)
  BY UpdateNumber DEF Ordered, Below

\* The rest of a queue.
LEMMA OrderedTail ==
    ASSUME NEW s \in Seq(Update), s # <<>>, Ordered(s)
    PROVE  /\ Head(s) \in Update /\ Tail(s) \in Seq(Update)
           /\ Head(s) = s[1] /\ 1 \in DOMAIN s /\ Len(Tail(s)) = Len(s) - 1
           /\ Ordered(Tail(s))
           /\ \A j \in DOMAIN Tail(s) : /\ j + 1 \in DOMAIN s /\ Tail(s)[j] = s[j + 1]
                                        /\ Head(s).n < Tail(s)[j].n
  BY UpdateNumber DEF Ordered

\* What Write does to the updates a client has got: the head of the channel
\* becomes the last one delivered ...
LEMMA WriteKeeps ==
    ASSUME NEW d \in Seq(Update), NEW s \in Seq(Update), s # <<>>
    PROVE  Append(d, Head(s)) \o Tail(s) = d \o s
  OBVIOUS

\* ... or it is lost, and the others keep their order.
LEMMA WriteDrops ==
    ASSUME NEW d \in Seq(Update), NEW s \in Seq(Update), s # <<>>
    PROVE  /\ Ordered(d \o s) => Ordered(d \o Tail(s))
           /\ \A m \in Int : Below(d \o s, m) => Below(d \o Tail(s), m)
<1> DEFINE at(i) == IF i <= Len(d) THEN i ELSE i + 1
<1>1. \A i \in DOMAIN (d \o Tail(s)) : at(i) \in DOMAIN (d \o s) /\ (d \o Tail(s))[i] = (d \o s)[at(i)]
  OBVIOUS
<1>2. \A i, j \in DOMAIN (d \o Tail(s)) : i < j => at(i) < at(j)
  OBVIOUS
<1> HIDE DEF at
<1>3. QED BY <1>1, <1>2 DEF Ordered, Below

\* A message put in the channel.
LEMMA SendAppends ==
    ASSUME NEW d \in Seq(Update), NEW s \in Seq(Update), NEW u \in Update
    PROVE  d \o Append(s, u) = Append(d \o s, u)
  OBVIOUS

----------------------------------------------------------------------------
(* Types and connections *)

LEMMA HubInit == Init => HubInv
<1> SUFFICES ASSUME Init PROVE HubInv
  OBVIOUS
<1>1. TypeOK
  <2>1. updates \in Seq(Update) /\ Len(updates) <= QueueSize /\ made \in 0..MaxUpdates
    BY HubConstants DEF Init
  <2>2. /\ send \in [Clients -> Seq(Update)] /\ \A c \in Clients : Len(send[c]) <= SendSize
        /\ delivered \in [Clients -> Seq(Update)]
    BY HubConstants DEF Init
  <2>3. QED BY <2>1, <2>2, Zenon DEF Init, TypeOK
<1>2. ConnInv
  BY DEF Init, ConnInv, NoSendOnClosed
<1>3. OrderInv
  BY DEF Init, OrderInv, Ordered, Below, Seen
<1>4. QED BY <1>1, <1>2, <1>3 DEF HubInv

\* The hub's own steps and OnPriceUpdate.
LEMMA HubTypes ==
    ASSUME HubInv, Run \/ Stop \/ \E coin \in Coins : OnPriceUpdate(coin)
    PROVE  TypeOK'
<1> USE HubConstants DEF HubInv, TypeOK
<1>1. ASSUME NEW coin \in Coins, OnPriceUpdate(coin) PROVE TypeOK'
  <2>1. [coin |-> coin, n |-> made + 1] \in Update /\ made' \in 0..MaxUpdates
    BY <1>1 DEF OnPriceUpdate, Update
  <2>2. \/ Len(updates) < QueueSize /\ updates' = Append(updates, [coin |-> coin, n |-> made + 1])
        \/ updates' = updates
    BY <1>1, Zenon DEF OnPriceUpdate
  <2>3. updates' \in Seq(Update) /\ Len(updates') <= QueueSize
    <3>1. updates \in Seq(Update) /\ Len(updates) <= QueueSize
      OBVIOUS
    <3> HIDE DEF HubInv, TypeOK
    <3> DEFINE u == [coin |-> coin, n |-> made + 1]
    <3>2. u \in Update
      BY <2>1
    <3> HIDE DEF u
    <3>3. CASE Len(updates) < QueueSize /\ updates' = Append(updates, u)
      BY <3>1, <3>2, <3>3
    <3>4. QED BY <2>2, <3>1, <3>3 DEF u
  <2>4. QED BY <1>1, <2>1, <2>3, Zenon DEF OnPriceUpdate, connVars
<1>2. CASE Receive
  <2>1. Head(updates) \in Update /\ updates' \in Seq(Update) /\ Len(updates') <= QueueSize
    BY <1>2 DEF Receive
  <2>2. QED BY <1>2, <2>1, Zenon DEF Receive, connVars
<1>3. ASSUME NEW c \in Clients, BroadcastTo(c) PROVE TypeOK'
  <2>1. current \in Update
    BY <1>3 DEF BroadcastTo, ConnInv
  <2>2. send' \in [Clients -> Seq(Update)] /\ \A e \in Clients : Len(send'[e]) <= SendSize
    BY <1>3, <2>1 DEF BroadcastTo, Offer, HasRoom
  <2>3. panicked' \in BOOLEAN
    BY <1>3, Zenon DEF BroadcastTo, Offer
  <2>4. QED BY <1>3, <2>2, <2>3, Zenon DEF BroadcastTo
<1>4. CASE BroadcastEnd \/ RunEnds \/ Stop
  BY <1>4, Zenon DEF BroadcastEnd, RunEnds, Stop, connVars
<1>5. QED BY <1>1, <1>2, <1>3, <1>4 DEF Run

\* The steps of a connection.
ConnStep(c) ==
    \/ Connect(c) \/ ReadFails(c) \/ RemoveClient(c) \/ CloseSend(c)
    \/ Write(c) \/ WriterEnds(c)
    \/ \E cs \in SUBSET Coins : Subscribe(c, cs) \/ Unsubscribe(c, cs)

LEMMA ConnTypes ==
    ASSUME HubInv, NEW c \in Clients, ConnStep(c)
    PROVE  TypeOK'
<1> USE DEF HubInv, TypeOK
<1>1. CASE Write(c)
  <2>1. /\ send[c] # <<>> /\ send' = [send EXCEPT ![c] = Tail(@)]
        /\ \/ delivered' = [delivered EXCEPT ![c] = Append(@, Head(send[c]))]
           \/ delivered' = delivered
    BY <1>1, Zenon DEF Write
  <2>2. /\ send' \in [Clients -> Seq(Update)] /\ delivered' \in [Clients -> Seq(Update)]
        /\ \A e \in Clients : Len(send'[e]) <= SendSize
    <3>1. /\ send \in [Clients -> Seq(Update)] /\ delivered \in [Clients -> Seq(Update)]
          /\ \A e \in Clients : Len(send[e]) <= SendSize
      OBVIOUS
    <3> HIDE DEF HubInv, TypeOK
    <3>2. /\ Head(send[c]) \in Update /\ Tail(send[c]) \in Seq(Update)
          /\ Len(Tail(send[c])) <= SendSize
      BY <2>1, <3>1, HubConstants
    <3>3. Append(delivered[c], Head(send[c])) \in Seq(Update)
      BY <3>1, <3>2
    <3>4. QED BY <2>1, <3>1, <3>2, <3>3
  <2>3. writer' \in [Clients -> BOOLEAN]
    BY <1>1 DEF Write
  <2>4. QED BY <1>1, <2>2, <2>3, Zenon DEF Write, hubVars
<1>2. CASE ~Write(c)
  <2>1. UNCHANGED <<hubVars, send, delivered>>
    BY <1>2 DEF ConnStep, Connect, ReadFails, RemoveClient, CloseSend, WriterEnds, Subscribe,
                Unsubscribe
  <2>2. /\ clients' \subseteq Clients /\ closed' \subseteq Clients
        /\ coins' \in [Clients -> SUBSET Coins]
        /\ reader' \in [Clients -> {"idle", "reading", "removing", "closing", "ended"}]
        /\ writer' \in [Clients -> BOOLEAN]
    BY <1>2 DEF ConnStep, Connect, ReadFails, RemoveClient, CloseSend, WriterEnds, Subscribe,
                Unsubscribe
  <2>3. QED BY <2>1, <2>2, Zenon DEF hubVars
<1>3. QED BY <1>1, <1>2

\* The lock and the order of RemoveClient and close(send).
LEMMA ConnInvStep == HubInv /\ [Next]_vars => ConnInv'
<1> SUFFICES ASSUME HubInv, [Next]_vars PROVE ConnInv'
  OBVIOUS
<1> USE DEF HubInv, TypeOK, ConnInv, NoSendOnClosed
<1>1. ASSUME NEW coin \in Coins, OnPriceUpdate(coin) PROVE ConnInv'
  BY <1>1 DEF OnPriceUpdate, connVars
<1>2. CASE Receive
  BY <1>2 DEF Receive, connVars
<1>3. ASSUME NEW c \in Clients, BroadcastTo(c) PROVE ConnInv'
  <2>1. c \notin closed
    BY <1>3 DEF BroadcastTo
  <2>2. QED BY <1>3, <2>1 DEF BroadcastTo, Offer
<1>4. CASE BroadcastEnd \/ RunEnds \/ Stop
  BY <1>4 DEF BroadcastEnd, RunEnds, Stop, connVars
<1>5. ASSUME NEW c \in Clients, ConnStep(c) PROVE ConnInv'
  <2>1. CASE RemoveClient(c)
    BY <2>1 DEF RemoveClient, Unlocked, hubVars
  <2>2. CASE Connect(c) \/ ReadFails(c) \/ CloseSend(c)
    <3>1. /\ UNCHANGED <<hubVars, clients>>
          /\ closed' \in {closed, closed \cup {c}}
          /\ c \in closed' => reader'[c] = "ended"
          /\ reader[c] # "ended"
          /\ c \in clients => reader'[c] \in {"reading", "removing"}
          /\ \A e \in Clients \ {c} : reader'[e] = reader[e]
      BY <2>2 DEF Connect, ReadFails, CloseSend
    <3>2. QED BY <3>1 DEF hubVars
  <2>3. CASE Write(c) \/ WriterEnds(c)
    BY <2>3 DEF Write, WriterEnds, hubVars
  <2>4. ASSUME NEW cs \in SUBSET Coins, Subscribe(c, cs) \/ Unsubscribe(c, cs) PROVE ConnInv'
    BY <2>4 DEF Subscribe, Unsubscribe, Unlocked, hubVars
  <2>5. QED BY <1>5, <2>1, <2>2, <2>3, <2>4 DEF ConnStep
<1>6. CASE UNCHANGED vars
  BY <1>6 DEF vars
<1>7. QED BY <1>1, <1>2, <1>3, <1>4, <1>5, <1>6 DEF Next, Run, ConnStep

----------------------------------------------------------------------------
(* Order *)

LEMMA BelowGrows ==
    ASSUME NEW s \in Seq(Update), NEW m \in Int, NEW n \in Int, m <= n, Below(s, m)
    PROVE  Below(s, n)
  BY UpdateNumber DEF Below

\* The parts of OrderInv that speak of one client.
ClientOrder(c) ==
    /\ Ordered(Seen(c)) /\ Below(Seen(c), made + 1)
    /\ \A j \in DOMAIN updates : Below(Seen(c), updates[j].n)
    /\ hub = "broadcast" => Below(Seen(c), current.n + (IF c \in pending THEN 0 ELSE 1))

\* A client stays in order when it has got the same as before, or less.
LEMMA LessIsOrdered ==
    ASSUME HubInv, NEW c \in Clients,
           Ordered(Seen(c)) => Ordered(Seen(c)'),
           \A m \in Int : Below(Seen(c), m) => Below(Seen(c)', m),
           UNCHANGED <<made, updates, hub, current, pending>>
    PROVE  ClientOrder(c)'
<1>1. ClientOrder(c) /\ made + 1 \in Int
  BY DEF HubInv, OrderInv, ClientOrder, TypeOK
<1>2. \A j \in DOMAIN updates : updates[j].n \in Int
  BY UpdateNumber DEF HubInv, TypeOK
<1>3. hub = "broadcast" => current.n + (IF c \in pending THEN 0 ELSE 1) \in Int
  BY UpdateNumber DEF HubInv, ConnInv
<1>4. QED BY <1>1, <1>2, <1>3 DEF ClientOrder

LEMMA OnPriceUpdateOrder ==
    ASSUME HubInv, NEW coin \in Coins, OnPriceUpdate(coin)
    PROVE  OrderInv'
<1> DEFINE u == [coin |-> coin, n |-> made + 1]
<1>1. /\ made \in Int /\ made' = made + 1 /\ UNCHANGED <<hub, current, pending, delivered, send>>
      /\ updates' = Append(updates, u) \/ updates' = updates
      /\ updates \in Seq(Update) /\ u \in Update /\ u.n = made + 1
      /\ hub = "broadcast" => current.n \in Int
  <2>1. made \in 0..MaxUpdates /\ made < MaxUpdates /\ updates \in Seq(Update)
    BY DEF HubInv, TypeOK, OnPriceUpdate
  <2>2. made' = made + 1 /\ UNCHANGED <<hub, current, pending, delivered, send>>
    BY DEF OnPriceUpdate, connVars
  <2>3. updates' = Append(updates, u) \/ updates' = updates
    BY Zenon DEF OnPriceUpdate
  <2>4. u \in Update
    BY <2>1, HubConstants DEF Update
  <2>5. hub = "broadcast" => current.n \in Int
    BY UpdateNumber DEF HubInv, ConnInv
  <2>6. QED BY <2>1, <2>2, <2>3, <2>4, <2>5, HubConstants
<1> HIDE DEF u
<1>2. OrderInv
  BY DEF HubInv
<1>3. Ordered(updates') /\ Below(updates', made' + 1)
  <2>1. Ordered(updates) /\ Below(updates, u.n)
    BY <1>1, <1>2 DEF OrderInv
  <2>2. Below(updates, made' + 1)
    BY <1>1, <2>1, BelowGrows
  <2>3. /\ Ordered(Append(updates, u))
        /\ \A m \in Int : Below(updates, m) /\ u.n < m => Below(Append(updates, u), m)
    BY <1>1, <2>1, OrderedAppend
  <2>4. Below(Append(updates, u), made' + 1)
    BY <1>1, <2>2, <2>3
  <2>5. QED BY <1>1, <2>1, <2>2, <2>3, <2>4
<1>4. \A j \in DOMAIN updates' : \/ j \in DOMAIN updates /\ updates'[j] = updates[j]
                                 \/ updates'[j] = u
  BY <1>1
<1>5. hub' = "broadcast" => /\ current'.n <= made'
                            /\ \A j \in DOMAIN updates' : current'.n < updates'[j].n
  BY <1>1, <1>2, <1>4 DEF OrderInv
<1>6. ASSUME NEW c \in Clients PROVE ClientOrder(c)'
  <2>1. Seen(c)' = Seen(c) /\ Seen(c) \in Seq(Update) /\ ClientOrder(c)
    BY <1>1 DEF Seen, HubInv, TypeOK, OrderInv, ClientOrder
  <2>2. Below(Seen(c), made' + 1) /\ Below(Seen(c), u.n)
    BY <1>1, <2>1, BelowGrows DEF ClientOrder
  <2>3. QED BY <1>1, <1>4, <2>1, <2>2 DEF ClientOrder
<1>7. QED BY <1>3, <1>5, <1>6 DEF OrderInv, ClientOrder

LEMMA ReceiveOrder ==
    ASSUME HubInv, Receive
    PROVE  OrderInv'
<1>1. /\ updates \in Seq(Update) /\ updates # <<>> /\ Ordered(updates)
      /\ current' = Head(updates) /\ updates' = Tail(updates) /\ pending' = clients
      /\ UNCHANGED <<made, delivered, send>> /\ made \in Int
  BY HubConstants DEF HubInv, TypeOK, OrderInv, Receive, connVars
<1>2. /\ current' = updates[1] /\ 1 \in DOMAIN updates /\ current' \in Update
      /\ current'.n \in Int /\ Ordered(updates')
      /\ \A j \in DOMAIN updates' : /\ j + 1 \in DOMAIN updates /\ updates'[j] = updates[j + 1]
                                    /\ current'.n < updates'[j].n
  BY <1>1, OrderedTail, UpdateNumber
<1>3. Below(updates', made' + 1) /\ current'.n <= made'
  BY <1>1, <1>2 DEF HubInv, OrderInv, Below
<1>4. ASSUME NEW c \in Clients PROVE ClientOrder(c)'
  <2>1. Seen(c)' = Seen(c) /\ Seen(c) \in Seq(Update) /\ ClientOrder(c)
    BY <1>1 DEF Seen, HubInv, TypeOK, OrderInv, ClientOrder
  <2>2. Below(Seen(c), current'.n)
    BY <1>2, <2>1 DEF ClientOrder
  <2>3. Below(Seen(c), current'.n + 1)
    BY <1>2, <2>1, <2>2, BelowGrows
  <2>4. QED BY <1>1, <1>2, <2>1, <2>2, <2>3 DEF ClientOrder
<1>5. QED BY <1>2, <1>3, <1>4 DEF OrderInv, ClientOrder

\* The client gets the update that is higher than all it has got.
LEMMA BroadcastOrder ==
    ASSUME HubInv, NEW c \in Clients, BroadcastTo(c)
    PROVE  OrderInv'
<1>1. /\ hub = "broadcast" /\ c \in pending /\ pending' = pending \ {c} /\ current \in Update
      /\ UNCHANGED <<updates, made, hub, current, delivered>>
      /\ send' = [send EXCEPT ![c] = Append(@, current)] \/ send' = send
  BY DEF HubInv, ConnInv, BroadcastTo, Offer
<1>2. /\ current.n \in Int /\ made \in Int /\ current.n <= made
      /\ \A j \in DOMAIN updates : current.n < updates[j].n /\ updates[j].n \in Int
  BY <1>1, UpdateNumber, HubConstants DEF HubInv, TypeOK, OrderInv
<1>3. ASSUME NEW e \in Clients PROVE ClientOrder(e)'
  <2>1. /\ ClientOrder(e) /\ Seen(e) \in Seq(Update)
        /\ send \in [Clients -> Seq(Update)] /\ delivered[e] \in Seq(Update)
    BY DEF Seen, HubInv, TypeOK, OrderInv, ClientOrder
  <2>2. CASE Seen(e)' = Seen(e)
    <3>1. Below(Seen(e), current.n + (IF e \in pending' THEN 0 ELSE 1))
      BY <1>1, <1>2, <2>1, BelowGrows DEF ClientOrder
    <3>2. QED BY <1>1, <2>1, <2>2, <3>1 DEF ClientOrder
  <2>3. CASE e = c /\ Seen(e)' = Append(Seen(e), current)
    <3>1. Ordered(Seen(e)) /\ Below(Seen(e), current.n)
      BY <1>1, <1>2, <2>1, <2>3 DEF ClientOrder
    <3>2. Below(Seen(e), current.n + 1) /\ Below(Seen(e), made + 1)
      BY <1>2, <2>1, <3>1, BelowGrows DEF ClientOrder
    <3>3. /\ Ordered(Seen(e)')
          /\ \A m \in Int : Below(Seen(e), m) /\ current.n < m => Below(Seen(e)', m)
      BY <1>1, <2>1, <2>3, <3>1, OrderedAppend
    <3>4. Below(Seen(e)', current.n + 1) /\ Below(Seen(e)', made + 1)
      BY <1>2, <3>2, <3>3
    <3>5. \A j \in DOMAIN updates : Below(Seen(e)', updates[j].n)
      BY <1>2, <2>1, <3>3 DEF ClientOrder
    <3>6. QED BY <1>1, <2>3, <3>3, <3>4, <3>5 DEF ClientOrder
  <2>4. CASE send' = [send EXCEPT ![c] = Append(@, current)] /\ e = c
    <3>1. send'[e] = Append(send[e], current) /\ delivered'[e] = delivered[e]
      BY <1>1, <2>1, <2>4
    <3>2. Seen(e)' = Append(Seen(e), current)
      BY <1>1, <2>1, <3>1, SendAppends DEF Seen
    <3>3. QED BY <2>3, <2>4, <3>2
  <2>5. CASE send' = send \/ (send' = [send EXCEPT ![c] = Append(@, current)] /\ e # c)
    BY <1>1, <2>1, <2>2, <2>5 DEF Seen
  <2>6. QED BY <1>1, <2>4, <2>5
<1>4. QED BY <1>1, <1>3 DEF HubInv, OrderInv, ClientOrder

LEMMA ConnOrder ==
    ASSUME HubInv, NEW c \in Clients, ConnStep(c)
    PROVE  OrderInv'
<1>1. UNCHANGED <<made, updates, hub, current, pending>>
  BY DEF ConnStep, Connect, ReadFails, RemoveClient, CloseSend, Write, WriterEnds, Subscribe,
         Unsubscribe, hubVars
<1>2. ASSUME NEW e \in Clients PROVE ClientOrder(e)'
  <2>1. send \in [Clients -> Seq(Update)] /\ delivered \in [Clients -> Seq(Update)]
    BY DEF HubInv, TypeOK
  <2>2. CASE Write(c)
    <3>1. /\ send[c] # <<>> /\ send' = [send EXCEPT ![c] = Tail(@)]
          /\ \/ delivered' = [delivered EXCEPT ![c] = Append(@, Head(send[c]))]
             \/ delivered' = delivered
      BY <2>2, Zenon DEF Write
    <3>2. CASE e # c
      <4>1. Seen(e)' = Seen(e)
        BY <2>1, <3>1, <3>2 DEF Seen
      <4>2. QED BY <1>1, <4>1, LessIsOrdered
    <3>3. CASE e = c /\ delivered' = [delivered EXCEPT ![c] = Append(@, Head(send[c]))]
      <4>1. Seen(e)' = Append(delivered[c], Head(send[c])) \o Tail(send[c])
        BY <2>1, <3>1, <3>3 DEF Seen
      <4>2. Seen(e)' = Seen(e)
        BY <2>1, <3>1, <3>3, <4>1, WriteKeeps DEF Seen
      <4>3. QED BY <1>1, <4>2, LessIsOrdered
    <3>4. CASE e = c /\ delivered' = delivered
      <4>1. Seen(e)' = delivered[c] \o Tail(send[c])
        BY <2>1, <3>1, <3>4 DEF Seen
      <4>2. /\ Ordered(Seen(e)) => Ordered(Seen(e)')
            /\ \A m \in Int : Below(Seen(e), m) => Below(Seen(e)', m)
        BY <2>1, <3>1, <3>4, <4>1, WriteDrops DEF Seen
      <4>3. QED BY <1>1, <4>2, LessIsOrdered
    <3>5. QED BY <3>1, <3>2, <3>3, <3>4
  <2>3. CASE ~Write(c)
    BY <1>1, <2>3, LessIsOrdered
    DEF ConnStep, Connect, ReadFails, RemoveClient, CloseSend, WriterEnds, Subscribe,
        Unsubscribe, Seen
  <2>4. QED BY <2>2, <2>3
<1>3. QED BY <1>1, <1>2 DEF HubInv, OrderInv, ClientOrder

----------------------------------------------------------------------------

\* HubInv is inductive.
LEMMA HubStep == HubInv /\ [Next]_vars => HubInv'
<1> SUFFICES ASSUME HubInv, [Next]_vars PROVE HubInv'
  OBVIOUS
<1>1. TypeOK'
  <2>1. CASE UNCHANGED vars
    BY <2>1, Zenon DEF vars, HubInv, TypeOK
  <2>2. QED BY <2>1, HubTypes, ConnTypes DEF Next, ConnStep
<1>2. OrderInv'
  <2>1. CASE BroadcastEnd \/ RunEnds \/ Stop \/ UNCHANGED vars
    BY <2>1 DEF HubInv, OrderInv, Seen, BroadcastEnd, RunEnds, Stop, connVars, vars
  <2>2. QED
    BY <2>1, OnPriceUpdateOrder, ReceiveOrder, BroadcastOrder, ConnOrder DEF Next, Run, ConnStep
<1>3. QED BY <1>1, <1>2, ConnInvStep DEF HubInv

THEOREM HubInvariant == Spec => []HubInv
  BY HubInit, HubStep, PTL DEF Spec

\* Hub.broadcast never sends on a channel that HandleWS has closed, whatever
\* connections come and go while updates are broadcast.
THEOREM HubNeverPanics == Spec => []NoSendOnClosed
<1>1. HubInv => NoSendOnClosed
  BY DEF HubInv, ConnInv
<1>2. QED BY <1>1, HubInvariant, PTL

\* A client gets the updates in the order of the OnPriceUpdate calls, none twice,
\* however small h.updates and the send channels are.
THEOREM ClientsSeeInOrder == Spec => []InOrder
<1>1. HubInv => InOrder
  BY DEF HubInv, OrderInv, InOrder, Seen
<1>2. QED BY <1>1, HubInvariant, PTL
=============================================================================
