-------------------------- MODULE WebsocketTransport --------------------------
(***************************************************************************)
(* createWebsocketTransportClient of liwi-resources-websocket-client, over *)
(* the connection WebsocketClient keeps (its promise, ConnectionState) and *)
(* the message handler of each socket the server accepts (MessageHandler). *)
(*                                                                         *)
(* A socket keeps the order of its messages in both directions and may be  *)
(* cut at any time, with those under way.  The client sends a subscription *)
(* once on each connection, so the pair of them names that message and its *)
(* ack; an operation (send) is sent once.  The values subscriptions carry  *)
(* are those of CollectionSubscription and are not modelled again.         *)
(***************************************************************************)
EXTENDS MessageHandler, ConnectionState, Naturals, Sequences

CONSTANTS
    Connections,    \* bound: attempts of connection
    Subscriptions,  \* bound: calls of subscribe
    Op              \* operations and fetches sent

ASSUME WebsocketTransportAssumption ==
    /\ Connections \in Nat
    /\ Subscriptions \in Nat \ {0}
    /\ Connection = 1..Connections
    /\ SubId = 1..Subscriptions
    /\ Call = (Connection \X SubId) \cup Op
    /\ Op \cap (Connection \X SubId) = {}

VARIABLES
    conn,    \* the last connection attempted
    acks,    \* the messages whose promise is pending
    subs,    \* the subscriptions made, and what their thenable became
    unsent,  \* operations not sent yet
    up,      \* messages to the server, on each connection
    down     \* messages to the client

clientVars == <<conn, acks, subs, unsent, up, down>>
transportVars == <<handlerVars, state, clientVars>>

Sub(m) == m[2]
Message(type, m) == [type |-> type, of |-> m]
MessageType == [type : {"subscribe", "subscribe:close", "call"}, of : Call]
AckType == [of : Call, outcome : {"ok", "refused"}]

SubRecord ==
    [phase : {"new", "held", "stopped", "closed"},
     thenable : {"pending", "resolved", "rejected"}]

TransportTypeOK ==
    /\ HandlerTypeOK
    /\ ConnectionTypeOK
    /\ conn \in 0..Connections
    /\ acks \subseteq Call
    /\ subs \in [SubId -> SubRecord]
    /\ unsent \subseteq Op
    /\ \A c \in Connection : \A i \in DOMAIN up[c] : up[c][i] \in MessageType
    /\ \A c \in Connection : \A i \in DOMAIN down[c] : down[c][i] \in AckType

TransportInit ==
    /\ HandlerInit
    /\ ConnectionInit
    /\ conn = 0
    /\ acks = {}
    /\ subs = [id \in SubId |-> [phase |-> "new", thenable |-> "pending"]]
    /\ unsent = Op
    /\ up = [c \in Connection |-> <<>>]
    /\ down = [c \in Connection |-> <<>>]

IsConnected == state = "connected"
Held(id) == subs[id].phase = "held"

\* a promise settles once: isSettled only tells who is told of a refusal
Settle(s, how) == IF s.thenable = "pending" THEN [s EXCEPT !.thenable = how] ELSE s

-----------------------------------------------------------------------------
(* The application *)

\* the messages that subscribe ids, in the order they were made: there is one such list
Subscribing(ids) ==
    {sent \in [1..Cardinality(ids) -> [type : {"subscribe"}, of : {conn} \X ids]] :
        /\ {Sub(sent[i].of) : i \in DOMAIN sent} = ids
        /\ \A i, j \in DOMAIN sent : i < j => Sub(sent[i].of) < Sub(sent[j].of)}

\* sendSubscription of each of ids
SendSubscriptions(ids) ==
    /\ acks' = acks \cup ({conn} \X ids)
    /\ \E sent \in Subscribing(ids) : up' = [up EXCEPT ![conn] = @ \o sent]

Subscribe(id) ==
    /\ subs[id].phase = "new"
    /\ \A older \in 1..(id - 1) : subs[older].phase # "new"
    /\ subs' = [subs EXCEPT ![id].phase = "held"]
    /\ \/ IsConnected /\ SendSubscriptions({id})
       \/ ~IsConnected /\ UNCHANGED <<acks, up>>
    /\ UNCHANGED <<handlerVars, state, conn, unsent, down>>

\* variant: the server is not told
StopLocally(id) ==
    /\ subs[id].phase \in {"held", "closed"}
    /\ subs' = [subs EXCEPT ![id].phase = "stopped"]
    /\ UNCHANGED <<handlerVars, state, conn, acks, unsent, up, down>>

\* the ack of the subscription stays pending: the id stop deletes is not its own
Stop(id) ==
    /\ subs[id].phase \in {"held", "closed"}
    /\ subs' = [subs EXCEPT ![id].phase = "stopped"]
    /\ up' = IF IsConnected THEN [up EXCEPT ![conn] = Append(@, Message("subscribe:close", <<conn, id>>))] ELSE up
    /\ UNCHANGED <<handlerVars, state, conn, acks, unsent, down>>

\* send throws unless connected
Send(op) ==
    /\ IsConnected
    /\ op \in unsent
    /\ unsent' = unsent \ {op}
    /\ acks' = acks \cup {op}
    /\ up' = [up EXCEPT ![conn] = Append(@, Message("call", op))]
    /\ UNCHANGED <<handlerVars, state, conn, subs, down>>

-----------------------------------------------------------------------------
(* The state listener.  A rejection for want of a connection settles nothing *)
(* but the promise of an operation.                                          *)

Connects ==
    /\ Attempt
    /\ conn < Connections
    /\ conn' = conn + 1
    /\ UNCHANGED <<handlerVars, acks, subs, unsent, up, down>>

\* variant: only the subscriptions that were never answered are sent
PendingSubscriptions == {id \in SubId : Held(id) /\ subs[id].thenable = "pending"}
HeldSubscriptions == {id \in SubId : Held(id)}

\* connection-ack was received, which the server sends once it listens
Connected ==
    /\ Establish
    /\ served[conn] # "before"
    /\ SendSubscriptions(HeldSubscriptions)
    /\ UNCHANGED <<handlerVars, conn, subs, unsent, down>>

\* variant: the acks of a lost connection are kept for the next one
KeepAcks == UNCHANGED acks
RejectAcks == acks' = {}

Disconnected ==
    /\ Lose
    /\ RejectAcks
    /\ UNCHANGED <<handlerVars, conn, subs, unsent, up, down>>

\* variant: the thenables are left to the caller
Forgotten(s) == [s EXCEPT !.phase = "closed"]
Ended(s) == [Settle(s, "rejected") EXCEPT !.phase = "closed"]

\* close, or a failure that is not retried
ClosedForGood ==
    /\ GiveUp
    /\ RejectAcks
    /\ subs' = [id \in SubId |-> IF Held(id) THEN Ended(subs[id]) ELSE subs[id]]
    /\ UNCHANGED <<handlerVars, conn, unsent, up, down>>

\* the ack handler: a message of the connection in use only, an ack awaited only
ReceiveAck ==
    /\ IsConnected
    /\ down[conn] # <<>>
    /\ down' = [down EXCEPT ![conn] = Tail(@)]
    /\ LET ack == Head(down[conn])
           how == IF ack.outcome = "ok" THEN "resolved" ELSE "rejected"
       IN  /\ acks' = acks \ {ack.of}
           /\ subs' = IF ack.of \in acks \ Op
                      THEN [subs EXCEPT ![Sub(ack.of)] = Settle(@, how)] ELSE subs
    /\ UNCHANGED <<handlerVars, state, conn, unsent, up>>

-----------------------------------------------------------------------------
(* The server *)

ServerAccepts(c) ==
    /\ c <= conn
    /\ Accept(c)
    /\ UNCHANGED <<state, clientVars>>

ServerReceives(c) ==
    /\ up[c] # <<>>
    /\ LET message == Head(up[c])
       IN  \/ /\ message.type = "subscribe"
              /\ Handle(message.of, c, "subscribe", Sub(message.of))
           \/ /\ message.type = "call"
              /\ Handle(message.of, c, "fetch", CHOOSE id \in SubId : TRUE)
           \/ /\ message.type = "subscribe:close"
              /\ HandleClose(c, Sub(message.of))
    /\ up' = [up EXCEPT ![c] = Tail(@)]
    /\ UNCHANGED <<state, conn, acks, subs, unsent, down>>

\* a call takes a step, and its ack is sent if the socket is still open
ServerCalls(m) ==
    /\ CallStep(m)
    /\ LET c == call[m].conn
       IN  down' = IF call'[m].phase = "answered" /\ served[c] = "open"
                   THEN [down EXCEPT ![c] = Append(@, [of |-> m, outcome |-> call'[m].outcome])]
                   ELSE down
    /\ UNCHANGED <<state, conn, acks, subs, unsent, up>>

\* the socket is closed by either side or cut: what was sent to the server is lost
ServerCloses(c) ==
    /\ Close(c)
    /\ up' = [up EXCEPT ![c] = <<>>]
    /\ UNCHANGED <<state, conn, acks, subs, unsent, down>>

-----------------------------------------------------------------------------
Delivery == ReceiveAck \/ \E c \in Connection : ServerReceives(c)
Calls == \E m \in Call : ServerCalls(m)
\* the client is told of a socket the server has closed
Noticed == served[conn] = "closed" /\ (Disconnected \/ ClosedForGood)

TransportNext ==
    \/ \E id \in SubId : Subscribe(id) \/ Stop(id)
    \/ \E op \in Op : Send(op)
    \/ Connects \/ Connected \/ Disconnected \/ ClosedForGood
    \/ \E c \in Connection : ServerAccepts(c) \/ ServerCloses(c)
    \/ Delivery \/ Calls

TransportSpec == TransportInit /\ [][TransportNext]_transportVars

\* sockets deliver, queries and operations settle, a closed socket is noticed
TransportFairness ==
    /\ WF_transportVars(ReceiveAck)
    /\ \A c \in Connection : WF_transportVars(ServerReceives(c))
    /\ \A m \in Call : WF_transportVars(ServerCalls(m))
    /\ WF_transportVars(conn > 0 /\ Noticed)
FairTransportSpec == TransportSpec /\ TransportFairness

-----------------------------------------------------------------------------
(* Properties *)

Answered(c) == \A m \in Call : Phase(m) \in {"creating", "opening"} => call[m].conn # c
Quiet ==
    /\ IsConnected /\ served[conn] = "open"
    /\ up[conn] = <<>> /\ down[conn] = <<>>
    /\ Answered(conn)

(***************************************************************************)
(* Once every message is answered, a connected client has each of its      *)
(* subscriptions open on this connection, or was told of the refusal, and  *)
(* its thenable has settled: through losses of the connection at any       *)
(* moment (the state listener and sendSubscription).                       *)
(***************************************************************************)
Resubscribed ==
    Quiet => \A id \in SubId : Held(id) =>
        LET m == <<conn, id>>
        IN  /\ subs[id].thenable # "pending"
            /\ Phase(m) = "answered"
            /\ call[m].outcome = "ok" => Active(m)

(***************************************************************************)
(* Once every message is answered, the server runs for this connection     *)
(* only subscriptions its client still holds, but for those closed while   *)
(* their query was awaited (stop of subscribe, subscribe:close).           *)
(***************************************************************************)
NoOrphan ==
    Quiet => \A m \in Call :
        Active(m) /\ call[m].conn = conn => Held(call[m].id) \/ call[m].late

(***************************************************************************)
(* A promise is pending only while its answer may come: on the connection  *)
(* in use, with its message, its call or its ack under way unless the      *)
(* server has closed it (acks.clear of the state listener).                *)
(***************************************************************************)
PendingIsUnderWay ==
    \A m \in acks :
        /\ IsConnected
        /\ \/ served[conn] = "closed"
           \/ \E i \in DOMAIN up[conn] : up[conn][i].of = m /\ up[conn][i].type # "subscribe:close"
           \/ Phase(m) \in {"creating", "opening"} /\ call[m].conn = conn
           \/ \E i \in DOMAIN down[conn] : down[conn][i].of = m

(***************************************************************************)
(* The invariants of every state: types, and promises under way.           *)
(***************************************************************************)
TransportInv == TransportTypeOK /\ PendingIsUnderWay

(***************************************************************************)
(* Every promise of send and of subscribe that was sent settles or is      *)
(* rejected by the loss of the connection: none is pending for ever.       *)
(***************************************************************************)
PendingEnds == \A m \in Call : m \in acks ~> m \notin acks

(***************************************************************************)
(* README of liwi-resources-websocket-client: close ends every             *)
(* subscription, pending ones reject, and none is resumed by a later       *)
(* connect.                                                                *)
(***************************************************************************)
CloseEndsSubscriptions ==
    [][\A id \in SubId :
          /\ Held(id) /\ state # "closed" /\ state' = "closed" => subs'[id].thenable # "pending"
          /\ subs[id].phase \in {"stopped", "closed"} =>
                \A m \in acks' \ acks : m \notin Op => Sub(m) # id]_transportVars
=============================================================================
