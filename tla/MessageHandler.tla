---------------------------- MODULE MessageHandler ----------------------------
(***************************************************************************)
(* createMessageHandler of liwi-resources-server, one per connection: the  *)
(* subscriptions a connection has opened, and the calls that open them.    *)
(*                                                                         *)
(* A call awaits the query it names, which may take any time to create,    *)
(* then opens a subscription, with its hook, and awaits its initial fetch; *)
(* meanwhile other messages of the connection are handled, and it may      *)
(* close.  The values sent are not modelled; a call of fetch or do opens   *)
(* nothing and is answered, in two awaits as well.                         *)
(***************************************************************************)
EXTENDS FiniteSets

CONSTANTS
    Connection,  \* sockets accepted by the server
    SubId,       \* the ids a client gives its subscriptions
    Call,        \* messages with an id, each answered once
    NoCall       \* no subscription is opened under the id

ASSUME MessageHandlerAssumption == NoCall \notin Call

VARIABLES
    served,  \* whether the server has the connection: before, while and after
    opened,  \* openedSubscriptions of each connection
    call     \* the calls received, and the subscription each has made

handlerVars == <<served, opened, call>>

Unused == [phase |-> "unused"]
CallKinds == {"subscribe", "fetch"}  \* fetchAndSubscribe and subscribe; fetch and do
Received(c, kind, id) ==
    [phase |-> "creating", kind |-> kind, conn |-> c, id |-> id,
     sub |-> "none", outcome |-> "none", late |-> FALSE]

CallRecord ==
    {Unused} \cup
    [phase : {"creating", "opening", "answered"}, kind : CallKinds,
     conn : Connection, id : SubId,
     sub : {"none", "active", "stopped"},  \* the subscription, with its hook
     outcome : {"none", "ok", "refused"},  \* what the ack says
     late : BOOLEAN]                       \* history: closed while its query was awaited

HandlerTypeOK ==
    /\ served \in [Connection -> {"before", "open", "closed"}]
    /\ opened \in [Connection -> [SubId -> Call \cup {NoCall}]]
    /\ call \in [Call -> CallRecord]
    /\ \A m \in Call : call[m].phase # "unused" => (call[m].phase = "answered") = (call[m].outcome # "none")

HandlerInit ==
    /\ served = [c \in Connection |-> "before"]
    /\ opened = [c \in Connection |-> [id \in SubId |-> NoCall]]
    /\ call = [m \in Call |-> Unused]

Phase(m) == call[m].phase
Active(m) == Phase(m) # "unused" /\ call[m].sub = "active"
Creating(m, c) == Phase(m) = "creating" /\ call[m].conn = c /\ call[m].kind = "subscribe"

-----------------------------------------------------------------------------
\* the connection event: a handler of its own
Accept(c) ==
    /\ served[c] = "before"
    /\ served' = [served EXCEPT ![c] = "open"]
    /\ UNCHANGED <<opened, call>>

\* a message with an id starts a call; its resource or key may be unknown
Handle(m, c, kind, id) ==
    /\ served[c] = "open"
    /\ Phase(m) = "unused"
    /\ call' = [call EXCEPT ![m] = Received(c, kind, id)]
    /\ UNCHANGED <<served, opened>>

Refused(m) == [call EXCEPT ![m].phase = "answered", ![m].outcome = "refused"]

CreateQueryFails(m) ==
    /\ Phase(m) = "creating"
    /\ call' = Refused(m)
    /\ UNCHANGED <<served, opened>>

\* variant: an id already watched is not looked for
NotWatched(c, id) == TRUE
IsFree(c, id) == opened[c][id] = NoCall

\* createSubscription, at once after the query is created: the connection is not
\* looked at again
CreateSubscription(m) ==
    /\ Phase(m) = "creating" /\ call[m].kind = "subscribe"
    /\ \/ /\ IsFree(call[m].conn, call[m].id)
          /\ opened' = [opened EXCEPT ![call[m].conn][call[m].id] = m]
          /\ call' = [call EXCEPT ![m].phase = "opening", ![m].sub = "active"]
       \/ /\ ~IsFree(call[m].conn, call[m].id)
          /\ call' = Refused(m)
          /\ UNCHANGED opened
    /\ UNCHANGED served

\* query.fetch, or the operation
Fetch(m) ==
    /\ Phase(m) = "creating" /\ call[m].kind = "fetch"
    /\ call' = [call EXCEPT ![m].phase = "opening"]
    /\ UNCHANGED <<served, opened>>

\* variant: the initial fetch of a subscription stopped meanwhile never settles
AnswerUnlessStopped(m, outcome) ==
    /\ Phase(m) = "opening" /\ call[m].sub # "stopped"
    /\ call' = [call EXCEPT ![m].phase = "answered", ![m].outcome = outcome]
    /\ UNCHANGED <<served, opened>>

\* the initial fetch, or the fetch, settles: an id whose fetch failed stays opened
Answer(m, outcome) ==
    /\ Phase(m) = "opening"
    /\ call' = [call EXCEPT ![m].phase = "answered", ![m].outcome = outcome]
    /\ UNCHANGED <<served, opened>>

\* unsubscribeSubscription
Unsubscribed(r) == [r EXCEPT !.sub = "stopped"]

\* subscribe:close: the calls of that id whose query is awaited are not found
HandleClose(c, id) ==
    /\ served[c] = "open"
    /\ LET watched == opened[c][id]
       IN  /\ opened' = [opened EXCEPT ![c][id] = NoCall]
           /\ call' = [m \in Call |->
                  CASE m = watched -> Unsubscribed(call[m])
                    [] m # watched /\ Creating(m, c) /\ call[m].id = id -> [call[m] EXCEPT !.late = TRUE]
                    [] OTHER -> call[m]]
    /\ UNCHANGED served

\* variant: the close of the first subscription only
OpenedFirst(c) ==
    IF \A id \in SubId : opened[c][id] = NoCall THEN {}
    ELSE {opened[c][CHOOSE id \in SubId : opened[c][id] # NoCall]}
OpenedCalls(c) == {opened[c][id] : id \in SubId} \ {NoCall}

\* close, when the socket closes: the map keeps what it stopped
Close(c) ==
    /\ served[c] = "open"
    /\ served' = [served EXCEPT ![c] = "closed"]
    /\ call' = [m \in Call |->
           CASE m \in OpenedCalls(c) -> Unsubscribed(call[m])
             [] m \notin OpenedCalls(c) /\ Creating(m, c) -> [call[m] EXCEPT !.late = TRUE]
             [] OTHER -> call[m]]
    /\ UNCHANGED opened

CallStep(m) ==
    \/ CreateQueryFails(m) \/ CreateSubscription(m) \/ Fetch(m)
    \/ \E outcome \in {"ok", "refused"} : Answer(m, outcome)

-----------------------------------------------------------------------------
(* A handler by itself: a client that sends any message at any time *)

HandlerNext ==
    \/ \E m \in Call : CallStep(m)
    \/ \E m \in Call, c \in Connection, kind \in CallKinds, id \in SubId : Handle(m, c, kind, id)
    \/ \E c \in Connection : Accept(c) \/ Close(c)
    \/ \E c \in Connection, id \in SubId : HandleClose(c, id)

HandlerSpec == HandlerInit /\ [][HandlerNext]_handlerVars

\* queries are created and fetches answered, or they fail
HandlerFairness == \A m \in Call : WF_handlerVars(CallStep(m))
FairHandlerSpec == HandlerSpec /\ HandlerFairness

(***************************************************************************)
(* A subscription that is running can be found under its id: nothing       *)
(* replaces its entry, so subscribe:close and close reach it (the check    *)
(* for a watcher in createSubscription).                                   *)
(***************************************************************************)
RunningIsFound == \A m \in Call : Active(m) => opened[call[m].conn][call[m].id] = m

(***************************************************************************)
(* After a connection closed the subscriptions it still runs are those     *)
(* whose query was awaited when it, or their id, was closed (close of      *)
(* createMessageHandler).                                                  *)
(***************************************************************************)
ClosedStopsOpened ==
    \A m \in Call : Active(m) /\ served[call[m].conn] = "closed" => call[m].late

(***************************************************************************)
(* Every message with an id is acked, with a result or an error, whatever  *)
(* closes meanwhile (handleDecodedMessage of the websocket server).        *)
(***************************************************************************)
EveryCallAcked == \A m \in Call : Phase(m) = "creating" ~> Phase(m) = "answered"

(***************************************************************************)
(* README of liwi-resources-server: close stops every subscription opened  *)
(* by that connection.  A call that awaits its query when the connection   *)
(* closes opens its subscription afterwards.                               *)
(***************************************************************************)
CloseStopsEvery == \A m \in Call : Active(m) => served[call[m].conn] = "open"
=============================================================================
