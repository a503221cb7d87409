----------------------------- MODULE HttpTransport -----------------------------
(***************************************************************************)
(* The http transport: createHttpTransportClient, one client that posts    *)
(* each call by a fetch of its own, and createHttpRequestHandler, beside   *)
(* the websocket server over the same resources.  A request is read,       *)
(* checked and given a message handler for itself, of which it is the only *)
(* call; the answer, or the failure, is told by a status and a tuple.      *)
(*                                                                         *)
(* Requests of other programs are received too.  Users, headers and values *)
(* are not modelled, and of a body only what its checks find; fetch, the   *)
(* network, and a proxy or a body parser before the server are as the two  *)
(* packages use them.                                                      *)
(***************************************************************************)
EXTENDS MessageHandler, Naturals

CONSTANTS
    Request,    \* http requests, each with its connection and its call
    MaxCalls,   \* bound: how many messages and requests are sent in all
    MaxCloses   \* bound: how often the client is closed

ASSUME HttpTransportAssumption ==
    /\ Request \subseteq Connection \cap Call
    /\ SubId # {}
    /\ MaxCalls \in Nat /\ MaxCloses \in Nat

VARIABLES
    state,    \* of the client, of which it only tells its listeners
    signals,  \* abortController: the number of the current one, and those aborted
    request,  \* the promise of send: its phase, its signal and how it settled
    answer    \* the server's side of it: where it is, and what it answers

allVars == <<handlerVars, state, signals, request, answer>>

Socket == Connection \ Request
Message == Call \ Request
Controller == 1..(MaxCloses + 1)
NoSignal == 0
\* the first check that fails, if one does: of what a client sends, and of any request
Sendable == {"valid", "large", "consumed"}
Shape == Sendable \cup {"method", "media", "chunks", "invalid"}

Unsent == [phase |-> "unsent"]
Asked(phase, shape) ==
    [phase |-> phase, shape |-> shape, sent |-> signals.aborted,
     signal |-> NoSignal, result |-> "none"]
Answered(phase, status, body) == [phase |-> phase, status |-> status, body |-> body]
Unknown == Answered("unknown", 0, "none")

RequestRecord ==
    {Unsent} \cup
    [phase : {"headers", "inflight", "settled", "foreign"},
     shape : Shape,
     sent : SUBSET Controller,  \* history: those aborted when send was called
     signal : {NoSignal} \cup Controller,  \* that of its fetch
     result : {"none", "value", "refused", "unexpected", "aborted", "failed"}]
AnswerRecord ==
    [phase : {"unknown", "reading", "authenticating", "handling", "ended"},
     status : {0, 200, 400, 405, 413, 415, 500}, body : {"none", "result", "error", "empty"}]

HttpInit ==
    /\ HandlerInit
    /\ state = "closed"
    /\ signals = [current |-> 1, aborted |-> {}]
    /\ request = [r \in Request |-> Unsent]
    /\ answer = [r \in Request |-> Unknown]

MoreCalls ==
    Cardinality({m \in Message : Phase(m) # "unused"} \cup {r \in Request : request[r] # Unsent}) < MaxCalls
Sent(r) == request[r] # Unsent /\ request[r].phase # "foreign"
InFlight(r) == request[r].phase = "inflight"
Arrives(r) ==
    /\ answer[r] = Unknown /\ request[r] # Unsent
    /\ request[r].phase = "foreign" \/ request[r].signal # NoSignal
Settled(r, result) == [request[r] EXCEPT !.phase = "settled", !.result = result]
Settle(r, result) == request' = [request EXCEPT ![r] = Settled(r, result)]

-----------------------------------------------------------------------------
(* The client *)

Connect ==
    /\ state' = "connected"
    /\ UNCHANGED <<handlerVars, signals, request, answer>>

\* sendRequest, in any state: its headers are awaited
Send(r, shape) ==
    /\ request[r] = Unsent /\ MoreCalls
    /\ request' = [request EXCEPT ![r] = Asked("headers", shape)]
    /\ UNCHANGED <<handlerVars, state, signals, answer>>

\* the headers function throws, or the request cannot be encoded
HeadersFail(r) ==
    /\ request[r].phase = "headers"
    /\ Settle(r, "failed")
    /\ UNCHANGED <<handlerVars, state, signals, answer>>

\* fetch: the signal is read once the headers are known
Post(r) ==
    /\ request[r].phase = "headers"
    /\ \/ /\ signals.current \in signals.aborted
          /\ Settle(r, "aborted")
       \/ /\ signals.current \notin signals.aborted
          /\ request' = [request EXCEPT ![r].phase = "inflight", ![r].signal = signals.current]
    /\ UNCHANGED <<handlerVars, state, signals, answer>>

\* variant: the controller that was aborted is kept
AbortedOnly(s) == [s EXCEPT !.aborted = @ \cup {s.current}]
\* abort, and a new controller
Renewed(s) == [current |-> s.current + 1, aborted |-> s.aborted \cup {s.current}]

CloseClient ==
    /\ signals.current <= MaxCloses
    /\ signals' = Renewed(signals)
    /\ request' = [r \in Request |->
           IF InFlight(r) /\ request[r].signal = signals.current
           THEN Settled(r, "aborted") ELSE request[r]]
    /\ state' = "closed"
    /\ UNCHANGED <<handlerVars, answer>>

\* parseResponse: a tuple, which tells a value or an error, or neither
Parsed(r) ==
    CASE answer[r].body = "result" -> "value"
      [] answer[r].body = "error" -> "refused"
      [] answer[r].body = "empty" -> "unexpected"

Receive(r) ==
    /\ InFlight(r) /\ answer[r].phase = "ended"
    /\ Settle(r, Parsed(r))
    /\ UNCHANGED <<handlerVars, state, signals, answer>>

\* the network fails, or a proxy answers with a page of its own
Lost(r) ==
    /\ InFlight(r)
    /\ \E result \in {"failed", "unexpected"} : Settle(r, result)
    /\ UNCHANGED <<handlerVars, state, signals, answer>>

\* another program sends a request
SendForeign(r, shape) ==
    /\ request[r] = Unsent /\ MoreCalls
    /\ request' = [request EXCEPT ![r] = Asked("foreign", shape)]
    /\ UNCHANGED <<handlerVars, state, signals, answer>>

-----------------------------------------------------------------------------
(* The server *)

\* sendFailure, of the first check that fails
Failure(shape) ==
    CASE shape = "method" -> 405
      [] shape = "media" -> 415
      [] shape \in {"large", "chunks"} -> 413
      [] shape = "invalid" -> 400
      [] shape = "consumed" -> 500
End(r, status, body) == answer' = [answer EXCEPT ![r] = Answered("ended", status, body)]

\* handleRequest up to its first await; an aborted fetch may have reached the server
Arrive(r) ==
    /\ Arrives(r)
    /\ IF request[r].shape \in {"method", "media"} THEN End(r, Failure(request[r].shape), "error")
       ELSE answer' = [answer EXCEPT ![r] = Answered("reading", 0, "none")]
    /\ UNCHANGED <<handlerVars, state, signals, request>>

\* variant: the body of a request that was read before is waited for
ReadOrWait(r) ==
    /\ answer[r].phase = "reading" /\ request[r].shape # "consumed"
    /\ IF request[r].shape = "valid"
       THEN answer' = [answer EXCEPT ![r] = Answered("authenticating", 0, "none")]
       ELSE End(r, Failure(request[r].shape), "error")
    /\ UNCHANGED <<handlerVars, state, signals, request>>
\* readBody, then parseHttpRequest
ReadBody(r) ==
    /\ answer[r].phase = "reading"
    /\ IF request[r].shape = "valid"
       THEN answer' = [answer EXCEPT ![r] = Answered("authenticating", 0, "none")]
       ELSE End(r, Failure(request[r].shape), "error")
    /\ UNCHANGED <<handlerVars, state, signals, request>>

\* the request breaks while it is read: its fetch is aborted, or its network fails
BodyFails(r) ==
    /\ answer[r].phase = "reading" /\ request[r].phase \in {"settled", "foreign"}
    /\ End(r, 500, "error")
    /\ UNCHANGED <<handlerVars, state, signals, request>>

\* the user is known, or taken to be null: handleMessage makes a handler and calls it
Authenticate(r) ==
    /\ answer[r].phase = "authenticating"
    /\ answer' = [answer EXCEPT ![r] = Answered("handling", 0, "none")]
    /\ served' = [served EXCEPT ![r] = "open"]
    /\ call' = [call EXCEPT ![r] = Received(r, "fetch", CHOOSE id \in SubId : TRUE)]
    /\ UNCHANGED <<opened, state, signals, request>>

\* variant: the body is encoded before the head is written
RespondEncoded(r) ==
    /\ answer[r].phase = "handling" /\ Phase(r) = "answered"
    /\ \/ call[r].outcome = "ok" /\ End(r, 200, "result")
       \/ call[r].outcome = "ok" /\ End(r, 500, "error")
       \/ call[r].outcome = "refused" /\ \E status \in {400, 500} : End(r, status, "error")
    /\ UNCHANGED <<handlerVars, state, signals, request>>
\* sendResponse: a result that cannot be encoded is found out once its head is written
Respond(r) ==
    /\ answer[r].phase = "handling" /\ Phase(r) = "answered"
    /\ \/ call[r].outcome = "ok" /\ \E body \in {"result", "empty"} : End(r, 200, body)
       \/ call[r].outcome = "refused" /\ \E status \in {400, 500} : End(r, status, "error")
    /\ UNCHANGED <<handlerVars, state, signals, request>>

-----------------------------------------------------------------------------
(* Both servers side by side, one client of http, and any of websocket *)

SocketStep ==
    \/ \E c \in Socket : Accept(c) \/ Close(c)
    \/ \E m \in Message, c \in Socket, kind \in CallKinds, id \in SubId :
           MoreCalls /\ Handle(m, c, kind, id)
    \/ \E c \in Socket, id \in SubId : HandleClose(c, id)
ServerStep(r) == Arrive(r) \/ ReadBody(r) \/ BodyFails(r) \/ Authenticate(r) \/ Respond(r)
ClientStep(r) == HeadersFail(r) \/ Post(r) \/ Receive(r)

HttpNext ==
    \/ SocketStep /\ UNCHANGED <<state, signals, request, answer>>
    \/ \E m \in Call : CallStep(m) /\ UNCHANGED <<state, signals, request, answer>>
    \/ Connect \/ CloseClient
    \/ \E r \in Request : ClientStep(r) \/ Lost(r) \/ ServerStep(r)
    \/ \E r \in Request, shape \in Sendable : Send(r, shape)
    \/ \E r \in Request, shape \in Shape : SendForeign(r, shape)

HttpSpec == HttpInit /\ [][HttpNext]_allVars

\* headers are known, what is posted is delivered, queries and users are known, and
\* answers received, or they fail; nothing has to be lost
HttpFairness ==
    /\ \A m \in Call : WF_allVars(CallStep(m) /\ UNCHANGED <<state, signals, request, answer>>)
    /\ \A r \in Request : WF_allVars(ClientStep(r)) /\ WF_allVars(ServerStep(r))
FairHttpSpec == HttpSpec /\ HttpFairness

(***************************************************************************)
(* The variables keep their types; a fetch has the signal of a controller, *)
(* and what the server ended, and only that, has a status.                 *)
(***************************************************************************)
HttpTypeOK ==
    /\ HandlerTypeOK
    /\ state \in {"closed", "connected"}
    /\ signals \in [current : Controller, aborted : SUBSET Controller]
    /\ request \in [Request -> RequestRecord] /\ answer \in [Request -> AnswerRecord]
    /\ \A r \in Request :
           /\ request[r].phase = "inflight" => request[r].signal # NoSignal
           /\ (answer[r].phase = "ended") = (answer[r].status # 0)

(***************************************************************************)
(* What send is told is what happened: a value, of a call that succeeded;  *)
(* an error of the server, of one that was refused or never made, whatever *)
(* fails on the way back (handleMessage and the catch of the listener).    *)
(***************************************************************************)
ToldWhatHappened ==
    \A r \in Request : Sent(r) =>
        /\ request[r].result = "value" => Phase(r) = "answered" /\ call[r].outcome = "ok"
        /\ request[r].result = "refused" => ~(Phase(r) = "answered" /\ call[r].outcome = "ok")

(***************************************************************************)
(* close aborts every fetch under way, and none that is sent afterwards:   *)
(* the controller is renewed, and read as late as the fetch.               *)
(***************************************************************************)
CloseAbortsFetches ==
    \A r \in Request :
        /\ InFlight(r) => request[r].signal \notin signals.aborted
        /\ Sent(r) /\ request[r].result = "aborted" => request[r].sent # signals.aborted

(***************************************************************************)
(* The invariants of every state: types, and what close aborts.            *)
(***************************************************************************)
HttpInv == HttpTypeOK /\ CloseAbortsFetches

(***************************************************************************)
(* send settles, with the body of the request already consumed, or a       *)
(* result that cannot be encoded, as well (readableEnded in readBody, and  *)
(* response.end in the catch of the listener).                             *)
(***************************************************************************)
SendSettles == \A r \in Request : Sent(r) ~> request[r].phase = "settled"
=============================================================================
