-------------------------- MODULE HttpTransport_proofs --------------------------
(***************************************************************************)
(* Proofs about the http transport beside the websocket server, for any    *)
(* sets of connections, ids, calls and requests, and any bounds.           *)
(***************************************************************************)
EXTENDS HttpTransport, MessageHandler_proofs

ClientTypeOK ==
    /\ state \in {"closed", "connected"}
    /\ signals \in [current : Controller, aborted : SUBSET Controller]
    /\ request \in [Request -> RequestRecord]
AnswerTypeOK == answer \in [Request -> AnswerRecord]

\* a request is not a call before its user is known, and is over when it is answered
AnsweredOnce ==
    \A r \in Request :
        /\ answer[r].phase \in {"unknown", "reading", "authenticating"} =>
             served[r] = "before" /\ Phase(r) = "unused"
        /\ answer[r].phase = "handling" => Phase(r) # "unused"
        /\ answer[r].phase = "ended" => Phase(r) \in {"unused", "answered"}

Succeeded(r) == Phase(r) = "answered" /\ call[r].outcome = "ok"
\* what the body of an answer says is what became of its call
BodyTells ==
    \A r \in Request :
        /\ (answer[r].phase = "ended") = (answer[r].status # 0)
        /\ (answer[r].body # "none") = (answer[r].phase = "ended")
        /\ answer[r].body = "result" => Succeeded(r)
        /\ answer[r].body = "error" => ~Succeeded(r)

\* what is answered was sent, and what a client was told is what the body says
ResultIsBody ==
    \A r \in Request :
        /\ answer[r].phase # "unknown" => request[r] # Unsent
        /\ Sent(r) /\ request[r].result = "value" => answer[r].body = "result"
        /\ Sent(r) /\ request[r].result = "refused" => answer[r].body = "error"

\* the current controller is never aborted, and is that of every fetch under way
CurrentIsFresh ==
    /\ \A a \in signals.aborted : a < signals.current
    /\ \A r \in Request :
        /\ InFlight(r) => request[r].signal = signals.current
        /\ Sent(r) => request[r].sent \subseteq signals.aborted
        /\ Sent(r) /\ request[r].result = "aborted" => request[r].sent # signals.aborted

HttpInd ==
    /\ HandlerInv /\ ClientTypeOK /\ AnswerTypeOK
    /\ AnsweredOnce /\ BodyTells /\ ResultIsBody /\ CurrentIsFresh

-----------------------------------------------------------------------------
(* What the steps of one side leave alone *)

LEMMA HandlerKept ==
  ASSUME HandlerInv, UNCHANGED handlerVars
  PROVE  HandlerInv'
  BY DEF handlerVars, HandlerInv, HandlerTypeOK, OpenedAreCalls, RunningIsFound,
     CreatingHasNone, NoneBefore, ClosedIsLate, ActiveIsSubscribe, Active, Phase

\* the server's side is kept by what leaves it and the calls alone
LEMMA ServerKept ==
  ASSUME AnswerTypeOK, AnsweredOnce, BodyTells, UNCHANGED answer,
         \A r \in Request : /\ served'[r] = served[r] /\ call'[r].phase = call[r].phase
                            /\ call'[r].outcome = call[r].outcome
  PROVE  AnswerTypeOK' /\ AnsweredOnce' /\ BodyTells'
  BY DEF AnswerTypeOK, AnsweredOnce, BodyTells, Succeeded, Phase

LEMMA ClientKept ==
  ASSUME ClientTypeOK, CurrentIsFresh, UNCHANGED <<state, signals, request>>
  PROVE  ClientTypeOK' /\ CurrentIsFresh'
  BY DEF ClientTypeOK, CurrentIsFresh, InFlight, Sent

LEMMA ResultKept ==
  ASSUME ResultIsBody, UNCHANGED <<request, answer>>
  PROVE  ResultIsBody'
  BY DEF ResultIsBody, Sent

\* a call, whatever is stopped or marked, keeps its phase and its outcome
LEMMA StoppedStays ==
  ASSUME HandlerTypeOK, NEW m \in Call, NEW c,
         c \in {Unsubscribed(call[m]), [call[m] EXCEPT !.late = TRUE], call[m]}
  PROVE  c.phase = call[m].phase /\ c.outcome = call[m].outcome
<1>1. CASE call[m] = Unused
  BY <1>1 DEF Unused, Unsubscribed
<1>2. CASE call[m] \in ReceivedRecord
  BY <1>2 DEF ReceivedRecord, Unsubscribed
<1> QED
  BY <1>1, <1>2, CallIsUnusedOrReceived

\* the websocket server leaves the requests alone
LEMMA SocketKeepsRequests ==
  ASSUME HandlerInv, SocketStep, NEW r \in Request
  PROVE  /\ served'[r] = served[r] /\ call'[r].phase = call[r].phase
         /\ call'[r].outcome = call[r].outcome
<1>t. /\ r \in Call /\ r \in Connection /\ HandlerTypeOK
      /\ served \in [Connection -> {"before", "open", "closed"}] /\ call \in [Call -> CallRecord]
  BY HttpTransportAssumption DEF HandlerInv, HandlerTypeOK
<1>1. ASSUME NEW c \in Socket, Accept(c) \/ Close(c)
      PROVE  served'[r] = served[r]
  BY <1>1, <1>t DEF Accept, Close, Socket
<1>2. ASSUME NEW c \in Socket, Accept(c)
      PROVE  call'[r] = call[r]
  BY <1>2 DEF Accept
<1>3. ASSUME NEW c \in Socket, Close(c)
      PROVE  call'[r] \in {Unsubscribed(call[r]), [call[r] EXCEPT !.late = TRUE], call[r]}
  <2>1. call' = [m \in Call |->
             CASE m \in OpenedCalls(c) -> Unsubscribed(call[m])
               [] m \notin OpenedCalls(c) /\ Creating(m, c) -> [call[m] EXCEPT !.late = TRUE]
               [] OTHER -> call[m]]
    BY <1>3 DEF Close
  <2>2. CASE r \in OpenedCalls(c)
    BY <2>1, <2>2, <1>t
  <2>3. CASE r \notin OpenedCalls(c) /\ Creating(r, c)
    BY <2>1, <2>3, <1>t
  <2>4. CASE r \notin OpenedCalls(c) /\ ~Creating(r, c)
    BY <2>1, <2>4, <1>t
  <2> QED
    BY <2>2, <2>3, <2>4
<1>4. ASSUME NEW c \in Socket, NEW id \in SubId, HandleClose(c, id)
      PROVE  /\ served'[r] = served[r]
             /\ call'[r] \in {Unsubscribed(call[r]), [call[r] EXCEPT !.late = TRUE], call[r]}
  <2> DEFINE watched == opened[c][id]
  <2>1. /\ UNCHANGED served
        /\ call' = [m \in Call |->
             CASE m = watched -> Unsubscribed(call[m])
               [] m # watched /\ Creating(m, c) /\ call[m].id = id -> [call[m] EXCEPT !.late = TRUE]
               [] OTHER -> call[m]]
    BY <1>4 DEF HandleClose
  <2> HIDE DEF watched
  <2>2. CASE r = watched
    BY <2>1, <2>2, <1>t
  <2>3. CASE r # watched /\ Creating(r, c) /\ call[r].id = id
    BY <2>1, <2>3, <1>t
  <2>4. CASE r # watched /\ ~(Creating(r, c) /\ call[r].id = id)
    BY <2>1, <2>4, <1>t
  <2> QED
    BY <2>1, <2>2, <2>3, <2>4
<1>5. ASSUME NEW m \in Message, NEW c \in Socket, NEW kind \in CallKinds, NEW id \in SubId,
             Handle(m, c, kind, id)
      PROVE  served'[r] = served[r] /\ call'[r] = call[r]
  BY <1>5, <1>t DEF Handle, Message
<1>6. CASE \E c \in Socket : Accept(c) \/ Close(c)
  BY <1>6, <1>1, <1>2, <1>3, <1>t, StoppedStays
<1>7. CASE \E m \in Message, c \in Socket, kind \in CallKinds, id \in SubId :
              MoreCalls /\ Handle(m, c, kind, id)
  BY <1>7, <1>5
<1>8. CASE \E c \in Socket, id \in SubId : HandleClose(c, id)
  BY <1>8, <1>4, <1>t, StoppedStays
<1> QED
  BY <1>6, <1>7, <1>8 DEF SocketStep

LEMMA SocketStepKeeps ==
  ASSUME HandlerInv, SocketStep
  PROVE  HandlerInv'
<1>1. Socket \subseteq Connection /\ Message \subseteq Call
  BY DEF Socket, Message
<1> QED
  BY <1>1, AcceptKeeps, CloseKeeps, HandleKeeps, HandleCloseKeeps DEF SocketStep

\* one call takes a step: it was received, and stays so
LEMMA CallStepEffect ==
  ASSUME HandlerInv, NEW m \in Call, CallStep(m)
  PROVE  /\ Phase(m) \in {"creating", "opening"} /\ call'[m].phase # "unused"
         /\ UNCHANGED served /\ \A n \in Call : n # m => call'[n] = call[n]
<1>1. Phase(m) \in {"creating", "opening"}
  BY DEF CallStep, CreateQueryFails, CreateSubscription, Fetch, Answer
<1>2. call[m] \in ReceivedRecord /\ call \in [Call -> CallRecord]
  BY <1>1, CallIsUnusedOrReceived DEF HandlerInv, HandlerTypeOK
<1>3. ASSUME NEW outcome, call' = [call EXCEPT ![m].phase = "answered", ![m].outcome = outcome]
      PROVE  call'[m].phase # "unused" /\ \A n \in Call : n # m => call'[n] = call[n]
  BY <1>2, <1>3 DEF ReceivedRecord
<1>4. CASE CreateQueryFails(m)
  BY <1>1, <1>3, <1>4 DEF CreateQueryFails, Refused
<1>5. CASE CreateSubscription(m)
  BY <1>1, <1>2, <1>3, <1>5 DEF CreateSubscription, Refused, ReceivedRecord
<1>6. CASE Fetch(m)
  BY <1>1, <1>2, <1>6 DEF Fetch, ReceivedRecord
<1>7. CASE \E outcome \in {"ok", "refused"} : Answer(m, outcome)
  BY <1>1, <1>3, <1>7 DEF Answer
<1> QED
  BY <1>4, <1>5, <1>6, <1>7 DEF CallStep

\* a step of a call, of a socket or of a request
LEMMA CallStepServes ==
  ASSUME HttpInd, NEW m \in Call, CallStep(m), UNCHANGED answer
  PROVE  AnsweredOnce' /\ BodyTells'
<1> SUFFICES ASSUME NEW r \in Request
             PROVE  /\ answer[r].phase \in {"unknown", "reading", "authenticating"} =>
                         served'[r] = "before" /\ call'[r].phase = "unused"
                    /\ answer[r].phase = "handling" => call'[r].phase # "unused"
                    /\ answer[r].phase = "ended" => call'[r].phase \in {"unused", "answered"}
                    /\ answer[r].body = "result" => Succeeded(r)'
                    /\ answer[r].body = "error" => ~Succeeded(r)'
  BY DEF HttpInd, AnsweredOnce, BodyTells, Phase
<1>1. r \in Call /\ HandlerInv /\ AnsweredOnce /\ BodyTells
  BY HttpTransportAssumption DEF HttpInd
<1>2. /\ Phase(m) \in {"creating", "opening"} /\ call'[m].phase # "unused"
      /\ UNCHANGED served /\ \A n \in Call : n # m => call'[n] = call[n]
  BY <1>1, CallStepEffect
<1>3. CASE r = m
  <2>1. answer[r].phase \notin {"unknown", "reading", "authenticating", "ended"}
    BY <1>1, <1>2, <1>3 DEF AnsweredOnce
  <2>2. answer[r].body \notin {"result", "error"}
    BY <1>1, <2>1 DEF BodyTells
  <2> QED
    BY <1>2, <1>3, <2>1, <2>2
<1>4. CASE r # m
  BY <1>1, <1>2, <1>4 DEF AnsweredOnce, BodyTells, Succeeded, Phase
<1> QED
  BY <1>3, <1>4

-----------------------------------------------------------------------------
(* The steps of the client *)

\* one request takes a step: what its new record must keep
LEMMA RequestStep ==
  ASSUME HttpInd, NEW r \in Request, NEW q \in RequestRecord,
         request' = [request EXCEPT ![r] = q], UNCHANGED <<handlerVars, state, signals, answer>>,
         q # Unsent,
         q.phase = "inflight" => q.signal = signals.current,
         q.sent \subseteq signals.aborted,
         q.result = "aborted" => q.sent # signals.aborted,
         q.phase # "foreign" /\ q.result = "value" => answer[r].body = "result",
         q.phase # "foreign" /\ q.result = "refused" => answer[r].body = "error"
  PROVE  HttpInd'
<1>1. /\ request \in [Request -> RequestRecord]
      /\ \A n \in Request : request'[n] = IF n = r THEN q ELSE request[n]
      /\ request' \in [Request -> RequestRecord]
  BY DEF HttpInd, ClientTypeOK
<1>2. HandlerInv' /\ AnswerTypeOK' /\ AnsweredOnce' /\ BodyTells'
  BY HandlerKept, ServerKept DEF HttpInd, handlerVars
<1>3. ClientTypeOK'
  BY <1>1 DEF HttpInd, ClientTypeOK
<1>4. ResultIsBody'
  BY <1>1 DEF HttpInd, ResultIsBody, Sent
<1>5. CurrentIsFresh'
  BY <1>1 DEF HttpInd, CurrentIsFresh, Sent, InFlight
<1> QED
  BY <1>2, <1>3, <1>4, <1>5 DEF HttpInd

\* a request that was made, and those a step may make of it
AskedRecord ==
    [phase : {"headers", "inflight", "settled", "foreign"}, shape : Shape, sent : SUBSET Controller,
     signal : {NoSignal} \cup Controller,
     result : {"none", "value", "refused", "unexpected", "aborted", "failed"}]

LEMMA RequestIsUnsentOrAsked ==
  ASSUME ClientTypeOK, NEW r \in Request
  PROVE  \/ request[r] = Unsent /\ request[r].phase = "unsent"
         \/ request[r] \in AskedRecord /\ request[r] # Unsent
            /\ request[r].phase \in {"headers", "inflight", "settled", "foreign"}
<1>1. request[r] \in {Unsent} \cup AskedRecord
  BY DEF ClientTypeOK, RequestRecord, AskedRecord
<1>2. Unsent.phase = "unsent"
  BY DEF Unsent
<1>3. \A q \in AskedRecord : q.phase \in {"headers", "inflight", "settled", "foreign"}
  BY DEF AskedRecord
<1> QED
  BY <1>1, <1>2, <1>3

LEMMA AskKeeps ==
  ASSUME HttpInd, NEW r \in Request, NEW shape \in Shape, NEW phase \in {"headers", "foreign"},
         request' = [request EXCEPT ![r] = Asked(phase, shape)],
         UNCHANGED <<handlerVars, state, signals, answer>>
  PROVE  HttpInd'
<1> DEFINE q == Asked(phase, shape)
<1>1. signals.aborted \subseteq Controller
  BY DEF HttpInd, ClientTypeOK
<1>2. q \in AskedRecord /\ q.phase = phase /\ q.sent = signals.aborted /\ q.result = "none"
  BY <1>1 DEF Asked, AskedRecord
<1>3. q # Unsent /\ q \in RequestRecord
  BY <1>2 DEF Unsent, AskedRecord, RequestRecord
<1>4. request' = [request EXCEPT ![r] = q]
  OBVIOUS
<1> HIDE DEF q
<1> QED
  BY <1>2, <1>3, <1>4, RequestStep

\* a request settles, as its answer or its signal says
LEMMA SettleKeeps ==
  ASSUME HttpInd, NEW r \in Request, request[r].phase \in {"headers", "inflight"},
         NEW result \in {"value", "refused", "unexpected", "failed"},
         request' = [request EXCEPT ![r] = Settled(r, result)],
         result = "value" => answer[r].body = "result",
         result = "refused" => answer[r].body = "error",
         UNCHANGED <<handlerVars, state, signals, answer>>
  PROVE  HttpInd'
<1> DEFINE q == Settled(r, result)
<1>1. request[r] \in AskedRecord /\ request[r] # Unsent /\ request[r].phase # "foreign"
  BY RequestIsUnsentOrAsked DEF HttpInd
<1>2. q \in AskedRecord /\ q.phase = "settled" /\ q.sent = request[r].sent /\ q.result = result
  BY <1>1 DEF Settled, AskedRecord
<1>3. q # Unsent /\ q \in RequestRecord
  BY <1>2 DEF Unsent, AskedRecord, RequestRecord
<1>4. q.sent \subseteq signals.aborted
  BY <1>1, <1>2 DEF HttpInd, CurrentIsFresh, Sent
<1>5. request' = [request EXCEPT ![r] = q]
  OBVIOUS
<1> HIDE DEF q
<1> QED
  BY <1>2, <1>3, <1>4, <1>5, RequestStep

LEMMA PostKeeps ==
  ASSUME HttpInd, NEW r \in Request, Post(r)
  PROVE  HttpInd'
<1> DEFINE q == [request[r] EXCEPT !.phase = "inflight", !.signal = signals.current]
<1>1. request[r] \in AskedRecord /\ request[r] # Unsent /\ request[r].phase = "headers"
  BY RequestIsUnsentOrAsked DEF HttpInd, Post
<1>2. /\ signals.current \in Controller /\ signals.current \notin signals.aborted
      /\ request \in [Request -> RequestRecord]
  <2>1. signals.current \in Controller /\ signals.current \in Nat
    BY HttpTransportAssumption DEF HttpInd, ClientTypeOK, Controller
  <2> QED
    BY <2>1 DEF HttpInd, CurrentIsFresh, ClientTypeOK
<1>3. /\ q \in AskedRecord /\ q.phase = "inflight" /\ q.signal = signals.current
      /\ q.sent = request[r].sent /\ q.result = request[r].result
  BY <1>1, <1>2 DEF AskedRecord
<1>4. q # Unsent /\ q \in RequestRecord
  BY <1>3 DEF Unsent, AskedRecord, RequestRecord
<1>5. request' = [request EXCEPT ![r] = q] /\ UNCHANGED <<handlerVars, state, signals, answer>>
  BY <1>1, <1>2 DEF Post
<1>6. /\ q.sent \subseteq signals.aborted
      /\ q.result = "aborted" => q.sent # signals.aborted
      /\ q.result = "value" => answer[r].body = "result"
      /\ q.result = "refused" => answer[r].body = "error"
  BY <1>1, <1>3 DEF HttpInd, CurrentIsFresh, ResultIsBody, Sent
<1> HIDE DEF q
<1> QED
  BY <1>3, <1>4, <1>5, <1>6, RequestStep

LEMMA ClientStepKeeps ==
  ASSUME HttpInd, NEW r \in Request, ClientStep(r) \/ Lost(r)
  PROVE  HttpInd'
<1>1. CASE HeadersFail(r)
  BY <1>1, SettleKeeps DEF HeadersFail, Settle
<1>2. CASE Post(r)
  BY <1>2, PostKeeps
<1>3. CASE Receive(r)
  <2>1. /\ request[r].phase = "inflight" /\ answer[r].phase = "ended"
        /\ request' = [request EXCEPT ![r] = Settled(r, Parsed(r))]
        /\ UNCHANGED <<handlerVars, state, signals, answer>>
    BY <1>3 DEF Receive, InFlight, Settle
  <2>2. answer[r].body \in {"none", "result", "error", "empty"}
    BY DEF HttpInd, AnswerTypeOK, AnswerRecord
  <2>3. answer[r].body # "none"
    BY <2>1 DEF HttpInd, BodyTells
  <2>4. /\ Parsed(r) \in {"value", "refused", "unexpected", "failed"}
        /\ Parsed(r) = "value" => answer[r].body = "result"
        /\ Parsed(r) = "refused" => answer[r].body = "error"
    BY <2>2, <2>3 DEF Parsed
  <2> QED
    BY <2>1, <2>4, SettleKeeps
<1>4. CASE Lost(r)
  BY <1>4, SettleKeeps DEF Lost, Settle, InFlight
<1> QED
  BY <1>1, <1>2, <1>3, <1>4 DEF ClientStep

LEMMA CloseClientKeeps ==
  ASSUME HttpInd, CloseClient
  PROVE  HttpInd'
<1>1. /\ signals.current \in Controller /\ signals.aborted \subseteq Controller
      /\ signals.current \in Nat /\ MaxCloses \in Nat
      /\ \A a \in signals.aborted : a \in Nat /\ a < signals.current
  BY HttpTransportAssumption DEF HttpInd, ClientTypeOK, Controller, CurrentIsFresh
<1>2. /\ signals.current <= MaxCloses /\ state' = "closed" /\ UNCHANGED <<handlerVars, answer>>
      /\ signals' = [current |-> signals.current + 1, aborted |-> signals.aborted \cup {signals.current}]
      /\ request' = [r \in Request |->
             IF InFlight(r) /\ request[r].signal = signals.current
             THEN Settled(r, "aborted") ELSE request[r]]
  BY DEF CloseClient, Renewed
<1>3. /\ signals'.current = signals.current + 1 /\ signals'.current \in Controller
      /\ signals'.aborted = signals.aborted \cup {signals.current}
      /\ signals'.aborted \subseteq Controller
      /\ \A a \in signals'.aborted : a < signals'.current
      /\ signals.current \notin signals.aborted
  BY <1>1, <1>2 DEF Controller
<1>4. signals' \in [current : Controller, aborted : SUBSET Controller]
  BY <1>2, <1>3
<1>5. ASSUME NEW r \in Request, InFlight(r)
      PROVE  /\ request'[r] \in AskedRecord /\ request'[r].phase = "settled"
             /\ request'[r].result = "aborted" /\ request'[r].sent = request[r].sent
             /\ request[r].phase = "inflight" /\ request[r] # Unsent
  <2>1. request[r].signal = signals.current /\ request[r] \in AskedRecord /\ request[r] # Unsent
    BY <1>5, RequestIsUnsentOrAsked DEF HttpInd, CurrentIsFresh, InFlight
  <2>2. request'[r] = Settled(r, "aborted")
    BY <1>2, <1>5, <2>1
  <2> QED
    BY <2>1, <2>2, <1>5 DEF Settled, AskedRecord, InFlight
<1>6. \A r \in Request : ~InFlight(r) => request'[r] = request[r]
  BY <1>2
<1>7. \A q \in AskedRecord : q \in RequestRecord /\ q # Unsent
  BY DEF AskedRecord, RequestRecord, Unsent
<1>8. ClientTypeOK'
  <2>1. \A r \in Request : request'[r] \in RequestRecord
    BY <1>5, <1>6, <1>7 DEF HttpInd, ClientTypeOK
  <2> QED
    BY <2>1, <1>2, <1>4 DEF ClientTypeOK
<1>9. CurrentIsFresh'
  <2> SUFFICES ASSUME NEW r \in Request
               PROVE  /\ request'[r].phase # "inflight"
                      /\ request'[r] # Unsent /\ request'[r].phase # "foreign" =>
                           /\ request'[r].sent \subseteq signals'.aborted
                           /\ request'[r].result = "aborted" => request'[r].sent # signals'.aborted
    BY <1>3 DEF CurrentIsFresh, InFlight, Sent
  <2>1. Sent(r) => request[r].sent \subseteq signals.aborted
    BY DEF HttpInd, CurrentIsFresh
  <2>2. CASE InFlight(r)
    BY <2>1, <2>2, <1>3, <1>5 DEF Sent
  <2>3. CASE ~InFlight(r)
    BY <2>1, <2>3, <1>3, <1>6 DEF Sent, InFlight
  <2> QED
    BY <2>2, <2>3
<1>10. ResultIsBody'
  <2> SUFFICES ASSUME NEW r \in Request
               PROVE  /\ answer[r].phase # "unknown" => request'[r] # Unsent
                      /\ request'[r] # Unsent /\ request'[r].phase # "foreign" =>
                           /\ request'[r].result = "value" => answer[r].body = "result"
                           /\ request'[r].result = "refused" => answer[r].body = "error"
    BY <1>2 DEF ResultIsBody, Sent
  <2>1. CASE InFlight(r)
    BY <2>1, <1>5, <1>7
  <2>2. CASE ~InFlight(r)
    BY <2>2, <1>6 DEF HttpInd, ResultIsBody, Sent
  <2> QED
    BY <2>1, <2>2
<1>11. HandlerInv' /\ AnswerTypeOK' /\ AnsweredOnce' /\ BodyTells'
  BY <1>2, HandlerKept, ServerKept DEF HttpInd, handlerVars
<1> QED
  BY <1>8, <1>9, <1>10, <1>11 DEF HttpInd

-----------------------------------------------------------------------------
(* The steps of the server *)

\* the answer of one request moves on, while its call does not
LEMMA AnswerStep ==
  ASSUME HttpInd, NEW r \in Request, NEW a \in AnswerRecord,
         answer' = [answer EXCEPT ![r] = a], UNCHANGED <<handlerVars, state, signals, request>>,
         answer[r].body = "none", request[r] # Unsent,
         a.phase \in {"reading", "authenticating"} => served[r] = "before" /\ Phase(r) = "unused",
         a.phase = "ended" => Phase(r) \in {"unused", "answered"},
         a.phase \in {"reading", "authenticating", "ended"},
         (a.phase = "ended") = (a.status # 0), (a.body # "none") = (a.phase = "ended"),
         a.body = "result" => Succeeded(r), a.body = "error" => ~Succeeded(r)
  PROVE  HttpInd'
<1>1. /\ \A n \in Request : answer'[n] = IF n = r THEN a ELSE answer[n]
      /\ answer' \in [Request -> AnswerRecord]
  BY DEF HttpInd, AnswerTypeOK
<1>2. HandlerInv' /\ ClientTypeOK' /\ CurrentIsFresh' /\ AnswerTypeOK'
  BY <1>1, HandlerKept, ClientKept DEF HttpInd, AnswerTypeOK
<1>3. AnsweredOnce' /\ BodyTells'
  BY <1>1 DEF HttpInd, AnsweredOnce, BodyTells, Succeeded, Phase, handlerVars
<1>4. ResultIsBody'
  BY <1>1 DEF HttpInd, ResultIsBody, Sent
<1> QED
  BY <1>2, <1>3, <1>4 DEF HttpInd

\* an answer ends by a status and a body of these
LEMMA EndKeeps ==
  ASSUME HttpInd, NEW r \in Request, NEW status \in {200, 400, 405, 413, 415, 500},
         NEW body \in {"result", "error", "empty"}, End(r, status, body),
         UNCHANGED <<handlerVars, state, signals, request>>,
         answer[r].phase # "ended", request[r] # Unsent, Phase(r) \in {"unused", "answered"},
         body = "result" => Succeeded(r), body = "error" => ~Succeeded(r)
  PROVE  HttpInd'
<1> DEFINE a == Answered("ended", status, body)
<1>1. a \in AnswerRecord /\ a.phase = "ended" /\ a.status = status /\ a.body = body /\ status # 0
  BY DEF Answered, AnswerRecord
<1>2. answer' = [answer EXCEPT ![r] = a] /\ answer[r].body = "none"
  BY DEF End, HttpInd, BodyTells
<1> HIDE DEF a
<1>3. /\ (a.phase = "ended") = (a.status # 0)
      /\ (a.body # "none") = (a.phase = "ended")
      /\ a.phase \notin {"reading", "authenticating"}
      /\ a.body = "result" => Succeeded(r)
      /\ a.body = "error" => ~Succeeded(r)
  BY <1>1
<1> QED
  BY <1>1, <1>2, <1>3, AnswerStep

\* a request waits to be read, or for its user
LEMMA MoveKeeps ==
  ASSUME HttpInd, NEW r \in Request, NEW phase \in {"reading", "authenticating"},
         answer' = [answer EXCEPT ![r] = Answered(phase, 0, "none")],
         UNCHANGED <<handlerVars, state, signals, request>>,
         answer[r].phase \in {"unknown", "reading"}, request[r] # Unsent
  PROVE  HttpInd'
<1> DEFINE a == Answered(phase, 0, "none")
<1>1. a \in AnswerRecord /\ a.phase = phase /\ a.status = 0 /\ a.body = "none"
  BY DEF Answered, AnswerRecord
<1>2. answer' = [answer EXCEPT ![r] = a] /\ answer[r].body = "none"
  BY DEF HttpInd, BodyTells
<1>3. served[r] = "before" /\ Phase(r) = "unused"
  BY DEF HttpInd, AnsweredOnce
<1> HIDE DEF a
<1> QED
  BY <1>1, <1>2, <1>3, AnswerStep

\* the handler of a request is made, and called
LEMMA AuthenticateKeeps ==
  ASSUME HttpInd, NEW r \in Request, Authenticate(r)
  PROVE  HttpInd'
<1> DEFINE c == Received(r, "fetch", CHOOSE id \in SubId : TRUE)
           a == Answered("handling", 0, "none")
<1>t. /\ r \in Call /\ r \in Connection /\ HandlerInv /\ answer[r].phase = "authenticating"
      /\ (CHOOSE id \in SubId : TRUE) \in SubId
      /\ call \in [Call -> CallRecord] /\ answer \in [Request -> AnswerRecord]
      /\ served \in [Connection -> {"before", "open", "closed"}]
      /\ opened \in [Connection -> [SubId -> Call \cup {NoCall}]]
      /\ served[r] = "before" /\ Phase(r) = "unused"
  BY HttpTransportAssumption DEF Authenticate, HttpInd, HandlerInv, HandlerTypeOK, AnswerTypeOK, AnsweredOnce
<1>1. /\ c \in ReceivedRecord /\ AnsweredIffOutcome(c) /\ c.phase = "creating" /\ c.conn = r
      /\ c.sub = "none" /\ c.kind = "fetch" /\ c.outcome = "none"
  BY <1>t DEF Received, ReceivedRecord, AnsweredIffOutcome, CallKinds
<1>2. a \in AnswerRecord /\ a.phase = "handling" /\ a.status = 0 /\ a.body = "none"
  BY DEF Answered, AnswerRecord
<1>3. /\ answer' = [answer EXCEPT ![r] = a] /\ call' = [call EXCEPT ![r] = c]
      /\ served' = [served EXCEPT ![r] = "open"]
      /\ UNCHANGED <<opened, state, signals, request>>
  BY DEF Authenticate
<1> HIDE DEF c, a
<1>4. /\ \A m \in Call : call'[m] = IF m = r THEN c ELSE call[m]
      /\ \A d \in Connection : served'[d] = IF d = r THEN "open" ELSE served[d]
      /\ \A n \in Request : answer'[n] = IF n = r THEN a ELSE answer[n]
      /\ answer' \in [Request -> AnswerRecord]
      /\ served' \in [Connection -> {"before", "open", "closed"}]
  BY <1>t, <1>2, <1>3
<1>5. HandlerTypeOK'
  BY <1>t, <1>1, <1>3, <1>4, CallsType DEF HandlerInv
<1>6. \A d \in Connection, id \in SubId : opened[d][id] # r
  BY <1>t, MessageHandlerAssumption DEF HandlerInv, OpenedAreCalls
<1>7. OpenedAreCalls'
  BY <1>t, <1>3, <1>4, <1>6 DEF HandlerInv, OpenedAreCalls, Phase
<1>8. RunningIsFound' /\ CreatingHasNone' /\ ActiveIsSubscribe'
  BY <1>t, <1>1, <1>3, <1>4 DEF HandlerInv, RunningIsFound, CreatingHasNone, ActiveIsSubscribe, Active, Phase
<1>9. NoneBefore' /\ ClosedIsLate'
  <2>1. \A m \in Call : Phase(m) # "unused" => call[m].conn \in Connection
    BY <1>t, CallIsUnusedOrReceived DEF HandlerInv, ReceivedRecord
  <2> QED
    BY <1>t, <1>1, <1>4, <2>1 DEF HandlerInv, NoneBefore, ClosedIsLate, Phase
<1>10. HandlerInv'
  BY <1>5, <1>7, <1>8, <1>9 DEF HandlerInv
<1>11. AnsweredOnce' /\ BodyTells' /\ AnswerTypeOK'
  <2>1. \A n \in Request : n \in Call /\ n \in Connection
    BY HttpTransportAssumption
  <2>2. AnswerTypeOK'
    BY <1>4 DEF AnswerTypeOK
  <2>3. AnsweredOnce'
    BY <1>1, <1>2, <1>4, <2>1 DEF HttpInd, AnsweredOnce, Phase
  <2>4. BodyTells'
    BY <1>1, <1>2, <1>4, <2>1 DEF HttpInd, BodyTells, Succeeded, Phase
  <2> QED
    BY <2>2, <2>3, <2>4
<1>12. ResultIsBody'
  <2>1. answer[r].body = "none" /\ answer[r].phase # "unknown"
    BY <1>t DEF HttpInd, BodyTells
  <2>2. ResultIsBody /\ \A n \in Request : answer'[n] = IF n = r THEN a ELSE answer[n]
    BY <1>4 DEF HttpInd
  <2>3. request' = request
    BY <1>3
  <2> SUFFICES ASSUME NEW n \in Request
               PROVE  /\ answer'[n].phase # "unknown" => request[n] # Unsent
                      /\ request[n] # Unsent /\ request[n].phase # "foreign" =>
                           /\ request[n].result = "value" => answer'[n].body = "result"
                           /\ request[n].result = "refused" => answer'[n].body = "error"
    BY <2>3 DEF ResultIsBody, Sent
  <2>4. CASE n = r
    BY <2>1, <2>2, <2>4 DEF ResultIsBody, Sent
  <2>5. CASE n # r
    BY <2>2, <2>5 DEF ResultIsBody, Sent
  <2> QED
    BY <2>4, <2>5
<1>13. ClientTypeOK' /\ CurrentIsFresh'
  BY <1>3, ClientKept DEF HttpInd
<1> QED
  BY <1>10, <1>11, <1>12, <1>13 DEF HttpInd

LEMMA ServerStepKeeps ==
  ASSUME HttpInd, NEW r \in Request, ServerStep(r)
  PROVE  HttpInd'
<1>1. \A shape \in {"method", "media", "large", "chunks", "invalid", "consumed"} :
          Failure(shape) \in {200, 400, 405, 413, 415, 500}
  BY DEF Failure
<1>2. answer[r].phase \in {"unknown", "reading"} => Phase(r) = "unused" /\ ~Succeeded(r)
  BY DEF HttpInd, AnsweredOnce, Succeeded
<1>3. request[r] # Unsent
  BY DEF HttpInd, ResultIsBody, ServerStep, Arrive, Arrives, ReadBody, BodyFails, Authenticate, Respond
<1>s. request[r].shape \in Shape
  BY <1>3, RequestIsUnsentOrAsked DEF HttpInd, AskedRecord
<1>4. CASE Arrive(r)
  <2>1. answer[r].phase = "unknown" /\ UNCHANGED <<handlerVars, state, signals, request>>
    BY <1>4 DEF Arrive, Arrives, Unknown, Answered
  <2>2. CASE request[r].shape \in {"method", "media"}
    BY <1>3, <1>1, <1>2, <1>4, <2>1, <2>2, EndKeeps DEF Arrive
  <2>3. CASE request[r].shape \notin {"method", "media"}
    BY <1>3, <1>4, <2>1, <2>3, MoveKeeps DEF Arrive
  <2> QED
    BY <2>2, <2>3
<1>5. CASE ReadBody(r)
  <2>1. /\ answer[r].phase = "reading" /\ UNCHANGED <<handlerVars, state, signals, request>>
    BY <1>5 DEF ReadBody
  <2>2. CASE request[r].shape = "valid"
    BY <1>3, <1>5, <2>1, <2>2, MoveKeeps DEF ReadBody
  <2>3. CASE request[r].shape # "valid"
    <3>1. request[r].shape \in {"method", "media", "large", "chunks", "invalid", "consumed"}
      BY <1>s, <2>3 DEF Shape, Sendable
    <3> QED
      BY <1>3, <1>1, <1>2, <1>5, <2>1, <2>3, <3>1, EndKeeps DEF ReadBody
  <2> QED
    BY <2>2, <2>3
<1>6. CASE BodyFails(r)
  BY <1>3, <1>2, <1>6, EndKeeps DEF BodyFails
<1>7. CASE Authenticate(r)
  BY <1>7, AuthenticateKeeps
<1>8. CASE Respond(r)
  <2>1. answer[r].phase = "handling" /\ Phase(r) = "answered" /\ UNCHANGED <<handlerVars, state, signals, request>>
    BY <1>8 DEF Respond
  <2>2. ASSUME call[r].outcome = "ok", NEW body \in {"result", "empty"}, End(r, 200, body)
        PROVE  HttpInd'
    BY <1>3, <2>1, <2>2, EndKeeps DEF Succeeded
  <2>3. ASSUME call[r].outcome = "refused", NEW status \in {400, 500}, End(r, status, "error")
        PROVE  HttpInd'
    BY <1>3, <2>1, <2>3, EndKeeps DEF Succeeded
  <2> QED
    BY <1>8, <2>2, <2>3 DEF Respond
<1> QED
  BY <1>4, <1>5, <1>6, <1>7, <1>8 DEF ServerStep

-----------------------------------------------------------------------------
(***************************************************************************)
(* The invariant of both servers and the http client, of which the         *)
(* theorems below are parts.                                               *)
(***************************************************************************)
THEOREM HttpInvariant == HttpSpec => []HttpInd
<1>1. HttpInit => HttpInd
  <2> SUFFICES ASSUME HttpInit PROVE HttpInd
    OBVIOUS
  <2>1. \A m \in Call : call[m] = Unused /\ call[m].phase = "unused"
    BY DEF HttpInit, HandlerInit, Unused
  <2>2. HandlerInv
    BY InitHandlerInv DEF HttpInit
  <2>3. Unknown \in AnswerRecord /\ Unknown.phase = "unknown" /\ Unknown.status = 0 /\ Unknown.body = "none"
    BY DEF Unknown, Answered, AnswerRecord
  <2>4. \A r \in Request : request[r] = Unsent /\ answer[r] = Unknown /\ served[r] = "before" /\ Phase(r) = "unused"
    BY <2>1, HttpTransportAssumption DEF HttpInit, HandlerInit, Phase
  <2>5. ClientTypeOK
    BY HttpTransportAssumption DEF HttpInit, ClientTypeOK, Controller, RequestRecord
  <2>6. AnswerTypeOK
    BY <2>3 DEF HttpInit, AnswerTypeOK
  <2>7. AnsweredOnce /\ BodyTells
    BY <2>3, <2>4 DEF AnsweredOnce, BodyTells
  <2>8. ResultIsBody
    BY <2>3, <2>4 DEF ResultIsBody, Sent
  <2>9. CurrentIsFresh
    BY <2>4 DEF HttpInit, CurrentIsFresh, Sent, InFlight, Unsent
  <2> QED
    BY <2>2, <2>5, <2>6, <2>7, <2>8, <2>9 DEF HttpInd
<1>2. HttpInd /\ [HttpNext]_allVars => HttpInd'
  <2> SUFFICES ASSUME HttpInd, [HttpNext]_allVars PROVE HttpInd'
    OBVIOUS
  <2>1. CASE SocketStep /\ UNCHANGED <<state, signals, request, answer>>
    <3>1. HandlerInv' /\ AnswerTypeOK' /\ AnsweredOnce' /\ BodyTells'
      BY <2>1, SocketStepKeeps, SocketKeepsRequests, ServerKept DEF HttpInd
    <3> QED
      BY <2>1, <3>1, ClientKept, ResultKept DEF HttpInd
  <2>2. ASSUME NEW m \in Call, CallStep(m), UNCHANGED <<state, signals, request, answer>>
        PROVE  HttpInd'
    <3>1. HandlerInv' /\ AnsweredOnce' /\ BodyTells' /\ AnswerTypeOK'
      BY <2>2, CallStepKeeps, CallStepServes DEF HttpInd, AnswerTypeOK
    <3> QED
      BY <2>2, <3>1, ClientKept, ResultKept DEF HttpInd
  <2>3. CASE Connect
    <3>1. HandlerInv' /\ AnswerTypeOK' /\ AnsweredOnce' /\ BodyTells' /\ ResultIsBody'
      BY <2>3, HandlerKept, ServerKept, ResultKept DEF Connect, HttpInd, handlerVars
    <3>2. ClientTypeOK' /\ CurrentIsFresh'
      BY <2>3 DEF Connect, HttpInd, ClientTypeOK, CurrentIsFresh, InFlight, Sent
    <3> QED
      BY <3>1, <3>2 DEF HttpInd
  <2>4. CASE CloseClient
    BY <2>4, CloseClientKeeps
  <2>5. ASSUME NEW r \in Request, ClientStep(r) \/ Lost(r) PROVE HttpInd'
    BY <2>5, ClientStepKeeps
  <2>6. ASSUME NEW r \in Request, ServerStep(r) PROVE HttpInd'
    BY <2>6, ServerStepKeeps
  <2>7. ASSUME NEW r \in Request, NEW shape \in Shape, Send(r, shape) \/ SendForeign(r, shape)
        PROVE  HttpInd'
    BY <2>7, AskKeeps DEF Send, SendForeign
  <2>8. CASE UNCHANGED allVars
    <3>1. UNCHANGED <<handlerVars, state, signals, request, answer>>
      BY <2>8 DEF allVars
    <3>2. UNCHANGED <<served, opened, call>>
      BY <3>1 DEF handlerVars
    <3> QED
      BY <3>1, <3>2, HandlerKept, ServerKept, ClientKept, ResultKept DEF HttpInd
  <2>9. Sendable \subseteq Shape
    BY DEF Shape
  <2> QED
    BY <2>1, <2>2, <2>3, <2>4, <2>5, <2>6, <2>7, <2>8, <2>9 DEF HttpNext
<1> QED
  BY <1>1, <1>2, PTL DEF HttpSpec

(***************************************************************************)
(* Types are kept, close aborts every fetch under way, and none that is    *)
(* sent afterwards.                                                        *)
(***************************************************************************)
THEOREM CloseAbortsWhatItMust == HttpSpec => []HttpInv
<1>1. HttpInd => HttpInv
  <2> SUFFICES ASSUME HttpInd PROVE HttpInv
    OBVIOUS
  <2>1. \A r \in Request : InFlight(r) => request[r].signal # NoSignal
    BY HttpTransportAssumption DEF HttpInd, ClientTypeOK, CurrentIsFresh, Controller, NoSignal
  <2>2. HttpTypeOK
    BY <2>1 DEF HttpInd, HandlerInv, ClientTypeOK, AnswerTypeOK, BodyTells, HttpTypeOK, InFlight
  <2>3. \A a \in signals.aborted : a # signals.current
    BY HttpTransportAssumption DEF HttpInd, ClientTypeOK, CurrentIsFresh, Controller
  <2>4. CloseAbortsFetches
    BY <2>3 DEF HttpInd, CurrentIsFresh, CloseAbortsFetches
  <2> QED
    BY <2>2, <2>4 DEF HttpInv
<1> QED
  BY <1>1, HttpInvariant, PTL

(***************************************************************************)
(* A send that is told a value or an error of the server is told what      *)
(* became of its call.                                                     *)
(***************************************************************************)
THEOREM ToldIsWhatHappened == HttpSpec => []ToldWhatHappened
<1>1. HttpInd => ToldWhatHappened
  BY DEF HttpInd, ResultIsBody, BodyTells, Succeeded, ToldWhatHappened
<1> QED
  BY <1>1, HttpInvariant, PTL

(***************************************************************************)
(* Beside http too, a running subscription is found under its id, and what *)
(* a closed connection still runs was awaiting its query.                  *)
(***************************************************************************)
THEOREM SocketsBesideHttp == HttpSpec => [](RunningIsFound /\ ClosedStopsOpened)
<1>1. HttpInd => RunningIsFound /\ ClosedStopsOpened
  BY DEF HttpInd, HandlerInv, ClosedIsLate, ActiveIsSubscribe, ClosedStopsOpened, Active
<1> QED
  BY <1>1, HttpInvariant, PTL
=============================================================================
