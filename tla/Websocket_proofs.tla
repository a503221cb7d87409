---------------------------- MODULE Websocket_proofs ----------------------------
(***************************************************************************)
(* Proofs about websockets: the client of one socket after another, then   *)
(* the transport that runs over its connections.                           *)
(*                                                                         *)
(* A socket that close leaves behind keeps its listeners, so an            *)
(* application that connects again before that socket is gone may find its *)
(* new connection taken for the lost one.  What the client keeps, it keeps *)
(* for a patient application; one that connects once is patient.           *)
(*                                                                         *)
(* Of the transport, for any number of connections and subscriptions and   *)
(* any operations: what a connected client still holds runs on the server  *)
(* or is on its way there, what runs is held or is about to be closed, and *)
(* a promise is pending while its answer may come.  The server side keeps  *)
(* the invariant of MessageHandler_proofs.                                 *)
(***************************************************************************)
EXTENDS WebsocketClient, WebsocketTransport, MessageHandler_proofs, FiniteSetTheorems,
    SequenceTheorems


\* every socket that was used has had its close event
AllGone == \A s \in Socket : sockets[s].phase \in {"unused", "gone"}
\* the application connects again only once they have
Patient == current = "closed" /\ current' = "connecting" => AllGone
PatientSpec == Init /\ [][Next /\ Patient]_vars

Alive(s) == sockets[s].phase \in {"opening", "open"}

\* a socket that may open or is open is the one in use, and has not failed
AliveIsInUse ==
    \A s \in Socket : Alive(s) =>
        /\ s = ws /\ ~sockets[s].failureHandled
        /\ sockets[s].isAcked => sockets[s].phase = "open"
        /\ current = IF sockets[s].isAcked THEN "connected" ELSE "connecting"

\* what still ends was reported already, or is left by a closed client
EndingIsHandled ==
    \A s \in Socket :
        /\ sockets[s].phase = "failing" => sockets[s].failureHandled
        /\ sockets[s].phase = "closing" => sockets[s].failureHandled \/ current = "closed"
        /\ sockets[s].phase = "unused" => sockets[s] = UnusedSocket

\* an open socket has forgotten the attempts that led to it
OpenForgetsAttempts == \A s \in Socket : sockets[s].phase = "open" => attempts = 0

\* the state says what there is of a socket and of a timeout
StateTells ==
    /\ (current = "closed") = (ws = NoSocket)
    /\ timer => current = "reconnect-scheduled"
    /\ current = "connected" => ws # NoSocket /\ InUse(ws) /\ sockets[ws].isAcked

ClientInd == TypeOK /\ AliveIsInUse /\ EndingIsHandled /\ OpenForgetsAttempts /\ StateTells

SocketRecord == [phase : Phases, isAcked : BOOLEAN, isRefused : BOOLEAN, failureHandled : BOOLEAN]

-----------------------------------------------------------------------------
(* What the steps do to a socket *)

\* the socket s becomes r, and no other changes
LEMMA OneSocket ==
  ASSUME TypeOK, NEW s \in Socket, NEW r \in SocketRecord
  PROVE  /\ [sockets EXCEPT ![s] = r] \in [Socket -> SocketRecord]
         /\ \A t \in Socket : [sockets EXCEPT ![s] = r][t] = IF t = s THEN r ELSE sockets[t]
  BY DEF TypeOK, SocketRecord

\* a socket whose failure is handled ends, or will
Ending(s, phase) == [sockets EXCEPT ![s].phase = phase, ![s].failureHandled = TRUE]
LEMMA Handled ==
  ASSUME TypeOK, NEW s \in Socket, NEW phase \in {"failing", "gone"}
  PROVE  /\ Ending(s, phase) \in [Socket -> SocketRecord]
         /\ Ending(s, phase)[s].phase = phase /\ Ending(s, phase)[s].failureHandled
         /\ \A t \in Socket : t # s => Ending(s, phase)[t] = sockets[t]
<1>1. Ending(s, phase) \in [Socket -> SocketRecord]
  <2> DEFINE r == [sockets[s] EXCEPT !.phase = phase, !.failureHandled = TRUE]
  <2>1. sockets \in [Socket -> SocketRecord]
    BY DEF TypeOK, SocketRecord
  <2>2. sockets[s] \in SocketRecord
    BY <2>1
  <2>3. r \in SocketRecord
    BY <2>2 DEF SocketRecord, Phases
  <2>4. Ending(s, phase) = [sockets EXCEPT ![s] = r]
    BY <2>1 DEF Ending
  <2> HIDE DEF r
  <2> QED
    BY <2>1, <2>3, <2>4
<1>2. Ending(s, phase)[s].phase = phase /\ Ending(s, phase)[s].failureHandled
  BY DEF Ending, TypeOK
<1>3. \A t \in Socket : t # s => Ending(s, phase)[t] = sockets[t]
  BY DEF Ending, TypeOK
<1> QED
  BY <1>1, <1>2, <1>3

\* what closeWebsocket leaves of the sockets
LEMMA ClosedSockets ==
  ASSUME NEW after \in [Socket -> SocketRecord]
  PROVE  /\ [after EXCEPT ![ws] = Closing(@)] \in [Socket -> SocketRecord]
         /\ \A t \in Socket : [after EXCEPT ![ws] = Closing(@)][t]
                = IF t = ws THEN Closing(after[t]) ELSE after[t]
         /\ \A t \in Socket :
                /\ Closing(after[t]).phase =
                     IF after[t].phase \in {"opening", "open"} THEN "closing" ELSE after[t].phase
                /\ Closing(after[t]).failureHandled = after[t].failureHandled
                /\ Closing(after[t]).phase = "unused" => Closing(after[t]) = after[t]
<1>1. \A t \in Socket :
         /\ Closing(after[t]) \in SocketRecord
         /\ Closing(after[t]).phase =
              IF after[t].phase \in {"opening", "open"} THEN "closing" ELSE after[t].phase
         /\ Closing(after[t]).failureHandled = after[t].failureHandled
         /\ Closing(after[t]).phase = "unused" => Closing(after[t]) = after[t]
  BY DEF Closing, SocketRecord, Phases
<1> QED
  BY <1>1

-----------------------------------------------------------------------------
(* The parts of the steps *)

\* connect, when nothing is alive
LEMMA ConnectKeeps ==
  ASSUME ClientInd, NEW s \in Socket, Connect(s), \A t \in Socket : ~Alive(t),
         \A t \in Socket : sockets[t].phase = "closing" => sockets[t].failureHandled,
         timer' = FALSE, UNCHANGED <<attempts, page, reported>>,
         budget' \in [connects : Nat, failures : Nat]
  PROVE  ClientInd'
<1> DEFINE r == [sockets[s] EXCEPT !.phase = "opening"]
<1>1. r \in SocketRecord /\ r.phase = "opening" /\ ~r.isAcked /\ ~r.failureHandled
  <2>1. sockets[s] = UnusedSocket
    BY DEF ClientInd, EndingIsHandled, Connect
  <2>2. ~sockets[s].isAcked /\ ~sockets[s].failureHandled
    BY <2>1 DEF UnusedSocket
  <2>3. sockets[s] \in SocketRecord
    BY DEF ClientInd, TypeOK, SocketRecord
  <2> QED
    BY <2>2, <2>3 DEF SocketRecord, Phases
<1>2. sockets' = [sockets EXCEPT ![s] = r] /\ ws' = s /\ current' = "connecting"
  BY DEF Connect, ClientInd, TypeOK
<1> HIDE DEF r
<1>3. /\ sockets' \in [Socket -> SocketRecord]
      /\ \A t \in Socket : sockets'[t] = IF t = s THEN r ELSE sockets[t]
  BY <1>1, <1>2, OneSocket DEF ClientInd
<1>4. TypeOK'
  BY <1>2, <1>3 DEF ClientInd, TypeOK, SocketRecord, ConnectionStates
<1>5. AliveIsInUse'
  BY <1>1, <1>2, <1>3 DEF AliveIsInUse, Alive
<1>6. EndingIsHandled' /\ OpenForgetsAttempts'
  BY <1>1, <1>3 DEF ClientInd, EndingIsHandled, OpenForgetsAttempts, Alive
<1>7. StateTells'
  BY <1>2, WebsocketClientAssumption DEF StateTells
<1> QED
  BY <1>4, <1>5, <1>6, <1>7 DEF ClientInd

\* closeWebsocket, after a failure or by the application
LEMMA ClientCloseKeeps ==
  ASSUME ClientInd, NEW after \in [Socket -> SocketRecord], CloseWebsocket(after),
         \A t \in Socket : t # ws => after[t] = sockets[t],
         \A t \in Socket : after[t].phase = "failing" => after[t].failureHandled,
         \A t \in Socket : after[t].phase = "unused" => after[t] = UnusedSocket,
         UNCHANGED attempts, page' \in [isHidden : BOOLEAN, isListened : BOOLEAN],
         reported' \in [socket : Socket \cup {NoSocket}, willReconnect : BOOLEAN],
         budget' \in [connects : Nat, failures : Nat]
  PROVE  ClientInd'
<1>1. /\ sockets' \in [Socket -> SocketRecord]
      /\ \A t \in Socket : sockets'[t] = IF t = ws THEN Closing(after[t]) ELSE after[t]
      /\ ws' = NoSocket /\ current' = "closed" /\ timer' = FALSE
  BY ClosedSockets DEF CloseWebsocket
<1>2. TypeOK'
  BY <1>1 DEF ClientInd, TypeOK, SocketRecord, ConnectionStates
<1>3. \A t \in Socket : ~Alive(t)'
  <2>1. \A t \in Socket : Closing(after[t]).phase \notin {"opening", "open"}
    BY ClosedSockets
  <2>2. \A t \in Socket : t # ws => sockets[t].phase \notin {"opening", "open"}
    BY DEF ClientInd, AliveIsInUse, Alive
  <2> QED
    BY <1>1, <2>1, <2>2 DEF Alive
<1>4. AliveIsInUse' /\ OpenForgetsAttempts'
  BY <1>3 DEF AliveIsInUse, OpenForgetsAttempts, Alive
<1>5. EndingIsHandled'
  BY <1>1, ClosedSockets DEF EndingIsHandled
<1>6. StateTells'
  BY <1>1 DEF StateTells
<1> QED
  BY <1>2, <1>4, <1>5, <1>6 DEF ClientInd

\* the first failure of the socket in use
LEMMA FailureKeeps ==
  ASSUME ClientInd, NEW s \in Socket, Alive(s), NEW phase \in {"failing", "gone"},
         HandleConnectionFailure(s, phase), UNCHANGED page,
         budget' \in [connects : Nat, failures : Nat]
  PROVE  ClientInd'
<1>1. /\ TypeOK /\ s = ws /\ FirstFailure(s) /\ ~timer
      /\ current \in {"connecting", "connected"}
      /\ current = "connected" => attempts = 0
  BY DEF ClientInd, AliveIsInUse, FirstFailure, StateTells, OpenForgetsAttempts
<1> DEFINE after == Ending(s, phase)
<1>2. /\ after \in [Socket -> SocketRecord]
      /\ after[s].phase = phase /\ after[s].failureHandled
      /\ \A t \in Socket : t # s => after[t] = sockets[t]
  BY <1>1, Handled
<1> DEFINE willReconnect == Reconnection /\ ~sockets[s].isRefused
<1>3. /\ reported' = [socket |-> s, willReconnect |-> willReconnect]
      /\ \/ ~willReconnect /\ CloseWebsocket(after) /\ UNCHANGED attempts
         \/ /\ sockets' = after /\ UNCHANGED ws
            /\ \/ current' = "wait-for-visibility" /\ UNCHANGED <<timer, attempts>>
               \/ TryReconnect(attempts)
  BY <1>1 DEF HandleConnectionFailure, Ending
<1>4. reported' \in [socket : Socket \cup {NoSocket}, willReconnect : BOOLEAN]
  BY <1>1, <1>3, WebsocketClientAssumption DEF TypeOK
<1> HIDE DEF willReconnect, after
<1>5. /\ \A t \in Socket : after[t].phase = "failing" => after[t].failureHandled
      /\ \A t \in Socket : after[t].phase = "unused" => after[t] = UnusedSocket
      /\ \A t \in Socket : after[t].phase # "open" /\ after[t].phase # "opening"
      /\ \A t \in Socket : after[t].phase = "closing" => after[t].failureHandled
  BY <1>1, <1>2 DEF ClientInd, EndingIsHandled, AliveIsInUse, Alive
<1>6. CASE CloseWebsocket(after) /\ UNCHANGED attempts
  <2>1. page' \in [isHidden : BOOLEAN, isListened : BOOLEAN]
    BY <1>1 DEF TypeOK
  <2> QED
    BY <1>1, <1>2, <1>4, <1>5, <1>6, <2>1, ClientCloseKeeps
<1>7. ASSUME sockets' = after, UNCHANGED ws, timer' \in BOOLEAN, attempts' \in 0..ReconnectionAttempts,
             current' \in {"connecting", "reconnect-scheduled", "wait-for-visibility"},
             timer' => current' = "reconnect-scheduled"
      PROVE  ClientInd'
  <2>1. TypeOK'
    BY <1>1, <1>2, <1>4, <1>7 DEF TypeOK, SocketRecord, ConnectionStates
  <2>2. AliveIsInUse' /\ OpenForgetsAttempts' /\ EndingIsHandled'
    BY <1>5, <1>7 DEF AliveIsInUse, OpenForgetsAttempts, EndingIsHandled, Alive
  <2>3. StateTells'
    BY <1>1, <1>7, WebsocketClientAssumption DEF StateTells
  <2> QED
    BY <2>1, <2>2, <2>3 DEF ClientInd
<1>8. CASE sockets' = after /\ UNCHANGED ws /\ current' = "wait-for-visibility" /\ UNCHANGED <<timer, attempts>>
  BY <1>1, <1>7, <1>8 DEF TypeOK
<1>9. CASE sockets' = after /\ UNCHANGED ws /\ TryReconnect(attempts)
  <2>1. attempts \in 0..ReconnectionAttempts /\ ReconnectionAttempts \in Nat
    BY <1>1, WebsocketClientAssumption DEF TypeOK
  <2>2. CASE attempts' = attempts /\ UNCHANGED <<current, timer>> /\ IsLimited /\ attempts >= ReconnectionAttempts
    <3>1. current = "connecting" /\ timer' = timer /\ timer = FALSE
      BY <1>1, <2>1, <2>2 DEF IsLimited, TypeOK
    <3> QED
      BY <1>7, <1>9, <2>1, <2>2, <3>1
  <2>3. CASE /\ attempts' = IF IsLimited THEN attempts + 1 ELSE attempts
             /\ IsLimited => attempts < ReconnectionAttempts
             /\ current' = "reconnect-scheduled" /\ timer' = TRUE
    <3>1. attempts' \in 0..ReconnectionAttempts
      BY <2>1, <2>3
    <3> QED
      BY <1>7, <1>9, <2>3, <3>1
  <2> QED
    BY <1>1, <1>9, <2>2, <2>3 DEF TryReconnect
<1> QED
  BY <1>3, <1>6, <1>8, <1>9

\* the end of a socket that failed before, or that close left
LEMMA SocketEndKeeps ==
  ASSUME ClientInd, NEW s \in Socket, sockets[s].phase \in {"failing", "closing"},
         HandleConnectionFailure(s, "gone"), UNCHANGED <<page, budget>>
  PROVE  ClientInd' /\ UNCHANGED <<current, reported>>
<1> DEFINE after == Ending(s, "gone")
<1>1. /\ after \in [Socket -> SocketRecord]
      /\ after[s].phase = "gone" /\ after[s].failureHandled
      /\ \A t \in Socket : t # s => after[t] = sockets[t]
  BY Handled DEF ClientInd
<1>2. sockets' = after /\ UNCHANGED <<ws, current, timer, attempts, reported>>
  BY DEF HandleConnectionFailure, FirstFailure, ClientInd, EndingIsHandled, Ending
<1> HIDE DEF after
<1>3. TypeOK'
  BY <1>1, <1>2 DEF ClientInd, TypeOK, SocketRecord
<1>4. AliveIsInUse' /\ EndingIsHandled' /\ OpenForgetsAttempts'
  BY <1>1, <1>2 DEF ClientInd, AliveIsInUse, EndingIsHandled, OpenForgetsAttempts, Alive
<1>5. StateTells'
  BY <1>1, <1>2 DEF ClientInd, StateTells, TypeOK, InUse
<1> QED
  BY <1>2, <1>3, <1>4, <1>5 DEF ClientInd

-----------------------------------------------------------------------------
(* The steps *)

\* each step of a patient application, of a socket or of the timeout
LEMMA StepKeeps ==
  ASSUME ClientInd, Next, Patient
  PROVE  ClientInd'
<1> USE WebsocketClientAssumption
<1>1. CASE AppConnect
  <2>1. PICK s \in Socket : Connect(s)
    BY <1>1 DEF AppConnect
  <2>2. AllGone
    BY <1>1, <2>1 DEF Patient, AppConnect, Connect
  <2>3. timer' = FALSE
    BY <1>1 DEF AppConnect, ClientInd, StateTells, TypeOK
  <2>4. budget' \in [connects : Nat, failures : Nat]
    BY <1>1 DEF AppConnect, ClientInd, TypeOK
  <2> QED
    BY <1>1, <2>1, <2>2, <2>3, <2>4, ConnectKeeps DEF AppConnect, AllGone, Alive
<1>2. CASE AppClose
  <2>1. /\ sockets \in [Socket -> SocketRecord]
        /\ page' \in [isHidden : BOOLEAN, isListened : BOOLEAN]
        /\ reported' \in [socket : Socket \cup {NoSocket}, willReconnect : BOOLEAN]
        /\ budget' \in [connects : Nat, failures : Nat]
    BY <1>2 DEF AppClose, ClientInd, TypeOK, SocketRecord
  <2> QED
    BY <1>2, <2>1, ClientCloseKeeps DEF AppClose, ClientInd, EndingIsHandled
<1>3. CASE Hide \/ Show
  <2>1. /\ UNCHANGED <<ws, sockets, reported, budget>>
        /\ page' \in [isHidden : BOOLEAN, isListened : BOOLEAN]
        /\ \/ UNCHANGED <<current, timer, attempts>>
           \/ /\ current \in {"reconnect-scheduled", "wait-for-visibility"}
              /\ current' \in {"reconnect-scheduled", "wait-for-visibility"}
              /\ timer' \in BOOLEAN /\ (timer' => current' = "reconnect-scheduled")
              /\ attempts' \in 0..ReconnectionAttempts
    <3>1. CASE Hide
      BY <3>1 DEF Hide, ClientInd, TypeOK
    <3>2. CASE Show
      <4>1. page' \in [isHidden : BOOLEAN, isListened : BOOLEAN] /\ UNCHANGED <<ws, sockets, reported, budget>>
        BY <3>2 DEF Show, ClientInd, TypeOK
      <4>2. CASE current = "wait-for-visibility" /\ TryReconnect(0)
        <5>1. ReconnectionAttempts \in Nat /\ ~(IsLimited /\ 0 >= ReconnectionAttempts)
          BY DEF IsLimited
        <5>2. attempts' \in 0..ReconnectionAttempts /\ timer' = TRUE /\ current' = "reconnect-scheduled"
          BY <4>2, <5>1 DEF TryReconnect, IsLimited
        <5> QED
          BY <4>1, <4>2, <5>2
      <4> QED
        BY <3>2, <4>1, <4>2 DEF Show
    <3> QED
      BY <1>3, <3>1, <3>2
  <2>2. CASE UNCHANGED <<current, timer, attempts>>
    <3>1. TypeOK' /\ StateTells'
      BY <2>1, <2>2 DEF ClientInd, TypeOK, StateTells, InUse
    <3>2. AliveIsInUse' /\ EndingIsHandled' /\ OpenForgetsAttempts'
      BY <2>1, <2>2 DEF ClientInd, AliveIsInUse, EndingIsHandled, OpenForgetsAttempts, Alive
    <3> QED
      BY <3>1, <3>2 DEF ClientInd
  <2>3. CASE /\ current \in {"reconnect-scheduled", "wait-for-visibility"}
             /\ current' \in {"reconnect-scheduled", "wait-for-visibility"}
             /\ timer' \in BOOLEAN /\ (timer' => current' = "reconnect-scheduled")
             /\ attempts' \in 0..ReconnectionAttempts
    <3>1. \A s \in Socket : ~Alive(s)
      BY <2>3 DEF ClientInd, AliveIsInUse
    <3>2. TypeOK'
      <4>1. current' \in ConnectionStates /\ page' \in [isHidden : BOOLEAN, isListened : BOOLEAN]
        BY <2>1, <2>3 DEF ConnectionStates
      <4>2. ws' = ws /\ sockets' = sockets /\ reported' = reported /\ budget' = budget
        BY <2>1
      <4> QED
        BY <2>3, <4>1, <4>2 DEF ClientInd, TypeOK
    <3>3. ws # NoSocket /\ ws' = ws
      BY <2>1, <2>3 DEF ClientInd, StateTells
    <3>4. StateTells'
      BY <2>3, <3>3 DEF StateTells
    <3>5. AliveIsInUse' /\ EndingIsHandled' /\ OpenForgetsAttempts'
      BY <2>1, <2>3, <3>1 DEF ClientInd, AliveIsInUse, EndingIsHandled, OpenForgetsAttempts, Alive
    <3> QED
      BY <3>2, <3>4, <3>5 DEF ClientInd
  <2> QED
    BY <2>1, <2>2, <2>3
<1>4. CASE TimerFires
  <2>1. PICK s \in Socket : Connect(s)
    BY <1>4 DEF TimerFires
  <2>2. current = "reconnect-scheduled"
    BY <1>4 DEF TimerFires, ClientInd, StateTells
  <2>3. \A t \in Socket : ~Alive(t) /\ (sockets[t].phase = "closing" => sockets[t].failureHandled)
    BY <2>2 DEF ClientInd, AliveIsInUse, EndingIsHandled
  <2>4. budget' \in [connects : Nat, failures : Nat]
    BY <1>4 DEF TimerFires, ClientInd, TypeOK
  <2> QED
    BY <1>4, <2>1, <2>3, <2>4, ConnectKeeps DEF TimerFires
<1>5. ASSUME NEW s \in Socket, Opens(s) \/ ConnectionAck(s) \/ Refuse(s)
      PROVE  ClientInd'
  <2>1. PICK r \in SocketRecord :
          /\ sockets' = [sockets EXCEPT ![s] = r]
          /\ r.failureHandled = sockets[s].failureHandled
          /\ \/ Opens(s) /\ r.phase = "open" /\ r.isAcked = sockets[s].isAcked
             \/ ConnectionAck(s) /\ r.phase = "open" /\ r.isAcked
             \/ Refuse(s) /\ r.phase = "opening" /\ r.isAcked = sockets[s].isAcked
    <3>1. sockets[s] \in SocketRecord
      BY DEF ClientInd, TypeOK, SocketRecord
    <3>2. CASE Opens(s)
      <4> DEFINE r == [sockets[s] EXCEPT !.phase = "open"]
      <4>1. r \in SocketRecord /\ r.phase = "open" /\ r.isAcked = sockets[s].isAcked
            /\ r.failureHandled = sockets[s].failureHandled
        BY <3>1 DEF SocketRecord, Phases
      <4> QED
        BY <3>2, <4>1 DEF Opens
    <3>3. CASE ConnectionAck(s)
      <4> DEFINE r == [sockets[s] EXCEPT !.isAcked = TRUE]
      <4>1. r \in SocketRecord /\ r.phase = "open" /\ r.isAcked
            /\ r.failureHandled = sockets[s].failureHandled
        BY <3>1, <3>3 DEF SocketRecord, ConnectionAck
      <4> QED
        BY <3>3, <4>1 DEF ConnectionAck
    <3>4. CASE Refuse(s)
      <4> DEFINE r == [sockets[s] EXCEPT !.isRefused = TRUE]
      <4>1. r \in SocketRecord /\ r.phase = "opening" /\ r.isAcked = sockets[s].isAcked
            /\ r.failureHandled = sockets[s].failureHandled
        BY <3>1, <3>4 DEF SocketRecord, Refuse
      <4> QED
        BY <3>4, <4>1 DEF Refuse
    <3> QED
      BY <1>5, <3>2, <3>3, <3>4
  <2>2. /\ sockets' \in [Socket -> SocketRecord]
        /\ \A t \in Socket : sockets'[t] = IF t = s THEN r ELSE sockets[t]
    BY <2>1, OneSocket DEF ClientInd
  <2>3. /\ Alive(s) /\ s = ws /\ ~sockets[s].failureHandled
        /\ UNCHANGED <<ws, timer, page, reported>>
        /\ budget' \in [connects : Nat, failures : Nat]
        /\ r.phase = "open" => attempts' = 0
        /\ r.isAcked => r.phase = "open"
        /\ current' = IF r.isAcked THEN "connected" ELSE "connecting"
        /\ current \in {"connecting", "connected"} /\ timer = FALSE
        /\ attempts' \in 0..ReconnectionAttempts
    <3>1. Alive(s) /\ s = ws /\ ~sockets[s].failureHandled
      BY <1>5 DEF Opens, ConnectionAck, Refuse, Alive, ClientInd, AliveIsInUse
    <3>2. current \in {"connecting", "connected"} /\ timer = FALSE
      BY <3>1 DEF ClientInd, AliveIsInUse, StateTells, TypeOK
    <3>3. CASE Opens(s)
      BY <2>1, <3>1, <3>2, <3>3 DEF Opens, ConnectionAck, Refuse, Alive, ClientInd, AliveIsInUse, TypeOK
    <3>4. CASE ConnectionAck(s)
      BY <2>1, <3>1, <3>2, <3>4 DEF Opens, ConnectionAck, Refuse, Alive, ClientInd, AliveIsInUse,
         OpenForgetsAttempts, TypeOK
    <3>5. CASE Refuse(s)
      BY <2>1, <3>1, <3>2, <3>5 DEF Opens, ConnectionAck, Refuse, Alive, ClientInd, AliveIsInUse, TypeOK
    <3> QED
      BY <1>5, <3>3, <3>4, <3>5
  <2>4. TypeOK'
    BY <2>2, <2>3 DEF ClientInd, TypeOK, SocketRecord, ConnectionStates
  <2>5. AliveIsInUse' /\ EndingIsHandled' /\ OpenForgetsAttempts'
    BY <2>1, <2>2, <2>3 DEF ClientInd, AliveIsInUse, EndingIsHandled, OpenForgetsAttempts, Alive
  <2>6. StateTells'
    BY <2>2, <2>3 DEF ClientInd, StateTells, InUse
  <2> QED
    BY <2>4, <2>5, <2>6 DEF ClientInd
<1>6. ASSUME NEW s \in Socket, Fails(s) \/ Closed(s)
      PROVE  ClientInd'
  <2>1. budget' \in [connects : Nat, failures : Nat]
    BY <1>6 DEF Fails, Closed, ClientInd, TypeOK
  <2>2. CASE Alive(s)
    <3>1. UNCHANGED page /\ (HandleConnectionFailure(s, "failing") \/ HandleConnectionFailure(s, "gone"))
      BY <1>6 DEF Fails, Closed
    <3> QED
      BY <2>1, <2>2, <3>1, FailureKeeps
  <2>3. CASE ~Alive(s)
    BY <1>6, <2>3, SocketEndKeeps DEF Fails, Closed, Alive
  <2> QED
    BY <2>2, <2>3
<1> QED
  BY <1>1, <1>2, <1>3, <1>4, <1>5, <1>6 DEF Next, SocketStep

LEMMA InitClient ==
  ASSUME Init
  PROVE  ClientInd
<1>1. \A s \in Socket : sockets[s] = UnusedSocket /\ sockets[s].phase = "unused"
  BY DEF Init, UnusedSocket
<1>2. sockets \in [Socket -> SocketRecord]
  BY DEF Init, UnusedSocket, SocketRecord, Phases
<1>3. TypeOK
  <2>1. page \in [isHidden : BOOLEAN, isListened : BOOLEAN]
    BY WebsocketClientAssumption DEF Init
  <2>2. reported \in [socket : Socket \cup {NoSocket}, willReconnect : BOOLEAN]
    BY DEF Init, NoReport
  <2>3. budget \in [connects : Nat, failures : Nat] /\ attempts \in 0..ReconnectionAttempts
    BY WebsocketClientAssumption DEF Init
  <2> QED
    BY <1>2, <2>1, <2>2, <2>3 DEF Init, TypeOK, SocketRecord, ConnectionStates
<1> QED
  BY <1>1, <1>3 DEF Init, ClientInd, AliveIsInUse, EndingIsHandled, OpenForgetsAttempts, StateTells, Alive

LEMMA SameClient ==
  ASSUME ClientInd, UNCHANGED vars
  PROVE  ClientInd'
<1>1. TypeOK' /\ StateTells'
  BY DEF vars, ClientInd, TypeOK, StateTells, InUse
<1>2. AliveIsInUse' /\ EndingIsHandled' /\ OpenForgetsAttempts'
  BY DEF vars, ClientInd, AliveIsInUse, EndingIsHandled, OpenForgetsAttempts, Alive
<1> QED
  BY <1>1, <1>2 DEF ClientInd

\* what the invariant says of the sockets and the state
LEMMA ClientKeeps ==
  ASSUME ClientInd
  PROVE  ClientInv /\ ConnectedSends /\ ClosedIsQuiet
<1>1. \A s \in Socket : InUse(s) => s = ws /\ current # "closed"
  BY DEF ClientInd, AliveIsInUse, Alive, InUse
<1>2. ClientInv
  BY <1>1 DEF ClientInd, ClientInv, OneOpenSocket
<1>3. ConnectedSends /\ ClosedIsQuiet
  BY <1>1 DEF ClientInd, StateTells, ConnectedSends, ClosedIsQuiet
<1> QED
  BY <1>2, <1>3

(***************************************************************************)
(* For a patient application, what is alive is the socket in use, what     *)
(* ends was reported, and the state tells which of these there is.         *)
(***************************************************************************)
THEOREM PatientInvariant == PatientSpec => []ClientInd
<1>1. Init => ClientInd
  BY InitClient
<1>2. ClientInd /\ [Next /\ Patient]_vars => ClientInd'
  BY StepKeeps, SameClient
<1> QED
  BY <1>1, <1>2, PTL DEF PatientSpec

(***************************************************************************)
(* A patient application has one open socket at most, whatever it leaves   *)
(* behind, and every variable keeps its type: ClientInv, of connect, which *)
(* replaces ws without closing it.                                         *)
(***************************************************************************)
THEOREM PatientHasOneSocket == PatientSpec => []ClientInv
<1>1. ClientInd => ClientInv
  BY ClientKeeps
<1> QED
  BY <1>1, PatientInvariant, PTL

(***************************************************************************)
(* A client of a patient application that says it is connected sends over  *)
(* an open socket that was acknowledged: sendMessage, ConnectedSends.      *)
(***************************************************************************)
THEOREM PatientClientSends == PatientSpec => []ConnectedSends
<1>1. ClientInd => ConnectedSends
  BY ClientKeeps
<1> QED
  BY <1>1, PatientInvariant, PTL

(***************************************************************************)
(* A closed client of a patient application has no open socket, and no     *)
(* attempt is scheduled: closeWebsocket, ClosedIsQuiet.                    *)
(***************************************************************************)
THEOREM PatientClosedIsQuiet == PatientSpec => []ClosedIsQuiet
<1>1. ClientInd => ClosedIsQuiet
  BY ClientKeeps
<1> QED
  BY <1>1, PatientInvariant, PTL

-----------------------------------------------------------------------------
(* The client as its listeners know it *)

\* a failure that is handled loses the connection, gives it up, or is not told
LEMMA FailureMaps ==
  ASSUME ClientInd, NEW s \in Socket, Alive(s), NEW phase,
         HandleConnectionFailure(s, phase)
  PROVE  [Listened!ConnectionNext]_ListenedState
<1>1. FirstFailure(s) /\ current \in {"connecting", "connected"}
  BY DEF ClientInd, AliveIsInUse, FirstFailure
<1>2. current' \in {current, "closed", "reconnect-scheduled", "wait-for-visibility"}
  BY <1>1 DEF HandleConnectionFailure, CloseWebsocket, TryReconnect
<1> QED
  BY <1>1, <1>2 DEF ListenedState, Listened!ConnectionNext, Listened!Lose, Listened!GiveUp

LEMMA StepMaps ==
  ASSUME ClientInd, Next
  PROVE  [Listened!ConnectionNext]_ListenedState
<1> USE DEF ListenedState, Listened!ConnectionNext
<1>1. CASE AppConnect
  BY <1>1 DEF AppConnect, Connect, Listened!Attempt
<1>2. CASE AppClose
  BY <1>2 DEF AppClose, CloseWebsocket, Listened!GiveUp, ClientInd, StateTells, TypeOK, ConnectionStates
<1>3. CASE Hide
  BY <1>3 DEF Hide
<1>4. CASE Show
  BY <1>4 DEF Show, TryReconnect
<1>5. CASE TimerFires
  BY <1>5 DEF TimerFires, Connect, Listened!Attempt, ClientInd, StateTells
<1>6. ASSUME NEW s \in Socket, SocketStep(s)
      PROVE  [Listened!ConnectionNext]_ListenedState
  <2>1. CASE Opens(s) \/ Refuse(s)
    BY <2>1 DEF Opens, Refuse
  <2>2. CASE ConnectionAck(s)
    BY <2>2 DEF ConnectionAck, Listened!Establish, ClientInd, AliveIsInUse, Alive
  <2>3. CASE (Fails(s) \/ Closed(s)) /\ Alive(s)
    BY <2>3, FailureMaps DEF Fails, Closed
  <2>4. CASE Closed(s) /\ ~Alive(s)
    BY <2>4, SocketEndKeeps DEF Closed, Alive
  <2> QED
    BY <1>6, <2>1, <2>2, <2>3, <2>4 DEF SocketStep, Fails, Alive
<1> QED
  BY <1>1, <1>2, <1>3, <1>4, <1>5, <1>6 DEF Next

(***************************************************************************)
(* To those who listen to it, the client of a patient application is a     *)
(* connection: attempted, established, lost or given up, in that order.    *)
(***************************************************************************)
THEOREM PatientImplements == PatientSpec => ImplementsConnection
<1>1. Init => Listened!ConnectionInit
  BY DEF Init, Listened!ConnectionInit, ListenedState
<1>2. ClientInd /\ [Next /\ Patient]_vars => [Listened!ConnectionNext]_ListenedState
  BY StepMaps DEF vars, ListenedState
<1> QED
  BY <1>1, <1>2, PatientInvariant, PTL DEF PatientSpec, ImplementsConnection, Listened!ConnectionSpec
-----------------------------------------------------------------------------
(* An application that connects once *)

\* nothing was created before the only call of connect, and none is left after
OnceInv ==
    /\ budget.connects <= 1
    /\ budget.connects > 0 => current = "closed" /\ \A s \in Socket : sockets[s] = UnusedSocket

\* while the client reconnects it listens to the page, until it is closed
ListensInv ==
    /\ current # "closed" => page.isListened = (HasVisibility /\ Reconnection)
    /\ budget.connects > 0 => page.isListened = (HasVisibility /\ Reconnection)
    /\ page.isHidden => HasVisibility
    /\ current \in {"reconnect-scheduled", "wait-for-visibility"} => Reconnection
    /\ WaitsOnlyWhileHidden

OnceInd == ClientInd /\ OnceInv /\ ListensInv

LEMMA OnceInit ==
  ASSUME MaxConnects <= 1, Init
  PROVE  OnceInv /\ ListensInv
<1>1. OnceInv
  BY WebsocketClientAssumption DEF Init, OnceInv
<1>2. ListensInv
  BY WebsocketClientAssumption DEF Init, ListensInv, WaitsOnlyWhileHidden
<1> QED
  BY <1>1, <1>2

\* the only attempt of the application finds every socket unused
LEMMA OncePatient ==
  ASSUME OnceInd, Next
  PROVE  Patient
<1>1. CASE AppConnect
  BY <1>1 DEF AppConnect, OnceInd, OnceInv, Patient, AllGone, UnusedSocket
<1>2. CASE TimerFires
  BY <1>2 DEF TimerFires, OnceInd, ClientInd, StateTells, Patient
<1>3. CASE AppClose \/ Hide \/ Show
  BY <1>3 DEF AppClose, CloseWebsocket, Hide, Show, TryReconnect, Patient
<1>4. ASSUME NEW s \in Socket, SocketStep(s)
      PROVE  Patient
  BY <1>4 DEF SocketStep, Opens, ConnectionAck, Refuse, Fails, Closed, HandleConnectionFailure,
     CloseWebsocket, TryReconnect, Patient
<1> QED
  BY <1>1, <1>2, <1>3, <1>4 DEF Next

LEMMA OnceKeeps ==
  ASSUME OnceInd, Next
  PROVE  OnceInv'
<1>1. TypeOK /\ budget.connects \in Nat /\ budget.connects <= 1 /\ ClientInd /\ OnceInv
  BY DEF OnceInd, OnceInv, ClientInd, TypeOK
<1>2. CASE AppConnect
  <2>1. budget'.connects = 0
    BY <1>1, <1>2 DEF AppConnect, TypeOK
  <2> QED
    BY <2>1 DEF OnceInv
<1>3. ASSUME budget'.connects = budget.connects, budget.connects = 0
      PROVE  OnceInv'
  BY <1>3 DEF OnceInv
<1>4. CASE Next /\ ~AppConnect
  <2>1. budget'.connects = budget.connects
    <3>1. CASE AppClose \/ Hide \/ Show \/ TimerFires
      BY <3>1 DEF AppClose, Hide, Show, TimerFires
    <3>2. ASSUME NEW s \in Socket, SocketStep(s)
          PROVE  budget'.connects = budget.connects
      BY <1>1, <3>2 DEF SocketStep, Opens, ConnectionAck, Refuse, Fails, Closed, TypeOK
    <3> QED
      BY <1>4, <3>1, <3>2 DEF Next
  <2>2. CASE budget.connects > 0
    <3>1. current = "closed" /\ ws = NoSocket /\ ~timer /\ \A s \in Socket : sockets[s] = UnusedSocket
      BY <1>1, <2>2 DEF OnceInv, ClientInd, StateTells
    <3>2. \A s \in Socket : ~SocketStep(s)
      BY <3>1 DEF UnusedSocket, SocketStep, Opens, ConnectionAck, Refuse, Fails, Closed
    <3>3. Hide \/ Show
      BY <1>4, <3>1, <3>2 DEF Next, AppClose, TimerFires
    <3>4. current' = current /\ sockets' = sockets
      BY <3>1, <3>3 DEF Hide, Show
    <3> QED
      BY <1>1, <2>1, <3>1, <3>4 DEF OnceInv
  <2> QED
    BY <1>1, <1>3, <2>1, <2>2
<1> QED
  BY <1>2, <1>4

\* a failure schedules an attempt when the page is shown, and waits otherwise
LEMMA ListensKeeps ==
  ASSUME OnceInd, Next
  PROVE  ListensInv'
<1>0. ClientInd /\ OnceInv /\ ListensInv /\ TypeOK
  BY DEF OnceInd, ClientInd
<1>1. CASE AppConnect
  BY <1>0, <1>1 DEF AppConnect, Connect, ListensInv, WaitsOnlyWhileHidden, TypeOK
<1>2. CASE AppClose
  <2>1. current # "closed" /\ current' = "closed" /\ budget' = budget /\ page'.isHidden = page.isHidden
    BY <1>0, <1>2 DEF AppClose, CloseWebsocket, ClientInd, StateTells, TypeOK
  <2>2. ~(budget.connects > 0)
    BY <1>0, <2>1 DEF OnceInv
  <2> QED
    BY <1>0, <2>1, <2>2 DEF ListensInv, WaitsOnlyWhileHidden
<1>3. CASE Hide
  BY <1>0, <1>3 DEF Hide, ListensInv, WaitsOnlyWhileHidden, TypeOK
<1>4. CASE Show
  <2>1. ~page'.isHidden /\ page'.isListened = page.isListened /\ budget' = budget
        /\ page.isHidden
    BY <1>0, <1>4 DEF Show, TypeOK
  <2>2. CASE page.isListened /\ current = "wait-for-visibility"
    <3>1. current' = "reconnect-scheduled"
      BY <1>4, <2>2, WebsocketClientAssumption DEF Show, TryReconnect, IsLimited
    <3> QED
      BY <1>0, <2>1, <2>2, <3>1 DEF ListensInv, WaitsOnlyWhileHidden
  <2>3. CASE ~(page.isListened /\ current = "wait-for-visibility")
    <3>1. current' = current
      BY <1>4, <2>3 DEF Show
    <3>2. current # "wait-for-visibility"
      <4>1. current = "wait-for-visibility" => Reconnection /\ HasVisibility
        BY <1>0, <2>1 DEF ListensInv
      <4> QED
        BY <1>0, <2>3, <4>1 DEF ListensInv
    <3> QED
      BY <1>0, <2>1, <3>1, <3>2 DEF ListensInv, WaitsOnlyWhileHidden
  <2> QED
    BY <2>2, <2>3
<1>5. CASE TimerFires
  BY <1>0, <1>5 DEF TimerFires, Connect, ListensInv, WaitsOnlyWhileHidden, OnceInv, ClientInd, StateTells
<1>6. ASSUME NEW s \in Socket, SocketStep(s)
      PROVE  ListensInv'
  <2>1. page' = page /\ budget'.connects = budget.connects
    BY <1>0, <1>6 DEF SocketStep, Opens, ConnectionAck, Refuse, Fails, Closed, TypeOK
  <2>2. \/ current' \in {current, "closed"}
        \/ Alive(s) /\ current' = "connected"
        \/ Reconnection /\ current # "closed" /\ current' = "reconnect-scheduled"
        \/ Reconnection /\ current # "closed" /\ current' = "wait-for-visibility" /\ page.isHidden
    BY <1>6 DEF SocketStep, Opens, ConnectionAck, Refuse, Fails, Closed, HandleConnectionFailure,
       CloseWebsocket, TryReconnect, WaitsForPage, Alive
  <2>3. Alive(s) => current # "closed"
    BY <1>0 DEF ClientInd, AliveIsInUse
  <2> QED
    BY <1>0, <2>1, <2>2, <2>3 DEF ListensInv, WaitsOnlyWhileHidden
<1> QED
  BY <1>1, <1>2, <1>3, <1>4, <1>5, <1>6 DEF Next

(***************************************************************************)
(* An application that connects once leaves no socket behind: its client   *)
(* keeps what it keeps for a patient one, and waits for the page only      *)
(* while the page is hidden.                                               *)
(***************************************************************************)
THEOREM OnceInvariant ==
  ASSUME MaxConnects <= 1
  PROVE  Spec => []OnceInd
<1>1. Init => OnceInd
  BY OnceInit, InitClient DEF OnceInd
<1>2. OnceInd /\ [Next]_vars => OnceInd'
  <2> SUFFICES ASSUME OnceInd, [Next]_vars PROVE OnceInd'
    OBVIOUS
  <2>1. CASE Next
    BY <2>1, OncePatient, StepKeeps, OnceKeeps, ListensKeeps DEF OnceInd
  <2>2. CASE UNCHANGED vars
    <3>1. ClientInd'
      BY <2>2, SameClient DEF OnceInd
    <3>2. OnceInv' /\ ListensInv'
      BY <2>2 DEF vars, OnceInd, OnceInv, ListensInv, WaitsOnlyWhileHidden
    <3> QED
      BY <3>1, <3>2 DEF OnceInd
  <2> QED
    BY <2>1, <2>2
<1> QED
  BY <1>1, <1>2, PTL DEF Spec

(***************************************************************************)
(* Connected once, the client has one open socket at most, is connected    *)
(* over that one, is quiet when closed, and never waits for a page that is *)
(* shown (handleConnectionFailure, closeWebsocket, tryReconnect).          *)
(***************************************************************************)
THEOREM OnceClientSends ==
  ASSUME MaxConnects <= 1
  PROVE  Spec => [](ClientInv /\ ConnectedSends /\ ClosedIsQuiet /\ WaitsOnlyWhileHidden)
<1>1. OnceInd => ClientInv /\ ConnectedSends /\ ClosedIsQuiet /\ WaitsOnlyWhileHidden
  BY ClientKeeps DEF OnceInd, ListensInv
<1> QED
  BY <1>1, OnceInvariant, PTL

(***************************************************************************)
(* Connected once, the client is a connection to those who listen to it.   *)
(***************************************************************************)
THEOREM OnceImplements ==
  ASSUME MaxConnects <= 1
  PROVE  Spec => ImplementsConnection
<1>1. Init => Listened!ConnectionInit
  BY DEF Init, Listened!ConnectionInit, ListenedState
<1>2. OnceInd /\ [Next]_vars => [Listened!ConnectionNext]_ListenedState
  BY StepMaps DEF vars, ListenedState, OnceInd
<1> QED
  BY <1>1, <1>2, OnceInvariant, PTL DEF Spec, ImplementsConnection, Listened!ConnectionSpec

-----------------------------------------------------------------------------
(***************************************************************************)
(* However often the application connects, a failure told with a           *)
(* reconnection that follows leaves one scheduled or waiting for the page, *)
(* unless the attempts are exhausted (handleConnectionFailure).            *)
(***************************************************************************)
THEOREM FailuresAnnounceReconnections == Spec => AnnouncedReconnectionFollows
<1>1. [Next]_vars => [(reported' # reported /\ reported'.willReconnect) =>
          current' \in {"reconnect-scheduled", "wait-for-visibility"} \/ Exhausted]_vars
  <2> SUFFICES ASSUME Next, reported' # reported, reported'.willReconnect
               PROVE  current' \in {"reconnect-scheduled", "wait-for-visibility"} \/ Exhausted
    BY DEF vars
  <2>1. PICK s \in Socket : Fails(s) \/ Closed(s)
    <3>1. ~(AppConnect \/ AppClose \/ Hide \/ Show \/ TimerFires)
      BY DEF AppConnect, AppClose, Hide, Show, TimerFires
    <3>2. \A s \in Socket : ~(Opens(s) \/ ConnectionAck(s) \/ Refuse(s))
      BY DEF Opens, ConnectionAck, Refuse
    <3> QED
      BY <3>1, <3>2 DEF Next, SocketStep
  <2>2. PICK phase \in {"failing", "gone"} : HandleConnectionFailure(s, phase)
    BY <2>1 DEF Fails, Closed
  <2> DEFINE willReconnect == Reconnection /\ ~sockets[s].isRefused
  <2>3. /\ reported' = [socket |-> s, willReconnect |-> willReconnect]
        /\ \/ ~willReconnect
           \/ current' = "wait-for-visibility"
           \/ TryReconnect(attempts)
    BY <2>2 DEF HandleConnectionFailure
  <2> HIDE DEF willReconnect
  <2>4. current' = "wait-for-visibility" \/ TryReconnect(attempts)
    BY <2>3
  <2> QED
    BY <2>4 DEF TryReconnect, Exhausted
<1> QED
  BY <1>1, PTL DEF Spec, AnnouncedReconnectionFollows

-----------------------------------------------------------------------------
(* The transport *)


-----------------------------------------------------------------------------
(* The inductive invariant *)

\* the client's own variables
ClientTypeOK ==
    /\ ConnectionTypeOK
    /\ conn \in 0..Connections
    /\ acks \subseteq Call
    /\ subs \in [SubId -> SubRecord]
    /\ unsent \subseteq Op

\* what a subscription is called: its connection and its id
SubCall == Connection \X SubId

\* a socket carries, for each connection, messages of that connection
SocketsTypeOK ==
    /\ up \in [Connection -> Seq(MessageType)]
    /\ down \in [Connection -> Seq(AckType)]
    /\ \A c \in Connection : \A i \in DOMAIN up[c] :
          IF up[c][i].type = "call" THEN up[c][i].of \in Op ELSE up[c][i].of \in {c} \X SubId

\* a call is made for the message it is named after
CallsAreNamed ==
    \A m \in Call : Phase(m) # "unused" =>
        IF m \in Op THEN call[m].kind = "fetch"
        ELSE call[m].kind = "subscribe" /\ <<call[m].conn, call[m].id>> = m

\* nothing has been sent over a connection
Untouched(c) ==
    /\ up[c] = <<>> /\ down[c] = <<>>
    /\ \A m \in Call : Phase(m) # "unused" => call[m].conn # c

\* nothing is sent before a connection is established, and then by the client in use
FreshInv ==
    /\ \A c \in Connection : c > conn => Untouched(c)
    /\ state \in {"connecting", "connected"} => conn \in Connection
    /\ state = "connecting" => Untouched(conn)
    /\ state = "connected" => served[conn] # "before"

CloseOf(m) == Message("subscribe:close", m)

\* who closes a subscription never holds it again
ClosesAreStopped ==
    \A c \in Connection : \A i \in DOMAIN up[c] :
        up[c][i].type = "subscribe:close" => subs[Sub(up[c][i].of)].phase = "stopped"

\* a subscription held was sent on this connection, or has settled before
OwedInv ==
    IsConnected => \A id \in SubId :
        Held(id) => <<conn, id>> \in acks \/ subs[id].thenable # "pending"

\* it is on its way to the server, runs there or was refused
SentInv ==
    IsConnected /\ served[conn] = "open" => \A id \in SubId : Held(id) =>
        LET m == <<conn, id>>
        IN  \/ \E i \in DOMAIN up[conn] : up[conn][i] = Message("subscribe", m)
            \/ Phase(m) = "creating"
            \/ Phase(m) \in {"opening", "answered"} /\ (call[m].outcome = "refused" \/ Active(m))

\* what is no longer held is closed by a message behind the one that opens it
CloseFollows ==
    IsConnected /\ served[conn] = "open" =>
        /\ \A i \in DOMAIN up[conn] : up[conn][i].type = "subscribe" =>
              \/ Held(Sub(up[conn][i].of))
              \/ \E j \in DOMAIN up[conn] : j > i /\ up[conn][j] = CloseOf(up[conn][i].of)
        /\ \A m \in SubCall : m[1] = conn /\ (Phase(m) = "creating" \/ Active(m)) =>
              \/ Held(Sub(m)) \/ call[m].late
              \/ \E j \in DOMAIN up[conn] : up[conn][j] = CloseOf(m)

TransportInd ==
    /\ HandlerInv /\ ClientTypeOK /\ SocketsTypeOK /\ CallsAreNamed /\ FreshInv
    /\ ClosesAreStopped /\ OwedInv /\ SentInv /\ CloseFollows /\ PendingIsUnderWay

-----------------------------------------------------------------------------
(* Names and sequences *)

\* messages, calls and acks are named after a connection and an id, or an operation
LEMMA Names ==
  /\ \A c \in Connection, id \in SubId :
        <<c, id>> \in Call /\ <<c, id>> \notin Op /\ <<c, id>>[1] = c /\ Sub(<<c, id>>) = id
  /\ \A m \in Call \ Op : m \in SubCall /\ m[1] \in Connection /\ Sub(m) \in SubId /\ m = <<m[1], Sub(m)>>
  /\ Op \subseteq Call /\ Connection \subseteq Nat /\ SubId \subseteq Nat
  BY WebsocketTransportAssumption DEF Sub, SubCall

\* a list of n elements is a sequence
LEMMA ListIsSeq ==
  ASSUME NEW T, NEW n \in Nat, NEW s \in [1..n -> T]
  PROVE  s \in Seq(T)
  BY SeqDef

\* what was behind the first element moves one place ahead
LEMMA TailElements ==
  ASSUME NEW T, NEW s \in Seq(T), s # <<>>
  PROVE  /\ Tail(s) \in Seq(T) /\ 1 \in DOMAIN s /\ Head(s) = s[1]
         /\ \A i \in DOMAIN Tail(s) : i + 1 \in DOMAIN s /\ Tail(s)[i] = s[i + 1]
         /\ \A i \in DOMAIN s : i # 1 => i \in Nat /\ i > 1 /\ i - 1 \in DOMAIN Tail(s) /\ Tail(s)[i - 1] = s[i]
<1>1. Len(s) \in Nat /\ DOMAIN s = 1..Len(s) /\ Len(s) # 0
  OBVIOUS
<1>2. Tail(s) \in Seq(T) /\ DOMAIN Tail(s) = 1..(Len(s) - 1) /\ Head(s) = s[1]
  BY <1>1
<1>3. \A i \in 1..(Len(s) - 1) : Tail(s)[i] = s[i + 1]
  BY <1>1
<1> QED
  BY <1>1, <1>2, <1>3

\* a sequence that grows keeps what it held, before what is added
LEMMA GrownElements ==
  ASSUME NEW T, NEW s \in Seq(T), NEW t \in Seq(T)
  PROVE  /\ s \o t \in Seq(T)
         /\ \A i \in DOMAIN s : i \in DOMAIN (s \o t) /\ (s \o t)[i] = s[i]
         /\ \A i \in DOMAIN (s \o t) \ DOMAIN s : \E j \in DOMAIN t : (s \o t)[i] = t[j]
         /\ \A j \in DOMAIN t : \E i \in DOMAIN (s \o t) :
               (s \o t)[i] = t[j] /\ \A h \in DOMAIN s : h < i
<1>1. /\ Len(s) \in Nat /\ DOMAIN s = 1..Len(s)
      /\ Len(t) \in Nat /\ DOMAIN t = 1..Len(t)
  OBVIOUS
<1>2. s \o t \in Seq(T) /\ DOMAIN (s \o t) = 1..(Len(s) + Len(t))
  BY <1>1
<1>3. \A i \in 1..(Len(s) + Len(t)) : (s \o t)[i] = IF i <= Len(s) THEN s[i] ELSE t[i - Len(s)]
  BY <1>1
<1>4. ASSUME NEW i \in DOMAIN (s \o t) \ DOMAIN s PROVE \E j \in DOMAIN t : (s \o t)[i] = t[j]
  <2>1. i - Len(s) \in DOMAIN t
    BY <1>1, <1>2
  <2> QED
    BY <1>1, <1>2, <1>3, <2>1
<1>5. ASSUME NEW j \in DOMAIN t
      PROVE  \E i \in DOMAIN (s \o t) : (s \o t)[i] = t[j] /\ \A h \in DOMAIN s : h < i
  <2>1. /\ j + Len(s) \in DOMAIN (s \o t) /\ (s \o t)[j + Len(s)] = t[j]
        /\ \A h \in DOMAIN s : h < j + Len(s)
    BY <1>1, <1>2, <1>3
  <2> QED
    BY <2>1
<1> QED
  BY <1>1, <1>2, <1>3, <1>4, <1>5

\* so does one that another element is appended to
LEMMA AppendedElements ==
  ASSUME NEW T, NEW s \in Seq(T), NEW e \in T
  PROVE  /\ Append(s, e) \in Seq(T)
         /\ \A i \in DOMAIN s : i \in DOMAIN Append(s, e) /\ Append(s, e)[i] = s[i]
         /\ \A i \in DOMAIN Append(s, e) \ DOMAIN s : Append(s, e)[i] = e
         /\ \E i \in DOMAIN Append(s, e) : Append(s, e)[i] = e /\ \A h \in DOMAIN s : h < i
<1>1. Len(s) \in Nat /\ DOMAIN s = 1..Len(s)
  OBVIOUS
<1>2. /\ Append(s, e) \in Seq(T) /\ DOMAIN Append(s, e) = 1..(Len(s) + 1)
      /\ Append(s, e)[Len(s) + 1] = e /\ \A i \in 1..Len(s) : Append(s, e)[i] = s[i]
  BY <1>1
<1>3. Len(s) + 1 \in DOMAIN Append(s, e) /\ \A h \in DOMAIN s : h < Len(s) + 1
  BY <1>1, <1>2
<1> QED
  BY <1>1, <1>2, <1>3


-----------------------------------------------------------------------------
(* The client sends *)

\* the messages new are sent over the connection, behind those under way
UpGrows(new) ==
    /\ up' \in [Connection -> Seq(MessageType)]
    /\ \A c \in Connection : c # conn => up'[c] = up[c]
    /\ \A i \in DOMAIN up[conn] : i \in DOMAIN up'[conn] /\ up'[conn][i] = up[conn][i]
    /\ \A i \in DOMAIN up'[conn] : i \notin DOMAIN up[conn] => up'[conn][i] \in new
    /\ \A e \in new : \E i \in DOMAIN up'[conn] :
          up'[conn][i] = e /\ \A h \in DOMAIN up[conn] : h < i

\* a message of the connection in use
OfConnection(e) ==
    /\ e \in MessageType
    /\ IF e.type = "call" THEN e.of \in Op ELSE e.of \in {conn} \X SubId

LEMMA AppendGrows ==
  ASSUME up \in [Connection -> Seq(MessageType)], conn \in Connection, NEW e \in MessageType,
         up' = [up EXCEPT ![conn] = Append(@, e)]
  PROVE  UpGrows({e})
<1>1. /\ up'[conn] = Append(up[conn], e) /\ up[conn] \in Seq(MessageType)
      /\ \A c \in Connection : c # conn => up'[c] = up[c]
  OBVIOUS
<1>2. /\ Append(up[conn], e) \in Seq(MessageType)
      /\ \A i \in DOMAIN up[conn] :
            i \in DOMAIN Append(up[conn], e) /\ Append(up[conn], e)[i] = up[conn][i]
      /\ \A i \in DOMAIN Append(up[conn], e) \ DOMAIN up[conn] : Append(up[conn], e)[i] = e
      /\ \E i \in DOMAIN Append(up[conn], e) :
            Append(up[conn], e)[i] = e /\ \A h \in DOMAIN up[conn] : h < i
  BY <1>1, AppendedElements
<1>3. up' \in [Connection -> Seq(MessageType)]
  BY <1>2
<1> QED
  BY <1>1, <1>2, <1>3 DEF UpGrows

LEMMA ConcatGrows ==
  ASSUME up \in [Connection -> Seq(MessageType)], conn \in Connection,
         NEW sent \in Seq(MessageType), up' = [up EXCEPT ![conn] = @ \o sent]
  PROVE  UpGrows({sent[i] : i \in DOMAIN sent})
<1>1. /\ up'[conn] = up[conn] \o sent /\ up[conn] \in Seq(MessageType)
      /\ \A c \in Connection : c # conn => up'[c] = up[c]
  OBVIOUS
<1>2. /\ up[conn] \o sent \in Seq(MessageType)
      /\ \A i \in DOMAIN up[conn] :
            i \in DOMAIN (up[conn] \o sent) /\ (up[conn] \o sent)[i] = up[conn][i]
      /\ \A i \in DOMAIN (up[conn] \o sent) \ DOMAIN up[conn] :
            \E j \in DOMAIN sent : (up[conn] \o sent)[i] = sent[j]
      /\ \A j \in DOMAIN sent : \E i \in DOMAIN (up[conn] \o sent) :
            (up[conn] \o sent)[i] = sent[j] /\ \A h \in DOMAIN up[conn] : h < i
  BY <1>1, GrownElements
<1>3. up' \in [Connection -> Seq(MessageType)]
  BY <1>2
<1> QED
  BY <1>1, <1>2, <1>3 DEF UpGrows

\* what sending must keep to: an id is held only with its message sent, and let go
\* only with its close sent
SendsWell(new) ==
    /\ conn \in Connection /\ UpGrows(new)
    /\ state \in {"connecting", "connected"} /\ state' = "connected" /\ served[conn] # "before"
    /\ UNCHANGED <<handlerVars, conn, down>>
    /\ ClientTypeOK'
    /\ \A e \in new :
          /\ OfConnection(e)
          /\ e.type = "subscribe" => Held(Sub(e.of))'
          /\ e.type = "subscribe:close" => subs'[Sub(e.of)].phase = "stopped"
    /\ acks \subseteq acks'
    /\ \A m \in acks' : m \notin acks => \E e \in new : e.of = m /\ e.type # "subscribe:close"
    /\ \A id \in SubId :
          /\ subs[id].phase = "stopped" => subs'[id].phase = "stopped"
          /\ subs'[id].thenable = subs[id].thenable
          /\ Held(id)' =>
                \/ IsConnected /\ Held(id)
                \/ Message("subscribe", <<conn, id>>) \in new /\ <<conn, id>> \in acks'
          /\ IsConnected /\ Held(id) => Held(id)' \/ CloseOf(<<conn, id>>) \in new

LEMMA SendingKeeps ==
  ASSUME TransportInd, NEW new, SendsWell(new)
  PROVE  TransportInd'
<1>h. HandlerInv' /\ CallsAreNamed' /\ call' = call /\ served' = served /\ opened' = opened
  BY DEF SendsWell, TransportInd, handlerVars, HandlerInv, HandlerTypeOK, OpenedAreCalls, RunningIsFound,
     CreatingHasNone, NoneBefore, ClosedIsLate, ActiveIsSubscribe, Active, Phase, CallsAreNamed
<1>u. /\ conn' = conn /\ conn \in Connection /\ conn \in Nat /\ down' = down /\ IsConnected'
      /\ up' \in [Connection -> Seq(MessageType)]
      /\ \A c \in Connection : c # conn => up'[c] = up[c]
      /\ \A i \in DOMAIN up[conn] : i \in DOMAIN up'[conn] /\ up'[conn][i] = up[conn][i]
      /\ \A i \in DOMAIN up'[conn] : i \notin DOMAIN up[conn] => up'[conn][i] \in new
      /\ \A e \in new : \E i \in DOMAIN up'[conn] :
            up'[conn][i] = e /\ \A h \in DOMAIN up[conn] : h < i
  BY Names DEF SendsWell, UpGrows, IsConnected
<1>1. SocketsTypeOK'
  <2>1. ASSUME NEW c \in Connection, NEW i \in DOMAIN up'[c]
        PROVE  IF up'[c][i].type = "call" THEN up'[c][i].of \in Op ELSE up'[c][i].of \in {c} \X SubId
    <3>1. CASE c = conn /\ i \notin DOMAIN up[conn]
      <4>1. up'[c][i] \in new
        BY <3>1, <1>u, <2>1
      <4> QED
        BY <4>1, <3>1 DEF SendsWell, OfConnection
    <3>2. CASE ~(c = conn /\ i \notin DOMAIN up[conn])
      <4>1. i \in DOMAIN up[c] /\ up'[c][i] = up[c][i]
        BY <3>2, <1>u, <2>1
      <4> QED
        BY <4>1 DEF TransportInd, SocketsTypeOK
    <3> QED
      BY <3>1, <3>2
  <2> QED
    BY <2>1, <1>u DEF TransportInd, SocketsTypeOK
<1>2. FreshInv'
  BY <1>h, <1>u DEF SendsWell, TransportInd, FreshInv, Untouched, Phase
<1>3. ClosesAreStopped'
  <2> SUFFICES ASSUME NEW c \in Connection, NEW i \in DOMAIN up'[c], up'[c][i].type = "subscribe:close"
               PROVE  subs'[Sub(up'[c][i].of)].phase = "stopped"
    BY DEF ClosesAreStopped
  <2>1. CASE c = conn /\ i \notin DOMAIN up[conn]
    <3>1. up'[c][i] \in new
      BY <2>1, <1>u
    <3> QED
      BY <3>1 DEF SendsWell
  <2>2. CASE ~(c = conn /\ i \notin DOMAIN up[conn])
    <3>1. i \in DOMAIN up[c] /\ up'[c][i] = up[c][i]
      BY <2>2, <1>u
    <3>2. up[c][i].of \in {c} \X SubId
      BY <3>1 DEF TransportInd, SocketsTypeOK
    <3>3. Sub(up[c][i].of) \in SubId
      BY <3>2 DEF Sub
    <3> QED
      BY <3>1, <3>3 DEF SendsWell, TransportInd, ClosesAreStopped
  <2> QED
    BY <2>1, <2>2
<1>4. OwedInv'
  BY <1>u DEF SendsWell, TransportInd, OwedInv, Held
<1>5. SentInv'
  <2> SUFFICES ASSUME served[conn] = "open", NEW id \in SubId, Held(id)'
               PROVE  \/ \E i \in DOMAIN up'[conn] : up'[conn][i] = Message("subscribe", <<conn, id>>)
                      \/ Phase(<<conn, id>>) = "creating"
                      \/ /\ Phase(<<conn, id>>) \in {"opening", "answered"}
                         /\ call[<<conn, id>>].outcome = "refused" \/ Active(<<conn, id>>)
    BY <1>h, <1>u DEF SentInv, Phase, Active, Message, Held
  <2>1. CASE IsConnected /\ Held(id)
    BY <2>1, <1>u DEF TransportInd, SentInv
  <2>2. CASE Message("subscribe", <<conn, id>>) \in new
    BY <2>2, <1>u
  <2> QED
    BY <2>1, <2>2 DEF SendsWell
<1>6. CloseFollows'
  <2> USE DEF CloseOf
  <2>1. ASSUME NEW id \in SubId, CloseOf(<<conn, id>>) \in new
        PROVE  \E j \in DOMAIN up'[conn] : /\ up'[conn][j] = CloseOf(<<conn, id>>)
                                           /\ \A h \in DOMAIN up[conn] : h < j
    BY <2>1, <1>u
  <2>c. /\ \A id \in SubId : IsConnected /\ Held(id) => Held(id)' \/ CloseOf(<<conn, id>>) \in new
        /\ state \in {"connecting", "connected"}
    BY DEF SendsWell
  <2>2. ASSUME served[conn] = "open", NEW i \in DOMAIN up'[conn], up'[conn][i].type = "subscribe"
        PROVE  \/ subs'[Sub(up'[conn][i].of)].phase = "held"
               \/ \E j \in DOMAIN up'[conn] : j > i /\ up'[conn][j] = CloseOf(up'[conn][i].of)
    <3>1. CASE i \notin DOMAIN up[conn]
      <4>1. up'[conn][i] \in new
        BY <3>1, <1>u
      <4> QED
        BY <4>1, <2>2 DEF SendsWell, Held
    <3>2. CASE i \in DOMAIN up[conn]
      <4>1. up'[conn][i] = up[conn][i] /\ up[conn][i].of \in {conn} \X SubId /\ i \in Nat
        BY <3>2, <2>2, <1>u DEF TransportInd, SocketsTypeOK
      <4>2. PICK id \in SubId : up[conn][i].of = <<conn, id>> /\ Sub(up[conn][i].of) = id
        BY <4>1 DEF Sub
      <4>3. IsConnected
        <5>1. up[conn] # <<>>
          BY <3>2
        <5> QED
          BY <5>1, <2>c, <1>u DEF IsConnected, TransportInd, FreshInv, Untouched
      <4>4. CASE Held(id)
        <5>1. CASE Held(id)'
          BY <5>1, <4>1, <4>2 DEF Held
        <5>2. CASE CloseOf(<<conn, id>>) \in new
          <6>1. PICK j \in DOMAIN up'[conn] : /\ up'[conn][j] = CloseOf(<<conn, id>>)
                                              /\ \A h \in DOMAIN up[conn] : h < j
            BY <2>1, <5>2
          <6>2. j \in Nat /\ j > i
            BY <6>1, <3>2, <1>u, <4>1
          <6> QED
            BY <6>1, <6>2, <4>1, <4>2
        <5> QED
          BY <5>1, <5>2, <4>3, <4>4, <2>c
      <4>5. CASE ~Held(id)
        <5>1. PICK j \in DOMAIN up[conn] : j > i /\ up[conn][j] = CloseOf(up[conn][i].of)
          BY <4>5, <4>2, <4>1, <4>3, <3>2, <2>2 DEF TransportInd, CloseFollows
        <5> QED
          BY <5>1, <1>u, <4>1
      <4> QED
        BY <4>4, <4>5
    <3> QED
      BY <3>1, <3>2
  <2>3. ASSUME served[conn] = "open", NEW m \in SubCall, m[1] = conn, Phase(m) = "creating" \/ Active(m)
        PROVE  \/ Held(Sub(m))' \/ call[m].late
               \/ \E j \in DOMAIN up'[conn] : up'[conn][j] = CloseOf(m)
    <3>1. PICK id \in SubId : m = <<conn, id>> /\ Sub(m) = id
      BY <2>3 DEF SubCall, Sub
    <3>2. IsConnected
      <4>1. m \in Call /\ m \notin Op /\ Phase(m) # "unused"
        BY <3>1, <2>3, <1>u, Names DEF Active
      <4>2. call[m].conn = conn
        BY <4>1, <2>3, <3>1 DEF TransportInd, CallsAreNamed
      <4> QED
        BY <4>1, <4>2, <2>c DEF IsConnected, TransportInd, FreshInv, Untouched
    <3>3. CASE Held(id)
      BY <3>1, <3>2, <3>3, <2>c, <2>1 DEF Held
    <3>4. CASE ~Held(id)
      BY <3>1, <3>2, <3>4, <2>3, <1>u DEF TransportInd, CloseFollows
    <3> QED
      BY <3>3, <3>4
  <2> SUFFICES ASSUME served[conn] = "open" PROVE CloseFollows'
    BY <1>h, <1>u DEF CloseFollows
  <2>4. \A i \in DOMAIN up'[conn'] : up'[conn'][i].type = "subscribe" =>
           \/ subs'[Sub(up'[conn'][i].of)].phase = "held"
           \/ \E j \in DOMAIN up'[conn'] : j > i /\ up'[conn'][j] = CloseOf(up'[conn'][i].of)
    BY <2>2, <1>u
  <2>5. \A m \in SubCall : m[1] = conn' /\ (call'[m].phase = "creating" \/ Active(m)') =>
           \/ Held(Sub(m))' \/ call'[m].late
           \/ \E j \in DOMAIN up'[conn'] : up'[conn'][j] = CloseOf(m)
    BY <2>3, <1>h, <1>u DEF Phase, Active
  <2> HIDE DEF CloseOf
  <2> QED
    BY <2>4, <2>5 DEF CloseFollows, Phase, Active, Held, CloseOf, Message, Sub, SubCall
<1>7. PendingIsUnderWay'
  <2> SUFFICES ASSUME NEW m \in acks', served[conn] # "closed"
               PROVE  \/ \E i \in DOMAIN up'[conn] : up'[conn][i].of = m /\ up'[conn][i].type # "subscribe:close"
                      \/ Phase(m) \in {"creating", "opening"} /\ call[m].conn = conn
                      \/ \E i \in DOMAIN down[conn] : down[conn][i].of = m
    BY <1>h, <1>u DEF PendingIsUnderWay, Phase
  <2>1. CASE m \in acks
    BY <2>1, <1>u DEF TransportInd, PendingIsUnderWay
  <2>2. CASE m \notin acks
    BY <2>2, <1>u DEF SendsWell
  <2> QED
    BY <2>1, <2>2
<1> QED
  BY <1>h, <1>1, <1>2, <1>3, <1>4, <1>5, <1>6, <1>7 DEF TransportInd, SendsWell


-----------------------------------------------------------------------------
(* The connection is attempted, lost or closed *)

\* without a connection nothing is pending, and what was under way stays where it is
LEMMA UnconnectedKeeps ==
  ASSUME TransportInd, state' \in {"closed", "connecting", "lost"}, acks' = {},
         UNCHANGED <<handlerVars, unsent, up, down>>,
         \/ conn' = conn /\ (state' = "connecting" => state = "connecting")
         \/ conn' = conn + 1 /\ conn < Connections,
         subs' \in [SubId -> SubRecord],
         \A id \in SubId : subs[id].phase = "stopped" => subs'[id].phase = "stopped"
  PROVE  TransportInd'
<1>h. HandlerInv' /\ CallsAreNamed' /\ call' = call /\ served' = served /\ up' = up /\ down' = down
  BY DEF TransportInd, handlerVars, HandlerInv, HandlerTypeOK, OpenedAreCalls, RunningIsFound,
     CreatingHasNone, NoneBefore, ClosedIsLate, ActiveIsSubscribe, Active, Phase, CallsAreNamed
<1>c. conn \in 0..Connections /\ Connections \in Nat /\ Connection = 1..Connections
  BY WebsocketTransportAssumption DEF TransportInd, ClientTypeOK
<1>1. ClientTypeOK'
  BY <1>c DEF TransportInd, ClientTypeOK, ConnectionTypeOK
<1>2. SocketsTypeOK'
  BY <1>h DEF TransportInd, SocketsTypeOK
<1>3. \A c \in Connection : Untouched(c)' <=> Untouched(c)
  BY <1>h DEF Untouched, Phase
<1>4. FreshInv'
  <2>1. conn' \in Nat /\ conn' >= conn
    BY <1>c
  <2>2. \A c \in Connection : c > conn' => Untouched(c)'
    BY <2>1, <1>3, <1>c DEF TransportInd, FreshInv
  <2>3. state' = "connecting" => \E c \in Connection : c = conn' /\ Untouched(c)'
    <3> SUFFICES ASSUME state' = "connecting" PROVE \E c \in Connection : c = conn' /\ Untouched(c)'
      OBVIOUS
    <3>1. CASE conn' = conn + 1 /\ conn < Connections
      <4>1. conn' \in Connection /\ conn' > conn
        BY <1>c, <3>1
      <4> QED
        BY <4>1, <1>3 DEF TransportInd, FreshInv
    <3>2. CASE conn' = conn /\ state = "connecting"
      BY <3>2, <1>3 DEF TransportInd, FreshInv
    <3> QED
      BY <3>1, <3>2
  <2> QED
    BY <2>2, <2>3 DEF FreshInv, Untouched, Phase
<1>5. ClosesAreStopped'
  <2> SUFFICES ASSUME NEW c \in Connection, NEW i \in DOMAIN up[c], up[c][i].type = "subscribe:close"
               PROVE  subs'[Sub(up[c][i].of)].phase = "stopped"
    BY <1>h DEF ClosesAreStopped
  <2>1. up[c][i].of \in {c} \X SubId
    BY DEF TransportInd, SocketsTypeOK
  <2> QED
    BY <2>1 DEF TransportInd, ClosesAreStopped, Sub
<1>6. OwedInv' /\ SentInv' /\ CloseFollows' /\ PendingIsUnderWay'
  BY DEF OwedInv, SentInv, CloseFollows, PendingIsUnderWay, IsConnected
<1> QED
  BY <1>h, <1>1, <1>2, <1>4, <1>5, <1>6 DEF TransportInd

LEMMA ConnectionKeeps ==
  ASSUME TransportInd, Connects \/ Disconnected \/ ClosedForGood
  PROVE  TransportInd'
<1>1. CASE Connects
  <2>1. acks = {}
    BY <1>1 DEF Connects, Attempt, TransportInd, PendingIsUnderWay, IsConnected
  <2> QED
    BY <1>1, <2>1, UnconnectedKeeps DEF Connects, Attempt, TransportInd, ClientTypeOK
<1>2. CASE Disconnected
  BY <1>2, UnconnectedKeeps DEF Disconnected, Lose, RejectAcks, TransportInd, ClientTypeOK
<1>3. CASE ClosedForGood
  <2>1. /\ state' = "closed" /\ acks' = {} /\ UNCHANGED <<handlerVars, conn, unsent, up, down>>
        /\ subs' = [id \in SubId |-> IF Held(id) THEN Ended(subs[id]) ELSE subs[id]]
        /\ subs \in [SubId -> SubRecord]
    BY <1>3 DEF ClosedForGood, GiveUp, RejectAcks, TransportInd, ClientTypeOK
  <2>2. \A id \in SubId : Ended(subs[id]) \in SubRecord
    BY <2>1 DEF Ended, Settle, SubRecord
  <2>3. subs' \in [SubId -> SubRecord]
    BY <2>1, <2>2
  <2>4. \A id \in SubId : subs[id].phase = "stopped" => subs'[id].phase = "stopped"
    BY <2>1 DEF Held
  <2> QED
    BY <2>1, <2>3, <2>4, UnconnectedKeeps
<1> QED
  BY <1>1, <1>2, <1>3

-----------------------------------------------------------------------------
(* The application *)

\* the messages of Subscribing subscribe each of the ids
LEMMA SubscribingSends ==
  ASSUME NEW ids \in SUBSET SubId, conn \in Connection, NEW sent \in Subscribing(ids)
  PROVE  /\ sent \in Seq(MessageType)
         /\ {sent[i] : i \in DOMAIN sent} = {Message("subscribe", <<conn, id>>) : id \in ids}
<1>1. Cardinality(ids) \in Nat
  <2>1. IsFiniteSet(1..Subscriptions)
    BY WebsocketTransportAssumption, FS_Interval
  <2> QED
    BY <2>1, WebsocketTransportAssumption, FS_Subset, FS_CardinalityType
<1>2. /\ sent \in [1..Cardinality(ids) -> [type : {"subscribe"}, of : {conn} \X ids]]
      /\ {Sub(sent[i].of) : i \in DOMAIN sent} = ids
  BY DEF Subscribing
<1>3. ASSUME NEW i \in DOMAIN sent
      PROVE  /\ Sub(sent[i].of) \in ids /\ sent[i] = Message("subscribe", <<conn, Sub(sent[i].of)>>)
             /\ sent[i] \in MessageType
  <2>1. sent[i] \in [type : {"subscribe"}, of : {conn} \X ids]
    BY <1>2
  <2>2. sent[i] = [type |-> sent[i].type, of |-> sent[i].of]
    BY <2>1
  <2>3. /\ sent[i].type = "subscribe" /\ Sub(sent[i].of) \in ids
        /\ sent[i].of = <<conn, Sub(sent[i].of)>>
    BY <2>1 DEF Sub
  <2>4. sent[i].of \in Call
    BY <2>3, Names
  <2> QED
    BY <2>2, <2>3, <2>4 DEF Message, MessageType
<1>4. sent \in [1..Cardinality(ids) -> MessageType]
  BY <1>2, <1>3
<1>5. sent \in Seq(MessageType)
  BY <1>1, <1>4, ListIsSeq
<1>6. ASSUME NEW id \in ids PROVE \E i \in DOMAIN sent : sent[i] = Message("subscribe", <<conn, id>>)
  <2>1. PICK i \in DOMAIN sent : Sub(sent[i].of) = id
    BY <1>2
  <2> QED
    BY <2>1, <1>3
<1> QED
  BY <1>3, <1>5, <1>6

LEMMA SubscribeKeeps ==
  ASSUME TransportInd, NEW id \in SubId, Subscribe(id)
  PROVE  TransportInd'
<1>t. /\ subs \in [SubId -> SubRecord] /\ acks \subseteq Call
      /\ subs[id].phase = "new" /\ subs' = [subs EXCEPT ![id].phase = "held"]
      /\ UNCHANGED <<handlerVars, state, conn, unsent, down>>
  BY DEF Subscribe, TransportInd, ClientTypeOK
<1>s. /\ subs' \in [SubId -> SubRecord] /\ Held(id)'
      /\ \A other \in SubId : other # id => subs'[other] = subs[other]
      /\ \A any \in SubId : subs'[any].thenable = subs[any].thenable
  <2>1. [subs[id] EXCEPT !.phase = "held"] \in SubRecord
    BY <1>t DEF SubRecord
  <2>2. subs' = [subs EXCEPT ![id] = [subs[id] EXCEPT !.phase = "held"]]
    BY <1>t
  <2> QED
    BY <1>t, <2>1, <2>2 DEF SubRecord, Held
<1>1. CASE IsConnected /\ SendSubscriptions({id})
  <2>c. conn \in Connection /\ served[conn] # "before" /\ state = "connected"
    BY <1>1 DEF IsConnected, TransportInd, FreshInv
  <2>1. PICK sent \in Subscribing({id}) : up' = [up EXCEPT ![conn] = @ \o sent]
    BY <1>1 DEF SendSubscriptions
  <2> DEFINE e == Message("subscribe", <<conn, id>>)
             new == {sent[i] : i \in DOMAIN sent}
  <2>4. new = {e} /\ sent \in Seq(MessageType)
    <3>1. {id} \in SUBSET SubId
      OBVIOUS
    <3>2. new = {Message("subscribe", <<conn, any>>) : any \in {id}} /\ sent \in Seq(MessageType)
      BY <2>1, <2>c, <3>1, SubscribingSends
    <3> QED
      BY <3>2
  <2>5. e \in MessageType /\ OfConnection(e) /\ e.type = "subscribe" /\ Sub(e.of) = id /\ e.of = <<conn, id>>
    BY <2>c, Names DEF Message, MessageType, OfConnection
  <2>7. UpGrows(new)
    BY <2>1, <2>4, <2>c, ConcatGrows DEF TransportInd, SocketsTypeOK
  <2>8. acks' = acks \cup {<<conn, id>>} /\ <<conn, id>> \in Call
    BY <1>1, <2>c, Names DEF SendSubscriptions
  <2> HIDE DEF e, new
  <2>9. ClientTypeOK'
    BY <1>t, <1>s, <2>8 DEF TransportInd, ClientTypeOK, ConnectionTypeOK
  <2>10. SendsWell(new)
    BY <1>t, <1>s, <2>c, <2>4, <2>5, <2>7, <2>8, <2>9 DEF SendsWell, Held, IsConnected, e
  <2> QED
    BY <2>10, SendingKeeps
<1>2. CASE ~IsConnected /\ UNCHANGED <<acks, up>>
  <2>1. state \in {"closed", "connecting", "lost"} /\ acks' = {}
    BY <1>2 DEF IsConnected, TransportInd, ClientTypeOK, ConnectionTypeOK, PendingIsUnderWay
  <2> QED
    BY <1>2, <1>t, <1>s, <2>1, UnconnectedKeeps
<1> QED
  BY <1>1, <1>2 DEF Subscribe


LEMMA StopKeeps ==
  ASSUME TransportInd, NEW id \in SubId, Stop(id)
  PROVE  TransportInd'
<1>t. /\ subs \in [SubId -> SubRecord]
      /\ subs' = [subs EXCEPT ![id].phase = "stopped"]
      /\ UNCHANGED <<handlerVars, state, conn, acks, unsent, down>>
  BY DEF Stop, TransportInd, ClientTypeOK
<1>s. /\ subs' \in [SubId -> SubRecord] /\ subs'[id].phase = "stopped"
      /\ \A other \in SubId : other # id => subs'[other] = subs[other]
      /\ \A any \in SubId : subs'[any].thenable = subs[any].thenable
  <2>1. [subs[id] EXCEPT !.phase = "stopped"] \in SubRecord
    BY <1>t DEF SubRecord
  <2>2. subs' = [subs EXCEPT ![id] = [subs[id] EXCEPT !.phase = "stopped"]]
    BY <1>t
  <2> QED
    BY <1>t, <2>1, <2>2 DEF SubRecord
<1>1. CASE IsConnected
  <2> DEFINE e == CloseOf(<<conn, id>>)
  <2>c. conn \in Connection /\ served[conn] # "before" /\ state = "connected"
    BY <1>1 DEF IsConnected, TransportInd, FreshInv
  <2>1. up' = [up EXCEPT ![conn] = Append(@, e)]
    BY <1>1 DEF Stop, CloseOf
  <2>2. e \in MessageType /\ OfConnection(e) /\ e.type = "subscribe:close" /\ Sub(e.of) = id
    BY <2>c, Names DEF CloseOf, Message, MessageType, OfConnection
  <2> HIDE DEF e
  <2>3. UpGrows({e})
    BY <2>1, <2>2, <2>c, AppendGrows DEF TransportInd, SocketsTypeOK
  <2>4. ClientTypeOK'
    BY <1>t, <1>s DEF TransportInd, ClientTypeOK, ConnectionTypeOK
  <2>5. SendsWell({e})
    BY <1>t, <1>s, <2>c, <2>2, <2>3, <2>4 DEF SendsWell, Held, IsConnected, e
  <2> QED
    BY <2>5, SendingKeeps
<1>2. CASE ~IsConnected
  <2>1. state \in {"closed", "connecting", "lost"} /\ acks' = {} /\ up' = up
    BY <1>2, <1>t DEF Stop, IsConnected, TransportInd, ClientTypeOK, ConnectionTypeOK, PendingIsUnderWay
  <2> QED
    BY <1>t, <1>s, <2>1, UnconnectedKeeps
<1> QED
  BY <1>1, <1>2

LEMMA SendKeeps ==
  ASSUME TransportInd, NEW op \in Op, Send(op)
  PROVE  TransportInd'
<1>t. /\ acks' = acks \cup {op} /\ unsent' = unsent \ {op}
      /\ UNCHANGED <<handlerVars, state, conn, subs, down>>
      /\ state = "connected"
  BY DEF Send, IsConnected
<1> DEFINE e == Message("call", op)
<1>c. conn \in Connection /\ served[conn] # "before"
  BY <1>t DEF TransportInd, FreshInv
<1>1. up' = [up EXCEPT ![conn] = Append(@, e)]
  BY DEF Send
<1>2. e \in MessageType /\ OfConnection(e) /\ e.type = "call" /\ e.of = op /\ op \in Call
  BY Names DEF Message, MessageType, OfConnection
<1> HIDE DEF e
<1>3. UpGrows({e})
  BY <1>1, <1>2, <1>c, AppendGrows DEF TransportInd, SocketsTypeOK
<1>4. ClientTypeOK'
  BY <1>t, <1>2 DEF TransportInd, ClientTypeOK, ConnectionTypeOK
<1>5. SendsWell({e})
  BY <1>t, <1>c, <1>2, <1>3, <1>4 DEF SendsWell, Held, IsConnected
<1> QED
  BY <1>5, SendingKeeps

\* the connection is established: what is held is sent over it
LEMMA ConnectedKeeps ==
  ASSUME TransportInd, Connected
  PROVE  TransportInd'
<1>t. /\ state = "connecting" /\ state' = "connected" /\ served[conn] # "before"
      /\ acks' = acks \cup ({conn} \X HeldSubscriptions)
      /\ UNCHANGED <<handlerVars, conn, subs, unsent, down>>
  BY DEF Connected, Establish, SendSubscriptions
<1>c. conn \in Connection /\ HeldSubscriptions \in SUBSET SubId /\ acks = {}
  BY <1>t DEF TransportInd, FreshInv, HeldSubscriptions, PendingIsUnderWay, IsConnected
<1>1. PICK sent \in Subscribing(HeldSubscriptions) : up' = [up EXCEPT ![conn] = @ \o sent]
  BY DEF Connected, SendSubscriptions
<1> DEFINE new == {sent[i] : i \in DOMAIN sent}
<1>2. new = {Message("subscribe", <<conn, id>>) : id \in HeldSubscriptions} /\ sent \in Seq(MessageType)
  BY <1>1, <1>c, SubscribingSends
<1>3. UpGrows(new)
  BY <1>1, <1>2, <1>c, ConcatGrows DEF TransportInd, SocketsTypeOK
<1> HIDE DEF new
<1>4. ASSUME NEW id \in HeldSubscriptions
      PROVE  LET e == Message("subscribe", <<conn, id>>)
             IN  /\ OfConnection(e) /\ e.type = "subscribe" /\ e.of = <<conn, id>> /\ Sub(e.of) = id
                 /\ <<conn, id>> \in Call /\ Held(id)
  BY <1>c, Names DEF Message, MessageType, OfConnection, HeldSubscriptions
<1>5. ClientTypeOK'
  BY <1>t, <1>4 DEF TransportInd, ClientTypeOK, ConnectionTypeOK
<1>6. \A e \in new : /\ OfConnection(e) /\ e.type = "subscribe" /\ Held(Sub(e.of))'
  BY <1>2, <1>4, <1>t DEF Held
<1>7. \A m \in acks' : m \notin acks => \E e \in new : e.of = m /\ e.type # "subscribe:close"
  <2> SUFFICES ASSUME NEW m \in {conn} \X HeldSubscriptions
               PROVE  \E e \in new : e.of = m /\ e.type # "subscribe:close"
    BY <1>t
  <2>1. PICK id \in HeldSubscriptions : m = <<conn, id>>
    OBVIOUS
  <2> QED
    BY <2>1, <1>2, <1>4
<1>8. ASSUME NEW id \in SubId, Held(id)'
      PROVE  Message("subscribe", <<conn, id>>) \in new /\ <<conn, id>> \in acks'
  <2>1. id \in HeldSubscriptions
    BY <1>8, <1>t DEF Held, HeldSubscriptions
  <2> QED
    BY <2>1, <1>2, <1>t
<1>9. SendsWell(new)
  BY <1>t, <1>c, <1>3, <1>5, <1>6, <1>7, <1>8 DEF SendsWell, Held, IsConnected
<1> QED
  BY <1>9, SendingKeeps


-----------------------------------------------------------------------------
(* An ack arrives *)

LEMMA ReceiveAckKeeps ==
  ASSUME TransportInd, ReceiveAck
  PROVE  TransportInd'
<1> DEFINE ack == Head(down[conn])
           how == IF ack.outcome = "ok" THEN "resolved" ELSE "rejected"
<1>t. /\ state = "connected" /\ conn \in Connection /\ down[conn] # <<>>
      /\ down' = [down EXCEPT ![conn] = Tail(@)] /\ acks' = acks \ {ack.of}
      /\ UNCHANGED <<handlerVars, state, conn, unsent, up>>
      /\ subs' = IF ack.of \in acks \ Op THEN [subs EXCEPT ![Sub(ack.of)] = Settle(@, how)] ELSE subs
      /\ subs \in [SubId -> SubRecord] /\ acks \subseteq Call
  BY DEF ReceiveAck, IsConnected, TransportInd, FreshInv, ClientTypeOK
<1>d. down \in [Connection -> Seq(AckType)] /\ down[conn] \in Seq(AckType)
  BY <1>t DEF TransportInd, SocketsTypeOK
<1>e. /\ Tail(down[conn]) \in Seq(AckType) /\ 1 \in DOMAIN down[conn] /\ ack = down[conn][1]
      /\ \A i \in DOMAIN down[conn] :
            i # 1 => i - 1 \in DOMAIN Tail(down[conn]) /\ Tail(down[conn])[i - 1] = down[conn][i]
  BY <1>t, <1>d, TailElements
<1>h. HandlerInv' /\ CallsAreNamed' /\ call' = call /\ served' = served
  BY <1>t DEF TransportInd, handlerVars, HandlerInv, HandlerTypeOK, OpenedAreCalls, RunningIsFound,
     CreatingHasNone, NoneBefore, ClosedIsLate, ActiveIsSubscribe, Active, Phase, CallsAreNamed
<1>w. how \in {"resolved", "rejected"}
  OBVIOUS
<1> HIDE DEF ack, how
<1>s. ASSUME NEW id \in SubId
      PROVE  /\ subs'[id] \in SubRecord /\ subs'[id].phase = subs[id].phase
             /\ subs[id].thenable # "pending" => subs'[id].thenable # "pending"
             /\ ack.of \in acks \ Op /\ id = Sub(ack.of) => subs'[id].thenable # "pending"
  <2>1. /\ Settle(subs[id], how) \in SubRecord /\ Settle(subs[id], how).phase = subs[id].phase
        /\ Settle(subs[id], how).thenable # "pending"
    BY <1>t, <1>w DEF Settle, SubRecord
  <2>2. CASE ack.of \in acks \ Op /\ id = Sub(ack.of)
    BY <2>1, <2>2, <1>t
  <2>3. CASE ~(ack.of \in acks \ Op /\ id = Sub(ack.of))
    BY <2>3, <1>t
  <2> QED
    BY <2>2, <2>3
<1>1. ClientTypeOK'
  <2>1. subs' \in [SubId -> SubRecord]
    BY <1>t, <1>s
  <2> QED
    BY <2>1, <1>t DEF TransportInd, ClientTypeOK, ConnectionTypeOK
<1>2. SocketsTypeOK'
  BY <1>t, <1>d, <1>e DEF TransportInd, SocketsTypeOK
<1>3. FreshInv'
  <2>1. ASSUME NEW c \in Connection, c > conn, Untouched(c) PROVE Untouched(c)'
    <3>1. conn \in Nat /\ c # conn
      BY <2>1, <1>t, Names
    <3>2. down'[c] = down[c]
      BY <3>1, <1>t, <1>d
    <3> QED
      BY <3>2, <2>1, <1>t, <1>h DEF Untouched, Phase
  <2> QED
    BY <2>1, <1>t, <1>h DEF TransportInd, FreshInv
<1>4. ClosesAreStopped'
  <2> SUFFICES ASSUME NEW c \in Connection, NEW i \in DOMAIN up[c], up[c][i].type = "subscribe:close"
               PROVE  subs'[Sub(up[c][i].of)].phase = "stopped"
    BY <1>t DEF ClosesAreStopped
  <2>1. Sub(up[c][i].of) \in SubId /\ subs[Sub(up[c][i].of)].phase = "stopped"
    BY DEF TransportInd, SocketsTypeOK, ClosesAreStopped, Sub
  <2> QED
    BY <2>1, <1>s
<1>5. OwedInv'
  <2> SUFFICES ASSUME NEW id \in SubId, Held(id)', <<conn, id>> \notin acks'
               PROVE  subs'[id].thenable # "pending"
    BY <1>t DEF OwedInv
  <2>1. Held(id)
    BY <1>s DEF Held
  <2>2. CASE <<conn, id>> \in acks
    <3>1. ack.of = <<conn, id>> /\ ack.of \notin Op /\ Sub(ack.of) = id
      BY <2>2, <1>t, Names
    <3> QED
      BY <3>1, <2>2, <1>s
  <2>3. CASE <<conn, id>> \notin acks
    BY <2>1, <2>3, <1>t, <1>s DEF TransportInd, OwedInv, IsConnected
  <2> QED
    BY <2>2, <2>3
<1>6. SentInv'
  BY <1>t, <1>h, <1>s DEF TransportInd, SentInv, IsConnected, Held, Phase, Active, Message
<1>7. CloseFollows'
  <2>1. \A id \in SubId : Held(id)' <=> Held(id)
    BY <1>s DEF Held
  <2>2. \A i \in DOMAIN up[conn] : up[conn][i].type = "subscribe" => Sub(up[conn][i].of) \in SubId
    BY <1>t DEF TransportInd, SocketsTypeOK, Sub
  <2>3. \A m \in SubCall : Sub(m) \in SubId
    BY DEF SubCall, Sub
  <2> QED
    BY <2>1, <2>2, <2>3, <1>t, <1>h DEF TransportInd, CloseFollows, IsConnected, Held, Phase, Active, CloseOf, Message
<1>8. PendingIsUnderWay'
  <2> SUFFICES ASSUME NEW m \in acks, m # ack.of, served[conn] # "closed"
               PROVE  \/ \E i \in DOMAIN up[conn] : up[conn][i].of = m /\ up[conn][i].type # "subscribe:close"
                      \/ Phase(m) \in {"creating", "opening"} /\ call[m].conn = conn
                      \/ \E i \in DOMAIN down'[conn] : down'[conn][i].of = m
    BY <1>t, <1>h DEF PendingIsUnderWay, IsConnected, Phase
  <2>1. down'[conn] = Tail(down[conn])
    BY <1>t, <1>d
  <2>2. ASSUME NEW i \in DOMAIN down[conn], down[conn][i].of = m
        PROVE  \E j \in DOMAIN down'[conn] : down'[conn][j].of = m
    <3>1. i # 1
      BY <2>2, <1>e
    <3> QED
      BY <3>1, <2>1, <2>2, <1>e
  <2> QED
    BY <2>2 DEF TransportInd, PendingIsUnderWay
<1> QED
  BY <1>h, <1>1, <1>2, <1>3, <1>4, <1>5, <1>6, <1>7, <1>8 DEF TransportInd

-----------------------------------------------------------------------------
(* The server *)

LEMMA AcceptsKeeps ==
  ASSUME TransportInd, NEW c \in Connection, ServerAccepts(c)
  PROVE  TransportInd'
<1>t. /\ Accept(c) /\ served[c] = "before" /\ served' = [served EXCEPT ![c] = "open"]
      /\ UNCHANGED <<opened, call, state, conn, acks, subs, unsent, up, down>>
      /\ served \in [Connection -> {"before", "open", "closed"}]
  BY DEF ServerAccepts, Accept, clientVars, TransportInd, HandlerInv, HandlerTypeOK
<1>1. HandlerInv'
  BY <1>t, AcceptKeeps DEF TransportInd
<1>2. \A d \in Connection : served'[d] = IF d = c THEN "open" ELSE served[d]
  BY <1>t
<1>3. ClientTypeOK' /\ SocketsTypeOK' /\ CallsAreNamed' /\ ClosesAreStopped' /\ OwedInv'
  BY <1>t DEF TransportInd, ClientTypeOK, ConnectionTypeOK, SocketsTypeOK, CallsAreNamed, Phase,
     ClosesAreStopped, OwedInv, IsConnected, Held
<1>4. FreshInv'
  BY <1>t, <1>2 DEF TransportInd, FreshInv, Untouched, Phase
<1>5. IsConnected' => IsConnected /\ served'[conn] = served[conn]
  BY <1>t, <1>2 DEF IsConnected, TransportInd, FreshInv
<1>6. SentInv' /\ CloseFollows'
  BY <1>t, <1>5 DEF TransportInd, SentInv, CloseFollows, Held, Phase, Active, CloseOf, Message
<1>7. PendingIsUnderWay'
  BY <1>t, <1>5 DEF TransportInd, PendingIsUnderWay, Phase, IsConnected
<1> QED
  BY <1>1, <1>3, <1>4, <1>6, <1>7 DEF TransportInd

LEMMA ClosesKeeps ==
  ASSUME TransportInd, NEW c \in Connection, ServerCloses(c)
  PROVE  TransportInd'
<1>t. /\ Close(c) /\ served' = [served EXCEPT ![c] = "closed"] /\ UNCHANGED opened
      /\ up' = [up EXCEPT ![c] = <<>>]
      /\ UNCHANGED <<state, conn, acks, subs, unsent, down>>
      /\ served \in [Connection -> {"before", "open", "closed"}]
      /\ up \in [Connection -> Seq(MessageType)]
  BY DEF ServerCloses, Close, TransportInd, HandlerInv, HandlerTypeOK, SocketsTypeOK
<1>1. HandlerInv' /\ HandlerInv
  BY <1>t, CloseKeeps DEF TransportInd
<1>2. /\ \A d \in Connection : served'[d] = IF d = c THEN "closed" ELSE served[d]
      /\ \A d \in Connection : up'[d] = IF d = c THEN <<>> ELSE up[d]
      /\ up' \in [Connection -> Seq(MessageType)]
  BY <1>t
<1>3. ASSUME NEW m \in Call
      PROVE  /\ call'[m].phase = call[m].phase
             /\ call[m].phase # "unused" =>
                  /\ call'[m].conn = call[m].conn /\ call'[m].id = call[m].id /\ call'[m].kind = call[m].kind
             /\ call[m].phase # "unused" /\ call[m].conn # c => call'[m] = call[m]
  <2>1. Marked(m) /\ (m \notin OpenedCalls(c) /\ ~Creating(m, c) => call'[m] = call[m])
    BY <1>t, <1>1, CloseMarks
  <2>2. /\ call'[m].phase = call[m].phase
        /\ call[m].phase # "unused" =>
             /\ call'[m].conn = call[m].conn /\ call'[m].id = call[m].id /\ call'[m].kind = call[m].kind
    BY <2>1, <1>1, MarkedKeeps
  <2>3. call[m].conn # c => m \notin OpenedCalls(c) /\ ~Creating(m, c)
    BY <1>1 DEF HandlerInv, OpenedAreCalls, OpenedCalls, Creating
  <2> QED
    BY <2>1, <2>2, <2>3
<1>4. ClientTypeOK' /\ OwedInv'
  BY <1>t DEF TransportInd, ClientTypeOK, ConnectionTypeOK, OwedInv, IsConnected, Held
<1>5. SocketsTypeOK' /\ ClosesAreStopped'
  BY <1>t, <1>2 DEF TransportInd, SocketsTypeOK, ClosesAreStopped
<1>6. CallsAreNamed'
  BY <1>3 DEF TransportInd, CallsAreNamed, Phase
<1>7. FreshInv'
  <2>1. \A d \in Connection : Untouched(d) => Untouched(d)'
    BY <1>t, <1>2, <1>3 DEF Untouched, Phase
  <2>2. /\ \A d \in Connection : d > conn => Untouched(d)'
        /\ \A d \in Connection : d = conn /\ state = "connecting" => Untouched(d)'
        /\ state \in {"connecting", "connected"} => conn \in Connection
        /\ state = "connected" => served'[conn] # "before"
    BY <2>1, <1>2 DEF TransportInd, FreshInv
  <2> QED
    BY <2>2, <1>t DEF FreshInv, Untouched, Phase
<1>8. CASE ~IsConnected
  BY <1>8, <1>1, <1>4, <1>5, <1>6, <1>7, <1>t
     DEF TransportInd, SentInv, CloseFollows, PendingIsUnderWay, IsConnected
<1>9. CASE IsConnected
  <2>c. conn \in Connection
    BY <1>9 DEF TransportInd, FreshInv, IsConnected
  <2>1. PendingIsUnderWay'
    <3> SUFFICES ASSUME NEW m \in acks, served'[conn] # "closed"
                 PROVE  \/ \E i \in DOMAIN up'[conn] : up'[conn][i].of = m /\ up'[conn][i].type # "subscribe:close"
                        \/ call'[m].phase \in {"creating", "opening"} /\ call'[m].conn = conn
                        \/ \E i \in DOMAIN down[conn] : down[conn][i].of = m
      BY <1>t, <1>9 DEF PendingIsUnderWay, IsConnected, Phase
    <3>1. conn # c /\ served[conn] # "closed" /\ up'[conn] = up[conn] /\ m \in Call
      BY <1>2, <2>c DEF TransportInd, ClientTypeOK
    <3> QED
      BY <3>1, <1>3 DEF TransportInd, PendingIsUnderWay, Phase
  <2>2. SentInv' /\ CloseFollows'
    <3>1. CASE c = conn
      BY <3>1, <1>2, <2>c, <1>t DEF SentInv, CloseFollows
    <3>2. CASE c # conn
      <4>1. up'[conn] = up[conn] /\ served'[conn] = served[conn]
        BY <3>2, <1>2, <2>c
      <4>2. ASSUME NEW m \in SubCall, m[1] = conn
            PROVE  /\ call'[m].phase = call[m].phase
                   /\ call[m].phase # "unused" => call'[m] = call[m]
        <5>1. m \in Call /\ m \notin Op /\ m = <<conn, Sub(m)>>
          BY <4>2, Names DEF SubCall, Sub
        <5>2. call[m].phase # "unused" => call[m].conn = conn
          BY <5>1 DEF TransportInd, CallsAreNamed, Phase
        <5> QED
          BY <5>1, <5>2, <1>3, <3>2
      <4>3. \A id \in SubId : <<conn, id>> \in SubCall /\ <<conn, id>>[1] = conn
        BY <2>c DEF SubCall
      <4>4. ASSUME served[conn] = "open", NEW id \in SubId, Held(id)
            PROVE  \/ \E i \in DOMAIN up[conn] : up[conn][i] = Message("subscribe", <<conn, id>>)
                   \/ call'[<<conn, id>>].phase = "creating"
                   \/ /\ call'[<<conn, id>>].phase \in {"opening", "answered"}
                      /\ call'[<<conn, id>>].outcome = "refused" \/ call'[<<conn, id>>].sub = "active"
        <5> DEFINE m == <<conn, id>>
        <5>1. /\ call'[m].phase = call[m].phase
              /\ call[m].phase # "unused" => call'[m] = call[m]
          BY <4>2, <4>3
        <5>2. \/ \E i \in DOMAIN up[conn] : up[conn][i] = Message("subscribe", m)
              \/ call[m].phase = "creating"
              \/ /\ call[m].phase \in {"opening", "answered"}
                 /\ call[m].outcome = "refused" \/ call[m].sub = "active"
          BY <4>4, <1>9 DEF TransportInd, SentInv, Phase, Active
        <5> HIDE DEF m
        <5> QED
          BY <5>1, <5>2 DEF m
      <4>5. ASSUME served[conn] = "open", NEW m \in SubCall, m[1] = conn,
                   call'[m].phase = "creating" \/ Active(m)'
            PROVE  \/ Held(Sub(m)) \/ call'[m].late
                   \/ \E j \in DOMAIN up[conn] : up[conn][j] = CloseOf(m)
        BY <4>5, <4>2, <1>9 DEF TransportInd, CloseFollows, Phase, Active
      <4>6. SentInv'
        BY <4>1, <4>4, <1>t DEF SentInv, IsConnected, Held, Phase, Active, Message
      <4>7. CloseFollows'
        <5>1. served[conn] = "open" => \A i \in DOMAIN up[conn] : up[conn][i].type = "subscribe" =>
                 \/ Held(Sub(up[conn][i].of))
                 \/ \E j \in DOMAIN up[conn] : j > i /\ up[conn][j] = CloseOf(up[conn][i].of)
          BY <1>9 DEF TransportInd, CloseFollows
        <5> SUFFICES ASSUME served[conn] = "open" PROVE CloseFollows'
          BY <4>1, <1>t DEF CloseFollows
        <5>2. \A i \in DOMAIN up'[conn'] : up'[conn'][i].type = "subscribe" =>
                 \/ subs'[Sub(up'[conn'][i].of)].phase = "held"
                 \/ \E j \in DOMAIN up'[conn'] : j > i /\ up'[conn'][j] = CloseOf(up'[conn'][i].of)
          BY <5>1, <4>1, <1>t DEF Held
        <5>3. \A m \in SubCall : m[1] = conn' /\ (call'[m].phase = "creating" \/ Active(m)') =>
                 \/ Held(Sub(m))' \/ call'[m].late
                 \/ \E j \in DOMAIN up'[conn'] : up'[conn'][j] = CloseOf(m)
          BY <4>5, <4>1, <1>t DEF Held
        <5> QED
          BY <5>2, <5>3 DEF CloseFollows, Phase, Active, Held, CloseOf, Message, Sub, SubCall
      <4> QED
        BY <4>6, <4>7
    <3> QED
      BY <3>1, <3>2
  <2> QED
    BY <2>1, <2>2, <1>1, <1>4, <1>5, <1>6, <1>7 DEF TransportInd
<1> QED
  BY <1>8, <1>9


\* a call takes a step: its ack is sent if its connection is open
LEMMA CallsKeep ==
  ASSUME TransportInd, NEW m \in Call, ServerCalls(m)
  PROVE  TransportInd'
<1> DEFINE c == call[m].conn
           answers == call'[m].phase = "answered" /\ served[call[m].conn] = "open"
           ack == [of |-> m, outcome |-> call'[m].outcome]
<1>t. /\ CallStep(m) /\ HandlerInv /\ HandlerInv' /\ UNCHANGED <<state, conn, acks, subs, unsent, up>>
      /\ down' = IF answers THEN [down EXCEPT ![c] = Append(@, ack)] ELSE down
      /\ down \in [Connection -> Seq(AckType)] /\ up \in [Connection -> Seq(MessageType)]
  BY CallStepKeeps DEF ServerCalls, TransportInd, SocketsTypeOK
<1>e. /\ UNCHANGED served /\ \A n \in Call : n # m => call'[n] = call[n]
      /\ Phase(m) \in {"creating", "opening"} /\ call'[m].phase \in {"opening", "answered"}
      /\ call'[m].conn = call[m].conn /\ call'[m].id = call[m].id
      /\ call'[m].kind = call[m].kind /\ call'[m].late = call[m].late
      /\ Phase(m) = "opening" => call'[m].phase = "answered" /\ call'[m].sub = call[m].sub
      /\ call[m].kind = "subscribe" /\ Phase(m) = "creating" =>
            call'[m].outcome = "refused" \/ call'[m].sub = "active"
  BY <1>t, CallStepEffects
<1>c. /\ call[m] \in ReceivedRecord /\ c \in Connection
      /\ Phase(m) = "opening" => call[m].outcome = "none"
  BY <1>t, <1>e, CallIsUnusedOrReceived DEF HandlerInv, ReceivedRecord, AnsweredIffOutcome, Phase
<1>a. answers => ack \in AckType
  <2> SUFFICES ASSUME answers PROVE call'[m].outcome \in {"ok", "refused"}
    BY DEF AckType
  <2>1. call'[m] \in CallRecord /\ call'[m].phase # "unused" /\ call'[m].outcome # "none"
    BY <1>t, <1>e DEF HandlerInv, HandlerTypeOK
  <2> QED
    BY <2>1 DEF CallRecord, Unused
<1>d. /\ down' \in [Connection -> Seq(AckType)]
      /\ \A d \in Connection : d # c => down'[d] = down[d]
      /\ \A d \in Connection : \A i \in DOMAIN down[d] : i \in DOMAIN down'[d] /\ down'[d][i] = down[d][i]
      /\ answers => \E i \in DOMAIN down'[c] : down'[c][i].of = m
  <2>1. CASE answers
    <3>1. down' = [down EXCEPT ![c] = Append(@, ack)] /\ ack \in AckType /\ ack.of = m
      BY <2>1, <1>t, <1>a
    <3> HIDE DEF ack, answers, c
    <3>2. /\ down'[c] = Append(down[c], ack) /\ down[c] \in Seq(AckType)
          /\ \A d \in Connection : d # c => down'[d] = down[d]
      BY <3>1, <1>t, <1>c
    <3>3. /\ Append(down[c], ack) \in Seq(AckType)
          /\ \A i \in DOMAIN down[c] :
                i \in DOMAIN Append(down[c], ack) /\ Append(down[c], ack)[i] = down[c][i]
          /\ \E i \in DOMAIN Append(down[c], ack) : Append(down[c], ack)[i] = ack
      BY <3>1, <3>2, AppendedElements
    <3>4. down' \in [Connection -> Seq(AckType)]
      BY <3>1, <3>3, <1>t
    <3>5. \A d \in Connection : \A i \in DOMAIN down[d] : i \in DOMAIN down'[d] /\ down'[d][i] = down[d][i]
      BY <3>2, <3>3
    <3> QED
      BY <3>1, <3>2, <3>3, <3>4, <3>5
  <2>2. CASE ~answers
    BY <2>2, <1>t
  <2> QED
    BY <2>1, <2>2
<1>x. answers = (call'[m].phase = "answered" /\ served[c] = "open")
  OBVIOUS
<1> HIDE DEF c, answers, ack
<1>1. ClientTypeOK' /\ OwedInv' /\ SocketsTypeOK' /\ ClosesAreStopped'
  BY <1>t, <1>d DEF TransportInd, ClientTypeOK, ConnectionTypeOK, OwedInv, IsConnected, Held,
     SocketsTypeOK, ClosesAreStopped
<1>2. CallsAreNamed'
  BY <1>e DEF TransportInd, CallsAreNamed, Phase
<1>3. FreshInv'
  <2>1. \A d \in Connection : Untouched(d) => Untouched(d)'
    BY <1>t, <1>e, <1>d DEF Untouched, Phase, c
  <2>2. /\ \A d \in Connection : d > conn => Untouched(d)'
        /\ \A d \in Connection : d = conn /\ state = "connecting" => Untouched(d)'
        /\ state \in {"connecting", "connected"} => conn \in Connection
        /\ state = "connected" => served'[conn] # "before"
    BY <2>1, <1>e DEF TransportInd, FreshInv
  <2> QED
    BY <2>2, <1>t DEF FreshInv, Untouched, Phase
<1>4. SentInv'
  <2> SUFFICES ASSUME IsConnected, served[conn] = "open", NEW id \in SubId, Held(id)
               PROVE  \/ \E i \in DOMAIN up[conn] : up[conn][i] = Message("subscribe", <<conn, id>>)
                      \/ call'[<<conn, id>>].phase = "creating"
                      \/ /\ call'[<<conn, id>>].phase \in {"opening", "answered"}
                         /\ call'[<<conn, id>>].outcome = "refused" \/ call'[<<conn, id>>].sub = "active"
    BY <1>t, <1>e DEF SentInv, IsConnected, Held, Phase, Active, Message
  <2> DEFINE s == <<conn, id>>
  <2>1. s \in Call /\ s \notin Op
    BY Names DEF TransportInd, FreshInv, IsConnected
  <2>2. \/ \E i \in DOMAIN up[conn] : up[conn][i] = Message("subscribe", s)
        \/ call[s].phase = "creating"
        \/ /\ call[s].phase \in {"opening", "answered"}
           /\ call[s].outcome = "refused" \/ call[s].sub = "active"
    BY DEF TransportInd, SentInv, Phase, Active
  <2>3. Phase(s) # "unused" => call[s].kind = "subscribe"
    BY <2>1 DEF TransportInd, CallsAreNamed
  <2> HIDE DEF s
  <2>4. CASE s = m
    BY <2>2, <2>3, <2>4, <1>e, <1>c DEF Phase, s
  <2>5. CASE s # m
    BY <2>1, <2>2, <2>5, <1>e DEF s
  <2> QED
    BY <2>4, <2>5
<1>5. CloseFollows'
  <2> SUFFICES ASSUME IsConnected, served[conn] = "open" PROVE CloseFollows'
    BY <1>t, <1>e DEF CloseFollows, IsConnected
  <2>1. \A i \in DOMAIN up'[conn'] : up'[conn'][i].type = "subscribe" =>
           \/ subs'[Sub(up'[conn'][i].of)].phase = "held"
           \/ \E j \in DOMAIN up'[conn'] : j > i /\ up'[conn'][j] = CloseOf(up'[conn'][i].of)
    BY <1>t DEF TransportInd, CloseFollows, Held
  <2>2. ASSUME NEW s \in SubCall, s[1] = conn, call'[s].phase = "creating" \/ Active(s)'
        PROVE  \/ Held(Sub(s))' \/ call'[s].late
               \/ \E j \in DOMAIN up'[conn'] : up'[conn'][j] = CloseOf(s)
    <3>1. s \in Call /\ s \notin Op
      BY Names DEF SubCall
    <3>2. (call[s].phase = "creating" \/ Active(s)) /\ call'[s].late = call[s].late
      BY <2>2, <3>1, <1>e, <1>c DEF Active, Phase
    <3> QED
      BY <2>2, <3>2, <1>t DEF TransportInd, CloseFollows, Held, Phase
  <2>3. \A s \in SubCall : s[1] = conn' /\ (call'[s].phase = "creating" \/ Active(s)') =>
           \/ Held(Sub(s))' \/ call'[s].late
           \/ \E j \in DOMAIN up'[conn'] : up'[conn'][j] = CloseOf(s)
    BY <2>2, <1>t
  <2> QED
    BY <2>1, <2>3 DEF CloseFollows, Phase, Active, Held, CloseOf, Message, Sub, SubCall
<1>6. PendingIsUnderWay'
  <2> SUFFICES ASSUME NEW n \in acks
               PROVE  /\ IsConnected
                      /\ \/ served[conn] = "closed"
                         \/ \E i \in DOMAIN up[conn] : up[conn][i].of = n /\ up[conn][i].type # "subscribe:close"
                         \/ call'[n].phase \in {"creating", "opening"} /\ call'[n].conn = conn
                         \/ \E i \in DOMAIN down'[conn] : down'[conn][i].of = n
    <3>1. acks' = acks /\ conn' = conn /\ state' = state /\ up' = up /\ served' = served
      BY <1>t, <1>e
    <3>2. \A n : Phase(n)' = call'[n].phase
      BY DEF Phase
    <3> QED
      BY <3>1, <3>2 DEF PendingIsUnderWay, IsConnected
  <2>1. /\ IsConnected /\ n \in Call /\ conn \in Connection /\ served[conn] \in {"open", "closed"}
        /\ \/ served[conn] = "closed"
           \/ \E i \in DOMAIN up[conn] : up[conn][i].of = n /\ up[conn][i].type # "subscribe:close"
           \/ Phase(n) \in {"creating", "opening"} /\ call[n].conn = conn
           \/ \E i \in DOMAIN down[conn] : down[conn][i].of = n
    BY DEF TransportInd, PendingIsUnderWay, ClientTypeOK, FreshInv, IsConnected, HandlerInv, HandlerTypeOK
  <2>2. CASE n = m /\ call[n].conn = conn
    BY <2>1, <2>2, <1>e, <1>d, <1>x DEF c
  <2>3. CASE n # m
    BY <2>1, <2>3, <1>e, <1>d DEF Phase
  <2>4. CASE call[n].conn # conn
    BY <2>1, <2>4, <1>d
  <2> QED
    BY <2>2, <2>3, <2>4
<1> QED
  BY <1>t, <1>1, <1>2, <1>3, <1>4, <1>5, <1>6 DEF TransportInd


\* the messages behind the first one stay, in their order
LEMMA ReceivingShifts ==
  ASSUME up \in [Connection -> Seq(MessageType)], NEW c \in Connection, up[c] # <<>>,
         up' = [up EXCEPT ![c] = Tail(@)], NEW d \in Connection
  PROVE  /\ up' \in [Connection -> Seq(MessageType)] /\ Head(up[c]) = up[c][1] /\ 1 \in DOMAIN up[c]
         /\ \A i \in DOMAIN up'[d] : \E k \in DOMAIN up[d] :
               /\ up'[d][i] = up[d][k]
               /\ \A l \in DOMAIN up[d] : l > k => \E j \in DOMAIN up'[d] : j > i /\ up'[d][j] = up[d][l]
         /\ \A l \in DOMAIN up[d] : d # c \/ l # 1 => \E j \in DOMAIN up'[d] : up'[d][j] = up[d][l]
<1>1. /\ Tail(up[c]) \in Seq(MessageType) /\ 1 \in DOMAIN up[c] /\ Head(up[c]) = up[c][1]
      /\ \A i \in DOMAIN Tail(up[c]) : i + 1 \in DOMAIN up[c] /\ Tail(up[c])[i] = up[c][i + 1]
      /\ \A i \in DOMAIN up[c] :
            i # 1 => i \in Nat /\ i > 1 /\ i - 1 \in DOMAIN Tail(up[c]) /\ Tail(up[c])[i - 1] = up[c][i]
  BY TailElements
<1>2. up' \in [Connection -> Seq(MessageType)] /\ up'[c] = Tail(up[c]) /\ (d # c => up'[d] = up[d])
  BY <1>1
<1>3. CASE d # c
  BY <1>1, <1>2, <1>3
<1>4. CASE d = c
  <2>1. ASSUME NEW i \in DOMAIN up'[d]
        PROVE  /\ i + 1 \in DOMAIN up[d] /\ up'[d][i] = up[d][i + 1]
               /\ \A l \in DOMAIN up[d] : l > i + 1 => \E j \in DOMAIN up'[d] : j > i /\ up'[d][j] = up[d][l]
    <3>1. i \in Nat \ {0} /\ i + 1 \in DOMAIN up[d] /\ up'[d][i] = up[d][i + 1]
      BY <1>1, <1>2, <1>4, <2>1
    <3>2. ASSUME NEW l \in DOMAIN up[d], l > i + 1
          PROVE  \E j \in DOMAIN up'[d] : j > i /\ up'[d][j] = up[d][l]
      <4>1. l # 1 /\ l \in Nat
        BY <3>1, <3>2, <1>4, <1>1
      <4>2. l - 1 \in DOMAIN up'[d] /\ up'[d][l - 1] = up[d][l] /\ l - 1 > i
        BY <4>1, <3>1, <3>2, <1>1, <1>2, <1>4
      <4> QED
        BY <4>2
    <3> QED
      BY <3>1, <3>2
  <2>2. \A i \in DOMAIN up'[d] : \E k \in DOMAIN up[d] :
           /\ up'[d][i] = up[d][k]
           /\ \A l \in DOMAIN up[d] : l > k => \E j \in DOMAIN up'[d] : j > i /\ up'[d][j] = up[d][l]
    BY <2>1
  <2>3. \A l \in DOMAIN up[d] : l # 1 => \E j \in DOMAIN up'[d] : up'[d][j] = up[d][l]
    BY <1>1, <1>2, <1>4
  <2> QED
    BY <2>2, <2>3, <1>1, <1>2, <1>4
<1> QED
  BY <1>3, <1>4

\* what receiving a message does whatever it asks for
LEMMA ReceivingKeeps ==
  ASSUME TransportInd, NEW c \in Connection, up[c] # <<>>, up' = [up EXCEPT ![c] = Tail(@)],
         UNCHANGED <<served, state, conn, acks, subs, unsent, down>>
  PROVE  /\ ClientTypeOK' /\ SocketsTypeOK' /\ ClosesAreStopped' /\ OwedInv'
         /\ ~Untouched(c)
         /\ IsConnected /\ served[conn] = "open" =>
               \A i \in DOMAIN up'[conn'] : up'[conn'][i].type = "subscribe" =>
                  \/ subs'[Sub(up'[conn'][i].of)].phase = "held"
                  \/ \E j \in DOMAIN up'[conn'] : j > i /\ up'[conn'][j] = CloseOf(up'[conn'][i].of)
<1>t. up \in [Connection -> Seq(MessageType)]
  BY DEF TransportInd, SocketsTypeOK
<1>1. /\ up' \in [Connection -> Seq(MessageType)]
      /\ \A d \in Connection : \A i \in DOMAIN up'[d] : \E k \in DOMAIN up[d] : up'[d][i] = up[d][k]
  BY <1>t, ReceivingShifts
<1>2. ClientTypeOK' /\ OwedInv' /\ ~Untouched(c)
  BY DEF TransportInd, ClientTypeOK, ConnectionTypeOK, OwedInv, IsConnected, Held, Untouched
<1>3. SocketsTypeOK'
  <2> SUFFICES ASSUME NEW d \in Connection, NEW i \in DOMAIN up'[d]
               PROVE  IF up'[d][i].type = "call" THEN up'[d][i].of \in Op ELSE up'[d][i].of \in {d} \X SubId
    BY <1>1 DEF TransportInd, SocketsTypeOK
  <2>1. PICK k \in DOMAIN up[d] : up'[d][i] = up[d][k]
    BY <1>1
  <2> QED
    BY <2>1 DEF TransportInd, SocketsTypeOK
<1>4. ClosesAreStopped'
  <2> SUFFICES ASSUME NEW d \in Connection, NEW i \in DOMAIN up'[d], up'[d][i].type = "subscribe:close"
               PROVE  subs[Sub(up'[d][i].of)].phase = "stopped"
    BY DEF ClosesAreStopped
  <2>1. PICK k \in DOMAIN up[d] : up'[d][i] = up[d][k]
    BY <1>1
  <2> QED
    BY <2>1 DEF TransportInd, ClosesAreStopped
<1>5. ASSUME IsConnected, served[conn] = "open", NEW i \in DOMAIN up'[conn], up'[conn][i].type = "subscribe"
      PROVE  \/ subs[Sub(up'[conn][i].of)].phase = "held"
             \/ \E j \in DOMAIN up'[conn] : j > i /\ up'[conn][j] = CloseOf(up'[conn][i].of)
  <2>1. conn \in Connection
    BY <1>5 DEF TransportInd, FreshInv, IsConnected
  <2>2. PICK k \in DOMAIN up[conn] :
           /\ up'[conn][i] = up[conn][k]
           /\ \A l \in DOMAIN up[conn] : l > k => \E j \in DOMAIN up'[conn] : j > i /\ up'[conn][j] = up[conn][l]
    BY <2>1, <1>5, <1>t, ReceivingShifts
  <2>3. \/ Held(Sub(up[conn][k].of))
        \/ \E j \in DOMAIN up[conn] : j > k /\ up[conn][j] = CloseOf(up[conn][k].of)
    BY <2>2, <1>5 DEF TransportInd, CloseFollows
  <2> QED
    BY <2>2, <2>3 DEF Held
<1> QED
  BY <1>2, <1>3, <1>4, <1>5

\* a message starts the call it is named after, on a connection that is open
LEMMA StartKeeps ==
  ASSUME TransportInd, NEW c \in Connection, up[c] # <<>>, up' = [up EXCEPT ![c] = Tail(@)],
         UNCHANGED <<state, conn, acks, subs, unsent, down>>,
         NEW m \in Call, NEW kind \in CallKinds, NEW id \in SubId, Handle(m, c, kind, id),
         Head(up[c]).of = m, Head(up[c]).type # "subscribe:close",
         IF m \in Op THEN kind = "fetch" ELSE kind = "subscribe" /\ m = <<c, id>>
  PROVE  TransportInd'
<1>t. up \in [Connection -> Seq(MessageType)] /\ HandlerInv
  BY DEF TransportInd, SocketsTypeOK
<1>h. /\ served[c] = "open" /\ Phase(m) = "unused" /\ UNCHANGED <<served, opened>>
      /\ call'[m] = Received(c, kind, id) /\ \A n \in Call : n # m => call'[n] = call[n]
      /\ HandlerInv'
  BY <1>t, HandleKeeps DEF Handle, HandlerInv, HandlerTypeOK
<1>r. /\ call'[m].phase = "creating" /\ call'[m].conn = c /\ call'[m].id = id /\ call'[m].kind = kind
  BY <1>h DEF Received
<1>p. /\ up'= [up EXCEPT ![c] = Tail(@)] /\ up[c][1] = Head(up[c])
      /\ \A d \in Connection : \A l \in DOMAIN up[d] :
            d # c \/ l # 1 => \E j \in DOMAIN up'[d] : up'[d][j] = up[d][l]
      /\ \A d \in Connection : d # c => up'[d] = up[d]
  BY <1>t, ReceivingShifts
<1>1. /\ ClientTypeOK' /\ SocketsTypeOK' /\ ClosesAreStopped' /\ OwedInv' /\ ~Untouched(c)
      /\ IsConnected /\ served[conn] = "open" =>
            \A i \in DOMAIN up'[conn'] : up'[conn'][i].type = "subscribe" =>
               \/ subs'[Sub(up'[conn'][i].of)].phase = "held"
               \/ \E j \in DOMAIN up'[conn'] : j > i /\ up'[conn'][j] = CloseOf(up'[conn'][i].of)
  BY <1>h, ReceivingKeeps
<1>2. CallsAreNamed'
  <2> SUFFICES ASSUME NEW n \in Call, call'[n].phase # "unused"
               PROVE  IF n \in Op THEN call'[n].kind = "fetch"
                      ELSE call'[n].kind = "subscribe" /\ <<call'[n].conn, call'[n].id>> = n
    BY DEF CallsAreNamed, Phase
  <2>1. CASE n = m
    BY <2>1, <1>r
  <2>2. CASE n # m
    BY <2>2, <1>h DEF TransportInd, CallsAreNamed, Phase
  <2> QED
    BY <2>1, <2>2
<1>3. FreshInv'
  <2>1. ASSUME NEW d \in Connection, Untouched(d) PROVE Untouched(d)'
    <3>1. d # c
      BY <1>1, <2>1
    <3> QED
      BY <3>1, <2>1, <1>p, <1>h, <1>r DEF Untouched, Phase
  <2>2. /\ \A d \in Connection : d > conn => Untouched(d)'
        /\ \A d \in Connection : d = conn /\ state = "connecting" => Untouched(d)'
        /\ state \in {"connecting", "connected"} => conn \in Connection
        /\ state = "connected" => served'[conn] # "before"
    BY <2>1, <1>h DEF TransportInd, FreshInv
  <2> QED
    BY <2>2 DEF FreshInv, Untouched, Phase
<1>4. SentInv'
  <2> SUFFICES ASSUME IsConnected, served[conn] = "open", NEW i \in SubId, Held(i)
               PROVE  \/ \E j \in DOMAIN up'[conn] : up'[conn][j] = Message("subscribe", <<conn, i>>)
                      \/ call'[<<conn, i>>].phase = "creating"
                      \/ /\ call'[<<conn, i>>].phase \in {"opening", "answered"}
                         /\ call'[<<conn, i>>].outcome = "refused" \/ call'[<<conn, i>>].sub = "active"
    BY <1>h DEF SentInv, IsConnected, Held, Phase, Active, Message
  <2> DEFINE s == <<conn, i>>
  <2>c. conn \in Connection /\ s \in Call
    BY Names DEF TransportInd, FreshInv, IsConnected
  <2>1. \/ \E j \in DOMAIN up[conn] : up[conn][j] = Message("subscribe", s)
        \/ call[s].phase = "creating"
        \/ /\ call[s].phase \in {"opening", "answered"}
           /\ call[s].outcome = "refused" \/ call[s].sub = "active"
    BY DEF TransportInd, SentInv, Phase, Active
  <2>e. Message("subscribe", s).of = s
    BY DEF Message
  <2> HIDE DEF s
  <2>2. CASE s = m
    BY <2>2, <1>r DEF s
  <2>3. CASE s # m
    <3>1. CASE \E j \in DOMAIN up[conn] : up[conn][j] = Message("subscribe", s)
      <4>1. PICK j \in DOMAIN up[conn] : up[conn][j] = Message("subscribe", s)
        BY <3>1
      <4>2. conn # c \/ j # 1
        BY <4>1, <2>3, <2>e, <1>p
      <4> QED
        BY <4>1, <4>2, <2>c, <1>p DEF s
    <3>2. CASE ~\E j \in DOMAIN up[conn] : up[conn][j] = Message("subscribe", s)
      <4>1. call'[s] = call[s]
        BY <2>3, <2>c, <1>h
      <4> QED
        BY <4>1, <3>2, <2>1 DEF s
    <3> QED
      BY <3>1, <3>2
  <2> QED
    BY <2>2, <2>3
<1>5. CloseFollows'
  <2> SUFFICES ASSUME IsConnected, served[conn] = "open" PROVE CloseFollows'
    BY <1>h DEF CloseFollows, IsConnected
  <2>c. conn \in Connection
    BY DEF TransportInd, FreshInv, IsConnected
  <2>1. ASSUME NEW s \in SubCall, s[1] = conn, call'[s].phase = "creating" \/ Active(s)'
        PROVE  \/ Held(Sub(s)) \/ call'[s].late
               \/ \E j \in DOMAIN up'[conn] : up'[conn][j] = CloseOf(s)
    <3>1. s \in Call /\ s \notin Op /\ s[1] = conn
      BY <2>1, Names DEF SubCall
    <3>2. CASE s = m
      <4>1. c = conn /\ Head(up[c]).type = "subscribe"
        <5>1. m = <<c, id>> /\ m \notin Op
          BY <3>1, <3>2
        <5>2. Head(up[c]) \in MessageType /\ (Head(up[c]).type = "call" => Head(up[c]).of \in Op)
          BY <1>p, <1>t, ReceivingShifts DEF TransportInd, SocketsTypeOK
        <5> QED
          BY <5>1, <5>2, <3>1, <3>2 DEF MessageType
      <4>2. \/ Held(Sub(m))
            \/ \E l \in DOMAIN up[conn] : l > 1 /\ up[conn][l] = CloseOf(m)
        <5>1. 1 \in DOMAIN up[conn] /\ up[conn][1].of = m /\ up[conn][1].type = "subscribe"
          BY <4>1, <1>p, <1>t, ReceivingShifts
        <5> QED
          BY <5>1 DEF TransportInd, CloseFollows
      <4> QED
        BY <4>2, <3>2, <2>c, <1>p
    <3>3. CASE s # m
      <4>1. Active(s)' = Active(s) /\ call'[s] = call[s]
        BY <3>1, <3>3, <1>h DEF Active, Phase
      <4>2. \/ Held(Sub(s)) \/ call[s].late
            \/ \E j \in DOMAIN up[conn] : up[conn][j] = CloseOf(s)
        BY <4>1, <2>1 DEF TransportInd, CloseFollows, Phase
      <4>3. ASSUME NEW j \in DOMAIN up[conn], up[conn][j] = CloseOf(s) PROVE conn # c \/ j # 1
        BY <4>3, <1>p DEF CloseOf, Message
      <4> QED
        BY <4>1, <4>2, <4>3, <2>c, <1>p
    <3> QED
      BY <3>2, <3>3
  <2>2. \A s \in SubCall : s[1] = conn' /\ (call'[s].phase = "creating" \/ Active(s)') =>
           \/ Held(Sub(s))' \/ call'[s].late
           \/ \E j \in DOMAIN up'[conn'] : up'[conn'][j] = CloseOf(s)
    BY <2>1 DEF Held
  <2> QED
    BY <1>1, <2>2 DEF CloseFollows, Phase, Active, Held, CloseOf, Message, Sub, SubCall
<1>6. PendingIsUnderWay'
  <2> SUFFICES ASSUME NEW n \in acks
               PROVE  /\ IsConnected
                      /\ \/ served[conn] = "closed"
                         \/ \E i \in DOMAIN up'[conn] : up'[conn][i].of = n /\ up'[conn][i].type # "subscribe:close"
                         \/ call'[n].phase \in {"creating", "opening"} /\ call'[n].conn = conn
                         \/ \E i \in DOMAIN down[conn] : down[conn][i].of = n
    <3>2. \A x : Phase(x)' = call'[x].phase
      BY DEF Phase
    <3> QED
      BY <3>2, <1>h DEF PendingIsUnderWay, IsConnected
  <2>1. /\ IsConnected /\ n \in Call /\ conn \in Connection
        /\ \/ served[conn] = "closed"
           \/ \E i \in DOMAIN up[conn] : up[conn][i].of = n /\ up[conn][i].type # "subscribe:close"
           \/ Phase(n) \in {"creating", "opening"} /\ call[n].conn = conn
           \/ \E i \in DOMAIN down[conn] : down[conn][i].of = n
    BY DEF TransportInd, PendingIsUnderWay, ClientTypeOK, FreshInv, IsConnected
  <2>2. ASSUME NEW i \in DOMAIN up[conn], up[conn][i].of = n, up[conn][i].type # "subscribe:close"
        PROVE  \/ \E j \in DOMAIN up'[conn] : up'[conn][j].of = n /\ up'[conn][j].type # "subscribe:close"
               \/ call'[n].phase = "creating" /\ call'[n].conn = conn
    <3>1. CASE conn # c \/ i # 1
      BY <3>1, <2>1, <2>2, <1>p
    <3>2. CASE conn = c /\ i = 1
      BY <3>2, <2>2, <1>p, <1>r
    <3> QED
      BY <3>1, <3>2
  <2>3. Phase(n) \in {"creating", "opening"} => call'[n] = call[n]
    BY <2>1, <1>h
  <2> QED
    BY <2>1, <2>2, <2>3 DEF Phase
<1> QED
  BY <1>h, <1>1, <1>2, <1>3, <1>4, <1>5, <1>6 DEF TransportInd


\* subscribe:close closes an id that is held no more
LEMMA EndKeeps ==
  ASSUME TransportInd, NEW c \in Connection, up[c] # <<>>, up' = [up EXCEPT ![c] = Tail(@)],
         UNCHANGED <<state, conn, acks, subs, unsent, down>>,
         Head(up[c]).type = "subscribe:close", NEW id \in SubId, id = Sub(Head(up[c]).of),
         HandleClose(c, id)
  PROVE  TransportInd'
<1>t. up \in [Connection -> Seq(MessageType)] /\ HandlerInv /\ HandlerInv' /\ served' = served /\ served[c] = "open"
  BY HandleCloseKeeps DEF TransportInd, SocketsTypeOK, HandleClose
<1>p. /\ up[c][1] = Head(up[c]) /\ 1 \in DOMAIN up[c]
      /\ \A d \in Connection : \A l \in DOMAIN up[d] :
            d # c \/ l # 1 => \E j \in DOMAIN up'[d] : up'[d][j] = up[d][l]
      /\ \A d \in Connection : d # c => up'[d] = up[d]
  BY <1>t, ReceivingShifts
<1>s. Head(up[c]).of = <<c, id>> /\ subs[id].phase = "stopped"
  <2>1. Head(up[c]).of \in {c} \X SubId
    BY <1>p DEF TransportInd, SocketsTypeOK
  <2> QED
    BY <2>1, <1>p DEF TransportInd, ClosesAreStopped, Sub
<1>h. ASSUME NEW n \in Call
      PROVE  /\ call'[n].phase = call[n].phase
             /\ call[n].phase # "unused" =>
                  /\ call'[n].conn = call[n].conn /\ call'[n].id = call[n].id
                  /\ call'[n].kind = call[n].kind /\ call'[n].outcome = call[n].outcome
                  /\ call'[n].sub = call[n].sub \/ call'[n].sub = "stopped"
                  /\ call[n].late => call'[n].late
             /\ n = opened[c][id] => call'[n] = Unsubscribed(call[n])
             /\ Creating(n, c) /\ call[n].id = id => call'[n] = [call[n] EXCEPT !.late = TRUE]
             /\ n # opened[c][id] /\ ~(Creating(n, c) /\ call[n].id = id) => call'[n] = call[n]
  <2>1. /\ Marked(n)
        /\ n = opened[c][id] => call'[n] = Unsubscribed(call[n])
        /\ Creating(n, c) /\ call[n].id = id => call'[n] = [call[n] EXCEPT !.late = TRUE]
        /\ n # opened[c][id] /\ ~(Creating(n, c) /\ call[n].id = id) => call'[n] = call[n]
    BY <1>t, HandleCloseMarks
  <2>2. /\ call'[n].phase = call[n].phase
        /\ call[n].phase # "unused" =>
             /\ call'[n].conn = call[n].conn /\ call'[n].id = call[n].id
             /\ call'[n].kind = call[n].kind /\ call'[n].outcome = call[n].outcome
             /\ call'[n].sub = call[n].sub \/ call'[n].sub = "stopped"
             /\ call[n].late => call'[n].late
    BY <2>1, <1>t, MarkedKeeps
  <2> QED
    BY <2>1, <2>2
\* no subscription the client holds is the one that is closed
<1>k. ASSUME NEW n \in Call, n \notin Op, n # <<c, id>>, Phase(n) \in {"opening", "answered"}
      PROVE  call'[n] = call[n]
  <2>1. n # opened[c][id]
    BY <1>k, <1>t, MessageHandlerAssumption DEF TransportInd, CallsAreNamed, HandlerInv, OpenedAreCalls
  <2> QED
    BY <2>1, <1>k, <1>h DEF Creating
<1>1. /\ ClientTypeOK' /\ SocketsTypeOK' /\ ClosesAreStopped' /\ OwedInv' /\ ~Untouched(c)
      /\ IsConnected /\ served[conn] = "open" =>
            \A i \in DOMAIN up'[conn'] : up'[conn'][i].type = "subscribe" =>
               \/ subs'[Sub(up'[conn'][i].of)].phase = "held"
               \/ \E j \in DOMAIN up'[conn'] : j > i /\ up'[conn'][j] = CloseOf(up'[conn'][i].of)
  BY <1>t, ReceivingKeeps
<1>2. CallsAreNamed'
  <2> SUFFICES ASSUME NEW n \in Call, call'[n].phase # "unused"
               PROVE  IF n \in Op THEN call'[n].kind = "fetch"
                      ELSE call'[n].kind = "subscribe" /\ <<call'[n].conn, call'[n].id>> = n
    BY DEF CallsAreNamed, Phase
  <2>1. /\ call[n].phase # "unused" /\ call'[n].conn = call[n].conn /\ call'[n].id = call[n].id
        /\ call'[n].kind = call[n].kind
    BY <1>h
  <2> QED
    BY <2>1 DEF TransportInd, CallsAreNamed, Phase
<1>3. FreshInv'
  <2>1. ASSUME NEW d \in Connection, Untouched(d) PROVE Untouched(d)'
    <3>1. d # c
      BY <1>1, <2>1
    <3>2. up'[d] = <<>> /\ down'[d] = <<>>
      BY <3>1, <2>1, <1>p DEF Untouched
    <3>3. ASSUME NEW n \in Call, call'[n].phase # "unused" PROVE call'[n].conn # d
      <4>1. call[n].phase # "unused" /\ call'[n].conn = call[n].conn
        BY <3>3, <1>h
      <4> QED
        BY <4>1, <2>1 DEF Untouched, Phase
    <3> QED
      BY <3>2, <3>3 DEF Untouched, Phase
  <2>2. /\ \A d \in Connection : d > conn => Untouched(d)'
        /\ \A d \in Connection : d = conn /\ state = "connecting" => Untouched(d)'
        /\ state \in {"connecting", "connected"} => conn \in Connection
        /\ state = "connected" => served'[conn] # "before"
    BY <2>1, <1>t DEF TransportInd, FreshInv
  <2> QED
    BY <2>2 DEF FreshInv, Untouched, Phase
<1>4. SentInv'
  <2> SUFFICES ASSUME IsConnected, served[conn] = "open", NEW i \in SubId, Held(i)
               PROVE  \/ \E j \in DOMAIN up'[conn] : up'[conn][j] = Message("subscribe", <<conn, i>>)
                      \/ call'[<<conn, i>>].phase = "creating"
                      \/ /\ call'[<<conn, i>>].phase \in {"opening", "answered"}
                         /\ call'[<<conn, i>>].outcome = "refused" \/ call'[<<conn, i>>].sub = "active"
    BY <1>t DEF SentInv, IsConnected, Held, Phase, Active, Message
  <2> DEFINE s == <<conn, i>>
  <2>c. conn \in Connection /\ s \in Call /\ s \notin Op
    BY Names DEF TransportInd, FreshInv, IsConnected
  <2>1. \/ \E j \in DOMAIN up[conn] : up[conn][j] = Message("subscribe", s)
        \/ call[s].phase = "creating"
        \/ /\ call[s].phase \in {"opening", "answered"}
           /\ call[s].outcome = "refused" \/ call[s].sub = "active"
    BY DEF TransportInd, SentInv, Phase, Active
  <2>e. s # <<c, id>>
    BY <1>s DEF Held
  <2>m. Message("subscribe", s).type # "subscribe:close"
    BY DEF Message
  <2> HIDE DEF s
  <2>2. CASE \E j \in DOMAIN up[conn] : up[conn][j] = Message("subscribe", s)
    <3>1. PICK j \in DOMAIN up[conn] : up[conn][j] = Message("subscribe", s)
      BY <2>2
    <3>2. conn # c \/ j # 1
      BY <3>1, <2>m, <1>p
    <3> QED
      BY <3>1, <3>2, <2>c, <1>p DEF s
  <2>3. CASE call[s].phase = "creating"
    BY <2>3, <2>c, <1>h DEF s
  <2>4. CASE call[s].phase \in {"opening", "answered"} /\ (call[s].outcome = "refused" \/ call[s].sub = "active")
    <3>1. call'[s] = call[s]
      BY <2>4, <2>c, <2>e, <1>k DEF Phase
    <3> QED
      BY <3>1, <2>4 DEF s
  <2> QED
    BY <2>1, <2>2, <2>3, <2>4
<1>5. CloseFollows'
  <2> SUFFICES ASSUME IsConnected, served[conn] = "open" PROVE CloseFollows'
    BY <1>t DEF CloseFollows, IsConnected
  <2>c. conn \in Connection
    BY DEF TransportInd, FreshInv, IsConnected
  <2>1. ASSUME NEW s \in SubCall, s[1] = conn, call'[s].phase = "creating" \/ Active(s)'
        PROVE  \/ Held(Sub(s)) \/ call'[s].late
               \/ \E j \in DOMAIN up'[conn] : up'[conn][j] = CloseOf(s)
    <3>1. s \in Call /\ s \notin Op /\ s[1] = conn /\ s = <<conn, Sub(s)>>
      BY <2>1, Names DEF SubCall, Sub
    <3>2. /\ Phase(s) # "unused" /\ call'[s].phase = call[s].phase
          /\ Phase(s) = "creating" \/ call[s].sub = "active"
          /\ call[s].late => call'[s].late
      BY <2>1, <3>1, <1>h DEF Active, Phase
    <3>3. /\ call[s] \in ReceivedRecord /\ call[s].conn = conn /\ call[s].id = Sub(s)
          /\ call[s].kind = "subscribe"
      BY <3>1, <3>2, <1>t, CallIsUnusedOrReceived DEF HandlerInv, TransportInd, CallsAreNamed
    <3>4. CASE s = <<c, id>>
      <4>1. c = conn /\ id = Sub(s)
        BY <3>1, <3>4
      <4>2. CASE Phase(s) = "creating"
        <5>1. call'[s] = [call[s] EXCEPT !.late = TRUE]
          BY <3>1, <3>3, <4>1, <4>2, <1>h DEF Creating
        <5> QED
          BY <5>1, <3>3 DEF ReceivedRecord
      <4>3. CASE Phase(s) # "creating"
        <5>1. opened[c][id] = s
          BY <3>1, <3>2, <3>3, <4>1, <4>3, <1>t DEF HandlerInv, RunningIsFound, Active
        <5>2. call'[s].sub = "stopped"
          BY <5>1, <3>1, <3>3, <1>h DEF Unsubscribed, ReceivedRecord
        <5> QED
          BY <5>2, <2>1, <3>2, <4>3 DEF Active, Phase
      <4> QED
        BY <4>2, <4>3
    <3>5. CASE s # <<c, id>>
      <4>1. \/ Held(Sub(s)) \/ call[s].late
            \/ \E j \in DOMAIN up[conn] : up[conn][j] = CloseOf(s)
        <5>1. Phase(s) = "creating" \/ Active(s)
          BY <3>2 DEF Active
        <5> QED
          <6>1. \A m \in SubCall : m[1] = conn /\ (Phase(m) = "creating" \/ Active(m)) =>
                   \/ Held(Sub(m)) \/ call[m].late
                   \/ \E j \in DOMAIN up[conn] : up[conn][j] = CloseOf(m)
            BY DEF TransportInd, CloseFollows
          <6> HIDE DEF CloseOf
          <6> QED
            BY <6>1, <5>1, <2>1
      <4>2. ASSUME NEW j \in DOMAIN up[conn], up[conn][j] = CloseOf(s) PROVE conn # c \/ j # 1
        <5>1. CloseOf(s).of = s
          BY DEF CloseOf, Message
        <5>2. up[conn][j].of = s
          BY <5>1, <4>2
        <5>3. ASSUME conn = c, j = 1 PROVE FALSE
          BY <5>3, <5>2, <3>5, <1>p, <1>s
        <5> QED
          BY <5>3
      <4> HIDE DEF CloseOf
      <4> QED
        BY <4>1, <4>2, <3>2, <2>c, <1>p
    <3> QED
      BY <3>4, <3>5
  <2>2. \A s \in SubCall : s[1] = conn' /\ (call'[s].phase = "creating" \/ Active(s)') =>
           \/ Held(Sub(s))' \/ call'[s].late
           \/ \E j \in DOMAIN up'[conn'] : up'[conn'][j] = CloseOf(s)
    BY <2>1 DEF Held
  <2> QED
    BY <1>1, <2>2 DEF CloseFollows, Phase, Active, Held, CloseOf, Message, Sub, SubCall
<1>6. PendingIsUnderWay'
  <2> SUFFICES ASSUME NEW n \in acks
               PROVE  /\ IsConnected
                      /\ \/ served[conn] = "closed"
                         \/ \E i \in DOMAIN up'[conn] : up'[conn][i].of = n /\ up'[conn][i].type # "subscribe:close"
                         \/ call'[n].phase \in {"creating", "opening"} /\ call'[n].conn = conn
                         \/ \E i \in DOMAIN down[conn] : down[conn][i].of = n
    <3>2. \A x : Phase(x)' = call'[x].phase
      BY DEF Phase
    <3> QED
      BY <3>2, <1>t DEF PendingIsUnderWay, IsConnected
  <2>1. /\ IsConnected /\ n \in Call /\ conn \in Connection
        /\ \/ served[conn] = "closed"
           \/ \E i \in DOMAIN up[conn] : up[conn][i].of = n /\ up[conn][i].type # "subscribe:close"
           \/ Phase(n) \in {"creating", "opening"} /\ call[n].conn = conn
           \/ \E i \in DOMAIN down[conn] : down[conn][i].of = n
    BY DEF TransportInd, PendingIsUnderWay, ClientTypeOK, FreshInv, IsConnected
  <2>2. ASSUME NEW i \in DOMAIN up[conn], up[conn][i].of = n, up[conn][i].type # "subscribe:close"
        PROVE  \E j \in DOMAIN up'[conn] : up'[conn][j].of = n /\ up'[conn][j].type # "subscribe:close"
    <3>1. conn # c \/ i # 1
      BY <2>2, <1>p
    <3> QED
      BY <3>1, <2>1, <2>2, <1>p
  <2>3. Phase(n) \in {"creating", "opening"} => call'[n].phase = call[n].phase /\ call'[n].conn = call[n].conn
    BY <2>1, <1>h DEF Phase
  <2> QED
    BY <2>1, <2>2, <2>3 DEF Phase
<1> QED
  BY <1>t, <1>1, <1>2, <1>3, <1>4, <1>5, <1>6 DEF TransportInd

\* what a message makes the handler of its connection do
LEMMA ReceivesHandles ==
  ASSUME TransportInd, NEW c \in Connection, ServerReceives(c)
  PROVE  /\ UNCHANGED state
         /\ \/ \E m \in Call, kind \in CallKinds, id \in SubId :
                  /\ Handle(m, c, kind, id) /\ Head(up[c]).of = m /\ Head(up[c]).type # "subscribe:close"
                  /\ IF m \in Op THEN kind = "fetch" ELSE kind = "subscribe" /\ m = <<c, id>>
            \/ \E id \in SubId :
                  /\ HandleClose(c, id) /\ Head(up[c]).type = "subscribe:close" /\ id = Sub(Head(up[c]).of)
<1> DEFINE message == Head(up[c])
<1>t. /\ up \in [Connection -> Seq(MessageType)] /\ up[c] # <<>> /\ up' = [up EXCEPT ![c] = Tail(@)]
      /\ UNCHANGED state
  BY DEF TransportInd, SocketsTypeOK, ServerReceives
<1>m. IF message.type = "call" THEN message.of \in Op ELSE message.of \in {c} \X SubId
  BY <1>t, ReceivingShifts DEF TransportInd, SocketsTypeOK
<1> HIDE DEF message
<1>1. CASE message.type = "subscribe" /\ Handle(message.of, c, "subscribe", Sub(message.of))
  <2>1. /\ message.of = <<c, Sub(message.of)>> /\ Sub(message.of) \in SubId
        /\ message.of \in Call /\ message.of \notin Op
    BY <1>1, <1>m, Names DEF Sub
  <2> QED
    BY <1>1, <1>t, <2>1 DEF CallKinds, message
<1>2. CASE message.type = "call" /\ Handle(message.of, c, "fetch", CHOOSE id \in SubId : TRUE)
  <2>1. message.of \in Op /\ message.of \in Call
    BY <1>2, <1>m, Names
  <2>2. 1 \in SubId
    BY WebsocketTransportAssumption
  <2>3. (CHOOSE id \in SubId : TRUE) \in SubId
    BY <2>2
  <2> QED
    BY <1>2, <1>t, <2>1, <2>3 DEF CallKinds, message
<1>3. CASE message.type = "subscribe:close" /\ HandleClose(c, Sub(message.of))
  <2>1. Sub(message.of) \in SubId
    BY <1>3, <1>m DEF Sub
  <2> QED
    BY <1>3, <1>t, <2>1 DEF message
<1> QED
  BY <1>1, <1>2, <1>3 DEF ServerReceives, message

LEMMA ReceivesKeeps ==
  ASSUME TransportInd, NEW c \in Connection, ServerReceives(c)
  PROVE  TransportInd'
<1>1. /\ up[c] # <<>> /\ up' = [up EXCEPT ![c] = Tail(@)]
      /\ UNCHANGED <<state, conn, acks, subs, unsent, down>>
  BY DEF ServerReceives
<1>2. CASE \E m \in Call, kind \in CallKinds, id \in SubId :
             /\ Handle(m, c, kind, id) /\ Head(up[c]).of = m /\ Head(up[c]).type # "subscribe:close"
             /\ IF m \in Op THEN kind = "fetch" ELSE kind = "subscribe" /\ m = <<c, id>>
  BY <1>1, <1>2, StartKeeps
<1>3. CASE \E id \in SubId :
             /\ HandleClose(c, id) /\ Head(up[c]).type = "subscribe:close" /\ id = Sub(Head(up[c]).of)
  BY <1>1, <1>3, EndKeeps
<1> QED
  BY <1>2, <1>3, ReceivesHandles

-----------------------------------------------------------------------------
(* The invariant *)

LEMMA InitIsGood == TransportInit => TransportInd
<1> SUFFICES ASSUME TransportInit PROVE TransportInd
  OBVIOUS
<1>1. HandlerInv
  <2>1. HandlerInit
    BY DEF TransportInit
  <2> QED
    BY <2>1, InitHandlerInv
<1>2. /\ state = "closed" /\ conn = 0 /\ acks = {} /\ unsent = Op
      /\ subs = [id \in SubId |-> [phase |-> "new", thenable |-> "pending"]]
      /\ up = [c \in Connection |-> <<>>] /\ down = [c \in Connection |-> <<>>]
      /\ call = [m \in Call |-> Unused]
  BY DEF TransportInit, ConnectionInit, HandlerInit
<1>3. \A m \in Call : Phase(m) = "unused"
  BY <1>2 DEF Phase, Unused
<1>4. subs \in [SubId -> SubRecord]
  <2>1. [phase |-> "new", thenable |-> "pending"] \in SubRecord
    BY DEF SubRecord
  <2> QED
    BY <2>1, <1>2
<1>5. ClientTypeOK
  BY <1>2, <1>4, WebsocketTransportAssumption DEF ClientTypeOK, ConnectionTypeOK
<1>6. SocketsTypeOK
  <2>1. <<>> \in Seq(MessageType) /\ <<>> \in Seq(AckType) /\ \A i \in DOMAIN <<>> : FALSE
    OBVIOUS
  <2> QED
    BY <2>1, <1>2 DEF SocketsTypeOK
<1>7. CallsAreNamed
  BY <1>3 DEF CallsAreNamed
<1>8. FreshInv /\ ClosesAreStopped
  BY <1>2, <1>3 DEF FreshInv, Untouched, ClosesAreStopped
<1>9. OwedInv /\ SentInv /\ CloseFollows /\ PendingIsUnderWay
  BY <1>2 DEF OwedInv, SentInv, CloseFollows, PendingIsUnderWay, IsConnected
<1> QED
  BY <1>1, <1>5, <1>6, <1>7, <1>8, <1>9 DEF TransportInd

(***************************************************************************)
(* The inductive invariant of the transport: every state of the client,    *)
(* of what its sockets carry and of what the server runs for it relates as *)
(* its conjuncts say, whatever is lost and whenever.                       *)
(***************************************************************************)
THEOREM TransportInvariant == TransportSpec => []TransportInd
<1>1. TransportInd /\ [TransportNext]_transportVars => TransportInd'
  <2> SUFFICES ASSUME TransportInd, [TransportNext]_transportVars PROVE TransportInd'
    OBVIOUS
  <2>1. ASSUME NEW id \in SubId, Subscribe(id) PROVE TransportInd'
    BY <2>1, SubscribeKeeps
  <2>2. ASSUME NEW id \in SubId, Stop(id) PROVE TransportInd'
    BY <2>2, StopKeeps
  <2>3. ASSUME NEW op \in Op, Send(op) PROVE TransportInd'
    BY <2>3, SendKeeps
  <2>4. CASE Connects \/ Disconnected \/ ClosedForGood
    BY <2>4, ConnectionKeeps
  <2>5. CASE Connected
    BY <2>5, ConnectedKeeps
  <2>6. ASSUME NEW c \in Connection, ServerAccepts(c) PROVE TransportInd'
    BY <2>6, AcceptsKeeps
  <2>7. ASSUME NEW c \in Connection, ServerCloses(c) PROVE TransportInd'
    BY <2>7, ClosesKeeps
  <2>8. CASE ReceiveAck
    BY <2>8, ReceiveAckKeeps
  <2>9. ASSUME NEW c \in Connection, ServerReceives(c) PROVE TransportInd'
    BY <2>9, ReceivesKeeps
  <2>10. ASSUME NEW m \in Call, ServerCalls(m) PROVE TransportInd'
    BY <2>10, CallsKeep
  <2>11. CASE UNCHANGED transportVars
    <3>1. UNCHANGED <<served, opened, call, state, conn, acks, subs, unsent, up, down>>
      BY <2>11 DEF transportVars, handlerVars, clientVars
    <3>2. HandlerInv'
      BY <3>1 DEF TransportInd, HandlerInv, HandlerTypeOK, OpenedAreCalls, RunningIsFound,
         CreatingHasNone, NoneBefore, ClosedIsLate, ActiveIsSubscribe, Active, Phase
    <3>3. ClientTypeOK' /\ SocketsTypeOK' /\ CallsAreNamed' /\ FreshInv' /\ ClosesAreStopped'
      BY <3>1 DEF TransportInd, ClientTypeOK, ConnectionTypeOK, SocketsTypeOK, CallsAreNamed,
         FreshInv, Untouched, ClosesAreStopped, Phase
    <3>4. OwedInv' /\ SentInv' /\ CloseFollows' /\ PendingIsUnderWay'
      BY <3>1 DEF TransportInd, OwedInv, SentInv, CloseFollows, PendingIsUnderWay, IsConnected,
         Held, Phase, Active
    <3> QED
      BY <3>2, <3>3, <3>4 DEF TransportInd
  <2> QED
    BY <2>1, <2>2, <2>3, <2>4, <2>5, <2>6, <2>7, <2>8, <2>9, <2>10, <2>11
       DEF TransportNext, Delivery, Calls
<1> QED
  BY <1>1, InitIsGood, PTL DEF TransportSpec

(***************************************************************************)
(* The transport's types, and a promise of send or of a subscribe that was *)
(* sent is pending only on the connection in use, while its message, its   *)
(* call or its ack is under way or the server has closed the socket: none  *)
(* outlives the loss of its connection (acks of the state listener).       *)
(***************************************************************************)
THEOREM PromisesAreUnderWay == TransportSpec => []TransportInv
<1>1. TransportInd => TransportInv
  BY DEF TransportInd, TransportInv, TransportTypeOK, ClientTypeOK, SocketsTypeOK, HandlerInv
<1> QED
  BY <1>1, TransportInvariant, PTL

(***************************************************************************)
(* A connected client that has nothing under way runs each subscription it *)
(* holds on this connection, or was told it is refused, and its thenable   *)
(* has settled (sendSubscription, the state listener).                     *)
(***************************************************************************)
THEOREM HeldAreResubscribed == TransportSpec => []Resubscribed
<1>1. TransportInd => Resubscribed
  <2> SUFFICES ASSUME TransportInd, Quiet, NEW id \in SubId, Held(id)
               PROVE  /\ subs[id].thenable # "pending"
                      /\ Phase(<<conn, id>>) = "answered"
                      /\ call[<<conn, id>>].outcome = "ok" => Active(<<conn, id>>)
    BY DEF Resubscribed
  <2> DEFINE m == <<conn, id>>
  <2>1. /\ IsConnected /\ served[conn] = "open" /\ conn \in Connection
        /\ DOMAIN up[conn] = {} /\ DOMAIN down[conn] = {}
    BY DEF Quiet, TransportInd, FreshInv, IsConnected
  <2>2. m \in Call /\ m \notin Op /\ m[1] = conn
    BY <2>1, Names
  <2> HIDE DEF m
  <2>3. Phase(m) \notin {"creating", "opening"}
    <3>1. Phase(m) \in {"creating", "opening"} => call[m].conn = conn
      BY <2>2 DEF TransportInd, CallsAreNamed, m
    <3> QED
      BY <3>1, <2>2 DEF Quiet, Answered
  <2>4. m \notin acks
    BY <2>1, <2>3 DEF TransportInd, PendingIsUnderWay
  <2>5. subs[id].thenable # "pending"
    BY <2>1, <2>4 DEF TransportInd, OwedInv, m
  <2>6. Phase(m) \in {"opening", "answered"} /\ (call[m].outcome = "refused" \/ Active(m))
    BY <2>1, <2>3 DEF TransportInd, SentInv, m
  <2> QED
    BY <2>3, <2>5, <2>6 DEF m
<1> QED
  BY <1>1, TransportInvariant, PTL

(***************************************************************************)
(* When nothing is under way the server runs for this connection only what *)
(* its client still holds, but for a subscription closed while its query   *)
(* was awaited (stop of subscribe, subscribe:close).                       *)
(***************************************************************************)
THEOREM NoneIsOrphan == TransportSpec => []NoOrphan
<1>1. TransportInd => NoOrphan
  <2> SUFFICES ASSUME TransportInd, Quiet, NEW m \in Call, Active(m), call[m].conn = conn
               PROVE  Held(call[m].id) \/ call[m].late
    BY DEF NoOrphan
  <2>1. IsConnected /\ served[conn] = "open" /\ DOMAIN up[conn] = {}
    BY DEF Quiet
  <2>2. m \notin Op /\ <<call[m].conn, call[m].id>> = m
    BY DEF TransportInd, HandlerInv, ActiveIsSubscribe, CallsAreNamed, Active
  <2>3. m \in SubCall /\ m[1] = conn /\ Sub(m) = call[m].id
    BY <2>2, Names DEF Sub
  <2>4. \/ Held(Sub(m)) \/ call[m].late
        \/ \E j \in DOMAIN up[conn] : up[conn][j] = CloseOf(m)
    BY <2>1, <2>3 DEF TransportInd, CloseFollows
  <2> QED
    BY <2>1, <2>3, <2>4
<1> QED
  BY <1>1, TransportInvariant, PTL


(***************************************************************************)
(* README of liwi-resources-websocket-client: close settles the thenable   *)
(* of every subscription held, and no later step, of a connection or       *)
(* another, sends a subscription that was stopped or ended.                *)
(***************************************************************************)
THEOREM CloseEnds == TransportSpec => CloseEndsSubscriptions
<1>1. TransportInd /\ [TransportNext]_transportVars =>
         [\A id \in SubId :
            /\ Held(id) /\ state # "closed" /\ state' = "closed" => subs'[id].thenable # "pending"
            /\ subs[id].phase \in {"stopped", "closed"} =>
                  \A m \in acks' \ acks : m \notin Op => Sub(m) # id]_transportVars
  <2> SUFFICES ASSUME TransportInd, TransportNext, NEW id \in SubId
               PROVE  /\ Held(id) /\ state # "closed" /\ state' = "closed" => subs'[id].thenable # "pending"
                      /\ subs[id].phase \in {"stopped", "closed"} =>
                            \A m \in acks' \ acks : m \notin Op => Sub(m) # id
    OBVIOUS
  <2> DEFINE Ends == Held(id) /\ state # "closed" /\ state' = "closed" => subs'[id].thenable # "pending"
             Stays == subs[id].phase \in {"stopped", "closed"} =>
                         \A m \in acks' \ acks : m \notin Op => Sub(m) # id
  <2>1. ASSUME NEW other \in SubId, Subscribe(other) PROVE Ends /\ Stays
    <3>1. state' = state /\ subs[other].phase = "new"
      BY <2>1 DEF Subscribe
    <3>2. acks' \subseteq acks \cup ({conn} \X {other})
      BY <2>1 DEF Subscribe, SendSubscriptions
    <3> QED
      BY <3>1, <3>2 DEF Sub
  <2>2. CASE Connected
    <3>1. state' = "connected" /\ acks' = acks \cup ({conn} \X HeldSubscriptions)
      BY <2>2 DEF Connected, Establish, SendSubscriptions
    <3>2. \A other \in HeldSubscriptions : subs[other].phase = "held"
      BY DEF HeldSubscriptions, Held
    <3> QED
      BY <3>1, <3>2 DEF Sub
  <2>3. ASSUME NEW op \in Op, Send(op) PROVE Ends /\ Stays
    BY <2>3 DEF Send
  <2>4. CASE ClosedForGood
    <3>1. /\ acks' = {} /\ subs' = [any \in SubId |-> IF Held(any) THEN Ended(subs[any]) ELSE subs[any]]
          /\ subs[id] \in SubRecord
      BY <2>4 DEF ClosedForGood, RejectAcks, TransportInd, ClientTypeOK
    <3>2. Held(id) => subs'[id].thenable # "pending"
      BY <3>1 DEF Ended, Settle, SubRecord
    <3> QED
      BY <3>1, <3>2
  <2>5. CASE Connects \/ Disconnected
    BY <2>5 DEF Connects, Attempt, Disconnected, Lose, RejectAcks
  <2>6. CASE ReceiveAck
    BY <2>6 DEF ReceiveAck
  <2>7. CASE \/ \E c \in Connection : ServerAccepts(c) \/ ServerCloses(c) \/ ServerReceives(c)
             \/ \E m \in Call : ServerCalls(m)
    BY <2>7 DEF ServerAccepts, ServerCloses, ServerReceives, ServerCalls, clientVars
  <2>8. ASSUME NEW other \in SubId, Stop(other) PROVE Ends /\ Stays
    BY <2>8 DEF Stop
  <2> QED
    BY <2>1, <2>2, <2>3, <2>4, <2>5, <2>6, <2>7, <2>8 DEF TransportNext, Delivery, Calls
<1> QED
  BY <1>1, TransportInvariant, PTL DEF TransportSpec, CloseEndsSubscriptions

(***************************************************************************)
(* The transport is a client of its parts as they are specified: the       *)
(* handlers of its sockets run as MessageHandler says, so that its         *)
(* theorems hold here, and what it is told of its connection is what       *)
(* ConnectionState promises (and WebsocketClient implements).              *)
(***************************************************************************)
THEOREM TransportRunsItsParts == TransportSpec => HandlerSpec /\ ConnectionSpec
<1>1. TransportInit => HandlerInit /\ ConnectionInit
  BY DEF TransportInit
<1>2. TransportInd /\ [TransportNext]_transportVars => [HandlerNext]_handlerVars /\ [ConnectionNext]_state
  <2> SUFFICES ASSUME TransportInd, [TransportNext]_transportVars
               PROVE  [HandlerNext]_handlerVars /\ [ConnectionNext]_state
    OBVIOUS
  <2>1. ASSUME NEW id \in SubId, Subscribe(id) \/ Stop(id)
        PROVE  UNCHANGED handlerVars /\ UNCHANGED state
    BY <2>1 DEF Subscribe, Stop
  <2>2. ASSUME NEW op \in Op, Send(op) PROVE UNCHANGED handlerVars /\ UNCHANGED state
    BY <2>2 DEF Send
  <2>3. CASE Connects \/ Connected \/ Disconnected \/ ClosedForGood
    BY <2>3 DEF Connects, Connected, Disconnected, ClosedForGood, ConnectionNext
  <2>4. ASSUME NEW c \in Connection, ServerAccepts(c) \/ ServerCloses(c)
        PROVE  HandlerNext /\ UNCHANGED state
    BY <2>4 DEF ServerAccepts, ServerCloses, HandlerNext
  <2>5. CASE ReceiveAck
    BY <2>5 DEF ReceiveAck
  <2>6. ASSUME NEW c \in Connection, ServerReceives(c) PROVE HandlerNext /\ UNCHANGED state
    BY <2>6, ReceivesHandles DEF HandlerNext
  <2>7. ASSUME NEW m \in Call, ServerCalls(m) PROVE HandlerNext /\ UNCHANGED state
    BY <2>7 DEF ServerCalls, HandlerNext
  <2>8. CASE UNCHANGED transportVars
    BY <2>8 DEF transportVars
  <2> QED
    BY <2>1, <2>2, <2>3, <2>4, <2>5, <2>6, <2>7, <2>8 DEF TransportNext, Delivery, Calls
<1> QED
  BY <1>1, <1>2, TransportInvariant, PTL DEF TransportSpec, HandlerSpec, ConnectionSpec
=============================================================================
