---------------------------- MODULE WebsocketClient ----------------------------
(***************************************************************************)
(* createSimpleWebsocketClient of liwi-resources-websocket-client: one     *)
(* socket at a time, replaced after a failure, later when the page is      *)
(* hidden, until the application closes it or the server refuses it.       *)
(*                                                                         *)
(* A socket keeps its listeners when the client no longer uses it.  It     *)
(* delivers no message once it is closing, and always ends with a close    *)
(* event, after an error event if it failed.  The application connects     *)
(* when the client is closed.                                              *)
(***************************************************************************)
EXTENDS Naturals, FiniteSets

CONSTANTS
    Socket,                \* the sockets that may be created
    NoSocket,              \* ws is null
    Reconnection,          \* options.reconnection
    ReconnectionAttempts,  \* options.reconnectionAttempts, 0 for Infinity
    HasVisibility,         \* a visibility source is given or detected
    MaxConnects,           \* bound: calls of connect by the application
    MaxFailures            \* bound: sockets that fail

ASSUME WebsocketClientAssumption ==
    /\ NoSocket \notin Socket
    /\ {Reconnection, HasVisibility} \subseteq BOOLEAN
    /\ {ReconnectionAttempts, MaxConnects, MaxFailures} \subseteq Nat

VARIABLES
    ws,        \* the socket in use
    current,   \* currentState
    timer,     \* the tryReconnect timeout is pending
    attempts,  \* attempts of the backoff, when they are limited
    page,      \* whether it is hidden, and its changes are listened to
    sockets,   \* the sockets, with the closure of their connect
    reported,  \* history: the last connection failure told, and its socket
    budget     \* what is left of the bounds

vars == <<ws, current, timer, attempts, page, sockets, reported, budget>>

Phases == {"unused", "opening", "open", "failing", "closing", "gone"}
ConnectionStates == {"closed", "connecting", "connected", "reconnect-scheduled", "wait-for-visibility"}

UnusedSocket == [phase |-> "unused", isAcked |-> FALSE, isRefused |-> FALSE, failureHandled |-> FALSE]
NoReport == [socket |-> NoSocket, willReconnect |-> FALSE]

TypeOK ==
    /\ ws \in Socket \cup {NoSocket}
    /\ current \in ConnectionStates
    /\ timer \in BOOLEAN
    /\ attempts \in 0..ReconnectionAttempts
    /\ page \in [isHidden : BOOLEAN, isListened : BOOLEAN]
    /\ sockets \in [Socket -> [phase : Phases, isAcked : BOOLEAN, isRefused : BOOLEAN,
                               failureHandled : BOOLEAN]]
    /\ reported \in [socket : Socket \cup {NoSocket}, willReconnect : BOOLEAN]
    /\ budget \in [connects : Nat, failures : Nat]

Init ==
    /\ ws = NoSocket
    /\ current = "closed"
    /\ timer = FALSE
    /\ attempts = 0
    /\ page \in [isHidden : IF HasVisibility THEN BOOLEAN ELSE {FALSE},
                 isListened : {HasVisibility /\ Reconnection}]
    /\ sockets = [s \in Socket |-> UnusedSocket]
    /\ reported = NoReport
    /\ budget = [connects |-> MaxConnects, failures |-> MaxFailures]

\* a socket the client closes ends later, with a close event
Closing(r) == IF r.phase \in {"opening", "open"} THEN [r EXCEPT !.phase = "closing"] ELSE r

\* connect: the socket that was in use is left as it is
Connect(s) ==
    /\ sockets[s].phase = "unused"
    /\ sockets' = [sockets EXCEPT ![s].phase = "opening"]
    /\ ws' = s
    /\ current' = "connecting"

\* variant: the timeout of the next attempt is kept
CloseWebsocketKeepsTimer(after) ==
    /\ ws' = NoSocket
    /\ current' = "closed"
    /\ timer' = timer
    /\ sockets' = [after EXCEPT ![ws] = Closing(@)]
\* closeWebsocket, the sockets being those of after
CloseWebsocket(after) ==
    /\ ws' = NoSocket
    /\ current' = "closed"
    /\ timer' = FALSE
    /\ sockets' = [after EXCEPT ![ws] = Closing(@)]

IsLimited == ReconnectionAttempts > 0

\* variant: the timeout is cleared once it is set
TryReconnectCleared(counted) ==
    attempts' = counted /\ current' = "reconnect-scheduled" /\ timer' = FALSE
\* variant: an attempt that fails is not tried again
TryReconnectOnce(counted) ==
    IF current # "connected" THEN attempts' = counted /\ UNCHANGED <<current, timer>>
    ELSE attempts' = counted /\ current' = "reconnect-scheduled" /\ timer' = TRUE
\* tryReconnect, with the attempts the backoff counts
TryReconnect(counted) ==
    \/ /\ (IsLimited /\ counted >= ReconnectionAttempts) \/ current = "reconnect-scheduled"
       /\ attempts' = counted
       /\ UNCHANGED <<current, timer>>
    \/ /\ IsLimited => counted < ReconnectionAttempts
       /\ current # "reconnect-scheduled"
       /\ attempts' = IF IsLimited THEN counted + 1 ELSE counted
       /\ current' = "reconnect-scheduled"
       /\ timer' = TRUE

\* variant: each event of a failing socket is handled
FirstFailureAlways(s) == TRUE
FirstFailure(s) == ~sockets[s].failureHandled

\* variant: whoever can watch the page waits for it
WaitsForPageAlways == HasVisibility
WaitsForPage == page.isHidden

\* handleConnectionFailure of the socket s, which is now in the phase given; the
\* closure of connect does not look whether s is the socket in use
HandleConnectionFailure(s, phase) ==
    LET after == [sockets EXCEPT ![s].phase = phase, ![s].failureHandled = TRUE]
        willReconnect == Reconnection /\ ~sockets[s].isRefused
    IN  \/ /\ ~FirstFailure(s) \/ current = "closed"
           /\ sockets' = after
           /\ UNCHANGED <<ws, current, timer, attempts, reported>>
        \/ /\ FirstFailure(s) /\ current # "closed"
           /\ reported' = [socket |-> s, willReconnect |-> willReconnect]
           /\ \/ /\ ~willReconnect
                 /\ CloseWebsocket(after)
                 /\ UNCHANGED attempts
              \/ /\ willReconnect /\ WaitsForPage
                 /\ current' = "wait-for-visibility"
                 /\ sockets' = after
                 /\ UNCHANGED <<ws, timer, attempts>>
              \/ /\ willReconnect /\ ~WaitsForPage
                 /\ TryReconnect(attempts)
                 /\ sockets' = after
                 /\ UNCHANGED ws

-----------------------------------------------------------------------------
(* The application *)

AppConnect ==
    /\ current = "closed"
    /\ budget.connects > 0
    /\ \E s \in Socket : Connect(s)
    /\ budget' = [budget EXCEPT !.connects = @ - 1]
    /\ UNCHANGED <<timer, attempts, page, reported>>

AppClose ==
    /\ ws # NoSocket
    /\ CloseWebsocket(sockets)
    /\ page' = [page EXCEPT !.isListened = FALSE]
    /\ UNCHANGED <<attempts, reported, budget>>

\* the page is hidden or shown, and its listener called
Hide ==
    /\ HasVisibility /\ ~page.isHidden
    /\ page' = [page EXCEPT !.isHidden = TRUE]
    /\ IF page.isListened /\ current = "reconnect-scheduled"
       THEN current' = "wait-for-visibility" /\ timer' = FALSE
       ELSE UNCHANGED <<current, timer>>
    /\ UNCHANGED <<ws, attempts, sockets, reported, budget>>

Show ==
    /\ page.isHidden
    /\ page' = [page EXCEPT !.isHidden = FALSE]
    /\ IF page.isListened /\ current = "wait-for-visibility"
       THEN TryReconnect(0)
       ELSE UNCHANGED <<current, timer, attempts>>
    /\ UNCHANGED <<ws, sockets, reported, budget>>

-----------------------------------------------------------------------------
(* The events of a socket, and the timeout *)

Opens(s) ==
    /\ sockets[s].phase = "opening" /\ ~sockets[s].isRefused
    /\ sockets' = [sockets EXCEPT ![s].phase = "open"]
    /\ attempts' = 0
    /\ UNCHANGED <<ws, current, timer, page, reported, budget>>

\* The server sends connection-ack once.  Assumed: a socket that close left behind, which
\* is closing, delivers no message any more.
ConnectionAck(s) ==
    /\ sockets[s].phase = "open" /\ ~sockets[s].isAcked
    /\ sockets' = [sockets EXCEPT ![s].isAcked = TRUE]
    /\ current' = "connected"
    /\ UNCHANGED <<ws, timer, attempts, page, reported, budget>>

\* unexpected-response with a 4xx status: isUnrecoverableFailure
Refuse(s) ==
    /\ sockets[s].phase = "opening" /\ ~sockets[s].isRefused
    /\ budget.failures > 0
    /\ sockets' = [sockets EXCEPT ![s].isRefused = TRUE]
    /\ budget' = [budget EXCEPT !.failures = @ - 1]
    /\ UNCHANGED <<ws, current, timer, attempts, page, reported>>

\* the error event of a socket, refused or cut
Fails(s) ==
    /\ sockets[s].phase \in {"opening", "open"}
    /\ HandleConnectionFailure(s, "failing")
    /\ \/ sockets[s].isRefused /\ UNCHANGED budget
       \/ /\ ~sockets[s].isRefused /\ budget.failures > 0
          /\ budget' = [budget EXCEPT !.failures = @ - 1]
    /\ UNCHANGED page

\* the close event: after an error, after the client closed, or the server did
Closed(s) ==
    /\ \/ sockets[s].phase \in {"failing", "closing"} /\ UNCHANGED budget
       \/ /\ sockets[s].phase = "open" /\ budget.failures > 0
          /\ budget' = [budget EXCEPT !.failures = @ - 1]
    /\ HandleConnectionFailure(s, "gone")
    /\ UNCHANGED page

TimerFires ==
    /\ timer
    /\ timer' = FALSE
    /\ \E s \in Socket : Connect(s)
    /\ UNCHANGED <<attempts, page, reported, budget>>

SocketStep(s) == Opens(s) \/ ConnectionAck(s) \/ Refuse(s) \/ Fails(s) \/ Closed(s)

Next ==
    \/ AppConnect \/ AppClose \/ Hide \/ Show \/ TimerFires
    \/ \E s \in Socket : SocketStep(s)

Spec == Init /\ [][Next]_vars

\* a timeout fires; a socket opens, is acked, fails or ends once it was closed
SocketProgresses(s) ==
    /\ sockets[s].phase \in {"opening", "failing", "closing"} \/ ~sockets[s].isAcked
    /\ SocketStep(s)
Fairness == WF_vars(TimerFires) /\ \A s \in Socket : WF_vars(SocketProgresses(s))
FairSpec == Spec /\ Fairness

-----------------------------------------------------------------------------
(* Properties *)

InUse(s) == sockets[s].phase = "open"

(***************************************************************************)
(* While the client says it is connected, the socket it sends over is open *)
(* and was acknowledged: a message of a connected client is never lost by  *)
(* the choice of the socket (sendMessage).                                 *)
(***************************************************************************)
ConnectedSends ==
    current = "connected" => ws # NoSocket /\ InUse(ws) /\ sockets[ws].isAcked

(***************************************************************************)
(* No two sockets are open: messages of an abandoned connection never      *)
(* reach onMessage beside those of the current one (connect replaces ws    *)
(* without closing it).                                                    *)
(***************************************************************************)
OneOpenSocket == \A s, t \in Socket : InUse(s) /\ InUse(t) => s = t

(***************************************************************************)
(* The invariants of every state: types, and the one open socket.          *)
(***************************************************************************)
ClientInv == TypeOK /\ OneOpenSocket

(***************************************************************************)
(* A closed client has no socket in use and no attempt scheduled: nothing  *)
(* connects it again but the application (closeWebsocket).                 *)
(***************************************************************************)
ClosedIsQuiet == current = "closed" => ws = NoSocket /\ ~timer /\ \A s \in Socket : ~InUse(s)

\* what those who listen to the client's state see of it
ListenedState == IF current \in {"reconnect-scheduled", "wait-for-visibility"} THEN "lost" ELSE current
Listened == INSTANCE ConnectionState WITH state <- ListenedState

(***************************************************************************)
(* The client is a connection as its listeners know it: connected only     *)
(* after connecting, lost or closed before it connects again.              *)
(***************************************************************************)
ImplementsConnection == Listened!ConnectionSpec

Exhausted == IsLimited /\ attempts >= ReconnectionAttempts
\* tryReconnect returned with nothing scheduled: the state stays what it was
GivenUp == Exhausted /\ ~timer /\ ws # NoSocket /\ sockets[ws].failureHandled

(***************************************************************************)
(* A client that attempts to connect ends up connected, closed by a        *)
(* refusal, waiting for a page that is hidden, or without an attempt left: *)
(* it does not hang in an attempt (tryReconnect and the timeout it sets).  *)
(***************************************************************************)
AttemptsEnd ==
    current \in {"connecting", "reconnect-scheduled"}
        ~> current \in {"connected", "closed", "wait-for-visibility"} \/ GivenUp

(***************************************************************************)
(* README of liwi-resources-websocket-client, Behaviour: wait-for-         *)
(* visibility means reconnection is deferred while the tab is hidden, and  *)
(* resumes on visibilitychange.  close stops listening to it for good.     *)
(***************************************************************************)
WaitsOnlyWhileHidden == current = "wait-for-visibility" => page.isHidden

(***************************************************************************)
(* README of liwi-resources-websocket-client, Connection failures:         *)
(* onConnectionFailure fires exactly once per lost or rejected connection. *)
(* The socket that close left behind is taken for a lost connection.       *)
(***************************************************************************)
FailuresAreOfSocketInUse ==
    [][reported' # reported => reported'.socket = ws]_vars

(***************************************************************************)
(* When a failure is told with a reconnection that follows, one is         *)
(* scheduled or waits for the page, unless the attempts are exhausted      *)
(* (willReconnect of handleConnectionFailure).                             *)
(***************************************************************************)
AnnouncedReconnectionFollows ==
    [][(reported' # reported /\ reported'.willReconnect) =>
          current' \in {"reconnect-scheduled", "wait-for-visibility"} \/ Exhausted]_vars
=============================================================================
