------------------------- MODULE MessageHandler_proofs -------------------------
(***************************************************************************)
(* Proofs about one message handler per connection, for any sets of        *)
(* connections, ids and calls.                                             *)
(***************************************************************************)
EXTENDS MessageHandler, TLAPS

\* what a call is once it was received
ReceivedRecord ==
    [phase : {"creating", "opening", "answered"}, kind : CallKinds,
     conn : Connection, id : SubId,
     sub : {"none", "active", "stopped"}, outcome : {"none", "ok", "refused"}, late : BOOLEAN]
AnsweredIffOutcome(r) == (r.phase = "answered") = (r.outcome # "none")

\* what openedSubscriptions holds was opened there, under that id
OpenedAreCalls ==
    \A c \in Connection, id \in SubId :
        opened[c][id] # NoCall =>
            /\ opened[c][id] \in Call
            /\ Phase(opened[c][id]) \in {"opening", "answered"}
            /\ call[opened[c][id]].conn = c /\ call[opened[c][id]].id = id

\* a call that awaits its query has made no subscription yet
CreatingHasNone ==
    \A m \in Call : Phase(m) = "creating" => call[m].sub = "none"

\* a call is received on a connection that was accepted
NoneBefore ==
    \A m \in Call : Phase(m) # "unused" => served[call[m].conn] # "before"

\* on a closed connection, what runs or may still run is late
ClosedIsLate ==
    \A m \in Call :
        Phase(m) # "unused" /\ call[m].kind = "subscribe" /\ served[call[m].conn] = "closed"
          /\ (Phase(m) = "creating" \/ call[m].sub = "active") => call[m].late

\* only subscribe and fetchAndSubscribe open one
ActiveIsSubscribe ==
    \A m \in Call : Active(m) => call[m].kind = "subscribe"

HandlerInv ==
    /\ HandlerTypeOK /\ OpenedAreCalls /\ RunningIsFound /\ CreatingHasNone
    /\ NoneBefore /\ ClosedIsLate /\ ActiveIsSubscribe

-----------------------------------------------------------------------------
\* a call is unused or a received record, never both
LEMMA CallIsUnusedOrReceived ==
  ASSUME HandlerTypeOK, NEW m \in Call
  PROVE  \/ call[m] = Unused /\ Phase(m) = "unused"
         \/ call[m] \in ReceivedRecord /\ Phase(m) # "unused" /\ AnsweredIffOutcome(call[m])
  BY DEF HandlerTypeOK, CallRecord, ReceivedRecord, Unused, Phase, AnsweredIffOutcome

\* replacing one call by a received record keeps the type of the calls
LEMMA CallsType ==
  ASSUME HandlerTypeOK, NEW m \in Call, NEW r \in ReceivedRecord, AnsweredIffOutcome(r),
         call' = [call EXCEPT ![m] = r],
         served' \in [Connection -> {"before", "open", "closed"}],
         opened' \in [Connection -> [SubId -> Call \cup {NoCall}]]
  PROVE  HandlerTypeOK'
<1>1. r \in CallRecord /\ call \in [Call -> CallRecord]
  BY DEF ReceivedRecord, CallRecord, HandlerTypeOK
<1>2. call' \in [Call -> CallRecord]
  BY <1>1
<1>3. ASSUME NEW n \in Call, call'[n].phase # "unused"
      PROVE  (call'[n].phase = "answered") = (call'[n].outcome # "none")
  <2>1. CASE n = m
    BY <2>1, <1>1 DEF AnsweredIffOutcome
  <2>2. CASE n # m
    BY <2>2, <1>1, <1>3 DEF HandlerTypeOK
  <2> QED
    BY <2>1, <2>2
<1> QED
  BY <1>2, <1>3 DEF HandlerTypeOK

-----------------------------------------------------------------------------
\* one call takes a step that opens nothing
LEMMA OneCallKeeps ==
  ASSUME HandlerInv, NEW m \in Call, NEW r \in ReceivedRecord, AnsweredIffOutcome(r),
         call' = [call EXCEPT ![m] = r], UNCHANGED <<served, opened>>,
         served[r.conn] # "before",
         r.phase = "creating" => r.sub = "none",
         r.sub = "active" => r.kind = "subscribe" /\ opened[r.conn][r.id] = m,
         r.kind = "subscribe" /\ served[r.conn] = "closed"
           /\ (r.phase = "creating" \/ r.sub = "active") => r.late,
         \A c \in Connection, id \in SubId :
            opened[c][id] = m => r.phase # "creating" /\ r.conn = c /\ r.id = id
  PROVE  HandlerInv'
<1>1. HandlerTypeOK'
  BY CallsType DEF HandlerInv, HandlerTypeOK
<1>2. call'[m] = r /\ \A n \in Call : n # m => call'[n] = call[n]
  BY DEF HandlerInv, HandlerTypeOK
<1>3. r.phase \in {"creating", "opening", "answered"}
  BY DEF ReceivedRecord
<1>4. OpenedAreCalls'
  BY <1>2, <1>3 DEF HandlerInv, OpenedAreCalls, Phase
<1>5. RunningIsFound' /\ CreatingHasNone' /\ ActiveIsSubscribe'
  BY <1>2, <1>3 DEF HandlerInv, RunningIsFound, CreatingHasNone, ActiveIsSubscribe, Active, Phase
<1>6. NoneBefore' /\ ClosedIsLate'
  BY <1>2, <1>3 DEF HandlerInv, NoneBefore, ClosedIsLate, Phase
<1> QED
  BY <1>1, <1>4, <1>5, <1>6 DEF HandlerInv

\* a message starts a call of a connection that is open
LEMMA HandleKeeps ==
  ASSUME HandlerInv, NEW m \in Call, NEW c \in Connection, NEW kind \in CallKinds,
         NEW id \in SubId, Handle(m, c, kind, id)
  PROVE  HandlerInv'
<1> DEFINE r == Received(c, kind, id)
<1>1. /\ r \in ReceivedRecord /\ AnsweredIffOutcome(r) /\ r.phase = "creating"
      /\ r.conn = c /\ r.id = id /\ r.sub = "none" /\ r.kind = kind
  BY DEF Received, ReceivedRecord, AnsweredIffOutcome
<1>2. /\ served[c] = "open" /\ Phase(m) = "unused" /\ UNCHANGED <<served, opened>>
      /\ call' = [call EXCEPT ![m] = r]
  BY DEF Handle
<1> HIDE DEF r
<1>3. \A d \in Connection, i \in SubId : opened[d][i] # m
  BY <1>2, MessageHandlerAssumption DEF HandlerInv, OpenedAreCalls
<1> QED
  BY <1>1, <1>2, <1>3, OneCallKeeps

\* the call m becomes r: what every step of a call leaves alone
LEMMA StepOfCall ==
  ASSUME HandlerInv, NEW m \in Call, NEW r \in ReceivedRecord, AnsweredIffOutcome(r),
         Phase(m) \in {"creating", "opening"}, r.phase \in {"opening", "answered"},
         r.conn = call[m].conn, r.id = call[m].id, r.kind = call[m].kind,
         r.sub = call[m].sub, r.late = call[m].late,
         call' = [call EXCEPT ![m] = r], UNCHANGED <<served, opened>>
  PROVE  HandlerInv'
<1>1. served[r.conn] # "before"
  BY DEF HandlerInv, NoneBefore
<1>2. r.sub = "active" => r.kind = "subscribe" /\ opened[r.conn][r.id] = m
  BY DEF HandlerInv, RunningIsFound, ActiveIsSubscribe, Active
<1>3. r.kind = "subscribe" /\ served[r.conn] = "closed" /\ r.sub = "active" => r.late
  BY DEF HandlerInv, ClosedIsLate
<1>4. \A c \in Connection, id \in SubId : opened[c][id] = m => r.conn = c /\ r.id = id
  BY MessageHandlerAssumption DEF HandlerInv, OpenedAreCalls
<1> QED
  BY <1>1, <1>2, <1>3, <1>4, OneCallKeeps

\* a subscription is opened under an id that has none
LEMMA OpenKeeps ==
  ASSUME HandlerInv, NEW m \in Call, NEW r \in ReceivedRecord, AnsweredIffOutcome(r),
         Phase(m) = "creating", call[m].kind = "subscribe",
         opened[r.conn][r.id] = NoCall,
         r.phase = "opening", r.sub = "active", r.conn = call[m].conn, r.id = call[m].id,
         r.kind = "subscribe", r.late = call[m].late,
         opened' = [opened EXCEPT ![r.conn][r.id] = m],
         call' = [call EXCEPT ![m] = r], UNCHANGED served
  PROVE  HandlerInv'
<1>t. /\ opened \in [Connection -> [SubId -> Call \cup {NoCall}]]
      /\ call \in [Call -> CallRecord]
      /\ r.conn \in Connection /\ r.id \in SubId
  BY DEF HandlerInv, HandlerTypeOK, ReceivedRecord
<1>o. /\ opened' \in [Connection -> [SubId -> Call \cup {NoCall}]]
      /\ opened'[r.conn][r.id] = m
      /\ \A c \in Connection, id \in SubId :
            ~(c = r.conn /\ id = r.id) => opened'[c][id] = opened[c][id]
  BY <1>t
<1>c. call'[m] = r /\ \A n \in Call : n # m => call'[n] = call[n]
  BY <1>t
<1>1. HandlerTypeOK'
  BY <1>o, CallsType DEF HandlerInv, HandlerTypeOK
<1>2. OpenedAreCalls'
  <2> SUFFICES ASSUME NEW c \in Connection, NEW id \in SubId, opened'[c][id] # NoCall
               PROVE  /\ opened'[c][id] \in Call
                      /\ call'[opened'[c][id]].phase \in {"opening", "answered"}
                      /\ call'[opened'[c][id]].conn = c /\ call'[opened'[c][id]].id = id
    BY DEF OpenedAreCalls, Phase
  <2>1. CASE c = r.conn /\ id = r.id
    BY <2>1, <1>o, <1>c
  <2>2. CASE ~(c = r.conn /\ id = r.id)
    <3>1. opened'[c][id] = opened[c][id]
      BY <2>2, <1>o
    <3>2. opened[c][id] \in Call /\ opened[c][id] # m
      BY <3>1 DEF HandlerInv, OpenedAreCalls
    <3> QED
      BY <3>1, <3>2, <1>c DEF HandlerInv, OpenedAreCalls, Phase
  <2> QED
    BY <2>1, <2>2
<1>3. RunningIsFound'
  <2> SUFFICES ASSUME NEW n \in Call, call'[n].phase # "unused", call'[n].sub = "active"
               PROVE  opened'[call'[n].conn][call'[n].id] = n
    BY DEF RunningIsFound, Active, Phase
  <2>1. CASE n = m
    BY <2>1, <1>o, <1>c
  <2>2. CASE n # m
    <3>1. call'[n] = call[n] /\ opened[call[n].conn][call[n].id] = n /\ Phase(n) # "unused"
      BY <2>2, <1>c DEF HandlerInv, RunningIsFound, Active, Phase
    <3>2. call[n].conn \in Connection /\ call[n].id \in SubId
      BY <3>1, CallIsUnusedOrReceived DEF HandlerInv, ReceivedRecord
    <3>3. ~(call[n].conn = r.conn /\ call[n].id = r.id)
      BY <3>1, MessageHandlerAssumption
    <3> QED
      BY <3>1, <3>2, <3>3, <1>o
  <2> QED
    BY <2>1, <2>2
<1>4. CreatingHasNone' /\ ActiveIsSubscribe'
  BY <1>c DEF HandlerInv, CreatingHasNone, ActiveIsSubscribe, Active, Phase
<1>5. NoneBefore' /\ ClosedIsLate'
  BY <1>c DEF HandlerInv, NoneBefore, ClosedIsLate, Phase
<1> QED
  BY <1>1, <1>2, <1>3, <1>4, <1>5 DEF HandlerInv

\* what a step of a call makes of it: a subscription is opened or refused, then answered
LEMMA CallStepEffects ==
  ASSUME HandlerInv, NEW m \in Call, CallStep(m)
  PROVE  /\ UNCHANGED served /\ \A n \in Call : n # m => call'[n] = call[n]
         /\ Phase(m) \in {"creating", "opening"} /\ call'[m].phase \in {"opening", "answered"}
         /\ call'[m].conn = call[m].conn /\ call'[m].id = call[m].id
         /\ call'[m].kind = call[m].kind /\ call'[m].late = call[m].late
         /\ Phase(m) = "opening" => call'[m].phase = "answered" /\ call'[m].sub = call[m].sub
         /\ call[m].kind = "subscribe" /\ Phase(m) = "creating" =>
               call'[m].outcome = "refused" \/ call'[m].sub = "active"
<1>1. call[m] \in ReceivedRecord /\ call \in [Call -> CallRecord]
  <2>1. Phase(m) # "unused"
    BY DEF CallStep, CreateQueryFails, CreateSubscription, Fetch, Answer
  <2> QED
    BY <2>1, CallIsUnusedOrReceived DEF HandlerInv, HandlerTypeOK
<1>2. CASE CreateQueryFails(m)
  BY <1>1, <1>2 DEF CreateQueryFails, Refused, ReceivedRecord, Phase
<1>3. CASE CreateSubscription(m)
  BY <1>1, <1>3 DEF CreateSubscription, Refused, ReceivedRecord, Phase
<1>4. CASE Fetch(m)
  BY <1>1, <1>4 DEF Fetch, ReceivedRecord, Phase
<1>5. ASSUME NEW outcome \in {"ok", "refused"}, Answer(m, outcome)
      PROVE  /\ UNCHANGED served /\ \A n \in Call : n # m => call'[n] = call[n]
             /\ Phase(m) = "opening" /\ call'[m].phase = "answered"
             /\ call'[m].conn = call[m].conn /\ call'[m].id = call[m].id
             /\ call'[m].kind = call[m].kind /\ call'[m].late = call[m].late
             /\ call'[m].sub = call[m].sub
  BY <1>1, <1>5 DEF Answer, ReceivedRecord, Phase
<1> QED
  BY <1>2, <1>3, <1>4, <1>5 DEF CallStep

\* every step of a call keeps the invariant
LEMMA CallStepKeeps ==
  ASSUME HandlerInv, NEW m \in Call, CallStep(m)
  PROVE  HandlerInv'
<1>1. /\ call[m] \in ReceivedRecord /\ AnsweredIffOutcome(call[m]) /\ call \in [Call -> CallRecord]
      /\ Phase(m) \in {"creating", "opening"} /\ call[m].outcome = "none"
  <2>1. Phase(m) \in {"creating", "opening"}
    BY DEF CallStep, CreateQueryFails, CreateSubscription, Fetch, Answer
  <2> QED
    BY <2>1, CallIsUnusedOrReceived DEF HandlerInv, HandlerTypeOK, AnsweredIffOutcome, Phase
<1>2. ASSUME NEW outcome \in {"ok", "refused"}, UNCHANGED <<served, opened>>,
             call' = [call EXCEPT ![m].phase = "answered", ![m].outcome = outcome]
      PROVE  HandlerInv'
  <2> DEFINE r == [call[m] EXCEPT !.phase = "answered", !.outcome = outcome]
  <2>1. /\ r \in ReceivedRecord /\ AnsweredIffOutcome(r) /\ r.phase = "answered"
        /\ r.conn = call[m].conn /\ r.id = call[m].id /\ r.kind = call[m].kind
        /\ r.sub = call[m].sub /\ r.late = call[m].late
    BY <1>1 DEF ReceivedRecord, AnsweredIffOutcome
  <2>2. call' = [call EXCEPT ![m] = r]
    BY <1>1, <1>2
  <2> HIDE DEF r
  <2> QED
    BY <2>1, <2>2, <1>1, <1>2, StepOfCall
<1>3. CASE CreateQueryFails(m)
  BY <1>3, <1>2 DEF CreateQueryFails, Refused
<1>4. CASE CreateSubscription(m)
  <2>1. CASE ~IsFree(call[m].conn, call[m].id)
    BY <1>4, <2>1, <1>2 DEF CreateSubscription, Refused
  <2>2. CASE IsFree(call[m].conn, call[m].id)
    <3> DEFINE r == [call[m] EXCEPT !.phase = "opening", !.sub = "active"]
    <3>1. /\ r \in ReceivedRecord /\ AnsweredIffOutcome(r) /\ r.phase = "opening" /\ r.sub = "active"
          /\ r.conn = call[m].conn /\ r.id = call[m].id /\ r.kind = call[m].kind
          /\ r.late = call[m].late
      BY <1>1 DEF ReceivedRecord, AnsweredIffOutcome
    <3>2. /\ call' = [call EXCEPT ![m] = r] /\ UNCHANGED served
          /\ opened' = [opened EXCEPT ![call[m].conn][call[m].id] = m]
          /\ Phase(m) = "creating" /\ call[m].kind = "subscribe"
      BY <1>1, <1>4, <2>2 DEF CreateSubscription
    <3>3. opened[call[m].conn][call[m].id] = NoCall
      BY <2>2 DEF IsFree
    <3> HIDE DEF r
    <3> QED
      BY <3>1, <3>2, <3>3, OpenKeeps
  <2> QED
    BY <2>1, <2>2
<1>5. CASE Fetch(m)
  <2> DEFINE r == [call[m] EXCEPT !.phase = "opening"]
  <2>1. /\ r \in ReceivedRecord /\ AnsweredIffOutcome(r) /\ r.phase = "opening"
        /\ r.conn = call[m].conn /\ r.id = call[m].id /\ r.kind = call[m].kind
        /\ r.sub = call[m].sub /\ r.late = call[m].late
    BY <1>1 DEF ReceivedRecord, AnsweredIffOutcome
  <2>2. call' = [call EXCEPT ![m] = r] /\ UNCHANGED <<served, opened>>
    BY <1>1, <1>5 DEF Fetch
  <2> HIDE DEF r
  <2> QED
    BY <2>1, <2>2, <1>1, StepOfCall
<1>6. ASSUME NEW outcome \in {"ok", "refused"}, Answer(m, outcome) PROVE HandlerInv'
  BY <1>6, <1>2 DEF Answer
<1> QED
  BY <1>3, <1>4, <1>5, <1>6 DEF CallStep

-----------------------------------------------------------------------------
\* what a step that stops or marks calls may make of one of them
Marked(n) ==
    \/ call'[n] = call[n]
    \/ Phase(n) \in {"opening", "answered"} /\ call'[n] = Unsubscribed(call[n])
    \/ Phase(n) = "creating" /\ call'[n] = [call[n] EXCEPT !.late = TRUE]

\* a call that is stopped or marked stays where it is
LEMMA MarkedKeeps ==
  ASSUME HandlerInv, NEW n \in Call, Marked(n)
  PROVE  /\ call'[n] \in CallRecord
         /\ call'[n].phase = call[n].phase
         /\ call[n].phase # "unused" =>
              /\ call'[n].conn = call[n].conn /\ call'[n].id = call[n].id
              /\ call'[n].kind = call[n].kind /\ call'[n].outcome = call[n].outcome
              /\ call'[n].sub = call[n].sub \/ call'[n].sub = "stopped"
              /\ Phase(n) = "creating" => call'[n].sub = call[n].sub
              /\ call[n].late => call'[n].late
<1>1. CASE call[n] = Unused
  BY <1>1 DEF Marked, Unused, CallRecord, Phase
<1>2. CASE call[n] \in ReceivedRecord
  BY <1>2 DEF Marked, Unsubscribed, ReceivedRecord, CallRecord, Phase
<1> QED
  BY <1>1, <1>2, CallIsUnusedOrReceived DEF HandlerInv

\* what a step that only stops or marks calls preserves
LEMMA MarkingKeeps ==
  ASSUME HandlerInv, \A n \in Call : Marked(n), call' = [n \in Call |-> call'[n]],
         served' \in [Connection -> {"before", "open", "closed"}],
         opened' \in [Connection -> [SubId -> Call \cup {NoCall}]],
         \A c \in Connection, id \in SubId : opened'[c][id] \in {opened[c][id], NoCall},
         \A c \in Connection : served'[c] = "before" => served[c] = "before"
  PROVE  HandlerTypeOK' /\ OpenedAreCalls' /\ CreatingHasNone' /\ NoneBefore' /\ ActiveIsSubscribe'
<1>1. \A n \in Call : /\ call'[n] \in CallRecord /\ call'[n].phase = call[n].phase
                      /\ call[n].phase # "unused" =>
                           /\ call'[n].conn = call[n].conn /\ call'[n].id = call[n].id
                           /\ call'[n].kind = call[n].kind /\ call'[n].outcome = call[n].outcome
                           /\ call'[n].sub = call[n].sub \/ call'[n].sub = "stopped"
                           /\ Phase(n) = "creating" => call'[n].sub = call[n].sub
  BY MarkedKeeps
<1>2. HandlerTypeOK'
  <2>1. call' \in [Call -> CallRecord]
    BY <1>1
  <2> QED
    BY <2>1, <1>1 DEF HandlerInv, HandlerTypeOK
<1>3. OpenedAreCalls'
  <2> SUFFICES ASSUME NEW c \in Connection, NEW id \in SubId, opened'[c][id] # NoCall
               PROVE  /\ opened'[c][id] \in Call
                      /\ call'[opened'[c][id]].phase \in {"opening", "answered"}
                      /\ call'[opened'[c][id]].conn = c /\ call'[opened'[c][id]].id = id
    BY DEF OpenedAreCalls, Phase
  <2>1. opened'[c][id] = opened[c][id]
    OBVIOUS
  <2> QED
    BY <2>1, <1>1 DEF HandlerInv, OpenedAreCalls, Phase
<1>4. CreatingHasNone' /\ ActiveIsSubscribe'
  BY <1>1 DEF HandlerInv, CreatingHasNone, ActiveIsSubscribe, Active, Phase
<1>5. NoneBefore'
  <2> SUFFICES ASSUME NEW n \in Call, call'[n].phase # "unused" PROVE served'[call'[n].conn] # "before"
    BY DEF NoneBefore, Phase
  <2>1. call[n].phase # "unused" /\ call'[n].conn = call[n].conn
    BY <1>1
  <2>2. call[n].conn \in Connection
    BY <2>1, CallIsUnusedOrReceived DEF HandlerInv, ReceivedRecord, Phase
  <2> QED
    BY <2>1, <2>2 DEF HandlerInv, NoneBefore, Phase
<1> QED
  BY <1>2, <1>3, <1>4, <1>5

\* subscribe:close stops what is found under the id, and marks the calls that still await
LEMMA HandleCloseMarks ==
  ASSUME HandlerInv, NEW c \in Connection, NEW id \in SubId, HandleClose(c, id), NEW n \in Call
  PROVE  /\ Marked(n)
         /\ n = opened[c][id] => call'[n] = Unsubscribed(call[n])
         /\ Creating(n, c) /\ call[n].id = id => call'[n] = [call[n] EXCEPT !.late = TRUE]
         /\ n # opened[c][id] /\ ~(Creating(n, c) /\ call[n].id = id) => call'[n] = call[n]
<1> DEFINE watched == opened[c][id]
<1>1. call' = [m \in Call |->
             CASE m = watched -> Unsubscribed(call[m])
               [] m # watched /\ Creating(m, c) /\ call[m].id = id -> [call[m] EXCEPT !.late = TRUE]
               [] OTHER -> call[m]]
  BY DEF HandleClose
<1>2. watched \in Call => Phase(watched) \in {"opening", "answered"}
  BY MessageHandlerAssumption DEF HandlerInv, OpenedAreCalls
<1>3. CASE n = watched
  <2>1. call'[n] = Unsubscribed(call[n])
    BY <1>3, <1>1
  <2> QED
    BY <2>1, <1>3, <1>2 DEF Marked, Creating
<1>4. CASE n # watched /\ Creating(n, c) /\ call[n].id = id
  <2>1. call'[n] = [call[n] EXCEPT !.late = TRUE]
    BY <1>4, <1>1
  <2> QED
    BY <2>1, <1>4 DEF Marked, Creating
<1>5. CASE n # watched /\ ~(Creating(n, c) /\ call[n].id = id)
  <2>1. call'[n] = call[n]
    BY <1>5, <1>1
  <2> QED
    BY <2>1, <1>5 DEF Marked
<1> QED
  BY <1>3, <1>4, <1>5

LEMMA HandleCloseKeeps ==
  ASSUME HandlerInv, NEW c \in Connection, NEW id \in SubId, HandleClose(c, id)
  PROVE  HandlerInv'
<1>t. /\ opened \in [Connection -> [SubId -> Call \cup {NoCall}]]
      /\ served \in [Connection -> {"before", "open", "closed"}]
  BY DEF HandlerInv, HandlerTypeOK
<1>1. /\ served[c] = "open" /\ UNCHANGED served
      /\ opened' = [opened EXCEPT ![c][id] = NoCall]
  BY DEF HandleClose
<1>3. /\ opened'[c][id] = NoCall
      /\ \A d \in Connection, i \in SubId : ~(d = c /\ i = id) => opened'[d][i] = opened[d][i]
      /\ opened' \in [Connection -> [SubId -> Call \cup {NoCall}]]
  BY <1>1, <1>t
<1>4. ASSUME NEW n \in Call
      PROVE  Marked(n) /\ (n = opened[c][id] => call'[n] = Unsubscribed(call[n]))
  BY HandleCloseMarks
<1>5. call' = [n \in Call |-> call'[n]]
  BY DEF HandleClose
<1>6. HandlerTypeOK' /\ OpenedAreCalls' /\ CreatingHasNone' /\ NoneBefore' /\ ActiveIsSubscribe'
  BY <1>1, <1>3, <1>4, <1>5, <1>t, MarkingKeeps
<1>7. RunningIsFound'
  <2> SUFFICES ASSUME NEW n \in Call, call'[n].phase # "unused", call'[n].sub = "active"
               PROVE  opened'[call'[n].conn][call'[n].id] = n
    BY DEF RunningIsFound, Active, Phase
  <2>1. /\ Phase(n) # "unused" /\ call[n].sub = "active"
        /\ call'[n].conn = call[n].conn /\ call'[n].id = call[n].id
    BY <1>4, MarkedKeeps DEF Phase
  <2>2. call[n] \in ReceivedRecord
    BY <2>1, CallIsUnusedOrReceived DEF HandlerInv
  <2>3. n # opened[c][id]
    BY <1>4, <2>2 DEF Unsubscribed, ReceivedRecord
  <2>4. opened[call[n].conn][call[n].id] = n
    BY <2>1 DEF HandlerInv, RunningIsFound, Active
  <2> QED
    BY <2>1, <2>2, <2>3, <2>4, <1>3 DEF ReceivedRecord
<1>8. ClosedIsLate'
  <2> SUFFICES ASSUME NEW n \in Call, call'[n].phase # "unused", call'[n].kind = "subscribe",
                      served[call'[n].conn] = "closed",
                      call'[n].phase = "creating" \/ call'[n].sub = "active"
               PROVE  call'[n].late
    BY <1>1 DEF ClosedIsLate, Phase
  <2> QED
    BY <1>4, MarkedKeeps DEF HandlerInv, ClosedIsLate, Phase
<1> QED
  BY <1>6, <1>7, <1>8 DEF HandlerInv

\* the close of a connection stops what it had opened
LEMMA CloseMarks ==
  ASSUME HandlerInv, NEW c \in Connection, Close(c), NEW n \in Call
  PROVE  /\ Marked(n)
         /\ n \in OpenedCalls(c) => call'[n] = Unsubscribed(call[n])
         /\ Creating(n, c) => call'[n] = [call[n] EXCEPT !.late = TRUE]
         /\ n \notin OpenedCalls(c) /\ ~Creating(n, c) => call'[n] = call[n]
<1>1. call' = [m \in Call |->
             CASE m \in OpenedCalls(c) -> Unsubscribed(call[m])
               [] m \notin OpenedCalls(c) /\ Creating(m, c) -> [call[m] EXCEPT !.late = TRUE]
               [] OTHER -> call[m]]
  BY DEF Close
<1>2. \A m \in OpenedCalls(c) : m \in Call /\ Phase(m) \in {"opening", "answered"}
  BY DEF HandlerInv, OpenedAreCalls, OpenedCalls
<1>3. CASE n \in OpenedCalls(c)
  <2>1. call'[n] = Unsubscribed(call[n])
    BY <1>3, <1>1
  <2> QED
    BY <2>1, <1>3, <1>2 DEF Marked, Creating
<1>4. CASE n \notin OpenedCalls(c) /\ Creating(n, c)
  <2>1. call'[n] = [call[n] EXCEPT !.late = TRUE]
    BY <1>4, <1>1
  <2> QED
    BY <2>1, <1>4 DEF Marked, Creating
<1>5. CASE n \notin OpenedCalls(c) /\ ~Creating(n, c)
  <2>1. call'[n] = call[n]
    BY <1>5, <1>1
  <2> QED
    BY <2>1, <1>5 DEF Marked
<1> QED
  BY <1>3, <1>4, <1>5

LEMMA CloseKeeps ==
  ASSUME HandlerInv, NEW c \in Connection, Close(c)
  PROVE  HandlerInv'
<1>t. /\ opened \in [Connection -> [SubId -> Call \cup {NoCall}]]
      /\ served \in [Connection -> {"before", "open", "closed"}]
  BY DEF HandlerInv, HandlerTypeOK
<1>1. UNCHANGED opened /\ served' = [served EXCEPT ![c] = "closed"]
  BY DEF Close
<1>3. \A n \in Call : /\ Marked(n)
                      /\ n \in OpenedCalls(c) => call'[n] = Unsubscribed(call[n])
                      /\ Creating(n, c) => call'[n] = [call[n] EXCEPT !.late = TRUE]
  BY CloseMarks
<1>4. call' = [n \in Call |-> call'[n]]
  BY DEF Close
<1>5. /\ served' \in [Connection -> {"before", "open", "closed"}]
      /\ \A d \in Connection : served'[d] = IF d = c THEN "closed" ELSE served[d]
  BY <1>1, <1>t
<1>6. HandlerTypeOK' /\ OpenedAreCalls' /\ CreatingHasNone' /\ NoneBefore' /\ ActiveIsSubscribe'
  BY <1>1, <1>3, <1>4, <1>5, <1>t, MarkingKeeps
<1>7. RunningIsFound'
  <2> SUFFICES ASSUME NEW n \in Call, call'[n].phase # "unused", call'[n].sub = "active"
               PROVE  opened[call'[n].conn][call'[n].id] = n
    BY <1>1 DEF RunningIsFound, Active, Phase
  <2>1. /\ Phase(n) # "unused"
        /\ call'[n].conn = call[n].conn /\ call'[n].id = call[n].id
        /\ call'[n].sub = call[n].sub \/ call'[n].sub = "stopped"
    BY <1>3, MarkedKeeps DEF Phase
  <2> QED
    BY <2>1 DEF HandlerInv, RunningIsFound, Active
<1>8. ClosedIsLate'
  <2> SUFFICES ASSUME NEW n \in Call, call'[n].phase # "unused", call'[n].kind = "subscribe",
                      served'[call'[n].conn] = "closed",
                      call'[n].phase = "creating" \/ call'[n].sub = "active"
               PROVE  call'[n].late
    BY DEF ClosedIsLate, Phase
  <2>1. /\ Phase(n) # "unused" /\ call'[n].phase = call[n].phase
        /\ call'[n].conn = call[n].conn /\ call[n].kind = "subscribe"
        /\ call'[n].sub = call[n].sub \/ call'[n].sub = "stopped"
        /\ call[n].late => call'[n].late
    BY <1>3, MarkedKeeps DEF Phase
  <2>2. call[n] \in ReceivedRecord
    BY <2>1, CallIsUnusedOrReceived DEF HandlerInv
  <2>3. CASE call[n].conn # c
    <3>1. served[call[n].conn] = "closed"
      BY <2>1, <2>2, <2>3, <1>5 DEF ReceivedRecord
    <3> QED
      BY <3>1, <2>1 DEF HandlerInv, ClosedIsLate, Phase
  <2>4. CASE call[n].conn = c /\ Phase(n) = "creating"
    BY <2>1, <2>2, <2>4, <1>3 DEF Creating, ReceivedRecord
  <2>5. CASE call[n].conn = c /\ Phase(n) # "creating"
    <3>1. call[n].sub = "active" /\ opened[c][call[n].id] = n /\ call[n].id \in SubId
      BY <2>1, <2>2, <2>5 DEF HandlerInv, RunningIsFound, Active, Phase, ReceivedRecord
    <3>2. n \in OpenedCalls(c)
      BY <3>1, MessageHandlerAssumption DEF OpenedCalls
    <3> QED
      BY <3>2, <1>3, <2>1, <2>2, <2>5 DEF Unsubscribed, ReceivedRecord, Phase
  <2> QED
    BY <2>3, <2>4, <2>5
<1> QED
  BY <1>6, <1>7, <1>8 DEF HandlerInv

\* the connection event
LEMMA AcceptKeeps ==
  ASSUME HandlerInv, NEW c \in Connection, Accept(c)
  PROVE  HandlerInv'
<1>1. /\ served' = [served EXCEPT ![c] = "open"] /\ UNCHANGED <<opened, call>>
      /\ served \in [Connection -> {"before", "open", "closed"}]
  BY DEF Accept, HandlerInv, HandlerTypeOK
<1>2. /\ served' \in [Connection -> {"before", "open", "closed"}]
      /\ \A d \in Connection : served'[d] = IF d = c THEN "open" ELSE served[d]
  BY <1>1
<1>3. \A m \in Call : Phase(m) # "unused" => call[m].conn \in Connection
  BY CallIsUnusedOrReceived DEF HandlerInv, ReceivedRecord
<1>4. HandlerTypeOK' /\ OpenedAreCalls' /\ RunningIsFound' /\ CreatingHasNone' /\ ActiveIsSubscribe'
  BY <1>1, <1>2 DEF HandlerInv, HandlerTypeOK, OpenedAreCalls, RunningIsFound, CreatingHasNone,
     ActiveIsSubscribe, Active, Phase
<1>5. NoneBefore' /\ ClosedIsLate'
  BY <1>1, <1>2, <1>3 DEF HandlerInv, NoneBefore, ClosedIsLate, Phase
<1> QED
  BY <1>4, <1>5 DEF HandlerInv

\* no call was received yet
LEMMA InitHandlerInv == HandlerInit => HandlerInv
<1> SUFFICES ASSUME HandlerInit PROVE HandlerInv
  OBVIOUS
<1>1. \A m \in Call : call[m] = Unused /\ call[m].phase = "unused"
  BY DEF HandlerInit, Unused
<1>2. \A c \in Connection, id \in SubId : opened[c][id] = NoCall
  BY DEF HandlerInit
<1>3. HandlerTypeOK
  BY <1>1 DEF HandlerInit, HandlerTypeOK, CallRecord
<1>4. OpenedAreCalls
  BY <1>2 DEF OpenedAreCalls
<1>5. RunningIsFound /\ CreatingHasNone /\ NoneBefore /\ ClosedIsLate /\ ActiveIsSubscribe
  BY <1>1 DEF RunningIsFound, CreatingHasNone, NoneBefore, ClosedIsLate, ActiveIsSubscribe, Active, Phase
<1> QED
  BY <1>3, <1>4, <1>5 DEF HandlerInv

-----------------------------------------------------------------------------
(***************************************************************************)
(* The invariant of the handlers, of which the theorems below are parts.   *)
(***************************************************************************)
THEOREM HandlerInvariant == HandlerSpec => []HandlerInv
<1>1. HandlerInv /\ [HandlerNext]_handlerVars => HandlerInv'
  <2> SUFFICES ASSUME HandlerInv, [HandlerNext]_handlerVars PROVE HandlerInv'
    OBVIOUS
  <2>1. ASSUME NEW m \in Call, CallStep(m) PROVE HandlerInv'
    BY <2>1, CallStepKeeps
  <2>2. ASSUME NEW m \in Call, NEW c \in Connection, NEW kind \in CallKinds, NEW id \in SubId,
               Handle(m, c, kind, id)
        PROVE  HandlerInv'
    BY <2>2, HandleKeeps
  <2>3. ASSUME NEW c \in Connection, Accept(c) PROVE HandlerInv'
    BY <2>3, AcceptKeeps
  <2>4. ASSUME NEW c \in Connection, Close(c) PROVE HandlerInv'
    BY <2>4, CloseKeeps
  <2>5. ASSUME NEW c \in Connection, NEW id \in SubId, HandleClose(c, id) PROVE HandlerInv'
    BY <2>5, HandleCloseKeeps
  <2>6. CASE UNCHANGED handlerVars
    BY <2>6 DEF handlerVars, HandlerInv, HandlerTypeOK, OpenedAreCalls, RunningIsFound,
       CreatingHasNone, NoneBefore, ClosedIsLate, ActiveIsSubscribe, Active, Phase
  <2> QED
    BY <2>1, <2>2, <2>3, <2>4, <2>5, <2>6 DEF HandlerNext
<1> QED
  BY <1>1, InitHandlerInv, PTL DEF HandlerSpec

(***************************************************************************)
(* Every variable of the handlers keeps its type, and a call has an        *)
(* outcome exactly when it was answered.                                   *)
(***************************************************************************)
THEOREM HandlerTypeCorrect == HandlerSpec => []HandlerTypeOK
<1>1. HandlerInv => HandlerTypeOK
  BY DEF HandlerInv
<1> QED
  BY <1>1, HandlerInvariant, PTL

(***************************************************************************)
(* A running subscription is found under its id, by subscribe:close and by *)
(* the close of its connection.                                            *)
(***************************************************************************)
THEOREM RunningAreFound == HandlerSpec => []RunningIsFound
<1>1. HandlerInv => RunningIsFound
  BY DEF HandlerInv
<1> QED
  BY <1>1, HandlerInvariant, PTL

(***************************************************************************)
(* What a closed connection still runs was awaiting its query when it, or  *)
(* its id, was closed.                                                     *)
(***************************************************************************)
THEOREM ClosedStopsWhatWasOpened == HandlerSpec => []ClosedStopsOpened
<1>1. HandlerInv => ClosedStopsOpened
  BY DEF HandlerInv, ClosedIsLate, ActiveIsSubscribe, ClosedStopsOpened, Active
<1> QED
  BY <1>1, HandlerInvariant, PTL
=============================================================================
