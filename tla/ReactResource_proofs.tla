-------------------------- MODULE ReactResource_proofs --------------------------
(***************************************************************************)
(* Theorems about useResource, for every set of parameters and results and *)
(* any number of renders, page changes and requests: a component has one   *)
(* subscription, that of its last parameters, and shows the last result.   *)
(***************************************************************************)
EXTENDS ReactResource, SequenceTheorems, TLAPS

-----------------------------------------------------------------------------
(* Types *)

\* the three states of the reducer, and what its actions make of them
LEMMA ViewTypes ==
  ASSUME NEW v \in View
  PROVE  /\ v.fetched \in BOOLEAN /\ v.fetching \in BOOLEAN /\ v.error \in BOOLEAN
         /\ [v EXCEPT !.fetching = TRUE] \in View
         /\ [v EXCEPT !.fetching = FALSE, !.error = TRUE] \in View
<1> DEFINE V1 == [fetched : {FALSE}, fetching : {TRUE}, result : {None}, error : {FALSE}, of : {None}]
           V2 == [fetched : {FALSE}, fetching : BOOLEAN, result : {None}, error : {TRUE}, of : {None}]
           V3 == [fetched : {TRUE}, fetching : BOOLEAN, result : Result, error : BOOLEAN, of : Params]
<1>0. View = V1 \cup V2 \cup V3
  BY DEF View
<1>1. CASE v \in V1
  <2>1. [v EXCEPT !.fetching = TRUE] \in V1 /\ [v EXCEPT !.fetching = FALSE, !.error = TRUE] \in V2
    BY <1>1
  <2> QED
    BY <1>0, <1>1, <2>1
<1>2. CASE v \in V2
  <2>1. [v EXCEPT !.fetching = TRUE] \in V2 /\ [v EXCEPT !.fetching = FALSE, !.error = TRUE] \in V2
    BY <1>2
  <2> QED
    BY <1>0, <1>2, <2>1
<1>3. CASE v \in V3
  <2>1. [v EXCEPT !.fetching = TRUE] \in V3 /\ [v EXCEPT !.fetching = FALSE, !.error = TRUE] \in V3
    BY <1>3
  <2> QED
    BY <1>0, <1>3, <2>1
<1> QED
  BY <1>0, <1>1, <1>2, <1>3

LEMMA ViewStep ==
  ASSUME view \in View,
         \/ \E result \in Result, p \in Params : Resolve(result, p)
         \/ Fetching \/ Error
  PROVE  view' \in View
<1>1. ASSUME NEW result \in Result, NEW p \in Params, Resolve(result, p) PROVE view' \in View
  BY <1>1 DEF Resolve, View
<1> QED
  BY <1>1, ViewTypes DEF Fetching, Error

\* one request changes
LEMMA RequestChanged ==
  ASSUME NEW rs \in Seq(Request), NEW i \in DOMAIN rs, NEW r \in Request
  PROVE  /\ [rs EXCEPT ![i] = r] \in Seq(Request)
         /\ DOMAIN [rs EXCEPT ![i] = r] = DOMAIN rs /\ Len([rs EXCEPT ![i] = r]) = Len(rs)
         /\ \A j \in DOMAIN rs : [rs EXCEPT ![i] = r][j] = IF j = i THEN r ELSE rs[j]
<1>1. [rs EXCEPT ![i] = r] \in [1..Len(rs) -> Request]
  OBVIOUS
<1> QED
  BY <1>1

\* one request is made
LEMMA RequestMade ==
  ASSUME NEW rs \in Seq(Request), NEW p \in Params
  PROVE  /\ Append(rs, Asked(p)) \in Seq(Request)
         /\ DOMAIN Append(rs, Asked(p)) = DOMAIN rs \cup {Len(rs) + 1}
         /\ Len(rs) + 1 \in Nat \ {None} /\ Len(rs) + 1 \notin DOMAIN rs
         /\ \A j \in DOMAIN rs : Append(rs, Asked(p))[j] = rs[j]
         /\ Append(rs, Asked(p))[Len(rs) + 1] = Asked(p)
<1>1. Asked(p) \in Request
  BY DEF Asked, Request
<1> QED
  BY <1>1 DEF None

\* the one subscription the hook refers to is stopped
LEMMA Stopped ==
  ASSUME NEW rs \in Seq(Request), NEW i \in Nat
  PROVE  /\ StoppedAt(rs, i) \in Seq(Request)
         /\ DOMAIN StoppedAt(rs, i) = DOMAIN rs /\ Len(StoppedAt(rs, i)) = Len(rs)
         /\ \A j \in DOMAIN rs : IF j = i THEN ~StoppedAt(rs, i)[j].isLive ELSE StoppedAt(rs, i)[j] = rs[j]
<1>1. CASE i \notin DOMAIN rs
  <2>1. StoppedAt(rs, i) = rs
    BY <1>1 DEF StoppedAt
  <2> QED
    BY <1>1, <2>1
<1>2. CASE i \in DOMAIN rs
  <2> DEFINE once == [rs[i] EXCEPT !.isLive = FALSE]
             twice == [once EXCEPT !.inbox = <<>>]
             s == [rs EXCEPT ![i] = once]
  <2>1. once \in Request /\ ~once.isLive
    <3>1. rs[i] \in Request
      BY <1>2
    <3> QED
      BY <3>1 DEF Request
  <2>2. twice \in Request /\ ~twice.isLive
    <3>1. <<>> \in Seq(Message)
      OBVIOUS
    <3> HIDE DEF once
    <3> QED
      BY <2>1, <3>1 DEF Request
  <2>3. s \in Seq(Request) /\ DOMAIN s = DOMAIN rs /\ Len(s) = Len(rs) /\ s[i] = once
        /\ \A j \in DOMAIN rs : j # i => s[j] = rs[j]
    BY <1>2, <2>1, RequestChanged
  <2>4. StoppedAt(rs, i) = [s EXCEPT ![i] = [s[i] EXCEPT !.inbox = <<>>]]
    BY <1>2 DEF StoppedAt, None
  <2>5. StoppedAt(rs, i) = [s EXCEPT ![i] = twice]
    BY <2>3, <2>4
  <2> HIDE DEF once, twice, s
  <2> QED
    BY <1>2, <2>2, <2>3, <2>5, RequestChanged
<1> QED
  BY <1>1, <1>2

LEMMA MessageTypes ==
  /\ \A m \in Message : m.type # "error" => m.result \in Result /\ m.type \in {"initial", "change"}
  /\ \A result \in Result, type \in {"initial", "change"} : [type |-> type, result |-> result] \in Message
  /\ [type |-> "error"] \in Message
  BY DEF Message

\* the request i becomes r, of the same parameters, and stopped if it was
Becomes(i, r) ==
    /\ r \in Request /\ r.params = requests[i].params /\ r.isLive = requests[i].isLive
    /\ requests' \in Seq(Request) /\ DOMAIN requests' = DOMAIN requests /\ Len(requests') = Len(requests)
    /\ \A j \in DOMAIN requests : requests'[j] = IF j = i THEN r ELSE requests[j]

LEMMA BecomesWhenSet ==
  ASSUME requests \in Seq(Request), NEW i \in DOMAIN requests, NEW r \in Request,
         r.params = requests[i].params, r.isLive = requests[i].isLive,
         requests' = [requests EXCEPT ![i] = r]
  PROVE  Becomes(i, r)
  BY RequestChanged DEF Becomes

\* a request is answered or refused, or one of its messages is delivered
LEMMA AnswerSteps ==
  ASSUME TypeOK, NEW i \in DOMAIN requests
  PROVE  /\ requests[i] \in Request /\ server[requests[i].params] \in Result
         /\ SubscriptionAnswers(i) =>
               \E r : /\ Becomes(i, r) /\ r.phase = "answered"
                      /\ r.inbox = <<[type |-> "initial", result |-> server[requests[i].params]]>>
         /\ SubscriptionRefused(i) \/ FetchFails(i) =>
               \E r : Becomes(i, r) /\ r.phase = "over" /\ r.inbox = requests[i].inbox
         /\ FetchAnswers(i) =>
               \E r : Becomes(i, r) /\ r.phase = "answered" /\ r.inbox = requests[i].inbox
         /\ SubscriptionReports(i) =>
               \E r : /\ Becomes(i, r) /\ r.phase = requests[i].phase
                      /\ r.inbox = Append(requests[i].inbox, [type |-> "error"])
         /\ Deliver(i) =>
               \E r : /\ Becomes(i, r) /\ r.phase = requests[i].phase
                      /\ r.inbox = Tail(requests[i].inbox)
<1>0. /\ requests \in Seq(Request) /\ requests[i] \in Request
      /\ server[requests[i].params] \in Result /\ requests[i].inbox \in Seq(Message)
  <2>1. requests \in Seq(Request) /\ requests[i] \in Request
    BY DEF TypeOK
  <2> QED
    BY <2>1 DEF TypeOK, Request
<1>1. ASSUME NEW phase \in {"answered", "over"}, requests' = [requests EXCEPT ![i].phase = phase]
      PROVE  \E r : Becomes(i, r) /\ r.phase = phase /\ r.inbox = requests[i].inbox
  <2> DEFINE r == [requests[i] EXCEPT !.phase = phase]
  <2>1. /\ r \in Request /\ r.params = requests[i].params /\ r.isLive = requests[i].isLive
        /\ r.phase = phase /\ r.inbox = requests[i].inbox
    BY <1>0 DEF Request
  <2>2. requests' = [requests EXCEPT ![i] = r]
    BY <1>1
  <2> HIDE DEF r
  <2> QED
    BY <1>0, <2>1, <2>2, BecomesWhenSet
<1>2. ASSUME NEW inbox \in Seq(Message), requests' = [requests EXCEPT ![i].inbox = inbox]
      PROVE  \E r : Becomes(i, r) /\ r.phase = requests[i].phase /\ r.inbox = inbox
  <2> DEFINE r == [requests[i] EXCEPT !.inbox = inbox]
  <2>1. /\ r \in Request /\ r.params = requests[i].params /\ r.isLive = requests[i].isLive
        /\ r.phase = requests[i].phase /\ r.inbox = inbox
    BY <1>0 DEF Request
  <2>2. requests' = [requests EXCEPT ![i] = r]
    BY <1>2
  <2> HIDE DEF r
  <2> QED
    BY <1>0, <2>1, <2>2, BecomesWhenSet
<1>3. ASSUME SubscriptionAnswers(i)
      PROVE  \E r : /\ Becomes(i, r) /\ r.phase = "answered"
                    /\ r.inbox = <<[type |-> "initial", result |-> server[requests[i].params]]>>
  <2>0. PICK inbox \in Seq(Message) : inbox = <<[type |-> "initial", result |-> server[requests[i].params]]>>
    <3>1. PICK m \in Message : m = [type |-> "initial", result |-> server[requests[i].params]]
      BY <1>0, MessageTypes
    <3>2. <<m>> \in Seq(Message)
      OBVIOUS
    <3> QED
      BY <3>1, <3>2
  <2> DEFINE half == [requests[i] EXCEPT !.phase = "answered"]
             r == [half EXCEPT !.inbox = inbox]
             s == [requests EXCEPT ![i] = half]
  <2>1. half \in Request /\ half.params = requests[i].params /\ half.isLive = requests[i].isLive /\ half.phase = "answered"
    BY <1>0 DEF Request
  <2>2. /\ r \in Request /\ r.params = requests[i].params /\ r.isLive = requests[i].isLive
        /\ r.phase = "answered" /\ r.inbox = inbox
    <3> HIDE DEF half
    <3> QED
      BY <2>1 DEF Request
  <2>3. s[i] = half
    BY <1>0
  <2>4. requests' = [s EXCEPT ![i] = [s[i] EXCEPT !.inbox = inbox]]
    BY <1>3, <2>0 DEF SubscriptionAnswers
  <2>5. requests' = [s EXCEPT ![i] = r]
    BY <2>3, <2>4
  <2> HIDE DEF half, r
  <2>6. requests' = [requests EXCEPT ![i] = r]
    BY <2>5
  <2> QED
    BY <1>0, <2>0, <2>2, <2>6, BecomesWhenSet
<1>4. Append(requests[i].inbox, [type |-> "error"]) \in Seq(Message)
  BY <1>0, MessageTypes
<1>5. requests[i].inbox # <<>> => Tail(requests[i].inbox) \in Seq(Message)
  BY <1>0
<1>6. SubscriptionRefused(i) \/ FetchFails(i) => requests' = [requests EXCEPT ![i].phase = "over"]
  BY DEF SubscriptionRefused, FetchFails
<1>7. FetchAnswers(i) => requests' = [requests EXCEPT ![i].phase = "answered"]
  BY DEF FetchAnswers
<1>8. SubscriptionReports(i) => requests' = [requests EXCEPT ![i].inbox = Append(requests[i].inbox, [type |-> "error"])]
  BY DEF SubscriptionReports
<1>9. Deliver(i) => requests[i].inbox # <<>> /\ requests' = [requests EXCEPT ![i].inbox = Tail(requests[i].inbox)]
  BY DEF Deliver
<1> QED
  BY <1>0, <1>1, <1>2, <1>3, <1>4, <1>5, <1>6, <1>7, <1>8, <1>9

\* a result changes: the live subscription of its parameters is sent the change
LEMMA WriteStep ==
  ASSUME TypeOK, NEW p \in Params, NEW d \in Result, Write(p, d)
  PROVE  /\ server' \in [Params -> Result] /\ \A q \in Params : server'[q] = IF q = p THEN d ELSE server[q]
         /\ requests' \in Seq(Request) /\ DOMAIN requests' = DOMAIN requests /\ Len(requests') = Len(requests)
         /\ \A i \in DOMAIN requests :
               /\ requests'[i].params = requests[i].params /\ requests'[i].isLive = requests[i].isLive
               /\ requests'[i].phase = requests[i].phase
               /\ requests'[i].inbox =
                     IF hook.subscribes /\ requests[i].phase = "answered" /\ requests[i].isLive /\ requests[i].params = p
                     THEN Append(requests[i].inbox, [type |-> "change", result |-> d]) ELSE requests[i].inbox
<1>0. requests \in Seq(Request) /\ server \in [Params -> Result]
  BY DEF TypeOK
<1>1. \A q \in Params : server'[q] = IF q = p THEN d ELSE server[q]
  BY <1>0 DEF Write
<1>2. server' \in [Params -> Result]
  BY <1>0 DEF Write
<1> DEFINE Sent(i) == hook.subscribes /\ requests[i].phase = "answered" /\ requests[i].isLive /\ requests[i].params = p
           inbox(i) == IF Sent(i) THEN Append(requests[i].inbox, [type |-> "change", result |-> d]) ELSE requests[i].inbox
<1>3. ASSUME NEW i \in DOMAIN requests
      PROVE  /\ requests'[i] \in Request /\ requests'[i].params = requests[i].params
             /\ requests'[i].isLive = requests[i].isLive /\ requests'[i].phase = requests[i].phase
             /\ requests'[i].inbox = inbox(i)
  <2>0. requests[i] \in Request
    BY <1>0
  <2>1. requests[i] \in Request /\ requests[i].inbox \in Seq(Message)
    BY <2>0 DEF Request
  <2>2. PICK m \in Message : m = [type |-> "change", result |-> d]
    BY MessageTypes
  <2>3. PICK box \in Seq(Message) : box = Append(requests[i].inbox, m)
    <3>1. Append(requests[i].inbox, m) \in Seq(Message)
      BY <2>1
    <3> QED
      BY <3>1
  <2>4. requests'[i] = IF Sent(i) THEN [requests[i] EXCEPT !.inbox = box] ELSE requests[i]
    BY <2>2, <2>3 DEF Write
  <2>5. inbox(i) = IF Sent(i) THEN box ELSE requests[i].inbox
    BY <2>2, <2>3
  <2> HIDE DEF Sent, inbox
  <2> QED
    BY <2>1, <2>3, <2>4, <2>5 DEF Request
<1>4. DOMAIN requests' = DOMAIN requests /\ requests' \in [1..Len(requests) -> Request]
  <2>1. requests' = [i \in DOMAIN requests |-> requests'[i]]
    BY DEF Write
  <2> QED
    BY <1>0, <1>3, <2>1
<1>5. requests' \in Seq(Request) /\ Len(requests') = Len(requests)
  BY <1>0, <1>4
<1>6. \A i \in DOMAIN requests :
         /\ requests'[i].params = requests[i].params /\ requests'[i].isLive = requests[i].isLive
         /\ requests'[i].phase = requests[i].phase /\ requests'[i].inbox = inbox(i)
  <2> HIDE DEF inbox
  <2> QED
    BY <1>3
<1> QED
  BY <1>1, <1>2, <1>4, <1>5, <1>6, Zenon

LEMMA InitTypes == Init => TypeOK
<1> SUFFICES ASSUME Init PROVE TypeOK
  OBVIOUS
<1>1. requests \in Seq(Request)
  <2>1. Asked(hook.params) \in Request /\ <<>> \in Seq(Message)
    BY ReactAssumption DEF Init, Asked, Request
  <2> QED
    BY <2>1 DEF Init
<1>2. refs \in [subscription : Nat, timeout : Nat, fetchId : Nat, wasReady : BOOLEAN]
  BY <1>1 DEF Init, None
<1>3. view \in View
  BY DEF Init, View
<1>4. server \in [Params -> Result] /\ current \in Result \cup {None} /\ query \in Params
  BY ReactAssumption DEF Init, Result
<1>5. hook \in [subscribes : BOOLEAN, mounted : BOOLEAN, params : Params, skip : BOOLEAN,
                isDue : BOOLEAN, seesReady : BOOLEAN]
  BY ReactAssumption DEF Init
<1>6. spent \in [renders : 0..MaxRenders, toggles : 0..MaxToggles, writes : 0..MaxWrites]
  BY ReactAssumption DEF Init
<1> QED
  BY <1>1, <1>2, <1>3, <1>4, <1>5, <1>6 DEF Init, TypeOK

HookRecord == [subscribes : BOOLEAN, mounted : BOOLEAN, params : Params, skip : BOOLEAN,
               isDue : BOOLEAN, seesReady : BOOLEAN]
Refs == [subscription : Nat, timeout : Nat, fetchId : Nat, wasReady : BOOLEAN]
Spent == [renders : 0..MaxRenders, toggles : 0..MaxToggles, writes : 0..MaxWrites]

\* subscribe, after the requests rs
LEMMA SubscribeType ==
  ASSUME TypeOK, NEW rs \in Seq(Request), Subscribe(rs), query' \in Params
  PROVE  requests' \in Seq(Request) /\ refs' \in Refs /\ view' \in View
<1>1. Len(rs) + 1 \in Nat
  OBVIOUS
<1>2. refs' \in Refs
  BY <1>1 DEF TypeOK, Subscribe, Refs
<1> QED
  BY <1>2, RequestMade, ViewStep DEF Subscribe, TypeOK

LEMMA StepTypes ==
  ASSUME TypeOK, [Next]_vars
  PROVE  TypeOK'
<1>0. /\ requests \in Seq(Request) /\ hook \in HookRecord /\ refs \in Refs /\ spent \in Spent /\ view \in View
      /\ query \in Params /\ timers \in SUBSET Nat /\ page \in [isHidden : BOOLEAN, isReady : BOOLEAN]
      /\ lapse \in BOOLEAN /\ current \in Result \cup {None} /\ server \in [Params -> Result]
  BY DEF TypeOK, HookRecord, Refs, Spent
<1> DEFINE Typed == /\ requests \in Seq(Request) /\ hook \in HookRecord /\ refs \in Refs /\ spent \in Spent /\ view \in View
                    /\ query \in Params /\ timers \in SUBSET Nat /\ page \in [isHidden : BOOLEAN, isReady : BOOLEAN]
                    /\ lapse \in BOOLEAN /\ current \in Result \cup {None} /\ server \in [Params -> Result]
<1> SUFFICES Typed'
  BY DEF TypeOK, HookRecord, Refs, Spent
<1>1. ASSUME NEW p \in Params, NEW skips \in BOOLEAN, Render(p, skips) PROVE Typed'
  <2>1. spent' \in Spent
    BY <1>0, <1>1, ReactAssumption DEF Render, Spent
  <2>2. hook' \in HookRecord
    BY <1>0, <1>1 DEF Render, HookRecord
  <2> QED
    BY <1>0, <1>1, <2>1, <2>2 DEF Render
<1>2. CASE ChangeParams
  <2>1. hook' \in HookRecord /\ query' \in Params
    BY <1>0, <1>2 DEF ChangeParams, HookRecord
  <2>2. StopsOld(requests) \in Seq(Request)
    BY <1>0, Stopped DEF StopsOld, Refs
  <2>3. requests' \in Seq(Request) /\ refs' \in Refs /\ view' \in View
    BY <1>0, <1>2, <2>1, <2>2, SubscribeType DEF ChangeParams
  <2> QED
    BY <1>0, <1>2, <2>1, <2>3 DEF ChangeParams
<1>3. ASSUME Toggled PROVE spent' \in Spent /\ page' \in [isHidden : BOOLEAN, isReady : BOOLEAN] /\ NextTimer \in Nat \ {None}
  <2>1. spent' = [spent EXCEPT !.toggles = @ + 1] /\ spent.toggles < MaxToggles /\ page' = [page EXCEPT !.isHidden = ~@]
    BY <1>3 DEF Toggled
  <2>2. spent.toggles \in Nat /\ spent.toggles + 1 \in 0..MaxToggles
    BY <1>0, <2>1, ReactAssumption DEF Spent
  <2>3. spent' \in Spent /\ spent'.toggles = spent.toggles + 1
    BY <1>0, <2>1, <2>2 DEF Spent
  <2>4. page' \in [isHidden : BOOLEAN, isReady : BOOLEAN]
    BY <1>0, <2>1
  <2> QED
    BY <2>2, <2>3, <2>4 DEF NextTimer, None
<1>4. CASE Hide
  <2>1. refs' \in Refs /\ timers' \in SUBSET Nat
    BY <1>0, <1>3, <1>4 DEF Hide, Refs
  <2> QED
    BY <1>0, <1>3, <1>4, <2>1 DEF Hide
<1>5. CASE Show
  <2>1. requests' \in Seq(Request) /\ refs' \in Refs /\ view' \in View /\ timers' \in SUBSET Nat /\ query' = query
    <3>1. CASE Subscribe(requests) /\ UNCHANGED <<query, timers>>
      BY <1>0, <3>1, SubscribeType
    <3>2. [refs EXCEPT !.timeout = None] \in Refs
      BY <1>0 DEF Refs, None
    <3> QED
      BY <1>0, <1>5, <3>1, <3>2 DEF Show, Cleared
  <2> QED
    BY <1>0, <1>3, <1>5, <2>1 DEF Show
<1>6. Unsubscribed \in Refs /\ StoppedAt(requests, refs.subscription) \in Seq(Request)
  BY <1>0, Stopped DEF Unsubscribed, Refs, None
<1>7. ASSUME NEW t \in timers, TimeoutEnds(t) PROVE Typed'
  BY <1>0, <1>6, <1>7 DEF TimeoutEnds
<1>8. CASE Unmount
  <2>1. hook' \in HookRecord
    BY <1>0, <1>8 DEF Unmount, HookRecord
  <2> QED
    BY <1>0, <1>6, <1>8, <2>1 DEF Unmount, Cleared
<1>9. ASSUME NEW i \in DOMAIN requests, AnswerOf(i) \/ SubscriptionReports(i) PROVE Typed'
  <2>1. requests' \in Seq(Request)
    BY <1>9, AnswerSteps DEF AnswerOf, Becomes
  <2>2. /\ requests[i] \in Request /\ requests[i].params \in Params
        /\ server[requests[i].params] \in Result /\ requests[i].inbox \in Seq(Message)
    BY <1>0, AnswerSteps DEF Request
  <2>3. CASE Deliver(i)
    <3>1. Head(requests[i].inbox) \in Message
      BY <2>2, <2>3 DEF Deliver
    <3>2. view' \in View /\ current' \in Result \cup {None}
      BY <1>0, <2>2, <2>3, <3>1, MessageTypes, ViewStep DEF Deliver, Takes
    <3> QED
      BY <1>0, <2>1, <2>3, <3>2 DEF Deliver
  <2>4. view' \in View
    BY <1>0, <1>9, <2>2, <2>3, ViewStep
    DEF AnswerOf, SubscriptionAnswers, SubscriptionRefused, FetchAnswers, FetchFails, SubscriptionReports
  <2>5. spent' \in Spent
    BY <1>0, <1>9, ReactAssumption
    DEF AnswerOf, SubscriptionAnswers, SubscriptionRefused, Deliver, FetchAnswers, FetchFails, SubscriptionReports, still, Spent
  <2> QED
    BY <1>0, <1>9, <2>1, <2>3, <2>4, <2>5
    DEF AnswerOf, SubscriptionAnswers, SubscriptionRefused, FetchAnswers, FetchFails, SubscriptionReports, still
<1>10. ASSUME NEW p \in Params, NEW d \in Result, Write(p, d) PROVE Typed'
  <2>1. spent' \in Spent
    BY <1>0, <1>10, ReactAssumption DEF Write, Spent
  <2> QED
    BY <1>0, <1>10, <2>1, WriteStep DEF Write
<1>11. CASE TransportReady
  BY <1>0, <1>11 DEF TransportReady
<1>12. CASE SeesReady
  <2>1. hook' \in HookRecord
    BY <1>0, <1>12 DEF SeesReady, HookRecord
  <2> QED
    BY <1>0, <1>12, <2>1 DEF SeesReady, still
<1>13. ASSUME NEW p \in Params, Fetch(p) PROVE requests' \in Seq(Request) /\ view' \in View /\ Len(requests) + 1 \in Nat
  BY <1>0, <1>13, RequestMade, ViewStep DEF Fetch
<1>14. CASE FetchWhenReady
  <2>1. refs' \in Refs
    BY <1>0, <1>13, <1>14 DEF FetchWhenReady, Refs
  <2> QED
    BY <1>0, <1>13, <1>14, <2>1 DEF FetchWhenReady, still
<1>15. CASE FetchChanged
  <2>1. hook' \in HookRecord /\ hook.params \in Params
    BY <1>0, <1>15 DEF FetchChanged, HookRecord
  <2>2. refs' \in Refs
    BY <1>0, <1>13, <1>15, <2>1 DEF FetchChanged, Refs
  <2> QED
    BY <1>0, <1>13, <1>15, <2>1, <2>2 DEF FetchChanged, still
<1>16. CASE UNCHANGED vars
  BY <1>0, <1>16 DEF vars
<1> QED
  BY <1>1, <1>2, <1>4, <1>5, <1>7, <1>8, <1>9, <1>10, <1>11, <1>12, <1>14, <1>15, <1>16 DEF Next, Effects

LEMMA TypesHold == Spec => []TypeOK
  BY InitTypes, StepTypes, PTL DEF Spec

-----------------------------------------------------------------------------
(* One subscription at a time *)

\* what is subscribed is what the query asks for, and the query is that of the last render
LiveInv == \A i \in LiveOnes : requests[i].params = query
QueryInv == hook.mounted /\ ~hook.isDue /\ (hook.subscribes \/ ~hook.skip) => query = hook.params
OneInv == NoSubscriptionLeaks /\ LiveInv /\ QueryInv

\* stopped, the subscription the hook refers to leaves none behind
LEMMA NoneLive ==
  ASSUME TypeOK, NoSubscriptionLeaks, hook.subscribes
  PROVE  /\ \A i \in DOMAIN StoppedAt(requests, refs.subscription) : ~StoppedAt(requests, refs.subscription)[i].isLive
         /\ refs.subscription = None => \A i \in DOMAIN requests : ~requests[i].isLive
<1>1. requests \in Seq(Request) /\ refs.subscription \in Nat
  BY DEF TypeOK
<1>2. \A i \in DOMAIN requests : requests[i].isLive => i = refs.subscription /\ i # None
  BY <1>1 DEF NoSubscriptionLeaks, LiveOnes, None
<1> QED
  BY <1>1, <1>2, Stopped

\* subscribed after that, the hook refers to the one that lives
LEMMA OneSubscribed ==
  ASSUME TypeOK, NEW rs \in Seq(Request), \A i \in DOMAIN rs : ~rs[i].isLive, Subscribe(rs),
         hook'.subscribes, query' \in Params
  PROVE  /\ LiveOnes' = {refs'.subscription} /\ refs'.subscription # None
         /\ requests'[refs'.subscription] = Asked(query')
         /\ refs'.timeout = refs.timeout
<1>1. refs'.subscription = Len(rs) + 1 /\ refs'.timeout = refs.timeout /\ requests' = Append(rs, Asked(query'))
  BY DEF TypeOK, Subscribe
<1>2. Asked(query').isLive
  BY DEF Asked
<1>3. /\ DOMAIN requests' = DOMAIN rs \cup {Len(rs) + 1} /\ requests'[Len(rs) + 1] = Asked(query')
      /\ Len(rs) + 1 # None /\ \A j \in DOMAIN rs : requests'[j] = rs[j]
  BY <1>1, RequestMade
<1>4. LiveOnes' = {Len(rs) + 1}
  BY <1>2, <1>3 DEF LiveOnes
<1> QED
  BY <1>1, <1>3, <1>4

\* the steps that neither start a request nor stop one
LEMMA LiveKept ==
  ASSUME TypeOK, hook'.subscribes = hook.subscribes,
         \/ requests' = requests
         \/ \E i \in DOMAIN requests : AnswerOf(i) \/ SubscriptionReports(i)
         \/ \E p \in Params, d \in Result : Write(p, d)
  PROVE  LiveOnes' = LiveOnes /\ \A i \in LiveOnes : requests'[i].params = requests[i].params
<1>1. CASE requests' = requests
  BY <1>1 DEF LiveOnes
<1>2. ASSUME DOMAIN requests' = DOMAIN requests,
             \A i \in DOMAIN requests : requests'[i].isLive = requests[i].isLive /\ requests'[i].params = requests[i].params
      PROVE  LiveOnes' = LiveOnes /\ \A i \in LiveOnes : requests'[i].params = requests[i].params
  BY <1>2 DEF LiveOnes
<1>3. ASSUME NEW i \in DOMAIN requests, AnswerOf(i) \/ SubscriptionReports(i)
      PROVE  LiveOnes' = LiveOnes /\ \A j \in LiveOnes : requests'[j].params = requests[j].params
  <2>1. PICK r : Becomes(i, r)
    BY <1>3, AnswerSteps DEF AnswerOf
  <2> QED
    BY <1>2, <2>1 DEF Becomes
<1>4. ASSUME NEW p \in Params, NEW d \in Result, Write(p, d)
      PROVE  LiveOnes' = LiveOnes /\ \A j \in LiveOnes : requests'[j].params = requests[j].params
  BY <1>2, <1>4, WriteStep
<1> QED
  BY <1>1, <1>3, <1>4

\* what the steps do to the hook, its query and its references
LEMMA StepFrames ==
  ASSUME TypeOK, [Next]_vars
  PROVE  /\ hook'.subscribes = hook.subscribes /\ (hook'.mounted => hook.mounted)
         /\ \A i \in DOMAIN requests : AnswerOf(i) \/ SubscriptionReports(i) => UNCHANGED <<hook, query, refs, page, timers, lapse>>
         /\ \A p \in Params, d \in Result : Write(p, d) => UNCHANGED <<hook, query, refs, page, timers, lapse>>
<1>1. hook'.subscribes = hook.subscribes /\ (hook'.mounted => hook.mounted)
  BY DEF TypeOK, Next, vars, Render, Effects, ChangeParams, Hide, Show, TimeoutEnds, Unmount, SubscriptionAnswers,
     SubscriptionRefused, SubscriptionReports, Write, Deliver, TransportReady, SeesReady, FetchWhenReady,
     FetchChanged, FetchAnswers, FetchFails, AnswerOf
<1>2. \A i \in DOMAIN requests : AnswerOf(i) \/ SubscriptionReports(i) => UNCHANGED <<hook, query, refs, page, timers, lapse>>
  BY DEF SubscriptionAnswers, SubscriptionRefused, SubscriptionReports, Deliver, FetchAnswers, FetchFails, AnswerOf, still
<1> QED
  BY <1>1, <1>2 DEF Write

LEMMA OneStays ==
  ASSUME TypeOK, TypeOK', OneInv, [Next]_vars
  PROVE  OneInv'
<1>0. /\ requests \in Seq(Request) /\ hook \in HookRecord /\ refs \in Refs /\ query \in Params /\ query' \in Params
      /\ hook'.subscribes = hook.subscribes
  BY StepFrames DEF TypeOK, HookRecord, Refs
<1>1. ASSUME ~hook.subscribes PROVE NoSubscriptionLeaks' /\ LiveInv'
  <2>1. LiveOnes' = {}
    BY <1>0, <1>1 DEF LiveOnes
  <2> QED
    BY <2>1 DEF NoSubscriptionLeaks, LiveInv
<1>2. ASSUME LiveOnes' = {} PROVE NoSubscriptionLeaks' /\ LiveInv'
  BY <1>2 DEF NoSubscriptionLeaks, LiveInv
<1>3. ASSUME NEW rs \in Seq(Request), \A i \in DOMAIN rs : ~rs[i].isLive, Subscribe(rs), hook'.subscribes, hook'.mounted
      PROVE  NoSubscriptionLeaks' /\ LiveInv'
  <2>1. LiveOnes' = {refs'.subscription} /\ requests'[refs'.subscription].params = query'
    BY <1>0, <1>3, OneSubscribed DEF Asked
  <2> QED
    BY <1>3, <2>1 DEF NoSubscriptionLeaks, LiveInv
<1>4. ASSUME UNCHANGED query, refs'.subscription = refs.subscription, hook'.mounted = hook.mounted,
             \/ requests' = requests
             \/ \E i \in DOMAIN requests : AnswerOf(i) \/ SubscriptionReports(i)
             \/ \E p \in Params, d \in Result : Write(p, d)
      PROVE  NoSubscriptionLeaks' /\ LiveInv'
  BY <1>0, <1>4, LiveKept DEF OneInv, NoSubscriptionLeaks, LiveInv
<1>5. ASSUME hook.subscribes, requests' = StoppedAt(requests, refs.subscription) PROVE LiveOnes' = {}
  BY <1>5, NoneLive DEF OneInv, LiveOnes
<1>6. CASE ChangeParams
  <2>1. hook.subscribes /\ hook.mounted /\ hook'.mounted /\ ~hook'.isDue /\ hook'.params = hook.params /\ query' = hook.params
    BY <1>0, <1>6 DEF ChangeParams, HookRecord
  <2>2. NoSubscriptionLeaks' /\ LiveInv'
    <3>1. StoppedAt(requests, refs.subscription) \in Seq(Request)
      BY <1>0, Stopped DEF Refs
    <3> QED
      BY <1>0, <1>2, <1>3, <1>5, <1>6, <2>1, <3>1, NoneLive DEF ChangeParams, StopsOld, OneInv
  <2> QED
    BY <2>1, <2>2 DEF OneInv, QueryInv
<1>7. ASSUME NEW p \in Params, NEW skips \in BOOLEAN, Render(p, skips) PROVE OneInv'
  <2>1. hook'.isDue /\ hook'.mounted = hook.mounted /\ UNCHANGED <<query, refs, requests>>
    BY <1>0, <1>7 DEF Render, HookRecord
  <2> QED
    BY <1>4, <2>1 DEF OneInv, QueryInv
<1>8. CASE Hide \/ TransportReady
  <2>1. refs'.subscription = refs.subscription /\ UNCHANGED <<hook, query, requests>>
    BY <1>0, <1>8 DEF Hide, TransportReady, Refs
  <2> QED
    BY <1>4, <2>1 DEF OneInv, QueryInv
<1>9. CASE Show
  <2>1. UNCHANGED <<hook, query>> /\ hook.subscribes
    BY <1>9 DEF Show, Toggled
  <2>2. CASE requests' = requests /\ refs'.subscription = refs.subscription
    BY <1>4, <2>1, <2>2 DEF OneInv, QueryInv
  <2>3. CASE HandlesVisibility /\ refs.subscription = None /\ Subscribe(requests)
    BY <1>0, <1>3, <2>1, <2>3, NoneLive DEF OneInv, QueryInv, HandlesVisibility
  <2> QED
    BY <1>0, <1>9, <2>2, <2>3 DEF Show, Refs
<1>10. ASSUME NEW t \in timers, TimeoutEnds(t) PROVE OneInv'
  <2>1. CASE hook.subscribes
    BY <1>2, <1>5, <1>10, <2>1 DEF TimeoutEnds, OneInv, QueryInv
  <2>2. CASE ~hook.subscribes
    BY <1>1, <1>10, <2>2 DEF TimeoutEnds, OneInv, QueryInv
  <2> QED
    BY <2>1, <2>2
<1>11. CASE Unmount
  <2>1. ~hook'.mounted
    BY <1>0, <1>11 DEF Unmount, HookRecord
  <2>2. NoSubscriptionLeaks' /\ LiveInv'
    BY <1>1, <1>2, <1>5, <1>11 DEF Unmount
  <2> QED
    BY <2>1, <2>2 DEF OneInv, QueryInv
<1>12. CASE \/ \E i \in DOMAIN requests : AnswerOf(i) \/ SubscriptionReports(i)
            \/ \E p \in Params, d \in Result : Write(p, d)
  <2>1. UNCHANGED <<hook, query, refs>>
    BY <1>12, StepFrames
  <2> QED
    BY <1>4, <1>12, <2>1 DEF OneInv, QueryInv
<1>13. CASE SeesReady \/ FetchWhenReady \/ FetchChanged
  <2>1. ~hook.subscribes
    BY <1>13 DEF SeesReady, FetchWhenReady, FetchChanged
  <2>2. QueryInv'
    <3>1. CASE SeesReady \/ FetchWhenReady
      <4>1. /\ hook'.mounted = hook.mounted /\ hook'.isDue = hook.isDue /\ hook'.skip = hook.skip
            /\ hook'.params = hook.params /\ query' = query
        BY <1>0, <3>1 DEF SeesReady, FetchWhenReady, HookRecord
      <4> QED
        BY <1>0, <4>1 DEF OneInv, QueryInv
    <3>2. CASE FetchChanged
      <4>1. hook'.skip = hook.skip /\ hook'.params = hook.params /\ (~hook.skip => query' = hook.params)
        BY <1>0, <3>2 DEF FetchChanged, HookRecord
      <4> QED
        BY <1>0, <2>1, <4>1 DEF QueryInv
    <3> QED
      BY <1>13, <3>1, <3>2
  <2> QED
    BY <1>1, <2>1, <2>2 DEF OneInv
<1>14. CASE UNCHANGED vars
  BY <1>4, <1>14 DEF vars, OneInv, QueryInv
<1> QED
  BY <1>6, <1>7, <1>8, <1>9, <1>10, <1>11, <1>12, <1>13, <1>14 DEF Next, Effects

LEMMA OneFirst == Init => OneInv
<1> SUFFICES ASSUME Init PROVE OneInv
  OBVIOUS
<1>1. query = hook.params /\ hook.mounted
  BY DEF Init
<1>2. CASE requests = <<>>
  BY <1>1, <1>2 DEF OneInv, NoSubscriptionLeaks, LiveInv, LiveOnes, QueryInv
<1>3. CASE requests = <<Asked(hook.params)>>
  <2>1. DOMAIN requests = {1} /\ requests[1].params = hook.params /\ Len(requests) = 1
    BY <1>3 DEF Asked
  <2>2. hook.subscribes => refs.subscription = 1
    BY <2>1 DEF Init
  <2> QED
    BY <1>1, <2>1, <2>2 DEF OneInv, NoSubscriptionLeaks, LiveInv, LiveOnes, QueryInv
<1> QED
  BY <1>2, <1>3 DEF Init

LEMMA OneSubscription == Spec => []OneInv
  BY OneFirst, OneStays, TypesHold, PTL DEF Spec

(***************************************************************************)
(* A component has one subscription at most, which it can still stop, and  *)
(* leaves none behind: HookInv, of querySubscriptionRef, for any number of *)
(* renders and page changes, and whichever timeout ends when.              *)
(***************************************************************************)
THEOREM NeverTwoSubscriptions == Spec => []HookInv
  BY TypesHold, OneSubscription, PTL DEF HookInv, OneInv


-----------------------------------------------------------------------------
(* Subscribed when shown *)

\* Unless its parameters or skip changed while the page was hidden: the only timeout
\* is the one the hook refers to, it runs for a hidden page, and a page that is shown, or
\* hidden for less than that, is subscribed.
PageInv ==
    hook.subscribes /\ hook.mounted /\ ~lapse =>
        /\ timers = IF refs.timeout = None THEN {} ELSE {refs.timeout}
        /\ refs.timeout # None => page.isHidden /\ ~hook.skip
        /\ page.isHidden /\ ~hook.skip /\ refs.timeout = None => refs.subscription = None
        /\ ~hook.isDue /\ ~hook.skip /\ (~page.isHidden \/ refs.timeout # None) =>
              refs.subscription \in LiveOnes

LEMMA PageStays ==
  ASSUME TypeOK, TypeOK', OneInv, PageInv, [Next]_vars
  PROVE  PageInv'
<1> SUFFICES ASSUME hook.subscribes, hook'.subscribes, hook.mounted, hook'.mounted, ~lapse' PROVE PageInv'
  BY StepFrames DEF PageInv
<1>0. /\ requests \in Seq(Request) /\ hook \in HookRecord /\ refs \in Refs /\ spent \in Spent
      /\ page \in [isHidden : BOOLEAN, isReady : BOOLEAN] /\ query' \in Params /\ NoSubscriptionLeaks
  BY DEF TypeOK, HookRecord, Refs, Spent, OneInv
<1>1. ASSUME ~lapse, LiveOnes' = LiveOnes, UNCHANGED <<hook, refs, page, timers>> PROVE PageInv'
  BY <1>1 DEF PageInv
<1>2. ASSUME NEW p \in Params, NEW skips \in BOOLEAN, Render(p, skips) PROVE PageInv'
  <2>1. hook'.isDue /\ ~page.isHidden /\ ~lapse /\ UNCHANGED <<refs, page, timers>>
    BY <1>0, <1>2 DEF Render, HookRecord
  <2> QED
    BY <2>1 DEF PageInv
<1>3. CASE ChangeParams
  <2>1. /\ ~page.isHidden /\ ~lapse /\ UNCHANGED <<page, timers>> /\ hook'.skip = hook.skip
        /\ refs.timeout = None /\ timers = {}
    BY <1>0, <1>3 DEF ChangeParams, HookRecord, PageInv
  <2>2. CASE hook.skip
    <3>1. refs' = refs
      BY <1>3, <2>2 DEF ChangeParams, MaySubscribe
    <3> QED
      BY <2>1, <2>2, <3>1 DEF PageInv
  <2>3. CASE ~hook.skip
    <3>1. Subscribe(StoppedAt(requests, refs.subscription))
      BY <1>3, <2>1, <2>3 DEF ChangeParams, MaySubscribe, StopsOld
    <3>2. StoppedAt(requests, refs.subscription) \in Seq(Request)
      BY <1>0, Stopped DEF Refs
    <3>3. LiveOnes' = {refs'.subscription} /\ refs'.timeout = None
      BY <1>0, <2>1, <3>1, <3>2, NoneLive, OneSubscribed
    <3> QED
      BY <2>1, <3>3 DEF PageInv
  <2> QED
    BY <2>2, <2>3
<1>4. ASSUME Toggled
      PROVE  page'.isHidden = ~page.isHidden /\ spent'.toggles # None
  <2>1. spent.toggles \in Nat
    BY <1>0, ReactAssumption DEF Spent
  <2> QED
    BY <1>0, <1>4, <2>1 DEF Toggled, Spent, None
<1>5. CASE Hide
  <2>1. /\ Toggled /\ ~page.isHidden /\ page'.isHidden /\ ~lapse /\ UNCHANGED <<hook, requests>>
        /\ LiveOnes' = LiveOnes /\ refs.timeout = None /\ timers = {}
    BY <1>4, <1>5 DEF Hide, LiveOnes, PageInv
  <2>2. CASE HandlesVisibility /\ refs.subscription # None
    <3>1. timers' = {NextTimer} /\ refs'.timeout = NextTimer /\ NextTimer # None /\ refs'.subscription = refs.subscription
      BY <1>0, <1>4, <1>5, <2>1, <2>2 DEF Hide, NextTimer, Refs
    <3> QED
      BY <2>1, <2>2, <3>1 DEF PageInv, HandlesVisibility
  <2>3. CASE ~(HandlesVisibility /\ refs.subscription # None)
    <3>1. UNCHANGED <<timers, refs>>
      BY <1>5, <2>3 DEF Hide
    <3> QED
      BY <2>1, <2>3, <3>1 DEF PageInv, HandlesVisibility
  <2> QED
    BY <2>2, <2>3
<1>6. CASE Show
  <2>1. Toggled /\ page.isHidden /\ ~page'.isHidden /\ ~lapse /\ UNCHANGED hook
    BY <1>4, <1>6 DEF Show
  <2>2. CASE HandlesVisibility /\ refs.timeout # None /\ timers' = Cleared /\ refs' = [refs EXCEPT !.timeout = None]
             /\ UNCHANGED <<query, requests, view>>
    <3>1. refs'.timeout = None /\ refs'.subscription = refs.subscription /\ LiveOnes' = LiveOnes /\ timers' = {}
      BY <1>0, <2>1, <2>2 DEF Refs, LiveOnes, Cleared, PageInv
    <3> QED
      BY <2>1, <2>2, <3>1 DEF PageInv
  <2>3. CASE HandlesVisibility /\ refs.timeout = None /\ refs.subscription = None /\ UNCHANGED timers /\ Subscribe(requests)
    <3>1. LiveOnes' = {refs'.subscription} /\ refs'.timeout = None
      BY <1>0, <2>3, NoneLive, OneSubscribed
    <3> QED
      BY <2>1, <2>3, <3>1 DEF PageInv
  <2>4. CASE /\ ~HandlesVisibility \/ (refs.timeout = None /\ refs.subscription # None)
             /\ UNCHANGED <<query, requests, refs, timers, view>>
    BY <2>1, <2>4 DEF PageInv, HandlesVisibility
  <2> QED
    BY <1>6, <2>2, <2>3, <2>4 DEF Show
<1>7. ASSUME NEW t \in timers, TimeoutEnds(t) PROVE PageInv'
  <2>1. /\ ~lapse /\ UNCHANGED <<page, hook>> /\ refs'.timeout = None /\ refs'.subscription = None
        /\ t = refs.timeout /\ timers' = {} /\ page.isHidden
    BY <1>0, <1>7 DEF TimeoutEnds, Unsubscribed, Refs, PageInv
  <2> QED
    BY <2>1 DEF PageInv
<1>8. ~Unmount
  BY <1>0 DEF Unmount, HookRecord
<1>9. CASE \/ \E i \in DOMAIN requests : AnswerOf(i) \/ SubscriptionReports(i)
           \/ \E p \in Params, d \in Result : Write(p, d)
  <2>1. UNCHANGED <<hook, refs, page, timers, lapse>>
    BY <1>9, StepFrames
  <2> QED
    BY <1>1, <1>9, <2>1, LiveKept
<1>10. CASE TransportReady
  <2>1. page'.isHidden = page.isHidden /\ UNCHANGED <<hook, refs, timers, requests, lapse>>
    BY <1>0, <1>10 DEF TransportReady
  <2> QED
    BY <2>1 DEF PageInv, LiveOnes
<1>11. CASE UNCHANGED vars
  BY <1>1, <1>11 DEF vars, LiveOnes
<1>12. ~SeesReady /\ ~FetchWhenReady /\ ~FetchChanged
  BY DEF SeesReady, FetchWhenReady, FetchChanged
<1> QED
  BY <1>2, <1>3, <1>5, <1>6, <1>7, <1>8, <1>9, <1>10, <1>11, <1>12 DEF Next, Effects

LEMMA PageFirst == Init => PageInv
<1> SUFFICES ASSUME Init, hook.subscribes PROVE PageInv
  BY DEF PageInv
<1>1. timers = {} /\ refs.timeout = None
  BY DEF Init
<1>2. CASE requests = <<>>
  BY <1>1, <1>2 DEF PageInv, Init, None
<1>3. CASE requests = <<Asked(hook.params)>>
  <2>1. DOMAIN requests = {1} /\ requests[1].isLive /\ refs.subscription = 1 /\ ~page.isHidden
    BY <1>3 DEF Init, Asked
  <2> QED
    BY <1>1, <2>1 DEF PageInv, LiveOnes
<1> QED
  BY <1>2, <1>3 DEF Init

(***************************************************************************)
(* A component that is shown is subscribed with its last parameters, if    *)
(* they did not change while its page was hidden: SubscribedWhenShown,     *)
(* whatever the order of effects, visibility changes and timeouts.         *)
(***************************************************************************)
THEOREM ShownComponentSubscribes == Spec => []SubscribedWhenShown
<1>1. OneInv /\ PageInv => SubscribedWhenShown
  BY DEF OneInv, LiveInv, QueryInv, PageInv, SubscribedWhenShown, Watching
<1> QED
  BY <1>1, PageFirst, PageStays, TypesHold, OneSubscription, PTL DEF Spec

-----------------------------------------------------------------------------
(* What is shown *)

\* the results that wait end with v; or none waits, and v is shown
Brings(inbox, v) ==
    \E j \in DOMAIN inbox :
        /\ inbox[j].type # "error" /\ inbox[j].result = v
        /\ \A l \in DOMAIN inbox : l > j => inbox[l].type = "error"
Silent(inbox) == \A l \in DOMAIN inbox : inbox[l].type = "error"
Shows(v) == view.fetched /\ ~view.fetching /\ view.result = v

\* an answered subscription has sent, or the component shows, the result of now
Current(r) ==
    LET v == server[r.params]
    IN  r.phase = "answered" /\ v # Null => Brings(r.inbox, v) \/ (Silent(r.inbox) /\ Shows(v))
AnswerInv == \A i \in LiveOnes : Current(requests[i])

\* messages behind, in front
LEMMA BringsLast ==
  ASSUME NEW inbox \in Seq(Message), NEW m \in Message
  PROVE  /\ m.type # "error" => Brings(Append(inbox, m), m.result)
         /\ m.type = "error" =>
               /\ \A v : Brings(inbox, v) => Brings(Append(inbox, m), v)
               /\ Silent(inbox) => Silent(Append(inbox, m))
<1>1. /\ DOMAIN Append(inbox, m) = DOMAIN inbox \cup {Len(inbox) + 1}
      /\ Append(inbox, m)[Len(inbox) + 1] = m
      /\ \A l \in DOMAIN inbox : Append(inbox, m)[l] = inbox[l] /\ l <= Len(inbox)
      /\ DOMAIN inbox \subseteq Nat /\ Len(inbox) \in Nat
  OBVIOUS
<1> HIDE DEF Message
<1>2. PICK box : box = Append(inbox, m)
  OBVIOUS
<1>3. ASSUME m.type # "error" PROVE Brings(box, m.result)
  BY <1>1, <1>2, <1>3 DEF Brings
<1>4. ASSUME m.type = "error", NEW v, Brings(inbox, v) PROVE Brings(box, v)
  <2>1. PICK j \in DOMAIN inbox : /\ inbox[j].type # "error" /\ inbox[j].result = v
                                  /\ \A l \in DOMAIN inbox : l > j => inbox[l].type = "error"
    BY <1>4 DEF Brings
  <2> QED
    BY <1>1, <1>2, <1>4, <2>1 DEF Brings
<1>5. m.type = "error" /\ Silent(inbox) => Silent(box)
  BY <1>1, <1>2 DEF Silent
<1> QED
  BY <1>2, <1>3, <1>4, <1>5

LEMMA BringsFirst ==
  ASSUME NEW inbox \in Seq(Message), inbox # <<>>, NEW v
  PROVE  /\ Brings(inbox, v) => Brings(Tail(inbox), v) \/ (Silent(Tail(inbox)) /\ Head(inbox).type # "error" /\ Head(inbox).result = v)
         /\ Silent(inbox) => Silent(Tail(inbox)) /\ Head(inbox).type = "error"
<1>0. PICK rest : rest = Tail(inbox)
  OBVIOUS
<1>1. /\ \A l \in DOMAIN rest : l \in Nat /\ l > 0 /\ l + 1 \in DOMAIN inbox /\ rest[l] = inbox[l + 1]
      /\ \A l \in DOMAIN inbox : l \in Nat /\ (l # 1 => l - 1 \in DOMAIN rest /\ inbox[l] = rest[l - 1])
      /\ 1 \in DOMAIN inbox /\ Head(inbox) = inbox[1]
  BY <1>0
<1>2. Silent(inbox) => Silent(rest) /\ Head(inbox).type = "error"
  BY <1>1 DEF Silent
<1>3. ASSUME Brings(inbox, v)
      PROVE  Brings(rest, v) \/ (Silent(rest) /\ Head(inbox).type # "error" /\ Head(inbox).result = v)
  <2>1. PICK j \in DOMAIN inbox : /\ inbox[j].type # "error" /\ inbox[j].result = v
                                  /\ \A l \in DOMAIN inbox : l > j => inbox[l].type = "error"
    BY <1>3 DEF Brings
  <2>2. CASE j = 1
    <3>1. \A l \in DOMAIN rest : rest[l].type = "error"
      BY <1>1, <2>1, <2>2
    <3> QED
      BY <1>1, <2>1, <2>2, <3>1 DEF Silent
  <2>3. CASE j # 1
    <3>1. j - 1 \in DOMAIN rest /\ rest[j - 1] = inbox[j]
      BY <1>1, <2>1, <2>3
    <3>2. \A l \in DOMAIN rest : l > j - 1 => rest[l].type = "error"
      BY <1>1, <2>1
    <3> QED
      BY <2>1, <3>1, <3>2 DEF Brings
  <2> QED
    BY <2>2, <2>3
<1> QED
  BY <1>0, <1>2, <1>3


\* a message that is delivered: what it brings is shown
LEMMA DeliverCurrent ==
  ASSUME TypeOK, TypeOK', NEW i \in DOMAIN requests, Deliver(i), Current(requests[i])
  PROVE  Current(requests[i])'
<1>0. PICK r : Becomes(i, r) /\ r.phase = requests[i].phase /\ r.inbox = Tail(requests[i].inbox)
  BY AnswerSteps
<1>m. PICK m : m = Head(requests[i].inbox)
  OBVIOUS
<1>v. PICK v : v = server[requests[i].params]
  OBVIOUS
<1>1. /\ requests'[i] = r /\ r.params = requests[i].params /\ server' = server
      /\ requests[i].inbox # <<>>
  BY <1>0 DEF Becomes, Deliver
<1>2. requests[i].inbox \in Seq(Message) /\ m \in Message
  <2>1. requests[i] \in Request
    BY AnswerSteps
  <2>2. requests[i].inbox \in Seq(Message)
    BY <2>1 DEF Request
  <2> QED
    BY <1>m, <1>1, <2>2
<1>3. view \in View /\ view.fetched \in BOOLEAN /\ view.fetching \in BOOLEAN
  BY ViewTypes DEF TypeOK
<1>4. \/ Takes(m) /\ Resolve(m.result, requests[i].params)
      \/ m.type = "error" /\ Error
      \/ m.type # "error" /\ ~Takes(m) /\ UNCHANGED view
  BY <1>m DEF Deliver
<1> SUFFICES ASSUME r.phase = "answered", v # Null
             PROVE  Brings(r.inbox, v) \/ (Silent(r.inbox) /\ Shows(v)')
  BY <1>1, <1>v DEF Current, Shows, Brings, Silent
<1>5. Brings(requests[i].inbox, v) \/ (Silent(requests[i].inbox) /\ Shows(v))
  BY <1>0, <1>1, <1>v DEF Current
<1>6. CASE Silent(r.inbox) /\ m.type # "error" /\ m.result = v
  <2>1. Resolve(v, requests[i].params)
    BY <1>4, <1>6 DEF Takes
  <2>2. Shows(v)'
    BY <2>1 DEF Resolve, Shows
  <2> QED
    BY <1>6, <2>2
<1>7. CASE Silent(r.inbox) /\ m.type = "error" /\ Shows(v)
  <2>1. Error
    BY <1>4, <1>7 DEF Takes
  <2>2. view'.fetched = view.fetched /\ view'.result = view.result /\ (view'.fetching => view.fetching)
    <3>1. view' = [view EXCEPT !.fetching = FALSE, !.error = TRUE] \/ view' = view
      BY <2>1 DEF Error
    <3>2. /\ [view EXCEPT !.fetching = FALSE, !.error = TRUE].fetched = view.fetched
          /\ [view EXCEPT !.fetching = FALSE, !.error = TRUE].result = view.result
          /\ ~[view EXCEPT !.fetching = FALSE, !.error = TRUE].fetching
      BY <1>3 DEF View
    <3> QED
      BY <3>1, <3>2
  <2> QED
    BY <1>7, <2>2 DEF Shows
<1>8. Brings(requests[i].inbox, v) => Brings(r.inbox, v) \/ (Silent(r.inbox) /\ m.type # "error" /\ m.result = v)
  BY <1>0, <1>m, <1>1, <1>2, BringsFirst
<1>9. Silent(requests[i].inbox) => Silent(r.inbox) /\ m.type = "error"
  BY <1>0, <1>m, <1>1, <1>2, BringsFirst
<1> QED
  BY <1>5, <1>6, <1>7, <1>8, <1>9

\* the other answers
LEMMA AnswerCurrent ==
  ASSUME TypeOK, TypeOK', OneInv, hook.subscribes, AnswerInv, NEW i \in DOMAIN requests,
         AnswerOf(i) \/ SubscriptionReports(i)
  PROVE  AnswerInv'
<1>0. requests[i] \in Request /\ requests[i].inbox \in Seq(Message) /\ requests[i].isLive \in BOOLEAN
  <2>1. requests[i] \in Request
    BY AnswerSteps
  <2> QED
    BY <2>1 DEF Request
<1>1. PICK r : Becomes(i, r)
  BY AnswerSteps DEF AnswerOf
<1>2. hook'.subscribes /\ server' = server
  BY DEF AnswerOf, SubscriptionAnswers, SubscriptionRefused, Deliver, FetchAnswers, FetchFails, SubscriptionReports, still
<1>3. LiveOnes' = LiveOnes /\ \A j \in LiveOnes : j # i => requests'[j] = requests[j]
  BY <1>1, <1>2 DEF Becomes, LiveOnes
<1>4. \A j, k \in LiveOnes : j = k
  BY DEF OneInv, NoSubscriptionLeaks
<1>5. ASSUME i \in LiveOnes, Current(requests[i])' PROVE AnswerInv'
  BY <1>3, <1>4, <1>5 DEF AnswerInv
<1>6. ASSUME i \notin LiveOnes, view'.fetched = view.fetched, view'.result = view.result, view'.fetching => view.fetching
      PROVE  AnswerInv'
  <2>1. ASSUME NEW j \in LiveOnes PROVE Current(requests[j])'
    <3>1. j # i /\ requests'[j] = requests[j] /\ Current(requests[j])
      BY <1>3, <1>6, <2>1 DEF AnswerInv
    <3> QED
      BY <1>2, <1>6, <3>1 DEF Current, Shows
  <2> QED
    BY <1>3, <2>1 DEF AnswerInv
<1>7. CASE SubscriptionAnswers(i)
  <2>1. PICK n : /\ Becomes(i, n) /\ n.phase = "answered"
                 /\ n.inbox = <<[type |-> "initial", result |-> server[requests[i].params]]>>
    BY <1>7, AnswerSteps
  <2>2. i \in LiveOnes
    BY <1>7 DEF SubscriptionAnswers, LiveOnes
  <2>3. PICK m : m = [type |-> "initial", result |-> server[requests[i].params]]
    OBVIOUS
  <2>4. <<m>> = Append(<<>>, m) /\ m \in Message /\ <<>> \in Seq(Message)
    <3>1. server[requests[i].params] \in Result
      BY AnswerSteps
    <3>2. m \in Message
      BY <2>3, <3>1, MessageTypes
    <3> QED
      BY <3>2
  <2>5. m.type # "error" /\ m.result = server[requests[i].params]
    BY <2>3
  <2>6. Brings(n.inbox, server[requests[i].params])
    BY <2>1, <2>3, <2>4, <2>5, BringsLast
  <2>7. requests'[i] = n /\ n.params = requests[i].params
    BY <2>1 DEF Becomes
  <2> QED
    BY <1>2, <1>5, <2>2, <2>6, <2>7 DEF Current
<1>8. CASE SubscriptionReports(i)
  <2>1. PICK n : /\ Becomes(i, n) /\ n.phase = requests[i].phase
                 /\ n.inbox = Append(requests[i].inbox, [type |-> "error"])
    BY <1>8, AnswerSteps
  <2>2. i \in LiveOnes /\ view' = view
    BY <1>8 DEF SubscriptionReports, LiveOnes
  <2>3. PICK m \in Message : m = [type |-> "error"]
    BY MessageTypes
  <2>4. m.type = "error"
    BY <2>3
  <2>5. PICK box : box = requests[i].inbox
    OBVIOUS
  <2>6. /\ \A v : Brings(box, v) => Brings(n.inbox, v)
        /\ Silent(box) => Silent(n.inbox)
    BY <1>0, <2>1, <2>3, <2>4, <2>5, BringsLast
  <2>7. requests'[i] = n /\ n.params = requests[i].params /\ Current(requests[i])
    BY <2>1, <2>2 DEF Becomes, AnswerInv
  <2>8. Current(requests[i])'
    BY <1>2, <2>1, <2>2, <2>5, <2>6, <2>7 DEF Current, Shows
  <2> QED
    BY <1>5, <2>2, <2>8
<1>9. CASE Deliver(i)
  <2>1. i \in LiveOnes
    BY <1>9 DEF Deliver, LiveOnes
  <2> QED
    BY <1>5, <1>9, <2>1, DeliverCurrent DEF AnswerInv
<1>10. CASE SubscriptionRefused(i)
  <2>1. CASE i \in LiveOnes
    <3>1. PICK n : Becomes(i, n) /\ n.phase = "over"
      BY <1>10, AnswerSteps
    <3>2. Current(requests[i])'
      BY <3>1 DEF Becomes, Current
    <3> QED
      BY <1>5, <2>1, <3>2
  <2>2. CASE i \notin LiveOnes
    <3>1. view' = [view EXCEPT !.fetching = FALSE, !.error = TRUE] \/ view' = view
      BY <1>10 DEF SubscriptionRefused, Error
    <3>2. /\ [view EXCEPT !.fetching = FALSE, !.error = TRUE].fetched = view.fetched
          /\ [view EXCEPT !.fetching = FALSE, !.error = TRUE].result = view.result
          /\ ~[view EXCEPT !.fetching = FALSE, !.error = TRUE].fetching
      BY DEF TypeOK, View
    <3> QED
      BY <1>6, <2>2, <3>1, <3>2
  <2> QED
    BY <2>1, <2>2
<1>11. ~FetchAnswers(i) /\ ~FetchFails(i)
  BY DEF FetchAnswers, FetchFails
<1> QED
  BY <1>7, <1>8, <1>9, <1>10, <1>11 DEF AnswerOf

\* a result that changes is sent
LEMMA WriteCurrent ==
  ASSUME TypeOK, TypeOK', OneInv, hook.subscribes, AnswerInv, NEW p \in Params, NEW d \in Result, Write(p, d)
  PROVE  AnswerInv'
<1>1. LiveOnes' = LiveOnes /\ hook' = hook /\ view' = view
  BY LiveKept DEF Write
<1>2. ASSUME NEW i \in LiveOnes PROVE Current(requests[i])'
  <2>0. /\ i \in DOMAIN requests /\ requests[i].isLive /\ Current(requests[i])
        /\ requests[i].inbox \in Seq(Message) /\ requests[i].params \in Params
    <3>1. i \in DOMAIN requests /\ requests[i] \in Request
      BY <1>2 DEF LiveOnes, TypeOK
    <3> QED
      BY <1>2, <3>1 DEF LiveOnes, AnswerInv, Request
  <2>1. /\ requests'[i].params = requests[i].params /\ requests'[i].phase = requests[i].phase
        /\ requests'[i].inbox =
               IF requests[i].phase = "answered" /\ requests[i].params = p
               THEN Append(requests[i].inbox, [type |-> "change", result |-> d]) ELSE requests[i].inbox
        /\ server'[requests[i].params] = IF requests[i].params = p THEN d ELSE server[requests[i].params]
    BY <2>0, WriteStep
  <2>2. CASE requests[i].params = p /\ requests[i].phase = "answered"
    <3>1. PICK m \in Message : m = [type |-> "change", result |-> d]
      BY MessageTypes
    <3>2. m.type # "error" /\ m.result = d
      BY <3>1
    <3>3. Brings(requests'[i].inbox, d)
      BY <2>0, <2>1, <2>2, <3>1, <3>2, BringsLast
    <3> QED
      BY <2>1, <2>2, <3>3 DEF Current
  <2>3. CASE requests[i].params # p \/ requests[i].phase # "answered"
    BY <1>1, <2>0, <2>1, <2>3 DEF Current, Shows
  <2> QED
    BY <2>2, <2>3
<1> QED
  BY <1>1, <1>2 DEF AnswerInv

LEMMA AnswersStay ==
  ASSUME TypeOK, TypeOK', OneInv, AnswerInv, [Next]_vars
  PROVE  AnswerInv'
<1>0. /\ requests \in Seq(Request) /\ hook \in HookRecord /\ refs \in Refs /\ query' \in Params
      /\ NoSubscriptionLeaks /\ hook'.subscribes = hook.subscribes
  BY StepFrames DEF TypeOK, HookRecord, Refs, OneInv
<1>1. CASE ~hook.subscribes
  BY <1>0, <1>1 DEF AnswerInv, LiveOnes
<1>2. ASSUME LiveOnes' = {} PROVE AnswerInv'
  BY <1>2 DEF AnswerInv
<1>3. ASSUME UNCHANGED <<requests, view, server>> PROVE AnswerInv'
  BY <1>0, <1>3 DEF AnswerInv, LiveOnes, Current, Shows
<1>4. ASSUME NEW rs \in Seq(Request), \A i \in DOMAIN rs : ~rs[i].isLive, Subscribe(rs), hook'.subscribes
      PROVE  AnswerInv'
  <2>1. LiveOnes' = {refs'.subscription} /\ requests'[refs'.subscription].phase = "asked"
    BY <1>0, <1>4, OneSubscribed DEF Asked
  <2> QED
    BY <2>1 DEF AnswerInv, Current
<1>5. ASSUME hook.subscribes, requests' = StoppedAt(requests, refs.subscription) PROVE AnswerInv'
  BY <1>0, <1>2, <1>5, NoneLive DEF LiveOnes
<1>6. CASE hook.subscribes
  <2>1. CASE ChangeParams
    <3>1. StoppedAt(requests, refs.subscription) \in Seq(Request)
      BY <1>0, Stopped DEF Refs
    <3> QED
      BY <1>0, <1>4, <1>5, <1>6, <2>1, <3>1, NoneLive DEF ChangeParams, StopsOld
  <2>2. CASE Show
    BY <1>0, <1>3, <1>4, <1>6, <2>2, NoneLive DEF Show
  <2>3. ASSUME NEW i \in DOMAIN requests, AnswerOf(i) \/ SubscriptionReports(i) PROVE AnswerInv'
    BY <1>6, <2>3, AnswerCurrent
  <2>4. ASSUME NEW p \in Params, NEW d \in Result, Write(p, d) PROVE AnswerInv'
    BY <1>6, <2>4, WriteCurrent
  <2>5. CASE Unmount \/ \E t \in timers : TimeoutEnds(t)
    BY <1>5, <1>6, <2>5 DEF Unmount, TimeoutEnds
  <2>6. CASE (\E p \in Params, skips \in BOOLEAN : Render(p, skips)) \/ Hide \/ TransportReady \/ UNCHANGED vars
    BY <1>3, <2>6 DEF Render, Hide, TransportReady, vars
  <2>7. ~SeesReady /\ ~FetchWhenReady /\ ~FetchChanged
    BY <1>6 DEF SeesReady, FetchWhenReady, FetchChanged
  <2> QED
    BY <2>1, <2>2, <2>3, <2>4, <2>5, <2>6, <2>7 DEF Next, Effects
<1> QED
  BY <1>1, <1>6

(***************************************************************************)
(* A subscribed component that was sent everything shows the result for    *)
(* its last parameters, and no earlier answer: ShowsCurrent, of the        *)
(* callback of useRetrieveResourceAndSubscribe, for any number of changes, *)
(* errors and subscriptions.                                               *)
(***************************************************************************)
THEOREM ShowsWhatIsCurrent == Spec => []ShowsCurrent
<1>1. Init => AnswerInv
  <2> SUFFICES ASSUME Init, NEW i \in LiveOnes PROVE requests[i].phase = "asked"
    BY DEF AnswerInv, Current
  <2>1. CASE requests = <<Asked(hook.params)>>
    BY <2>1 DEF LiveOnes, Asked
  <2>2. CASE requests = <<>>
    BY <2>2 DEF LiveOnes
  <2> QED
    BY <2>1, <2>2 DEF Init
<1>2. TypeOK /\ TypeOK' /\ OneInv /\ AnswerInv /\ [Next]_vars => AnswerInv'
  BY AnswersStay
<1>3. TypeOK /\ OneInv /\ AnswerInv => ShowsCurrent
  <2> SUFFICES ASSUME TypeOK, OneInv, AnswerInv, hook.subscribes, Watching, NEW i \in LiveOnes,
                      requests[i].phase = "answered", requests[i].inbox = <<>>, server[hook.params] # Null
               PROVE  Given.data = server[hook.params] /\ ~Given.fetching /\ ~Given.initialError
    BY DEF ShowsCurrent
  <2>1. requests[i].params = hook.params /\ Current(requests[i])
    BY DEF OneInv, LiveInv, QueryInv, Watching, AnswerInv
  <2>2. ~Brings(requests[i].inbox, server[hook.params])
    BY DEF Brings
  <2>3. Shows(server[hook.params])
    BY <2>1, <2>2 DEF Current
  <2> QED
    BY <2>3 DEF Shows, Given
<1> QED
  BY <1>1, <1>2, <1>3, TypesHold, OneSubscription, PTL DEF Spec


-----------------------------------------------------------------------------
(* Without subscription *)

\* The fetch whose result counts is the last one: it is of the last parameters, and it
\* is under way, shown, or failed.
LastCounts ==
    /\ refs.fetchId = Len(requests)
    /\ ~hook.isDue /\ ~hook.skip /\ refs.wasReady =>
          requests # <<>> /\ requests[Len(requests)].params = hook.params
    /\ requests # <<>> =>
          \/ requests[Len(requests)].phase = "asked"
          \/ view.of = requests[Len(requests)].params \/ view.error
FetchInv == ~hook.subscribes /\ hook.mounted => LastCounts /\ timers = {}

LEMMA FetchesStay ==
  ASSUME TypeOK, TypeOK', OneInv, FetchInv, [Next]_vars
  PROVE  FetchInv'
<1> SUFFICES ASSUME ~hook.subscribes, hook.mounted, hook'.mounted, LastCounts, timers = {}
             PROVE  LastCounts' /\ timers' = {}
  BY StepFrames DEF FetchInv
<1>0. /\ requests \in Seq(Request) /\ hook \in HookRecord /\ refs \in Refs /\ query \in Params /\ hook.params \in Params
      /\ view \in View /\ refs.fetchId = Len(requests)
  BY DEF TypeOK, HookRecord, Refs, LastCounts
<1>1. \A t \in timers : ~TimeoutEnds(t)
  OBVIOUS
<1>2. ~ChangeParams /\ ~Hide /\ ~Show /\ ~Unmount
  BY <1>0 DEF ChangeParams, Hide, Show, Toggled, Unmount, HookRecord
<1>3. \A i \in DOMAIN requests :
          ~SubscriptionAnswers(i) /\ ~SubscriptionRefused(i) /\ ~Deliver(i) /\ ~SubscriptionReports(i)
  BY DEF SubscriptionAnswers, SubscriptionRefused, Deliver, SubscriptionReports
<1>4. timers' = timers
  BY <1>1, <1>2, <1>3
  DEF Next, Effects, AnswerOf, Render, SeesReady, FetchWhenReady, FetchChanged, TransportReady, FetchAnswers,
      FetchFails, Write, vars
<1> SUFFICES LastCounts'
  BY <1>4
<1>5. ASSUME NEW p \in Params, Fetch(p), refs'.fetchId = Len(requests) + 1,
             ~hook'.isDue /\ ~hook'.skip => p = hook'.params
      PROVE  LastCounts'
  <2>1. requests' = Append(requests, Asked(p))
    BY <1>5 DEF Fetch
  <2>2. Len(requests') = Len(requests) + 1 /\ requests' # <<>> /\ requests'[Len(requests) + 1] = Asked(p)
    BY <1>0, <2>1
  <2> QED
    BY <1>5, <2>2 DEF LastCounts, Asked
<1>6. CASE FetchWhenReady
  <2>1. hook' = hook /\ Fetch(query) /\ refs'.fetchId = Len(requests) + 1
    BY <1>0, <1>6 DEF FetchWhenReady, Refs
  <2>2. ~hook.isDue /\ ~hook.skip => query = hook.params
    BY DEF OneInv, QueryInv
  <2> QED
    BY <1>0, <1>5, <2>1, <2>2
<1>7. CASE FetchChanged
  <2>1. hook'.params = hook.params /\ hook'.skip = hook.skip
    BY <1>0, <1>7 DEF FetchChanged, HookRecord
  <2>2. CASE Fetch(hook.params) /\ refs' = [refs EXCEPT !.fetchId = Len(requests) + 1]
    <3>1. refs'.fetchId = Len(requests) + 1
      BY <1>0, <2>2 DEF Refs
    <3> QED
      BY <1>0, <1>5, <2>1, <2>2, <3>1
  <2>3. CASE (hook.skip \/ ~refs.wasReady) /\ UNCHANGED <<requests, refs, view>>
    BY <2>1, <2>3 DEF LastCounts
  <2> QED
    BY <1>7, <2>2, <2>3 DEF FetchChanged
<1>8. ASSUME NEW i \in DOMAIN requests, FetchAnswers(i) \/ FetchFails(i) PROVE LastCounts'
  <2>0. PICK r : Becomes(i, r) /\ r.phase # "asked"
    BY <1>8, AnswerSteps
  <2>1. /\ Len(requests') = Len(requests) /\ DOMAIN requests' = DOMAIN requests
        /\ \A j \in DOMAIN requests : requests'[j].params = requests[j].params /\ (j # i => requests'[j] = requests[j])
        /\ (requests = <<>> <=> requests' = <<>>) /\ (requests # <<>> => Len(requests) \in DOMAIN requests)
    BY <1>0, <2>0 DEF Becomes
  <2>2. UNCHANGED <<hook, refs>>
    BY <1>8 DEF FetchAnswers, FetchFails
  <2>3. CASE FetchAnswers(i) /\ i = Len(requests)
    <3>1. view'.of = requests[Len(requests)].params
      BY <1>0, <2>3 DEF FetchAnswers, IsLatest, Resolve
    <3> QED
      BY <2>1, <2>2, <3>1 DEF LastCounts
  <2>4. CASE FetchAnswers(i) /\ i # Len(requests)
    <3>1. view' = view
      BY <1>0, <2>4 DEF FetchAnswers, IsLatest
    <3> QED
      BY <2>1, <2>2, <2>4, <3>1 DEF LastCounts
  <2>5. CASE FetchFails(i)
    <3>1. view' = [view EXCEPT !.fetching = FALSE, !.error = TRUE]
      BY <2>5 DEF FetchFails, Error
    <3>2. view'.error
      BY <1>0, <3>1 DEF View
    <3> QED
      BY <2>1, <2>2, <3>2 DEF LastCounts
  <2> QED
    BY <1>8, <2>3, <2>4, <2>5
<1>9. ASSUME NEW p \in Params, NEW d \in Result, Write(p, d) PROVE LastCounts'
  <2>1. /\ Len(requests') = Len(requests) /\ DOMAIN requests' = DOMAIN requests
        /\ \A j \in DOMAIN requests : requests'[j].params = requests[j].params /\ requests'[j].phase = requests[j].phase
    BY <1>9, WriteStep
  <2>2. (requests = <<>> <=> requests' = <<>>) /\ (requests # <<>> => Len(requests) \in DOMAIN requests)
    BY <1>0, <2>1
  <2>3. UNCHANGED <<hook, refs, view>>
    BY <1>9 DEF Write
  <2> QED
    BY <2>1, <2>2, <2>3 DEF LastCounts
<1>10. ASSUME NEW p \in Params, NEW skips \in BOOLEAN, Render(p, skips) PROVE LastCounts'
  <2>1. hook'.isDue /\ UNCHANGED <<requests, refs, view>>
    BY <1>0, <1>10 DEF Render, HookRecord
  <2> QED
    BY <2>1 DEF LastCounts
<1>11. CASE SeesReady
  <2>1. /\ hook'.isDue = hook.isDue /\ hook'.skip = hook.skip /\ hook'.params = hook.params
        /\ UNCHANGED <<requests, refs, view>>
    BY <1>0, <1>11 DEF SeesReady, HookRecord
  <2> QED
    BY <2>1 DEF LastCounts
<1>12. CASE TransportReady \/ UNCHANGED vars
  BY <1>12 DEF TransportReady, vars, LastCounts
<1> QED
  BY <1>6, <1>7, <1>8, <1>9, <1>10, <1>11, <1>12, <1>1, <1>2, <1>3 DEF Next, Effects, AnswerOf

(***************************************************************************)
(* Without subscription, once no fetch is under way a component shows a    *)
(* result for its last parameters, or an error: LatestFetchWins, of        *)
(* currentFetchId, in whatever order any number of fetches are answered.   *)
(***************************************************************************)
THEOREM LatestFetchIsShown == Spec => []LatestFetchWins
<1>1. Init => FetchInv
  <2> SUFFICES ASSUME Init, ~hook.subscribes PROVE LastCounts /\ timers = {}
    BY DEF FetchInv
  <2>1. timers = {} /\ query = hook.params /\ refs.fetchId = Len(requests) /\ refs.wasReady = page.isReady
    BY DEF Init
  <2>2. CASE requests = <<Asked(hook.params)>>
    <3>1. Len(requests) = 1 /\ requests # <<>> /\ requests[1] = Asked(hook.params)
      BY <2>2
    <3> QED
      BY <2>1, <3>1 DEF LastCounts, Asked
  <2>3. CASE requests = <<>>
    <3>1. hook.skip \/ ~page.isReady
      BY <2>3 DEF Init
    <3> QED
      BY <2>1, <2>3, <3>1 DEF LastCounts
  <2> QED
    BY <2>2, <2>3 DEF Init
<1>2. TypeOK /\ TypeOK' /\ OneInv /\ FetchInv /\ [Next]_vars => FetchInv'
  BY FetchesStay
<1>3. TypeOK /\ FetchInv => LatestFetchWins
  <2>1. TypeOK /\ requests # <<>> => Len(requests) \in DOMAIN requests
    BY DEF TypeOK
  <2> QED
    BY <2>1 DEF FetchInv, LastCounts, LatestFetchWins
<1> QED
  BY <1>1, <1>2, <1>3, TypesHold, OneSubscription, PTL DEF Spec
=============================================================================
