---------------------------- MODULE ReactResource ----------------------------
(***************************************************************************)
(* One component that calls useResource of react-liwi: with subscribe,     *)
(* useRetrieveResourceAndSubscribe and its visibility handler; without,    *)
(* useRetrieveResource.  Their reducer and what a component is given are   *)
(* the view.                                                               *)
(*                                                                         *)
(* React commits a render and runs its effects in a later step; the page   *)
(* is hidden or shown, timeouts end, and answers arrive in between.  A     *)
(* transport delivers the messages of a subscription in order, and nothing *)
(* but the rejection of its promise once it is stopped, as                 *)
(* WebsocketTransport does.  The result of a query is a member of Data;    *)
(* Null is that of a single item that is not found.                        *)
(***************************************************************************)
EXTENDS Integers, Sequences, FiniteSets

CONSTANTS
    Params,         \* parameters of the query
    Data, Null,     \* results; the result of a query that finds no item
    FirstParams,    \* the parameters of the first render
    Servers,        \* the results there may be at first
    MaxRequests,    \* bound: subscriptions, or fetches, of the component
    MaxRenders,     \* bound: renders with other parameters or skip
    MaxToggles,     \* bound: times the page is hidden or shown
    MaxWrites       \* bound: times a result changes

ASSUME ReactAssumption ==
    /\ Null \notin Data
    /\ FirstParams \in Params
    /\ Servers \subseteq [Params -> Data \cup {Null}]
    /\ {MaxRequests, MaxRenders, MaxToggles, MaxWrites} \subseteq Nat

None == 0
Result == Data \cup {Null}

VARIABLES
    server,     \* the result of the query for each parameters
    page,       \* whether the document is hidden, the transport ready
    hook,       \* the props of the last render, and whether its effects are due
    query,      \* the parameters the query has
    requests,   \* the subscriptions, or fetches, the hook started, in order
    refs,       \* querySubscriptionRef, timeoutRef, currentFetchId, wasReady
    timers,     \* timeouts that have not ended
    current,    \* currentResult of the closure, once there is one
    view,       \* the state of the reducer
    spent,      \* what was used of the bounds
    lapse       \* history: parameters or skip changed while the page was hidden

vars == <<server, page, hook, query, requests, refs, timers, current, view, spent, lapse>>
still == <<server, spent, lapse>>

Message == [type : {"initial", "change"}, result : Result] \cup [type : {"error"}]
Request ==
    [params : Params, phase : {"asked", "answered", "over"}, isLive : BOOLEAN, inbox : Seq(Message)]
\* InitialState, InitialErrorState and FetchedState
View ==
    [fetched : {FALSE}, fetching : {TRUE}, result : {None}, error : {FALSE}, of : {None}]
        \cup [fetched : {FALSE}, fetching : BOOLEAN, result : {None}, error : {TRUE}, of : {None}]
        \cup [fetched : {TRUE}, fetching : BOOLEAN, result : Result, error : BOOLEAN, of : Params]

TypeOK ==
    /\ server \in [Params -> Result]
    /\ page \in [isHidden : BOOLEAN, isReady : BOOLEAN]
    /\ hook \in [subscribes : BOOLEAN, mounted : BOOLEAN, params : Params, skip : BOOLEAN,
                 isDue : BOOLEAN, seesReady : BOOLEAN]
    /\ query \in Params
    /\ requests \in Seq(Request)
    /\ refs \in [subscription : Nat, timeout : Nat, fetchId : Nat, wasReady : BOOLEAN]
    /\ timers \in SUBSET Nat
    /\ current \in Result \cup {None}
    /\ view \in View
    /\ spent \in [renders : 0..MaxRenders, toggles : 0..MaxToggles, writes : 0..MaxWrites]
    /\ lapse \in BOOLEAN

Asked(p) == [params |-> p, phase |-> "asked", isLive |-> TRUE, inbox |-> <<>>]
CanRequest == Len(requests) < MaxRequests

\* The first render, whose reducer starts the request.  Only the hook that does not
\* subscribe looks whether the transport is ready.  The render is one that React commits:
\* a first render that React discards or calls twice (StrictMode), whose reducer would
\* start a request each time, is not modelled.
Init ==
    /\ server \in Servers
    /\ hook \in [subscribes : BOOLEAN, mounted : {TRUE}, params : {FirstParams}, skip : BOOLEAN,
                 isDue : {FALSE}, seesReady : BOOLEAN]
    /\ hook.subscribes => hook.seesReady
    /\ page \in [isHidden : BOOLEAN, isReady : {hook.seesReady}]
    /\ query = hook.params
    /\ requests = IF ~hook.skip /\ (IF hook.subscribes THEN ~page.isHidden ELSE page.isReady)
                  THEN <<Asked(hook.params)>> ELSE <<>>
    /\ refs = [subscription |-> IF hook.subscribes THEN Len(requests) ELSE None,
               timeout |-> None, fetchId |-> Len(requests), wasReady |-> page.isReady]
    /\ timers = {}
    /\ current = None
    /\ view = [fetched |-> FALSE, fetching |-> TRUE, result |-> None, error |-> FALSE, of |-> None]
    /\ spent = [renders |-> 0, toggles |-> 0, writes |-> 0]
    /\ lapse = FALSE

-----------------------------------------------------------------------------
(* The reducer                                                               *)

Resolve(result, p) ==
    view' = [fetched |-> TRUE, fetching |-> FALSE, result |-> result, error |-> FALSE, of |-> p]
Fetching == view' = [view EXCEPT !.fetching = TRUE]
Error == view' = IF hook.mounted THEN [view EXCEPT !.fetching = FALSE, !.error = TRUE] ELSE view

\* createResourceResultFromState: what the component is given
Given ==
    [initialLoading |-> ~view.fetched /\ view.fetching,
     initialError |-> ~view.fetched /\ view.error,
     fetching |-> view.fetching,
     data |-> IF view.fetched THEN view.result ELSE None]

-----------------------------------------------------------------------------
(* The component and the page                                                *)

Render(p, skips) ==
    /\ hook.mounted /\ spent.renders < MaxRenders
    /\ <<p, skips>> # <<hook.params, hook.skip>>
    /\ hook' = [hook EXCEPT !.params = p, !.skip = skips, !.isDue = TRUE]
    /\ spent' = [spent EXCEPT !.renders = @ + 1]
    /\ lapse' = (lapse \/ page.isHidden)
    /\ UNCHANGED <<server, page, query, requests, refs, timers, current, view>>

StoppedAt(rs, i) ==
    IF i = None THEN rs ELSE [rs EXCEPT ![i].isLive = FALSE, ![i].inbox = <<>>]

\* subscribe: a request for the parameters the query has
Subscribe(rs) ==
    /\ CanRequest
    /\ requests' = Append(rs, Asked(query'))
    /\ refs' = [refs EXCEPT !.subscription = Len(rs) + 1]
    /\ Fetching

\* variant: the subscription is left running when the parameters change
KeepsOld(rs) == rs
StopsOld(rs) == StoppedAt(rs, refs.subscription)

\* variant: a hidden page subscribes as well
MaySubscribeHidden == ~hook.skip
MaySubscribe == ~page.isHidden /\ ~hook.skip

\* changeParams: the subscription is stopped, and started again for a visible page
ChangeParams ==
    /\ hook.mounted /\ hook.subscribes /\ hook.isDue
    /\ hook' = [hook EXCEPT !.isDue = FALSE]
    /\ query' = hook.params
    /\ \/ /\ MaySubscribe
          /\ Subscribe(StopsOld(requests))
       \/ /\ ~MaySubscribe
          /\ requests' = StopsOld(requests)
          /\ UNCHANGED <<refs, view>>
    /\ lapse' = (lapse \/ page.isHidden)
    /\ UNCHANGED <<server, page, timers, current, spent>>

\* a timeout of its own identity, after those of before; only the hook that
\* subscribes looks whether the page is hidden
NextTimer == spent'.toggles
Toggled ==
    /\ hook.subscribes
    /\ spent.toggles < MaxToggles
    /\ page' = [page EXCEPT !.isHidden = ~@]
    /\ spent' = [spent EXCEPT !.toggles = @ + 1]
HandlesVisibility == hook.mounted /\ hook.subscribes /\ ~hook.skip

\* handleVisibilityChange: a hidden page keeps its subscription for a while
Hide ==
    /\ ~page.isHidden /\ Toggled
    /\ IF HandlesVisibility /\ refs.subscription # None
       THEN /\ timers' = timers \cup {NextTimer}
            /\ refs' = [refs EXCEPT !.timeout = NextTimer]
       ELSE UNCHANGED <<timers, refs>>
    /\ UNCHANGED <<server, hook, query, requests, current, view, lapse>>

Cleared == timers \ {refs.timeout}

Show ==
    /\ page.isHidden /\ Toggled
    /\ \/ /\ HandlesVisibility /\ refs.timeout # None
          /\ timers' = Cleared
          /\ refs' = [refs EXCEPT !.timeout = None]
          /\ UNCHANGED <<query, requests, view>>
       \/ /\ HandlesVisibility /\ refs.timeout = None /\ refs.subscription = None
          /\ UNCHANGED <<query, timers>>
          /\ Subscribe(requests)
       \/ /\ ~HandlesVisibility \/ (refs.timeout = None /\ refs.subscription # None)
          /\ UNCHANGED <<query, requests, refs, timers, view>>
    /\ UNCHANGED <<server, hook, current, lapse>>

\* variant: the timeout is over, and its reference stays
UnsubscribedRefKept == [refs EXCEPT !.subscription = None]
Unsubscribed == [refs EXCEPT !.subscription = None, !.timeout = None]

\* unsubscribe, whichever timeout calls it
TimeoutEnds(t) ==
    /\ t \in timers
    /\ timers' = timers \ {t}
    /\ requests' = StoppedAt(requests, refs.subscription)
    /\ refs' = Unsubscribed
    /\ UNCHANGED <<server, page, hook, query, current, view, spent, lapse>>

Unmount ==
    /\ hook.mounted
    /\ hook' = [hook EXCEPT !.mounted = FALSE, !.isDue = FALSE]
    /\ IF hook.subscribes
       THEN /\ timers' = Cleared
            /\ requests' = StoppedAt(requests, refs.subscription)
            /\ refs' = Unsubscribed
       ELSE UNCHANGED <<timers, requests, refs>>
    /\ UNCHANGED <<server, page, query, current, view, spent, lapse>>

-----------------------------------------------------------------------------
(* The answers to a subscription                                             *)

SubscriptionAnswers(i) ==
    /\ hook.subscribes /\ requests[i].phase = "asked" /\ requests[i].isLive
    /\ requests' = [requests EXCEPT
           ![i].phase = "answered",
           ![i].inbox = <<[type |-> "initial", result |-> server[requests[i].params]]>>]
    /\ UNCHANGED <<server, page, hook, query, refs, timers, current, view, spent, lapse>>

\* the promise of the subscription rejects, stopped or not
SubscriptionRefused(i) ==
    /\ hook.subscribes /\ requests[i].phase = "asked"
    /\ requests' = [requests EXCEPT ![i].phase = "over"]
    /\ Error
    /\ UNCHANGED <<server, page, hook, query, refs, timers, current, spent, lapse>>

\* a live query reports that it could not follow a change
SubscriptionReports(i) ==
    /\ hook.subscribes /\ requests[i].phase = "answered" /\ requests[i].isLive
    /\ spent.writes < MaxWrites
    /\ spent' = [spent EXCEPT !.writes = @ + 1]
    /\ requests' = [requests EXCEPT ![i].inbox = Append(@, [type |-> "error"])]
    /\ UNCHANGED <<server, page, hook, query, refs, timers, current, view, lapse>>

Write(p, d) ==
    /\ spent.writes < MaxWrites /\ server[p] # d
    /\ spent' = [spent EXCEPT !.writes = @ + 1]
    /\ server' = [server EXCEPT ![p] = d]
    /\ requests' = [i \in DOMAIN requests |->
           IF hook.subscribes /\ requests[i].phase = "answered" /\ requests[i].isLive /\ requests[i].params = p
           THEN [requests[i] EXCEPT !.inbox = Append(@, [type |-> "change", result |-> d])]
           ELSE requests[i]]
    /\ UNCHANGED <<page, hook, query, refs, timers, current, view, lapse>>

\* variant: an initial is for the first subscription only
TakesInitialOnce(m) == m.type # "error" /\ (m.type = "initial" => current = None) /\ (current = None \/ m.result # Null)
\* A first result, null or not, is shown; afterwards null is not, nor kept.
Takes(m) ==
    /\ m.type # "error"
    /\ m.result # Null \/ (current \in {None, Null} /\ m.type = "initial")

Deliver(i) ==
    /\ hook.subscribes /\ requests[i].isLive /\ requests[i].inbox # <<>>
    /\ LET m == Head(requests[i].inbox)
       IN  \/ /\ Takes(m)
              /\ current' = m.result
              /\ Resolve(m.result, requests[i].params)
           \/ /\ m.type = "error"
              /\ Error
              /\ UNCHANGED current
           \/ /\ m.type # "error" /\ ~Takes(m)
              /\ UNCHANGED <<current, view>>
    /\ requests' = [requests EXCEPT ![i].inbox = Tail(@)]
    /\ UNCHANGED <<server, page, hook, query, refs, timers, spent, lapse>>

-----------------------------------------------------------------------------
(* Without subscribe                                                         *)

\* fetch: a later one makes the result of the earlier ones be ignored
Fetch(p) ==
    /\ CanRequest
    /\ requests' = Append(requests, Asked(p))
    /\ Fetching

TransportReady ==
    /\ ~page.isReady
    /\ page' = [page EXCEPT !.isReady = TRUE]
    /\ UNCHANGED <<server, hook, query, requests, refs, timers, current, view, spent, lapse>>

\* the context tells the component, which renders again
SeesReady ==
    /\ hook.mounted /\ ~hook.subscribes /\ page.isReady /\ ~hook.seesReady
    /\ hook' = [hook EXCEPT !.seesReady = TRUE]
    /\ UNCHANGED <<page, query, requests, refs, timers, current, view, still>>

\* the effect of isTransportReady, skip and the query
FetchWhenReady ==
    /\ hook.mounted /\ ~hook.subscribes
    /\ ~refs.wasReady /\ hook.seesReady /\ ~hook.skip
    /\ Fetch(query)
    /\ refs' = [refs EXCEPT !.wasReady = TRUE, !.fetchId = Len(requests) + 1]
    /\ UNCHANGED <<page, hook, query, timers, current, still>>

\* the effect of skip and the parameters, which runs after that one
FetchChanged ==
    /\ hook.mounted /\ ~hook.subscribes /\ hook.isDue
    /\ refs.wasReady \/ ~hook.seesReady \/ hook.skip
    /\ hook' = [hook EXCEPT !.isDue = FALSE]
    /\ query' = IF hook.skip THEN query ELSE hook.params
    /\ \/ /\ ~hook.skip /\ refs.wasReady
          /\ Fetch(hook.params)
          /\ refs' = [refs EXCEPT !.fetchId = Len(requests) + 1]
       \/ /\ hook.skip \/ ~refs.wasReady
          /\ UNCHANGED <<requests, refs, view>>
    /\ UNCHANGED <<page, timers, current, still>>

\* variant: whichever answer comes last is shown
IsLatestOrNot(i) == TRUE
IsLatest(i) == refs.fetchId = i

FetchAnswers(i) ==
    /\ ~hook.subscribes /\ requests[i].phase = "asked"
    /\ requests' = [requests EXCEPT ![i].phase = "answered"]
    /\ IF IsLatest(i) /\ hook.mounted
       THEN Resolve(server[requests[i].params], requests[i].params)
       ELSE UNCHANGED view
    /\ UNCHANGED <<page, hook, query, refs, timers, current, still>>

\* an error is told whichever fetch it is of
FetchFails(i) ==
    /\ ~hook.subscribes /\ requests[i].phase = "asked"
    /\ requests' = [requests EXCEPT ![i].phase = "over"]
    /\ Error
    /\ UNCHANGED <<page, hook, query, refs, timers, current, still>>

-----------------------------------------------------------------------------
AnswerOf(i) ==
    \/ SubscriptionAnswers(i) \/ SubscriptionRefused(i) \/ Deliver(i)
    \/ FetchAnswers(i) \/ FetchFails(i)
Effects == ChangeParams \/ SeesReady \/ FetchWhenReady \/ FetchChanged

Next ==
    \/ \E p \in Params, skips \in BOOLEAN : Render(p, skips)
    \/ Effects \/ Unmount \/ TransportReady
    \/ Hide \/ Show \/ \E t \in timers : TimeoutEnds(t)
    \/ \E i \in DOMAIN requests : AnswerOf(i) \/ SubscriptionReports(i)
    \/ \E p \in Params, d \in Result : Write(p, d)

Spec == Init /\ [][Next]_vars

\* React runs the effects of a render, timeouts end, and requests are answered
Fairness ==
    /\ WF_vars(Effects)
    /\ WF_vars(\E t \in timers : TimeoutEnds(t))
    /\ \A i \in 1..MaxRequests : WF_vars(i \in DOMAIN requests /\ AnswerOf(i))
FairSpec == Spec /\ Fairness

-----------------------------------------------------------------------------
(* Properties *)

LiveOnes == {i \in DOMAIN requests : hook.subscribes /\ requests[i].isLive}
Watching == hook.mounted /\ ~hook.isDue /\ ~hook.skip /\ ~page.isHidden

(***************************************************************************)
(* A component has one subscription at a time, the one it can still stop,  *)
(* and leaves none behind when it is unmounted: whatever the order of      *)
(* renders, visibility changes and timeouts (querySubscriptionRef).        *)
(***************************************************************************)
NoSubscriptionLeaks ==
    /\ \A i \in LiveOnes : i = refs.subscription
    /\ ~hook.mounted => LiveOnes = {}

(***************************************************************************)
(* The invariants of every state: types, and one subscription at most.     *)
(***************************************************************************)
HookInv == TypeOK /\ NoSubscriptionLeaks

(***************************************************************************)
(* A component whose page is shown, and that does not skip, is subscribed  *)
(* with its last parameters.  Excused: its parameters or skip changed      *)
(* while the page was hidden.                                              *)
(***************************************************************************)
SubscribedWhenShown ==
    (hook.subscribes /\ Watching /\ ~lapse) =>
        \E i \in LiveOnes : requests[i].params = hook.params

(***************************************************************************)
(* Once everything it was sent has been applied, a subscribed component    *)
(* that was told of no error shows the result for its last parameters, and *)
(* no earlier answer.  Excused: a result that is null.                     *)
(***************************************************************************)
ShowsCurrent ==
    (hook.subscribes /\ Watching /\ ~view.error) =>
        \A i \in LiveOnes :
            (requests[i].phase = "answered" /\ requests[i].inbox = <<>> /\ server[hook.params] # Null)
                => Given.data = server[hook.params] /\ ~Given.fetching /\ ~Given.initialError

(***************************************************************************)
(* Without subscription, once no fetch is under way the component shows a  *)
(* result for its last parameters, whatever the order of the answers, or   *)
(* an error (currentFetchId).                                              *)
(***************************************************************************)
LatestFetchWins ==
    (~hook.subscribes /\ hook.mounted /\ ~hook.isDue /\ ~hook.skip /\ refs.wasReady
        /\ ~view.error /\ requests # <<>> /\ \A i \in DOMAIN requests : requests[i].phase # "asked")
        => view.of = hook.params

(***************************************************************************)
(* The subscription of a page that stays hidden is released.               *)
(***************************************************************************)
ReleasedWhenHidden == page.isHidden ~> (~page.isHidden \/ LiveOnes = {})

-----------------------------------------------------------------------------
(* A statement of the documentation the code does not keep *)

(***************************************************************************)
(* README of react-liwi, useResource: the hook re-fetches when the page    *)
(* becomes visible again.  When the parameters or skip changed meanwhile,  *)
(* the subscription that was stopped is taken for one that runs, or the    *)
(* timeout of the hidden page ends later and stops the new one.            *)
(***************************************************************************)
ShownIsSubscribed ==
    (hook.subscribes /\ Watching) => \E i \in LiveOnes : requests[i].params = hook.params
=============================================================================
