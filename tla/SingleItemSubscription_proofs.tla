-------------------- MODULE SingleItemSubscription_proofs --------------------
(***************************************************************************)
(* Theorems about the live query of a single item, for every set of keys,  *)
(* documents, writers and notifications of the store it listens to, with   *)
(* a sort or without.                                                      *)
(***************************************************************************)
EXTENDS SingleItemSubscription, SubscribeStore_proofs

-----------------------------------------------------------------------------
(* Types *)

SubTypeOK ==
    /\ query \in SingleQuery
    /\ sub \in Closure
    /\ queue \in Seq(Actions)
    /\ job \in Job
    /\ client \in Client
    /\ seen \in [source : Source, two : BOOLEAN]

\* an item is one that may be shown: documents of the criteria
MatchingItem(item) == item \in Item /\ \A p \in item : p[2] \in Matching

LEMMA ItemTypes ==
  /\ MatchingItem(NoItem)
  /\ \A k \in Key, d \in Matching : MatchingItem({<<k, d>>})
  /\ \A item \in Item : KeyOf(item) \in SUBSET Key
<1>1. MatchingItem(NoItem)
  BY DEF MatchingItem, Item, NoItem
<1>2. ASSUME NEW k \in Key, NEW d \in Matching PROVE MatchingItem({<<k, d>>})
  <2>1. <<k, d>> \in Key \X Doc
    BY SingleItemAssumption
  <2>2. {<<k, d>>} \in Item
    BY <2>1 DEF Item
  <2> QED
    BY <2>2 DEF MatchingItem
<1>3. \A item \in Item : KeyOf(item) \in SUBSET Key
  BY DEF KeyOf, Item, NoItem
<1> QED
  BY <1>1, <1>2, <1>3

\* what a fetch answers is an item
LEMMA FirstsType ==
  ASSUME NEW d \in [Key -> State], NEW item \in Firsts(d)
  PROVE  MatchingItem(item)
<1>1. CASE item = NoItem
  BY <1>1, ItemTypes
<1>2. CASE \E k \in Matches(d) : item = {<<k, d[k]>>}
  BY <1>2, ItemTypes DEF Matches
<1> QED
  BY <1>1, <1>2 DEF Firsts

\* the values the tail of the queue takes
LEMMA JobTypes ==
  /\ NoJob \in Job /\ Settled \in Job
  /\ \A b \in BOOLEAN : Fetching(b) \in Job
  /\ NoJob.kind = "idle" /\ Settled.kind = "settled"
  /\ \A b \in BOOLEAN : Fetching(b).kind = "fetch" /\ ~Fetching(b).answered
  BY DEF NoJob, Settled, Fetching, Job, Item

\* the tail of the queue after an action with nothing to wait for
Done == {NoJob, Settled}

\* the item an action has its client show
LEMMA SendType ==
  ASSUME SubTypeOK, NEW s \in Closure, NEW item \in Item, NEW source \in Source, NEW done \in Done,
         Send(s, item, source, done)
  PROVE  /\ sub' \in Closure /\ job' \in Job /\ client' \in Client
         /\ seen' \in [source : Source, two : BOOLEAN]
<1>1. KeyOf(item) \in SUBSET Key
  BY ItemTypes
<1>2. sub' \in Closure
  BY <1>1 DEF Send, Closure
<1>3. client' \in Client
  BY DEF Send, Shows, SubTypeOK, Client
<1>4. seen' \in [source : Source, two : BOOLEAN]
  BY DEF Send, Shows, SubTypeOK
<1> QED
  BY <1>2, <1>3, <1>4, JobTypes DEF Send, Done

\* what an inserted action shows, and an updated one
LEMMA ChangedItems ==
  ASSUME NEW a \in Actions, NEW s \in Closure
  PROVE  /\ \A k \in Inserted(a) : MatchingItem({<<k, a.states[k]>>})
         /\ \A k \in Filtered(s, a) :
               MatchingItem(IF a.states[k] \in Matching THEN {<<k, a.states[k]>>} ELSE NoItem)
  BY ItemTypes DEF Inserted, Filtered, KeysOf

LEMMA HandleActionType ==
  ASSUME SubTypeOK, NEW s \in Closure, NEW a \in Actions, NEW done \in Done, HandleAction(s, a, done)
  PROVE  /\ sub' \in Closure /\ job' \in Job /\ client' \in Client
         /\ seen' \in [source : Source, two : BOOLEAN]
<1> USE DEF SubTypeOK
<1>1. CASE sub' = s /\ job' \in {done, Fetching(FALSE)} /\ UNCHANGED <<client, seen>>
  BY <1>1, JobTypes DEF Done
<1>2. CASE sub' = s /\ job' = done /\ Report
  BY <1>2, JobTypes DEF Done, Report, Client
<1>3. ASSUME NEW item \in Item, NEW source \in Source, Send(s, item, source, done)
      PROVE  /\ sub' \in Closure /\ job' \in Job /\ client' \in Client
             /\ seen' \in [source : Source, two : BOOLEAN]
  BY <1>3, SendType
<1>4. CASE SendChange(s, a, done)
  <2>1. ASSUME NEW k \in Inserted(a),
               Send(s, {<<k, a.states[k]>>},
                  IF query.isSorted /\ s.current # {} THEN "insertOver" ELSE "change", done)
        PROVE  \E item \in Item, source \in Source : Send(s, item, source, done)
    BY <2>1, ChangedItems DEF MatchingItem, Source
  <2>2. ASSUME Send(s, NoItem, "change", done)
        PROVE  \E item \in Item, source \in Source : Send(s, item, source, done)
    BY <2>2, ItemTypes DEF MatchingItem, Source
  <2>3. ASSUME NEW k \in Filtered(s, a),
               Send(s, IF a.states[k] \in Matching THEN {<<k, a.states[k]>>} ELSE NoItem,
                  "change", done)
        PROVE  \E item \in Item, source \in Source : Send(s, item, source, done)
    BY <2>3, ChangedItems DEF MatchingItem, Source
  <2> QED
    BY <1>2, <1>3, <1>4, <2>1, <2>2, <2>3 DEF SendChange
<1> QED
  BY <1>1, <1>4 DEF HandleAction


LEMMA ReceiveType ==
  ASSUME SubTypeOK, NEW a \in Actions, Receive(a)
  PROVE  SubTypeOK'
<1> DEFINE s == [sub EXCEPT !.hasActionDuringInit = @ \/ sub.isInitializing]
<1>1. s \in Closure
  BY DEF SubTypeOK, Closure
<1>2. CASE HandleAction(s, a, NoJob) /\ UNCHANGED <<queue, query>>
  <2> HIDE DEF s
  <2> QED
    BY <1>1, <1>2, HandleActionType DEF SubTypeOK, Done
<1>3. CASE queue' = Append(queue, a) /\ sub' = s /\ UNCHANGED <<job, client, seen, query>>
  <2> HIDE DEF s
  <2> QED
    BY <1>1, <1>3 DEF SubTypeOK
<1>4. CASE UNCHANGED <<sub, queue, job, client, seen, query>>
  BY <1>4 DEF SubTypeOK
<1> QED
  BY <1>2, <1>3, <1>4 DEF Receive

\* what the store emits are actions
LEMMA ActionTypes ==
  ASSUME StoreTypeOK
  PROVE  /\ \A w \in Writer : WrittenAction(w) \in Actions
         /\ \A n \in Notifier : ChangedAction(n) \in Actions
         /\ ResyncAction \in Actions
<1>1. Nothing \in Emitted
  BY DEF Nothing, Emitted
<1> QED
  BY <1>1 DEF StoreTypeOK, WrittenAction, ChangedAction, ResyncAction, Actions, ActionType,
     WriterRecord, NotifierRecord

\* the steps of the subscription itself
LEMMA SubStepType ==
  ASSUME TypeOK, Open \/ Stop \/ QueueStep
  PROVE  TypeOK'
<1>0. /\ sub \in Closure /\ job \in Job /\ client \in Client /\ queue \in Seq(Actions)
      /\ query \in SingleQuery /\ StoreTypeOK /\ db \in [Key -> State]
      /\ seen \in [source : Source, two : BOOLEAN]
  BY DEF TypeOK, StoreTypeOK
<1>1. Settled \in Job /\ NoJob \in Job /\ Fetching(TRUE) \in Job
  BY JobTypes
<1>2. \A item \in Firsts(db) : item \in Item
  BY <1>0, FirstsType DEF MatchingItem
<1>3. CASE Open
  <2>1. StoreTypeOK'
    BY <1>0, <1>3, SingleItemAssumption DEF StoreTypeOK, Open, Subscribe
  <2>2. client' \in Client
    BY <1>0, <1>2, <1>3 DEF Open, Client
  <2> QED
    BY <1>0, <1>1, <1>3, <2>1, <2>2 DEF TypeOK, Open, Closure
<1>4. CASE Stop
  <2>1. StoreTypeOK'
    BY <1>0, <1>4 DEF StoreTypeOK, Stop, Unsubscribe
  <2> QED
    BY <1>0, <1>4, <2>1 DEF TypeOK, Stop, Closure
<1>5. ASSUME UNCHANGED <<storeVars, query>> PROVE StoreTypeOK' /\ query' = query
  BY <1>0, <1>5 DEF StoreTypeOK, storeVars
<1>6. CASE FetchAnswers
  <2>1. job' \in Job
    BY <1>0, <1>2, <1>6 DEF FetchAnswers, Job
  <2> QED
    BY <1>0, <1>5, <1>6, <2>1 DEF FetchAnswers, TypeOK
<1>7. CASE FetchDone
  <2>1. job.item \in Item /\ KeyOf(job.item) \in SUBSET Key /\ sub.current \in SUBSET Key
    BY <1>0, ItemTypes DEF Job, Closure
  <2>2. CurrentAfter \in SUBSET Key
    BY <2>1 DEF CurrentAfter
  <2>3. sub' \in Closure
    BY <1>0, <1>7, <2>2 DEF FetchDone, Closure
  <2>4. client' \in Client /\ seen' \in [source : Source, two : BOOLEAN]
    BY <1>0, <1>7, <2>1 DEF FetchDone, Shows, Client, Source
  <2>5. Missed \in SUBSET (Key \X Why)
    BY DEF Missed, Why
  <2>6. StoreTypeOK' /\ query' = query
    BY <1>0, <1>7, <2>5 DEF FetchDone, StoreTypeOK
  <2> QED
    BY <1>0, <1>1, <1>7, <2>3, <2>4, <2>6 DEF FetchDone, TypeOK
<1>8. CASE FetchFails
  BY <1>0, <1>1, <1>5, <1>8 DEF FetchFails, Report, TypeOK, Client
<1>9. CASE RunNext
  <2>1. Head(queue) \in Actions /\ Tail(queue) \in Seq(Actions)
    BY <1>0, <1>9 DEF RunNext
  <2>2. /\ sub' \in Closure /\ job' \in Job /\ client' \in Client
        /\ seen' \in [source : Source, two : BOOLEAN]
    BY <1>0, <1>9, <2>1, HandleActionType DEF RunNext, SubTypeOK, Done
  <2> QED
    BY <1>0, <1>5, <1>9, <2>1, <2>2 DEF RunNext, TypeOK
<1>10. CASE ClearTail
  BY <1>0, <1>1, <1>5, <1>10 DEF ClearTail, TypeOK
<1> QED
  BY <1>3, <1>4, <1>6, <1>7, <1>8, <1>9, <1>10 DEF QueueStep

\* the store's steps that call the listeners
Emission ==
    \/ \E w \in Writer : EmitWritten(w) \/ ReturnSilently(w)
    \/ \E n \in Notifier : EmitNotified(n)
    \/ EmitResync

LEMMA EmitType ==
  ASSUME TypeOK, Emission
  PROVE  TypeOK'
<1>0. StoreTypeOK /\ SubTypeOK
  BY DEF TypeOK, SubTypeOK
<1>1. StoreTypeOK'
  BY <1>0, WriterStepType, NotifierStepType
     DEF Emission, EmitWritten, ReturnSilently, EmitNotified, EmitResync, Resync, StoreTypeOK, Workload
<1>2. SubTypeOK'
  BY <1>0, ActionTypes, ReceiveType
     DEF Emission, EmitWritten, ReturnSilently, EmitNotified, EmitResync, SubTypeOK, subVars
<1> QED
  BY <1>1, <1>2 DEF TypeOK, SubTypeOK

(***************************************************************************)
(* Every variable keeps its type: the client shows null or a document, the *)
(* key held is one key or none, and what waits in the queue are actions.   *)
(***************************************************************************)
THEOREM SingleTypeCorrect == Spec => []TypeOK
<1>1. Init => TypeOK
  <2> SUFFICES ASSUME Init PROVE TypeOK
    OBVIOUS
  <2>1. StoreTypeOK
    BY StoreInitType DEF Init
  <2>2. seen \in [source : Source, two : BOOLEAN]
    BY DEF Init, Source
  <2> QED
    BY <2>1, <2>2, JobTypes, ItemTypes, SingleItemAssumption
       DEF Init, TypeOK, Closure, Client, MatchingItem
<1>2. TypeOK /\ [Next]_vars => TypeOK'
  <2> SUFFICES ASSUME TypeOK, [Next]_vars PROVE TypeOK'
    OBVIOUS
  <2>1. CASE StoreStep /\ Remember
    <3>1. StoreTypeOK'
      BY <2>1, StoreStepType DEF TypeOK
    <3> QED
      BY <2>1, <3>1 DEF TypeOK, Remember
  <2>2. CASE UNCHANGED vars
    BY <2>2 DEF vars, storeVars, subVars, TypeOK, StoreTypeOK
  <2> QED
    BY <2>1, <2>2, SubStepType, EmitType DEF Next, Emission
<1> QED
  BY <1>1, <1>2, PTL DEF Spec


-----------------------------------------------------------------------------
(* What the subscription holds *)

\* A subscription that lives is called for every emission; not ready, it fetches or
\* was told of an error; before it is opened it waits for nothing.
ListensInv ==
    /\ Live => Sub \in listeners
    /\ Live /\ ~sub.isReady => job.kind = "fetch" \/ client.hasError
    /\ job.kind = "idle" => queue = <<>>
    /\ ~sub.isOpen => ~sub.isStopped /\ ~sub.isReady /\ Sub \notin listeners /\ job.kind = "idle"

\* The key it decides by is that of the item shown: of a client that was sent the
\* initial result, or fetched the same.
HeldInv ==
    (Live /\ sub.isReady /\ (query.includeInitial \/ ~Gaps({"missed"}))) =>
        KeyOf(client.item) = sub.current

ItemsInv == MatchingItem(client.item) /\ MatchingItem(job.item)
QueueStory == \A i \in DOMAIN queue : OneStory(queue[i])

SubInv == ListensInv /\ HeldInv /\ ItemsInv /\ QueueStory

\* the closure an action is handled with
Alike(s) ==
    /\ s.isOpen = sub.isOpen /\ s.isStopped = sub.isStopped /\ s.isReady = sub.isReady
    /\ s.current = sub.current

\* what an action may lead to, from the closure s
LEMMA HandleOutcome ==
  ASSUME NEW s \in Closure, NEW a \in Actions, NEW done, HandleAction(s, a, done)
  PROVE  \/ /\ Ignored(s, a) \/ NothingToSend(s, a)
            /\ sub' = s /\ job' = done /\ UNCHANGED <<client, seen>>
         \/ /\ ~Ignored(s, a) /\ MustRefetch(s, a)
            /\ sub' = s /\ job' = Fetching(FALSE) /\ UNCHANGED <<client, seen>>
         \/ /\ ~Ignored(s, a) /\ ~MustRefetch(s, a) /\ ~NothingToSend(s, a)
            /\ sub' = s /\ job' = done /\ Report
         \/ /\ ~Ignored(s, a) /\ ~MustRefetch(s, a) /\ ~NothingToSend(s, a)
            /\ \E item, source : /\ MatchingItem(item) /\ source # "fetch"
                                 /\ Send(s, item, source, done)
<1>1. ASSUME SendChange(s, a, done)
      PROVE  \/ sub' = s /\ job' = done /\ Report
             \/ \E item, source : /\ MatchingItem(item) /\ source # "fetch"
                                  /\ Send(s, item, source, done)
  <2>1. ASSUME NEW k \in Inserted(a),
               Send(s, {<<k, a.states[k]>>},
                  IF query.isSorted /\ s.current # {} THEN "insertOver" ELSE "change", done)
        PROVE  \E item, source : /\ MatchingItem(item) /\ source # "fetch"
                                 /\ Send(s, item, source, done)
    BY <2>1, ChangedItems
  <2>2. ASSUME Send(s, NoItem, "change", done)
        PROVE  \E item, source : /\ MatchingItem(item) /\ source # "fetch"
                                 /\ Send(s, item, source, done)
    BY <2>2, ItemTypes
  <2>3. ASSUME NEW k \in Filtered(s, a),
               Send(s, IF a.states[k] \in Matching THEN {<<k, a.states[k]>>} ELSE NoItem,
                  "change", done)
        PROVE  \E item, source : /\ MatchingItem(item) /\ source # "fetch"
                                 /\ Send(s, item, source, done)
    BY <2>3, ChangedItems
  <2> QED
    BY <1>1, <2>1, <2>2, <2>3 DEF SendChange
<1> QED
  BY <1>1 DEF HandleAction

\* handling an action, a subscription keeps what it holds
LEMMA HandleHolds ==
  ASSUME SubTypeOK, ListensInv, HeldInv, ItemsInv, UNCHANGED <<query, gaps>>,
         NEW s \in Closure, Alike(s), NEW a \in Actions, NEW done \in Done,
         job.kind \in {"idle", "settled"}, HandleAction(s, a, done)
  PROVE  /\ sub'.isOpen = sub.isOpen /\ sub'.isStopped = sub.isStopped /\ sub'.isReady = sub.isReady
         /\ Live /\ ~sub.isReady => job'.kind = "fetch" \/ client'.hasError
         /\ job'.kind = "idle" => done = NoJob
         /\ HeldInv' /\ ItemsInv'
<1>0. /\ done.kind \in {"idle", "settled"} /\ (done.kind = "idle" => done = NoJob) /\ done.item = NoItem
      /\ Fetching(FALSE).kind = "fetch" /\ Fetching(FALSE).item = NoItem
      /\ client \in Client /\ MatchingItem(NoItem)
  BY ItemTypes DEF Done, NoJob, Settled, Fetching, SubTypeOK
<1>1. CASE /\ sub' = s /\ job' \in {done, Fetching(FALSE)}
           /\ client'.item = client.item /\ (client.hasError => client'.hasError)
  <2>1. ItemsInv' /\ HeldInv'
    BY <1>0, <1>1 DEF ItemsInv, MatchingItem, HeldInv, Live, Gaps, Alike
  <2> QED
    BY <1>0, <1>1, <2>1 DEF Alike, ListensInv
<1>2. ASSUME ~Ignored(s, a), ~MustRefetch(s, a),
             NEW item, NEW source, MatchingItem(item), source # "fetch", Send(s, item, source, done)
      PROVE  /\ sub'.isOpen = sub.isOpen /\ sub'.isStopped = sub.isStopped /\ sub'.isReady = sub.isReady
             /\ Live /\ ~sub.isReady => job'.kind = "fetch" \/ client'.hasError
             /\ job'.kind = "idle" => done = NoJob
             /\ HeldInv' /\ ItemsInv'
  <2>1. /\ sub' = [s EXCEPT !.current = KeyOf(item)] /\ job' = done
        /\ client'.item = item
    BY <1>0, <1>2 DEF Send, Shows, Client
  <2>2. s.isReady
    BY <1>2 DEF Ignored, MustRefetch
  <2>3. HeldInv'
    BY <2>1 DEF Closure, HeldInv, KeyOf
  <2>4. ItemsInv'
    BY <1>0, <1>2, <2>1 DEF ItemsInv, MatchingItem
  <2> QED
    BY <1>0, <2>1, <2>2, <2>3, <2>4 DEF Alike, Closure
<1>3. CASE sub' = s /\ job' = done /\ Report
  <2>1. client'.item = client.item /\ (client.hasError => client'.hasError)
    BY <1>0, <1>3 DEF Report, Client
  <2> QED
    BY <1>1, <1>3, <2>1
<1> QED
  BY <1>1, <1>2, <1>3, HandleOutcome


\* an action received is handled at once, or put behind the pending work
LEMMA ReceiveHandles ==
  ASSUME SubTypeOK, NEW a, Receive(a), Sub \in listeners
  PROVE  \E s \in Closure :
            /\ Alike(s) /\ query' = query
            /\ \/ job.kind = "idle" /\ HandleAction(s, a, NoJob) /\ queue' = queue
               \/ /\ job.kind # "idle" /\ queue' = Append(queue, a)
                  /\ sub' = s /\ UNCHANGED <<job, client, seen>>
<1> DEFINE s == [sub EXCEPT !.hasActionDuringInit = @ \/ sub.isInitializing]
<1>1. s \in Closure /\ Alike(s)
  BY DEF SubTypeOK, Closure, Alike
<1>2. /\ query' = query
      /\ \/ job.kind = "idle" /\ HandleAction(s, a, NoJob) /\ queue' = queue
         \/ /\ job.kind # "idle" /\ queue' = Append(queue, a)
            /\ sub' = s /\ UNCHANGED <<job, client, seen>>
  BY DEF Receive, Pending
<1> HIDE DEF s
<1> QED
  BY <1>1, <1>2

LEMMA ReceiveHolds ==
  ASSUME SubTypeOK, SubInv, NEW a \in Actions, OneStory(a), Receive(a), UNCHANGED <<listeners, gaps>>
  PROVE  SubInv'
<1> USE DEF SubInv
<1>1. CASE Sub \notin listeners
  <2>1. UNCHANGED <<sub, queue, job, client, query>>
    BY <1>1 DEF Receive
  <2> QED
    BY <2>1 DEF ListensInv, HeldInv, ItemsInv, QueueStory, Live, Gaps, MatchingItem, OneStory
<1>2. CASE Sub \in listeners
  <2>1. PICK s \in Closure :
            /\ Alike(s) /\ query' = query
            /\ \/ job.kind = "idle" /\ HandleAction(s, a, NoJob) /\ queue' = queue
               \/ /\ job.kind # "idle" /\ queue' = Append(queue, a)
                  /\ sub' = s /\ UNCHANGED <<job, client, seen>>
    BY <1>2, ReceiveHandles
  <2>2. CASE job.kind = "idle" /\ HandleAction(s, a, NoJob) /\ queue' = queue
    <3>1. NoJob \in Done
      BY DEF Done
    <3>2. /\ sub'.isOpen = sub.isOpen /\ sub'.isStopped = sub.isStopped /\ sub'.isReady = sub.isReady
          /\ Live /\ ~sub.isReady => job'.kind = "fetch" \/ client'.hasError
          /\ HeldInv' /\ ItemsInv'
      BY <2>1, <2>2, <3>1, HandleHolds
    <3>3. ListensInv'
      BY <1>2, <2>2, <3>2 DEF ListensInv, Live
    <3>4. QueueStory'
      BY <2>2 DEF QueueStory
    <3> QED
      BY <3>2, <3>3, <3>4
  <2>3. CASE job.kind # "idle" /\ queue' = Append(queue, a) /\ sub' = s /\ UNCHANGED <<job, client>>
    <3>1. ListensInv' /\ HeldInv' /\ ItemsInv'
      BY <2>1, <2>3 DEF ListensInv, HeldInv, ItemsInv, Live, Gaps, Alike, MatchingItem
    <3>2. QueueStory'
      BY <2>3 DEF QueueStory, SubTypeOK
    <3> QED
      BY <3>1, <3>2
  <2> QED
    BY <2>1, <2>2, <2>3
<1> QED
  BY <1>1, <1>2

\* the steps of the subscription itself
LEMMA StepHolds ==
  ASSUME TypeOK, SubInv, Open \/ Stop \/ QueueStep
  PROVE  SubInv'
<1> USE DEF SubInv
<1>0. /\ sub \in Closure /\ client \in Client /\ StoreTypeOK /\ job \in Job /\ queue \in Seq(Actions)
      /\ db \in [Key -> State] /\ SubTypeOK
      /\ NoJob.kind = "idle" /\ Settled.kind = "settled" /\ MatchingItem(NoItem)
      /\ NoJob.item = NoItem /\ Settled.item = NoItem
      /\ Fetching(TRUE).kind = "fetch" /\ Fetching(TRUE).item = NoItem
  BY ItemTypes DEF TypeOK, StoreTypeOK, SubTypeOK, NoJob, Settled, Fetching
<1>1. CASE Open
  <2>1. MatchingItem(client'.item)
    BY <1>0, <1>1, FirstsType DEF Open, ItemsInv, Client
  <2>2. sub'.isOpen /\ ~sub'.isStopped /\ ~sub'.isReady /\ Sub \in listeners' /\ queue' = queue
    BY <1>0, <1>1 DEF Open, Subscribe, ListensInv, Closure
  <2> QED
    BY <1>0, <1>1, <2>1, <2>2 DEF Open, ListensInv, HeldInv, ItemsInv, QueueStory, Live, MatchingItem
<1>2. CASE Stop
  <2>1. sub'.isStopped /\ sub'.isOpen
    BY <1>0, <1>2 DEF Stop, Closure
  <2> QED
    BY <1>2, <2>1 DEF Stop, ListensInv, HeldInv, ItemsInv, QueueStory, Live, MatchingItem
<1>3. CASE FetchAnswers
  <2>1. job'.kind = job.kind /\ MatchingItem(job'.item)
    BY <1>0, <1>3, FirstsType DEF FetchAnswers, Job
  <2> QED
    BY <1>3, <2>1 DEF FetchAnswers, storeVars, ListensInv, HeldInv, ItemsInv, QueueStory, Live, Gaps, MatchingItem
<1>4. CASE FetchDone
  <2>1. /\ sub'.isOpen = sub.isOpen /\ sub'.isStopped = sub.isStopped /\ sub'.isReady
        /\ sub'.current = CurrentAfter
    BY <1>0, <1>4 DEF FetchDone, Closure
  <2>2. CASE SendsResult
    <3>1. client'.item = job.item /\ sub'.current = KeyOf(job.item)
      BY <1>0, <1>4, <2>1, <2>2 DEF FetchDone, Shows, Client, CurrentAfter
    <3> QED
      BY <1>0, <1>4, <2>1, <3>1
         DEF FetchDone, ListensInv, HeldInv, ItemsInv, QueueStory, Live, KeyOf, MatchingItem
  <2>3. CASE ~SendsResult
    <3>1. client' = client /\ gaps' = gaps \cup Missed
      BY <1>4, <2>3 DEF FetchDone
    <3>2. ASSUME Live, query.includeInitial \/ ~Gaps({"missed"})'
          PROVE  KeyOf(client.item) = sub'.current
      <4>1. job.initial /\ ~query.includeInitial
        BY <2>3, <3>2 DEF SendsResult, Live
      <4>2. job.item = client.item
        <5>1. CASE Key = {}
          <6>1. job.item = {} /\ client.item = {}
            BY <1>0, <5>1 DEF Job, Client, Item, NoItem
          <6> QED
            BY <6>1
        <5>2. ASSUME NEW k \in Key PROVE job.item = client.item
          <6>1. <<k, "missed">> \notin gaps'
            BY <3>2, <4>1 DEF Gaps
          <6> QED
            BY <2>3, <3>1, <3>2, <6>1 DEF Missed, Live
        <5> QED
          BY <5>1, <5>2
      <4> QED
        BY <2>1, <4>1, <4>2 DEF CurrentAfter
    <3>3. HeldInv'
      BY <1>4, <2>1, <3>1, <3>2 DEF HeldInv, Live, FetchDone, KeyOf, Gaps
    <3> QED
      BY <1>0, <1>4, <2>1, <3>1, <3>3
         DEF FetchDone, ListensInv, ItemsInv, QueueStory, Live, MatchingItem
  <2> QED
    BY <2>2, <2>3
<1>5. CASE FetchFails
  <2>1. client'.item = client.item /\ (Live => client'.hasError)
    BY <1>0, <1>5 DEF FetchFails, Report, Client, Live
  <2> QED
    BY <1>0, <1>5, <2>1
       DEF FetchFails, storeVars, ListensInv, HeldInv, ItemsInv, QueueStory, Live, Gaps, MatchingItem
<1>6. CASE RunNext
  <2>1. /\ Head(queue) \in Actions /\ job.kind = "settled" /\ HandleAction(sub, Head(queue), Settled)
        /\ UNCHANGED <<query, gaps, listeners>> /\ queue' = Tail(queue) /\ Settled \in Done
        /\ NoJob # Settled
    BY <1>0, <1>6 DEF RunNext, storeVars, Done
  <2>2. Alike(sub)
    BY DEF Alike
  <2>3. /\ sub'.isOpen = sub.isOpen /\ sub'.isStopped = sub.isStopped /\ sub'.isReady = sub.isReady
        /\ Live /\ ~sub.isReady => job'.kind = "fetch" \/ client'.hasError
        /\ job'.kind # "idle"
        /\ HeldInv' /\ ItemsInv'
    BY <1>0, <2>1, <2>2, HandleHolds
  <2>4. ListensInv'
    BY <2>1, <2>3 DEF ListensInv, Live
  <2>5. QueueStory'
    BY <1>0, <1>6, <2>1 DEF QueueStory, RunNext
  <2> QED
    BY <2>3, <2>4, <2>5
<1>7. CASE ClearTail
  BY <1>0, <1>7
     DEF ClearTail, storeVars, ListensInv, HeldInv, ItemsInv, QueueStory, Live, Gaps, MatchingItem
<1> QED
  BY <1>1, <1>2, <1>3, <1>4, <1>5, <1>6, <1>7 DEF QueueStep


LEMMA StoreHolds == Spec => [](StoreInv /\ MethodsInv)
<1>1. Init => StoreInv /\ MethodsInv
  BY StoreInvInit, IdleMethod DEF Init, StoreInit, MethodsInv
<1>2. TypeOK /\ TypeOK' /\ StoreInv /\ MethodsInv /\ [Next]_vars => StoreInv' /\ MethodsInv'
  <2> SUFFICES ASSUME TypeOK, TypeOK', StoreInv, MethodsInv, [Next]_vars PROVE StoreInv' /\ MethodsInv'
    OBVIOUS
  <2>0. IsFiniteSet(Key) /\ StoreTypeOK
    BY SingleItemAssumption DEF TypeOK
  <2>1. CASE \/ StoreStep \/ Resync
             \/ \E w \in Writer : Return(w)
             \/ \E n \in Notifier : EmitChanged(n)
    BY <2>0, <2>1, StoreInvStep, MethodsStep
  <2>2. CASE UNCHANGED <<db, writer, notifier>> /\ gaps \subseteq gaps'
    <3>1. FreshInv'
      BY <2>2, FreshFrame DEF StoreInv
    <3>2. MethodsInv'
      BY <2>2 DEF MethodsInv, MethodOf, KeysOf
    <3> QED
      BY <2>2, <3>1, <3>2 DEF StoreInv, TypeOK, CallsInv, NoticesInv
  <2>3. CASE Open \/ Stop
    BY <2>2, <2>3 DEF Open, Stop, Subscribe, Unsubscribe
  <2>4. CASE QueueStep
    <3>1. UNCHANGED <<db, writer, notifier>> /\ gaps \subseteq gaps'
      BY <2>4 DEF QueueStep, FetchAnswers, FetchDone, FetchFails, RunNext, ClearTail, storeVars
    <3> QED
      BY <2>2, <3>1
  <2>5. CASE UNCHANGED vars
    BY <2>2, <2>5 DEF vars, storeVars
  <2> QED
    BY <2>1, <2>3, <2>4, <2>5 DEF Next, EmitWritten, ReturnSilently, EmitNotified, EmitResync
<1> QED
  BY <1>1, <1>2, SingleTypeCorrect, PTL DEF Spec

LEMMA StoreListeners == StoreStep => UNCHANGED listeners
  BY DEF StoreStep, LocalStep, ForeignStep, NotifierStep, Begin, FindKeys, FindKeysFails, Commit,
     Miss, CommandFails, ReadBack, ReadBackFails, Foreign, NotifyChanged, NotifyFinds, NotifyFails

LEMMA SubHolds == Spec => []SubInv
<1>1. Init => SubInv
  BY ItemTypes
     DEF Init, StoreInit, SubInv, ListensInv, HeldInv, ItemsInv, QueueStory, Live, NoJob
<1>2. TypeOK /\ MethodsInv /\ SubInv /\ [Next]_vars => SubInv'
  <2> SUFFICES ASSUME TypeOK, MethodsInv, SubInv, [Next]_vars PROVE SubInv'
    OBVIOUS
  <2>0. StoreTypeOK /\ SubTypeOK
    BY DEF TypeOK, SubTypeOK
  <2>1. CASE StoreStep /\ Remember
    <3>1. listeners' = listeners /\ gaps \subseteq gaps' /\ UNCHANGED <<query, sub, queue, job, client>>
      BY <2>1, StoreListeners, GapsGrow DEF Remember
    <3> QED
      BY <3>1 DEF SubInv, ListensInv, HeldInv, ItemsInv, QueueStory, Live, Gaps, MatchingItem, OneStory
  <2>2. ASSUME NEW w \in Writer, EmitWritten(w) \/ ReturnSilently(w) PROVE SubInv'
    <3>1. CASE EmitWritten(w)
      BY <2>0, <3>1, ActionTypes, EmissionsStory, ReceiveHolds DEF EmitWritten, Return
    <3>2. CASE ReturnSilently(w)
      BY <3>2 DEF ReturnSilently, Return, subVars, SubInv, ListensInv, HeldInv, ItemsInv, QueueStory,
         Live, Gaps, MatchingItem, OneStory
    <3> QED
      BY <2>2, <3>1, <3>2
  <2>3. ASSUME NEW n \in Notifier, EmitNotified(n) PROVE SubInv'
    BY <2>0, <2>3, ActionTypes, EmissionsStory, ReceiveHolds DEF EmitNotified, EmitChanged
  <2>4. CASE EmitResync
    BY <2>0, <2>4, ActionTypes, EmissionsStory, ReceiveHolds DEF EmitResync, Resync
  <2>5. CASE UNCHANGED vars
    BY <2>5 DEF vars, storeVars, subVars, SubInv, ListensInv, HeldInv, ItemsInv, QueueStory,
       Live, Gaps, MatchingItem, OneStory
  <2> QED
    BY <2>1, <2>2, <2>3, <2>4, <2>5, StepHolds DEF Next
<1> QED
  BY <1>1, <1>2, SingleTypeCorrect, StoreHolds, PTL DEF Spec

(***************************************************************************)
(* The key the subscription decides by is that of the item its client      *)
(* shows: of currentKey of _subscribe and the client's item, through every *)
(* fetch, every change sent and every action that waits.                   *)
(***************************************************************************)
THEOREM HeldItemAgrees == Spec => []SingleInv
<1>1. TypeOK /\ SubInv => SingleInv
  BY DEF SubInv, HeldInv, SingleInv, HeldItem
<1> QED
  BY <1>1, SingleTypeCorrect, SubHolds, PTL


-----------------------------------------------------------------------------
(* The first document *)

\* an action that says what is stored under k, one that says that what was stored
\* has changed, and one that says anything else
Tells(a, k) == a.type = "resync" \/ (k \in KeysOf(a.states) /\ a.states[k] = db[k])
StirsAction(a, k) == a.type = "resync" \/ (a.type # "inserted" /\ k \in KeysOf(a.states))
Speaks(a) == a.type \notin {"changed", "resync"}
Misleads(a, k) == Speaks(a) /\ k \in KeysOf(a.states) /\ a.states[k] # db[k]

\* what is still to be told, after the n-th action of the queue
ToldAfter(n, k) ==
    \/ k \in owed \/ Underway(k)
    \/ \E j \in DOMAIN queue : j > n /\ Tells(queue[j], k)
StirredAfter(n, k) ==
    \/ k \in owed \/ Stirred(k)
    \/ \E j \in DOMAIN queue : j > n /\ StirsAction(queue[j], k)

HeardAll == ~Gaps({"silent", "lost", "missed"})
Exact == ~Gaps({"crossed"}) /\ (query.isSorted \/ ~seen.two)

\* d comes before the item
Better(d, item) == query.isSorted => \A p \in item : Position[d] < Position[p[2]]
Wrong(item, k) == k \in KeyOf(item) /\ <<k, db[k]>> \notin item
Missing(item, k) == k \notin KeyOf(item) /\ db[k] \in Matching /\ Better(db[k], item)

\* where the item is not the first, the client is to be told so
Follows(item) ==
    \A k \in Key :
        /\ Wrong(item, k) => StirredAfter(0, k)
        /\ Missing(item, k) => ToldAfter(0, k)

\* where the n-th action is overtaken, or there is another document than those it
\* tells of, an action after it says so
Faithful(n, a) ==
    \A k \in Key :
        /\ Misleads(a, k) => /\ ToldAfter(n, k)
                             /\ a.states[k] \in Matching => StirredAfter(n, k)
        /\ (/\ ~query.isSorted /\ Speaks(a) /\ db[k] \in Matching
            /\ \E j \in Key \ {k} : a.states[j] \in Matching) => ToldAfter(n, k)

FollowInv ==
    (Live /\ HeardAll) =>
        /\ (job.kind = "fetch" /\ job.answered /\ (query.isSorted \/ Exact)) => Follows(job.item)
        /\ (job.kind # "fetch" /\ ~client.hasError /\ Trusted) => Follows(client.item)
QueueInv == (Live /\ HeardAll /\ Exact) => \A i \in DOMAIN queue : Faithful(i, queue[i])

\* two documents match at a time only after they were seen to
TwoInv == ~seen.two => \A j, k \in Matches(db) : j = k
\* an insertion that is sent over the item shown shows a document
SourceInv ==
    /\ seen.source = "insertOver" => client.item # NoItem
    /\ ~sub.isOpen => seen.source = "fetch"

ShowInv == FollowInv /\ QueueInv

\* what the client is to be told of k, and what its queue tells, goes on being told
Stays(n, m, k) ==
    /\ ToldAfter(n, k) => ToldAfter(m, k)' \/ db'[k] # db[k]
    /\ db'[k] # db[k] => ToldAfter(m, k)' /\ (db[k] = NoDoc \/ StirredAfter(m, k)')
    /\ StirredAfter(n, k) => StirredAfter(m, k)'

LEMMA ItemShapes ==
  ASSUME NEW item, MatchingItem(item)
  PROVE  /\ item = NoItem \/ \E k \in Key, d \in Matching : item = {<<k, d>>}
         /\ KeyOf(item) = {} => item = NoItem
         /\ \A k \in KeyOf(item) : KeyOf(item) = {k}
<1>1. item = NoItem \/ \E p \in Key \X Doc : item = {p}
  BY DEF MatchingItem, Item
<1>2. ASSUME NEW p \in Key \X Doc, item = {p} PROVE \E k \in Key, d \in Matching : item = {<<k, d>>}
  <2>1. p = <<p[1], p[2]>> /\ p[1] \in Key /\ p[2] \in Matching
    BY <1>2 DEF MatchingItem
  <2> QED
    BY <1>2, <2>1
<1> QED
  BY <1>1, <1>2 DEF KeyOf, NoItem

LEMMA ItemStays ==
  ASSUME query' = query, NEW item, MatchingItem(item), Follows(item), \A k \in Key : Stays(0, 0, k)
  PROVE  Follows(item)'
<1> SUFFICES ASSUME NEW k \in Key
             PROVE  /\ Wrong(item, k)' => StirredAfter(0, k)'
                    /\ Missing(item, k)' => ToldAfter(0, k)'
  BY DEF Follows
<1>1. <<k, NoDoc>> \notin item
  BY SingleItemAssumption, SubscribeStoreAssumption DEF MatchingItem
<1>2. Wrong(item, k)' => StirredAfter(0, k)'
  BY <1>1 DEF Wrong, Follows, Stays, KeyOf
<1>3. Missing(item, k)' => ToldAfter(0, k)'
  BY DEF Missing, Better, Follows, Stays, KeyOf
<1> QED
  BY <1>2, <1>3

LEMMA ActionStays ==
  ASSUME query' = query, NEW n, NEW m, NEW a, Faithful(n, a), \A k \in Key : Stays(n, m, k)
  PROVE  Faithful(m, a)'
<1> SUFFICES ASSUME NEW k \in Key
             PROVE  /\ Misleads(a, k)' => /\ ToldAfter(m, k)'
                                          /\ a.states[k] \in Matching => StirredAfter(m, k)'
                    /\ (/\ ~query.isSorted /\ Speaks(a) /\ db'[k] \in Matching
                        /\ \E j \in Key \ {k} : a.states[j] \in Matching) => ToldAfter(m, k)'
  BY DEF Faithful, Speaks
<1>1. NoDoc \notin Matching
  BY SingleItemAssumption, SubscribeStoreAssumption
<1>2. CASE db'[k] = db[k]
  BY <1>2 DEF Faithful, Misleads, Stays, Speaks
<1>3. CASE db'[k] # db[k]
  <2>1. a.states[k] \in Matching /\ Misleads(a, k)' /\ db[k] = NoDoc => Misleads(a, k)
    BY <1>1 DEF Misleads, Speaks
  <2> QED
    BY <1>3, <2>1 DEF Faithful, Stays
<1> QED
  BY <1>2, <1>3


\* what the item shown rests on was fetched, or told by actions that are exact
LEMMA TrustedExact ==
  /\ Trusted => query.isSorted \/ Exact
  /\ Trusted /\ seen.source # "fetch" => Exact
  BY DEF Trusted, Exact

\* a step after which no more is promised than before
LEMMA LessTrusted ==
  ASSUME gaps \subseteq gaps', query' = query, seen'.source = seen.source, ~seen'.two => ~seen.two
  PROVE  /\ HeardAll' => HeardAll
         /\ Exact' => Exact
         /\ Trusted' => Trusted
  BY DEF HeardAll, Exact, Trusted, Gaps

\* a step that leaves the item and the pending work alone
LEMMA FollowStays ==
  ASSUME ItemsInv, FollowInv, UNCHANGED <<query, job, client>>, Live' = Live,
         gaps \subseteq gaps', seen'.source = seen.source, ~seen'.two => ~seen.two,
         Live /\ HeardAll' => \A k \in Key : Stays(0, 0, k)
  PROVE  FollowInv'
<1>1. (HeardAll' => HeardAll) /\ (Exact' => Exact) /\ (Trusted' => Trusted)
  BY LessTrusted
<1>2. ASSUME Live, HeardAll', NEW item, MatchingItem(item), Follows(item) PROVE Follows(item)'
  BY <1>2, ItemStays
<1>3. (Live /\ HeardAll' /\ Follows(job.item)) => Follows(job.item)'
  <2> SUFFICES ASSUME Live, HeardAll', Follows(job.item) PROVE Follows(job.item)'
    OBVIOUS
  <2>1. PICK item : item = job.item
    OBVIOUS
  <2>2. Follows(item)'
    BY <1>2, <2>1 DEF ItemsInv
  <2> QED
    BY <2>1, <2>2 DEF Follows, Wrong, Missing, Better, KeyOf
<1>4. (Live /\ HeardAll' /\ Follows(client.item)) => Follows(client.item)'
  <2> SUFFICES ASSUME Live, HeardAll', Follows(client.item) PROVE Follows(client.item)'
    OBVIOUS
  <2>1. PICK item : item = client.item
    OBVIOUS
  <2>2. Follows(item)'
    BY <1>2, <2>1 DEF ItemsInv
  <2> QED
    BY <2>1, <2>2 DEF Follows, Wrong, Missing, Better, KeyOf
<1> QED
  BY <1>1, <1>3, <1>4 DEF FollowInv

\* what goes on being told of an action that waits
LEMMA FaithfulStays ==
  ASSUME query' = query, NEW n, NEW m, Faithful(n, queue[n]), queue'[m] = queue[n],
         \A k \in Key : Stays(n, m, k)
  PROVE  Faithful(m, queue[m])'
<1>1. PICK a : a = queue[n]
  OBVIOUS
<1>2. Faithful(m, a)'
  BY <1>1, ActionStays
<1> QED
  BY <1>1, <1>2 DEF Faithful, Misleads, Speaks

\* a step that leaves the subscription alone
LEMMA ShowStays ==
  ASSUME ItemsInv, ShowInv, UNCHANGED <<query, sub, queue, job, client>>,
         gaps \subseteq gaps', seen'.source = seen.source, ~seen'.two => ~seen.two,
         Live /\ HeardAll' => \A n \in Nat, k \in Key : Stays(n, n, k), queue \in Seq(Actions)
  PROVE  ShowInv'
<1>1. (HeardAll' => HeardAll) /\ (Exact' => Exact) /\ Live' = Live
  BY LessTrusted DEF Live
<1>2. FollowInv'
  BY <1>1, FollowStays DEF ShowInv
<1>3. QueueInv'
  <2> SUFFICES ASSUME Live, HeardAll', Exact', NEW i \in DOMAIN queue PROVE Faithful(i, queue[i])'
    BY <1>1 DEF QueueInv
  <2>1. Faithful(i, queue[i]) /\ i \in Nat
    BY <1>1 DEF ShowInv, QueueInv
  <2> QED
    BY <2>1, FaithfulStays
<1> QED
  BY <1>2, <1>3 DEF ShowInv

\* the store at work
LEMMA StoreShows ==
  ASSUME TypeOK, StoreInv, MethodsInv, SubInv, ShowInv, StoreStep, Remember
  PROVE  ShowInv'
<1>1. /\ UNCHANGED <<query, sub, queue, job, client>> /\ queue \in Seq(Actions) /\ gaps \subseteq gaps'
      /\ seen'.source = seen.source /\ (~seen'.two => ~seen.two)
  BY GapsGrow DEF Remember, TypeOK
<1>2. ASSUME Live, HeardAll', NEW n \in Nat, NEW k \in Key PROVE Stays(n, n, k)
  <2>1. HasListeners
    BY <1>2 DEF HasListeners, SubInv, ListensInv
  <2>2. Heard(k)'
    BY <1>2 DEF HeardAll, Gaps, Heard
  <2>3. /\ k \in owed \/ Underway(k) => k \in owed' \/ Underway(k)'
        /\ db'[k] = db[k] \/ k \in owed' \/ Underway(k)'
    BY <2>1, <2>2, StoreTells
  <2>4. /\ k \in owed \/ Stirred(k) => k \in owed' \/ Stirred(k)'
        /\ db[k] # NoDoc => db'[k] = db[k] \/ k \in owed' \/ Stirred(k)'
    BY <2>1, <2>2, StoreStirs
  <2>5. ToldAfter(n, k) => ToldAfter(n, k)' \/ db'[k] # db[k]
    BY <1>1, <2>3 DEF ToldAfter, Tells
  <2>6. StirredAfter(n, k) => StirredAfter(n, k)'
    BY <1>1, <2>4 DEF StirredAfter, StirsAction
  <2>7. db'[k] # db[k] => ToldAfter(n, k)' /\ (db[k] = NoDoc \/ StirredAfter(n, k)')
    BY <2>3, <2>4 DEF ToldAfter, StirredAfter
  <2> QED
    BY <2>5, <2>6, <2>7 DEF Stays
<1> QED
  BY <1>1, <1>2, ShowStays DEF SubInv


-----------------------------------------------------------------------------
(* Emissions, received and handled *)

\* what an emission tells of what is to be told
EmissionTells(a) ==
    /\ UNCHANGED <<db, listeners, gaps, query>>
    /\ \A k \in Key : k \in owed => k \in owed' \/ (Tells(a, k) /\ StirsAction(a, k))
    /\ \A k \in Key : Underway(k) => Underway(k)' \/ Tells(a, k)
    /\ \A k \in Key : Stirred(k) => Stirred(k)' \/ StirsAction(a, k)
    /\ Exact => \A k \in Key : /\ ~Misleads(a, k)
                               /\ Speaks(a) /\ db[k] \in Matching /\ ~query.isSorted =>
                                    \A j \in Key \ {k} : a.states[j] \notin Matching

LEMMA WrittenTells ==
  ASSUME TypeOK, StoreInv, TwoInv, NEW w \in Writer, Return(w), query' = query
  PROVE  EmissionTells(WrittenAction(w))
<1> DEFINE a == WrittenAction(w)
<1>1. a.type = writer[w].type /\ a.states = writer[w].states
  BY DEF WrittenAction
<1>2. UNCHANGED <<db, owed, listeners, gaps>>
  BY DEF Return
<1>3. \A k \in Key : db[k] # Untouched
  BY StatesTyped DEF StoreInv
<1> HIDE DEF a
<1>4. ASSUME NEW k \in Key PROVE Underway(k) => Underway(k)' \/ Tells(a, k)
  BY <1>1, <1>3, ReturnTold DEF Tells, KeysOf
<1>5. ASSUME NEW k \in Key PROVE Stirred(k) => Stirred(k)' \/ StirsAction(a, k)
  BY <1>1, EmissionStirs DEF StirsAction, KeysOf
<1>6. ASSUME Exact, NEW k \in Key, k \in KeysOf(a.states) PROVE a.states[k] = db[k]
  BY <1>1, <1>6 DEF StoreInv, FreshInv, FreshFor, Exact, Gaps, KeysOf
<1>7. ASSUME Exact, NEW k \in Key, db[k] \in Matching, ~query.isSorted, NEW j \in Key \ {k}
      PROVE  a.states[j] \notin Matching
  <2> SUFFICES ASSUME a.states[j] \in Matching PROVE FALSE
    OBVIOUS
  <2>1. j \in KeysOf(a.states)
    BY SingleItemAssumption, SubscribeStoreAssumption DEF KeysOf
  <2>2. a.states[j] = db[j]
    BY <1>6, <1>7, <2>1
  <2> QED
    BY <1>7, <2>2 DEF TwoInv, Matches, Exact
<1>8. \A k \in Key : Exact => ~Misleads(a, k)
  BY <1>6 DEF Misleads
<1>9. EmissionTells(a)
  BY <1>2, <1>4, <1>5, <1>7, <1>8 DEF EmissionTells
<1> QED
  BY <1>9 DEF a

LEMMA NotifiedTells ==
  ASSUME StoreInv, NEW n \in Notifier, EmitChanged(n), query' = query
  PROVE  EmissionTells(ChangedAction(n))
<1> DEFINE a == ChangedAction(n)
<1>1. a.type = "changed" /\ a.states = notifier[n].states
  BY DEF ChangedAction
<1>2. UNCHANGED <<db, owed, listeners, gaps>>
  BY DEF EmitChanged
<1> HIDE DEF a
<1>4. ASSUME NEW k \in Key PROVE Underway(k) => Underway(k)' \/ Tells(a, k)
  BY <1>1, ChangedTold DEF Tells
<1>5. ASSUME NEW k \in Key PROVE Stirred(k) => Stirred(k)' \/ StirsAction(a, k)
  BY <1>1, EmissionStirs DEF StirsAction
<1>6. ~Speaks(a)
  BY <1>1 DEF Speaks
<1>7. EmissionTells(a)
  BY <1>2, <1>4, <1>5, <1>6 DEF EmissionTells, Misleads
<1> QED
  BY <1>7 DEF a

LEMMA ResyncTells == Resync /\ query' = query => EmissionTells(ResyncAction)
<1> SUFFICES ASSUME Resync, query' = query PROVE EmissionTells(ResyncAction)
  OBVIOUS
<1>1. UNCHANGED <<db, listeners, gaps, writer, notifier>> /\ ResyncAction.type = "resync"
  BY DEF Resync, ResyncAction
<1>2. \A k \in Key : Tells(ResyncAction, k) /\ StirsAction(ResyncAction, k)
  BY <1>1 DEF Tells, StirsAction
<1> QED
  BY <1>1, <1>2 DEF EmissionTells, Speaks, Misleads

\* What handling an action rests on: what is missing in the item shown is told by it
\* or after it, and where it is overtaken an action after it says so.
Heeds(a) ==
    (Live /\ HeardAll) =>
        /\ (~client.hasError /\ Trusted) =>
              \A k \in Key :
                  /\ Wrong(client.item, k) => StirsAction(a, k) \/ StirredAfter(0, k)'
                  /\ Missing(client.item, k) => Tells(a, k) \/ ToldAfter(0, k)'
        /\ Exact =>
              \A k \in Key :
                  /\ Misleads(a, k) => /\ ToldAfter(0, k)'
                                       /\ a.states[k] \in Matching => StirredAfter(0, k)'
                  /\ (/\ ~query.isSorted /\ Speaks(a) /\ db[k] \in Matching
                      /\ \E j \in Key \ {k} : a.states[j] \in Matching) => ToldAfter(0, k)'


LEMMA FollowsAfter ==
  ASSUME UNCHANGED <<db, query>>, NEW item,
         \A k \in Key : /\ Wrong(item, k) => StirredAfter(0, k)'
                        /\ Missing(item, k) => ToldAfter(0, k)'
  PROVE  Follows(item)'
  BY DEF Follows, Wrong, Missing, Better, KeyOf

\* the state in which an action is handled, from the closure s
Handles(s, a) ==
    /\ Live /\ HeardAll /\ sub.isReady /\ ~client.hasError /\ Heeds(a)
    /\ s.current = KeyOf(client.item) /\ MatchingItem(client.item) /\ client \in Client
    /\ a \in Actions /\ OneStory(a) /\ s \in Closure /\ seen \in [source : Source, two : BOOLEAN]
    /\ UNCHANGED <<db, query, gaps>> /\ db \in [Key -> State]

\* nothing is sent where the item shown stays the first
LEMMA NothingShows ==
  ASSUME NEW s, NEW a, Handles(s, a), NothingToSend(s, a), Trusted, NEW k \in Key
  PROVE  /\ Wrong(client.item, k) => StirredAfter(0, k)'
         /\ Missing(client.item, k) => ToldAfter(0, k)'
<1>0. NoDoc \notin Matching /\ Untouched \notin Matching
  BY SingleItemAssumption, SubscribeStoreAssumption
<1>1. /\ Wrong(client.item, k) => StirsAction(a, k) \/ StirredAfter(0, k)'
      /\ Missing(client.item, k) => Tells(a, k) \/ ToldAfter(0, k)'
  BY DEF Handles, Heeds
<1>2. a.type # "resync"
  BY DEF NothingToSend
<1>3. ASSUME Wrong(client.item, k), StirsAction(a, k) PROVE FALSE
  <2>1. k \in s.current /\ k \in KeysOf(a.states) /\ a.type # "inserted"
    BY <1>2, <1>3 DEF Wrong, StirsAction, Handles
  <2> QED
    BY <2>1 DEF NothingToSend, Filtered
<1>4. ASSUME Missing(client.item, k), Tells(a, k) PROVE FALSE
  <2>1. k \in KeysOf(a.states) /\ a.states[k] \in Matching
    BY <1>2, <1>4 DEF Missing, Tells
  <2>2. a.type # "deleted"
    BY <1>0, <2>1 DEF Handles, OneStory
  <2> QED
    BY <2>1, <2>2 DEF NothingToSend, Filtered, Inserted
<1> QED
  BY <1>1, <1>3, <1>4

\* what Send leaves
LEMMA SendLeaves ==
  ASSUME NEW s, NEW a, Handles(s, a), NEW item, NEW source, source # "fetch",
         NEW done, Send(s, item, source, done)
  PROVE  /\ client'.item = item /\ client'.hasError = client.hasError
         /\ seen'.source = source /\ seen'.two = seen.two
         /\ Trusted' => Exact /\ (query.isSorted => source # "insertOver")
<1>1. /\ client'.item = item /\ client'.hasError = client.hasError
      /\ seen'.source = source /\ seen'.two = seen.two
  BY DEF Send, Shows, Handles, Client
<1>2. Trusted' => Exact /\ (query.isSorted => source # "insertOver")
  BY <1>1 DEF Trusted, Exact, Gaps, Handles
<1> QED
  BY <1>1, <1>2

\* the document of an action shown, where no other may be the first
LEMMA DocShows ==
  ASSUME NEW s, NEW a, Handles(s, a), Exact, NEW j \in KeysOf(a.states), a.states[j] \in Matching,
         Speaks(a), NEW k \in Key,
         k # j /\ Missing({<<j, a.states[j]>>}, k) /\ query.isSorted => ToldAfter(0, k)'
  PROVE  /\ Wrong({<<j, a.states[j]>>}, k) => StirredAfter(0, k)'
         /\ Missing({<<j, a.states[j]>>}, k) => ToldAfter(0, k)'
<1> DEFINE item == {<<j, a.states[j]>>}
<1>1. KeyOf(item) = {j} /\ j \in Key
  BY DEF KeyOf, KeysOf
<1>2. Wrong(item, k) => Misleads(a, k) /\ k = j
  BY <1>1 DEF Wrong, Misleads
<1>3. Misleads(a, k) /\ a.states[k] \in Matching => StirredAfter(0, k)'
  BY DEF Handles, Heeds
<1>4. Missing(item, k) => k # j /\ db[k] \in Matching
  BY <1>1 DEF Missing
<1>5. ~query.isSorted /\ k # j /\ db[k] \in Matching => ToldAfter(0, k)'
  BY <1>1 DEF Handles, Heeds
<1> QED
  BY <1>2, <1>3, <1>4, <1>5

\* nothing is shown, where nothing else may match
LEMMA NoneShows ==
  ASSUME NEW s, NEW a, Handles(s, a), Exact, Trusted, ~query.isSorted, a.type \in {"deleted", "updated"},
         NEW j \in KeysOf(a.states), s.current = {j}, NEW k \in Key,
         \A i \in KeysOf(a.states) : a.states[i] \notin Matching
  PROVE  /\ Wrong(NoItem, k) => StirredAfter(0, k)'
         /\ Missing(NoItem, k) => ToldAfter(0, k)'
<1>1. KeyOf(NoItem) = {}
  BY DEF KeyOf, NoItem
<1>2. ASSUME Missing(NoItem, k) PROVE ToldAfter(0, k)'
  <2>1. db[k] \in Matching
    BY <1>2 DEF Missing
  <2>2. CASE k \in KeysOf(a.states)
    <3>1. Misleads(a, k)
      BY <2>1, <2>2 DEF Misleads, Speaks
    <3> QED
      BY <3>1 DEF Handles, Heeds
  <2>3. CASE k \notin KeysOf(a.states)
    <3>1. k \notin KeyOf(client.item)
      BY <2>3 DEF Handles
    <3>2. Missing(client.item, k)
      BY <2>1, <3>1 DEF Missing, Better
    <3>3. ~Tells(a, k)
      BY <2>3 DEF Tells
    <3> QED
      BY <3>2, <3>3 DEF Handles, Heeds
  <2> QED
    BY <2>2, <2>3
<1> QED
  BY <1>1, <1>2 DEF Wrong


\* an inserted document is shown, over nothing or where any document will do
LEMMA InsertedShows ==
  ASSUME NEW s, NEW a, Handles(s, a), SourceInv, ~Ignored(s, a), a.type = "inserted",
         NEW j \in Inserted(a), NEW done,
         Send(s, {<<j, a.states[j]>>}, IF query.isSorted /\ s.current # {} THEN "insertOver" ELSE "change", done),
         Trusted'
  PROVE  Follows(client.item)'
<1> DEFINE source == IF query.isSorted /\ s.current # {} THEN "insertOver" ELSE "change"
<1>1. PICK item : item = {<<j, a.states[j]>>}
  OBVIOUS
<1>2. source # "fetch" /\ Send(s, item, source, done)
  BY <1>1
<1> HIDE DEF source
<1>3. client'.item = item /\ Exact /\ (query.isSorted => source # "insertOver")
  BY <1>2, SendLeaves
<1>4. j \in KeysOf(a.states) /\ j \in Key /\ a.states[j] \in Matching /\ Speaks(a)
  BY DEF Inserted, Speaks, KeysOf
<1>5. \A k \in KeysOf(a.states) : k = j
  BY <1>4 DEF Handles, OneStory
<1>6. ASSUME NEW k \in Key, k # j, Missing(item, k), query.isSorted PROVE ToldAfter(0, k)'
  <2>1. s.current = {}
    BY <1>3, <1>6 DEF source
  <2>2. client.item = NoItem /\ KeyOf(client.item) = {}
    <3>1. KeyOf(client.item) = {} /\ MatchingItem(client.item)
      BY <2>1 DEF Handles
    <3> QED
      BY <3>1, ItemShapes
  <2>3. Trusted
    <3>1. seen.source # "insertOver"
      BY <2>2 DEF SourceInv
    <3> QED
      BY <1>3, <1>6, <3>1 DEF Trusted, Exact
  <2>4. Missing(client.item, k)
    BY <1>6, <2>2 DEF Missing, Better, NoItem
  <2>5. ~Tells(a, k)
    BY <1>5, <1>6 DEF Tells
  <2> QED
    BY <2>3, <2>4, <2>5 DEF Handles, Heeds
<1>7. ASSUME NEW k \in Key
      PROVE  /\ Wrong(item, k) => StirredAfter(0, k)'
             /\ Missing(item, k) => ToldAfter(0, k)'
  BY <1>1, <1>3, <1>4, <1>6, DocShows
<1>8. Follows(item)'
  BY <1>7, FollowsAfter DEF Handles
<1> QED
  BY <1>3, <1>8 DEF Follows, Wrong, Missing, Better, KeyOf

\* so is what is left of the document shown, where there is no sort
LEMMA ChangeShows ==
  ASSUME NEW s, NEW a, Handles(s, a), ~Ignored(s, a), ~MustRefetch(s, a), ~NothingToSend(s, a),
         a.type \in {"deleted", "updated"}, NEW done,
         NEW item, Send(s, item, "change", done),
         \/ a.type = "deleted" /\ item = NoItem
         \/ /\ a.type = "updated"
            /\ \E j \in Filtered(s, a) :
                  /\ \A i \in Filtered(s, a) : i = j
                  /\ item = IF a.states[j] \in Matching THEN {<<j, a.states[j]>>} ELSE NoItem,
         Trusted'
  PROVE  Follows(client.item)'
<1>0. NoDoc \notin Matching /\ Untouched \notin Matching
  BY SingleItemAssumption, SubscribeStoreAssumption
<1>1. ~query.isSorted /\ Speaks(a)
  BY DEF MustRefetch, NothingToSend, Speaks
<1>2. client'.item = item /\ Exact
  BY SendLeaves
<1>3. Trusted
  BY <1>1, <1>2 DEF Trusted, Exact
<1>4. \A j \in s.current : s.current = {j}
  <2>1. MatchingItem(client.item) /\ s.current = KeyOf(client.item)
    BY DEF Handles
  <2> QED
    BY <2>1, ItemShapes
<1>5. ASSUME item = NoItem, NEW j \in KeysOf(a.states), j \in s.current,
             \A i \in KeysOf(a.states) : a.states[i] \notin Matching, NEW k \in Key
      PROVE  /\ Wrong(item, k) => StirredAfter(0, k)'
             /\ Missing(item, k) => ToldAfter(0, k)'
  BY <1>1, <1>2, <1>3, <1>4, <1>5, NoneShows
<1>6. ASSUME a.type = "deleted", NEW k \in Key
      PROVE  /\ Wrong(item, k) => StirredAfter(0, k)'
             /\ Missing(item, k) => ToldAfter(0, k)'
  <2>1. PICK j \in KeysOf(a.states) : j \in s.current
    BY <1>6 DEF NothingToSend
  <2>2. \A i \in KeysOf(a.states) : a.states[i] \notin Matching
    BY <1>0, <1>6 DEF Handles, OneStory
  <2> QED
    BY <1>5, <1>6, <2>1, <2>2
<1>7. ASSUME a.type = "updated", NEW k \in Key
      PROVE  /\ Wrong(item, k) => StirredAfter(0, k)'
             /\ Missing(item, k) => ToldAfter(0, k)'
  <2>1. PICK j \in Filtered(s, a) :
            /\ \A i \in Filtered(s, a) : i = j
            /\ item = IF a.states[j] \in Matching THEN {<<j, a.states[j]>>} ELSE NoItem
    BY <1>7
  <2>2. j \in KeysOf(a.states)
    BY DEF Filtered
  <2>3. CASE a.states[j] \in Matching
    BY <1>1, <1>2, <2>1, <2>2, <2>3, DocShows
  <2>4. CASE a.states[j] \notin Matching
    <3>1. j \in s.current
      BY <2>4 DEF Filtered
    <3>2. \A i \in KeysOf(a.states) : a.states[i] \notin Matching
      BY <2>1, <2>4 DEF Filtered, KeysOf
    <3> QED
      BY <1>5, <2>1, <2>2, <2>4, <3>1, <3>2
  <2> QED
    BY <2>3, <2>4
<1>8. Follows(item)'
  BY <1>6, <1>7, FollowsAfter DEF Handles
<1> QED
  BY <1>2, <1>8 DEF Follows, Wrong, Missing, Better, KeyOf

\* a set of one element has no other
LEMMA OnlyOne ==
  ASSUME NEW S, IsFiniteSet(S), Cardinality(S) <= 1
  PROVE  \A i, j \in S : i = j
<1> SUFFICES ASSUME NEW i \in S, NEW j \in S, i # j PROVE FALSE
  OBVIOUS
<1>1. IsFiniteSet({i}) /\ Cardinality({i}) = 1
  BY FS_Singleton
<1>2. IsFiniteSet({i, j}) /\ Cardinality({i, j}) = 2
  <2>1. {i, j} = {i} \cup {j} /\ j \notin {i}
    OBVIOUS
  <2> DEFINE T == {i}
  <2>2. IsFiniteSet(T) /\ Cardinality(T) = 1 /\ j \notin T /\ {i, j} = T \cup {j}
    BY <1>1, <2>1
  <2> HIDE DEF T
  <2>3. /\ IsFiniteSet(T \cup {j})
        /\ Cardinality(T \cup {j}) = IF j \in T THEN Cardinality(T) ELSE Cardinality(T) + 1
    BY <2>2, FS_AddElement
  <2>4. Cardinality(T \cup {j}) = 2
    BY <2>2, <2>3
  <2> QED
    BY <2>2, <2>3, <2>4
<1>3. Cardinality({i, j}) <= Cardinality(S)
  BY FS_Subset
<1>4. Cardinality(S) \in Nat
  BY FS_CardinalityType
<1> QED
  BY <1>2, <1>3, <1>4


\* an action that is handled: sent, fetched for, or known to change nothing
LEMMA HandleShows ==
  ASSUME TypeOK, ListensInv, HeldInv, ItemsInv, SourceInv, job.kind # "fetch",
         UNCHANGED <<db, query, gaps>>, NEW s \in Closure, Alike(s), NEW a \in Actions, OneStory(a),
         NEW done \in Done, HandleAction(s, a, done), Heeds(a)
  PROVE  FollowInv'
<1>0. /\ done.kind # "fetch" /\ Fetching(FALSE).kind = "fetch" /\ ~Fetching(FALSE).answered
      /\ client \in Client /\ seen \in [source : Source, two : BOOLEAN] /\ db \in [Key -> State]
  BY DEF Done, NoJob, Settled, Fetching, TypeOK, StoreTypeOK
<1>1. (sub'.isOpen = sub.isOpen /\ sub'.isStopped = sub.isStopped) /\ (Live' = Live) /\ (HeardAll' = HeardAll)
  <2>1. sub' = s \/ \E c : sub' = [s EXCEPT !.current = c]
    BY DEF HandleAction, SendChange, Send
  <2>2. sub'.isOpen = s.isOpen /\ sub'.isStopped = s.isStopped
    BY <2>1 DEF Closure
  <2> QED
    BY <2>2 DEF Alike, Live, HeardAll, Gaps
<1>2. SUFFICES ASSUME Live, HeardAll, job' = done, ~client'.hasError, Trusted'
               PROVE  Follows(client.item)'
  <2>1. job' = done \/ job' = Fetching(FALSE)
    BY DEF HandleAction, SendChange, Send
  <2> QED
    BY <1>0, <1>1, <2>1 DEF FollowInv
<1>3. ~client.hasError
  BY <1>0, <1>2 DEF HandleAction, SendChange, Send, Shows, Report, Client, Live, Alike, Ignored
<1>4. sub.isReady
  BY <1>2, <1>3 DEF ListensInv
<1>5. Handles(s, a)
  <2>1. KeyOf(client.item) = sub.current
    BY <1>2, <1>4 DEF HeldInv, HeardAll, Gaps
  <2> QED
    BY <1>0, <1>2, <1>3, <1>4, <2>1 DEF Handles, Alike, ItemsInv
<1>6. ~Ignored(s, a)
  BY <1>2, <1>4 DEF Ignored, Alike, Live
<1>7. CASE NothingToSend(s, a) /\ UNCHANGED <<client, seen>>
  <2>1. PICK item : item = client.item
    OBVIOUS
  <2>2. Trusted
    BY <1>2, <1>7 DEF Trusted, Gaps
  <2>3. \A k \in Key : /\ Wrong(item, k) => StirredAfter(0, k)'
                       /\ Missing(item, k) => ToldAfter(0, k)'
    BY <1>5, <1>7, <2>1, <2>2, NothingShows
  <2>4. Follows(item)'
    BY <2>3, FollowsAfter
  <2> QED
    BY <1>7, <2>1, <2>4 DEF Follows, Wrong, Missing, Better, KeyOf
<1>8. CASE ~MustRefetch(s, a) /\ ~NothingToSend(s, a) /\ SendChange(s, a, done)
  <2>1. ASSUME a.type = "inserted", NEW j \in Inserted(a),
               Send(s, {<<j, a.states[j]>>},
                    IF query.isSorted /\ s.current # {} THEN "insertOver" ELSE "change", done)
        PROVE  Follows(client.item)'
    BY <1>2, <1>5, <1>6, <2>1, InsertedShows
  <2>2. ASSUME a.type = "deleted", Send(s, NoItem, "change", done)
        PROVE  Follows(client.item)'
    BY <1>2, <1>5, <1>6, <1>8, <2>2, ChangeShows
  <2>3. ASSUME a.type = "updated", Cardinality(Filtered(s, a)) = 1, NEW j \in Filtered(s, a),
               Send(s, IF a.states[j] \in Matching THEN {<<j, a.states[j]>>} ELSE NoItem, "change", done)
        PROVE  Follows(client.item)'
    <3>1. IsFiniteSet(Filtered(s, a))
      <4>1. Filtered(s, a) \subseteq Key
        BY DEF Filtered, KeysOf
      <4> QED
        BY <4>1, SingleItemAssumption, FS_Subset
    <3>2. \A i \in Filtered(s, a) : i = j
      BY <2>3, <3>1, OnlyOne
    <3>3. PICK item : item = IF a.states[j] \in Matching THEN {<<j, a.states[j]>>} ELSE NoItem
      OBVIOUS
    <3> QED
      BY <1>2, <1>5, <1>6, <1>8, <2>3, <3>2, <3>3, ChangeShows
  <2>4. ~Report
    BY <1>0, <1>2 DEF Report, Client, Live
  <2> QED
    BY <1>8, <2>1, <2>2, <2>3, <2>4 DEF SendChange
<1> QED
  BY <1>2, <1>0, <1>6, <1>7, <1>8 DEF HandleAction

\* what is sent over the item shown is a document
LEMMA HandleSource ==
  ASSUME SourceInv, NEW s \in Closure, sub.isOpen, Alike(s), NEW a, NEW done, HandleAction(s, a, done),
         client \in Client, seen \in [source : Source, two : BOOLEAN]
  PROVE  SourceInv' /\ (seen'.two = seen.two)
<1>1. sub'.isOpen
  <2>1. sub' = s \/ \E c : sub' = [s EXCEPT !.current = c]
    BY DEF HandleAction, SendChange, Send
  <2> QED
    BY <2>1 DEF Closure, Alike
<1>2. ASSUME NEW item, NEW source, Send(s, item, source, done), source = "insertOver" => item # NoItem
      PROVE  SourceInv' /\ (seen'.two = seen.two)
  BY <1>1, <1>2 DEF Send, Shows, SourceInv, Client
<1>3. CASE UNCHANGED seen /\ client'.item = client.item
  BY <1>1, <1>3 DEF SourceInv
<1>4. CASE Report
  BY <1>3, <1>4 DEF Report, Client
<1>5. ASSUME NEW j, Send(s, {<<j, a.states[j]>>},
                  IF query.isSorted /\ s.current # {} THEN "insertOver" ELSE "change", done)
      PROVE  SourceInv' /\ (seen'.two = seen.two)
  <2>1. {<<j, a.states[j]>>} # NoItem
    BY DEF NoItem
  <2> QED
    BY <1>2, <1>5, <2>1
<1>6. ASSUME NEW item, Send(s, item, "change", done)
      PROVE  SourceInv' /\ (seen'.two = seen.two)
  BY <1>2, <1>6
<1> QED
  BY <1>3, <1>4, <1>5, <1>6 DEF HandleAction, SendChange


\* what an action received at once rests on
LEMMA ReceivedHeeds ==
  ASSUME ListensInv, FollowInv, NEW a, EmissionTells(a), job.kind = "idle", queue' = queue
  PROVE  Heeds(a)
<1>1. queue = <<>> /\ queue' = <<>>
  BY DEF ListensInv
<1>2. ASSUME Live, HeardAll, ~client.hasError, Trusted, NEW k \in Key
      PROVE  /\ Wrong(client.item, k) => StirsAction(a, k) \/ StirredAfter(0, k)'
             /\ Missing(client.item, k) => Tells(a, k) \/ ToldAfter(0, k)'
  <2>1. Follows(client.item)
    BY <1>2 DEF FollowInv
  <2>2. Wrong(client.item, k) => k \in owed \/ Stirred(k)
    BY <1>1, <2>1 DEF Follows, StirredAfter
  <2>3. Missing(client.item, k) => k \in owed \/ Underway(k)
    BY <1>1, <2>1 DEF Follows, ToldAfter
  <2> QED
    BY <2>2, <2>3 DEF EmissionTells, StirredAfter, ToldAfter
<1> QED
  BY <1>2 DEF Heeds, EmissionTells

\* an action that waits tells what it told
LEMMA AppendStays ==
  ASSUME NEW a, EmissionTells(a), queue \in Seq(Actions), queue' = Append(queue, a),
         NEW n \in 0 .. Len(queue), NEW k \in Key
  PROVE  Stays(n, n, k)
<1>1. /\ \A j \in DOMAIN queue : j \in DOMAIN queue' /\ queue'[j] = queue[j]
      /\ Len(queue) + 1 \in DOMAIN queue' /\ queue'[Len(queue) + 1] = a /\ Len(queue) + 1 > n
  OBVIOUS
<1>2. db' = db /\ (k \in owed => k \in owed' \/ (Tells(a, k) /\ StirsAction(a, k)))
  BY DEF EmissionTells
<1>3. /\ Underway(k) => Underway(k)' \/ Tells(a, k)
      /\ Stirred(k) => Stirred(k)' \/ StirsAction(a, k)
  BY DEF EmissionTells
<1>4. \A b : Tells(b, k)' = Tells(b, k)
  BY <1>2 DEF Tells
<1>5. ToldAfter(n, k) => ToldAfter(n, k)'
  <2>1. CASE \E j \in DOMAIN queue : j > n /\ Tells(queue[j], k)
    BY <1>1, <1>2, <2>1 DEF ToldAfter, Tells
  <2>2. CASE Tells(a, k)
    BY <1>1, <1>2, <2>2 DEF ToldAfter, Tells
  <2> QED
    BY <1>2, <1>3, <2>1, <2>2 DEF ToldAfter
<1>6. StirredAfter(n, k) => StirredAfter(n, k)'
  <2>1. CASE \E j \in DOMAIN queue : j > n /\ StirsAction(queue[j], k)
    BY <1>1, <2>1 DEF StirredAfter, StirsAction
  <2>2. CASE StirsAction(a, k)
    BY <1>1, <2>2 DEF StirredAfter, StirsAction
  <2> QED
    BY <1>2, <1>3, <2>1, <2>2 DEF StirredAfter
<1> QED
  BY <1>2, <1>5, <1>6 DEF Stays

LEMMA ReceiveShows ==
  ASSUME TypeOK, SubInv, SourceInv, ShowInv, NEW a \in Actions, OneStory(a), EmissionTells(a),
         Receive(a)
  PROVE  ShowInv' /\ SourceInv' /\ (seen'.two = seen.two)
<1>0. /\ SubTypeOK /\ ListensInv /\ HeldInv /\ ItemsInv /\ queue \in Seq(Actions) /\ client \in Client
      /\ seen \in [source : Source, two : BOOLEAN] /\ UNCHANGED <<db, gaps, query>>
  BY DEF TypeOK, SubTypeOK, SubInv, EmissionTells
<1>1. CASE Sub \notin listeners
  <2>1. UNCHANGED <<sub, queue, job, client, query, seen>> /\ ~Live /\ ~Live'
    BY <1>0, <1>1 DEF Receive, ListensInv, Live
  <2> QED
    BY <2>1 DEF ShowInv, FollowInv, QueueInv, SourceInv
<1>2. CASE Sub \in listeners
  <2>1. PICK s \in Closure :
            /\ Alike(s) /\ query' = query
            /\ \/ job.kind = "idle" /\ HandleAction(s, a, NoJob) /\ queue' = queue
               \/ /\ job.kind # "idle" /\ queue' = Append(queue, a)
                  /\ sub' = s /\ UNCHANGED <<job, client, seen>>
    BY <1>0, <1>2, ReceiveHandles
  <2>2. CASE job.kind = "idle" /\ HandleAction(s, a, NoJob) /\ queue' = queue
    <3>1. Heeds(a)
      BY <1>0, <2>2, ReceivedHeeds DEF ShowInv
    <3>2. NoJob \in Done /\ job.kind # "fetch" /\ sub.isOpen
      BY <1>0, <1>2, <2>2 DEF Done, ListensInv
    <3>3. FollowInv'
      BY <1>0, <2>1, <2>2, <3>1, <3>2, HandleShows
    <3>4. QueueInv'
      BY <1>0, <2>2 DEF QueueInv, ListensInv
    <3>5. SourceInv' /\ (seen'.two = seen.two)
      BY <1>0, <2>1, <2>2, <3>2, HandleSource
    <3> QED
      BY <3>3, <3>4, <3>5 DEF ShowInv
  <2>3. CASE job.kind # "idle" /\ queue' = Append(queue, a) /\ sub' = s /\ UNCHANGED <<job, client, seen>>
    <3>1. \A n \in 0 .. Len(queue), k \in Key : Stays(n, n, k)
      BY <1>0, <2>3, AppendStays
    <3>2. Live' = Live /\ sub'.isOpen = sub.isOpen
      BY <2>1, <2>3 DEF Live, Alike
    <3>3. FollowInv'
      BY <1>0, <2>3, <3>1, <3>2, FollowStays DEF ShowInv
    <3>4. QueueInv'
      <4> SUFFICES ASSUME Live, HeardAll, Exact, NEW i \in DOMAIN queue' PROVE Faithful(i, queue[i])'
        BY <1>0, <2>3, <3>2 DEF QueueInv, HeardAll, Exact, Gaps
      <4>1. CASE i \in DOMAIN queue
        <5>1. Faithful(i, queue[i]) /\ i \in 0 .. Len(queue) /\ queue'[i] = queue[i]
          BY <1>0, <2>3, <4>1 DEF ShowInv, QueueInv
        <5> QED
          BY <1>0, <3>1, <5>1, FaithfulStays
      <4>2. CASE i \notin DOMAIN queue
        <5>1. queue'[i] = a
          BY <1>0, <2>3, <4>2
        <5>2. \A k \in Key : /\ ~Misleads(a, k)
                             /\ Speaks(a) /\ db[k] \in Matching /\ ~query.isSorted =>
                                  \A j \in Key \ {k} : a.states[j] \notin Matching
          BY DEF EmissionTells
        <5> QED
          BY <1>0, <5>1, <5>2 DEF Faithful, Misleads, Speaks
      <4> QED
        BY <4>1, <4>2
    <3>5. SourceInv'
      BY <2>3, <3>2 DEF SourceInv
    <3> QED
      BY <2>3, <3>3, <3>4, <3>5 DEF ShowInv
  <2> QED
    BY <2>1, <2>2, <2>3
<1> QED
  BY <1>1, <1>2


-----------------------------------------------------------------------------
(* The steps of the subscription, and the theorem *)

\* a fetch answers the first, or any document where one may match
LEMMA AnswerFollows ==
  ASSUME TypeOK, TwoInv, query.isSorted \/ Exact, NEW item \in Firsts(db)
  PROVE  \A k \in Key : ~Wrong(item, k) /\ ~Missing(item, k)
<1> SUFFICES ASSUME NEW k \in Key PROVE ~Wrong(item, k) /\ ~Missing(item, k)
  OBVIOUS
<1>1. CASE Matches(db) = {}
  BY <1>1 DEF Firsts, Matches, Wrong, Missing, KeyOf, NoItem
<1>2. CASE Matches(db) # {}
  <2>1. PICK j \in Matches(db) :
            /\ item = {<<j, db[j]>>}
            /\ query.isSorted => \A i \in Matches(db) : Position[db[j]] <= Position[db[i]]
    BY <1>2 DEF Firsts
  <2>2. KeyOf(item) = {j}
    BY <2>1 DEF KeyOf
  <2>3. ~Wrong(item, k)
    BY <2>1, <2>2 DEF Wrong
  <2>4. ASSUME Missing(item, k) PROVE FALSE
    <3>1. k \in Matches(db) /\ k # j
      BY <2>2, <2>4 DEF Missing, Matches
    <3>2. query.isSorted
      BY <2>1, <3>1 DEF TwoInv, Exact
    <3>3. Position[db[k]] < Position[db[j]]
      BY <2>1, <2>4, <3>2 DEF Missing, Better
    <3>4. Position[db[j]] <= Position[db[k]]
      BY <2>1, <3>1, <3>2
    <3>5. Position[db[j]] \in Nat /\ Position[db[k]] \in Nat
      BY <2>1, <3>1, SingleItemAssumption DEF Matches
    <3> QED
      BY <3>3, <3>4, <3>5
  <2> QED
    BY <2>3, <2>4
<1> QED
  BY <1>1, <1>2

\* a step that moves neither the store nor the queue
LEMMA SameTold ==
  ASSUME UNCHANGED <<db, writer, notifier, owed, query, queue>>
  PROVE  \A item : Follows(item)' <=> Follows(item)
<1>1. \A k : ToldAfter(0, k)' = ToldAfter(0, k)
  BY DEF ToldAfter, Tells, Underway, AskedBy, HeldByCall
<1>2. \A k : StirredAfter(0, k)' = StirredAfter(0, k)
  BY DEF StirredAfter, StirsAction, Stirred, Stirs
<1>3. \A item, k : Wrong(item, k)' = Wrong(item, k) /\ Missing(item, k)' = Missing(item, k)
  BY DEF Wrong, Missing, Better, KeyOf
<1> QED
  BY <1>1, <1>2, <1>3 DEF Follows

LEMMA SameQueue ==
  ASSUME UNCHANGED <<db, writer, notifier, owed, query, queue>>, QueueInv,
         Live' /\ HeardAll' /\ Exact' => Live /\ HeardAll /\ Exact
  PROVE  QueueInv'
<1>1. \A n, k : ToldAfter(n, k)' = ToldAfter(n, k)
  BY DEF ToldAfter, Tells, Underway, AskedBy, HeldByCall
<1>2. \A n, k : StirredAfter(n, k)' = StirredAfter(n, k)
  BY DEF StirredAfter, StirsAction, Stirred, Stirs
<1>3. \A i \in DOMAIN queue : Faithful(i, queue[i])' <=> Faithful(i, queue[i])
  BY <1>1, <1>2 DEF Faithful, Misleads, Speaks
<1> QED
  BY <1>3 DEF QueueInv

LEMMA FetchDoneShows ==
  ASSUME TypeOK, SubInv, SourceInv, ShowInv, FetchDone
  PROVE  ShowInv' /\ SourceInv'
<1>0. /\ UNCHANGED <<db, writer, notifier, owed, query, queue>> /\ gaps \subseteq gaps'
      /\ job.kind = "fetch" /\ job.answered /\ job'.kind = "settled" /\ gaps' = gaps \cup Missed
      /\ client \in Client /\ seen \in [source : Source, two : BOOLEAN] /\ sub \in Closure /\ job \in Job
  BY DEF FetchDone, TypeOK, Settled, NoJob
<1>1. sub'.isOpen = sub.isOpen /\ Live' = Live
  BY <1>0 DEF FetchDone, Closure, Live
<1>2. CASE SendsResult
  <2>1. client'.item = job.item /\ seen'.source = "fetch" /\ seen'.two = seen.two
    BY <1>0, <1>2 DEF FetchDone, Shows, Client
  <2>2. /\ HeardAll' => HeardAll
        /\ Exact' => Exact
        /\ Trusted' => query.isSorted \/ Exact
    BY <1>0, <2>1 DEF HeardAll, Exact, Trusted, Gaps
  <2>3. PICK item : item = job.item
    OBVIOUS
  <2>4. (Live /\ HeardAll' /\ Trusted') => Follows(item)'
    BY <1>0, <2>2, <2>3, SameTold DEF ShowInv, FollowInv
  <2>5. FollowInv'
    BY <1>0, <1>1, <2>1, <2>3, <2>4 DEF FollowInv, Follows, Wrong, Missing, Better, KeyOf
  <2>6. QueueInv'
    BY <1>0, <1>1, <2>2, SameQueue DEF ShowInv
  <2> QED
    BY <2>1, <2>5, <2>6 DEF ShowInv, SourceInv
<1>3. CASE ~SendsResult
  <2>1. UNCHANGED <<client, seen>>
    BY <1>3 DEF FetchDone
  <2>2. /\ HeardAll' => HeardAll
        /\ Exact' => Exact
        /\ Trusted' => query.isSorted \/ Exact
    BY <1>0, <2>1 DEF HeardAll, Exact, Trusted, Gaps
  <2>3. PICK item : item = job.item
    OBVIOUS
  <2>4. ASSUME Live, HeardAll' PROVE job.item = client.item
    <3>1. CASE Key = {}
      <4>1. job.item = {} /\ client.item = {}
        BY <1>0, <3>1 DEF Job, Client, Item, NoItem
      <4> QED
        BY <4>1
    <3>2. ASSUME NEW k \in Key PROVE job.item = client.item
      <4>1. <<k, "missed">> \notin Missed
        BY <1>0, <2>4 DEF HeardAll, Gaps
      <4> QED
        BY <1>3, <2>4, <4>1 DEF Missed, Live
    <3> QED
      BY <3>1, <3>2
  <2>5. (Live /\ HeardAll' /\ Trusted') => Follows(item)'
    BY <1>0, <2>2, <2>3, SameTold DEF ShowInv, FollowInv
  <2>6. FollowInv'
    BY <1>0, <1>1, <2>1, <2>3, <2>4, <2>5 DEF FollowInv, Follows, Wrong, Missing, Better, KeyOf
  <2>7. QueueInv'
    BY <1>0, <1>1, <2>2, SameQueue DEF ShowInv
  <2> QED
    BY <1>1, <2>1, <2>6, <2>7 DEF ShowInv, SourceInv
<1> QED
  BY <1>2, <1>3

\* the next action of the queue
LEMMA RunShows ==
  ASSUME TypeOK, SubInv, SourceInv, ShowInv, RunNext
  PROVE  ShowInv' /\ SourceInv' /\ (seen'.two = seen.two)
<1> DEFINE a == Head(queue)
<1>0. /\ UNCHANGED <<db, writer, notifier, owed, gaps, query>> /\ job.kind = "settled"
      /\ a \in Actions /\ a = queue[1] /\ 1 \in DOMAIN queue /\ HandleAction(sub, a, Settled)
      /\ queue \in Seq(Actions) /\ queue' = Tail(queue) /\ Settled \in Done /\ sub \in Closure
      /\ client \in Client /\ seen \in [source : Source, two : BOOLEAN] /\ Alike(sub)
  BY DEF RunNext, TypeOK, storeVars, Done, Alike
<1>1. OneStory(a) /\ sub.isOpen
  BY <1>0 DEF SubInv, QueueStory, ListensInv
<1> HIDE DEF a
<1>2. \A k : Underway(k)' = Underway(k) /\ Stirred(k)' = Stirred(k)
  BY <1>0 DEF Underway, AskedBy, HeldByCall, Stirred, Stirs
<1>3. /\ \A i \in DOMAIN queue' : i \in Nat /\ i + 1 \in DOMAIN queue /\ queue'[i] = queue[i + 1]
      /\ \A i \in DOMAIN queue : i \in Nat /\ i > 0
      /\ \A i \in DOMAIN queue : i > 1 => i - 1 \in DOMAIN queue' /\ queue'[i - 1] = queue[i]
  BY <1>0
<1>4. ASSUME NEW n \in Nat, NEW k \in Key PROVE Stays(n + 1, n, k)
  <2>1. ToldAfter(n + 1, k) => ToldAfter(n, k)'
    <3>1. ASSUME NEW i \in DOMAIN queue, i > n + 1, Tells(queue[i], k) PROVE ToldAfter(n, k)'
      <4>1. i - 1 \in DOMAIN queue' /\ i - 1 > n /\ queue'[i - 1] = queue[i]
        BY <1>3, <3>1
      <4> QED
        BY <1>0, <3>1, <4>1 DEF ToldAfter, Tells
    <3> QED
      BY <1>0, <1>2, <3>1 DEF ToldAfter
  <2>2. StirredAfter(n + 1, k) => StirredAfter(n, k)'
    <3>1. ASSUME NEW i \in DOMAIN queue, i > n + 1, StirsAction(queue[i], k) PROVE StirredAfter(n, k)'
      <4>1. i - 1 \in DOMAIN queue' /\ i - 1 > n /\ queue'[i - 1] = queue[i]
        BY <1>3, <3>1
      <4> QED
        BY <1>0, <3>1, <4>1 DEF StirredAfter, StirsAction
    <3> QED
      BY <1>0, <1>2, <3>1 DEF StirredAfter
  <2> QED
    BY <1>0, <2>1, <2>2 DEF Stays
<1>5. ASSUME NEW k \in Key
      PROVE  /\ ToldAfter(0, k) => Tells(a, k) \/ ToldAfter(0, k)'
             /\ StirredAfter(0, k) => StirsAction(a, k) \/ StirredAfter(0, k)'
  <2>1. Stays(0 + 1, 0, k)
    BY <1>4
  <2>2. ToldAfter(0, k) => Tells(a, k) \/ ToldAfter(0 + 1, k)
    BY <1>0, <1>3 DEF ToldAfter
  <2>3. StirredAfter(0, k) => StirsAction(a, k) \/ StirredAfter(0 + 1, k)
    BY <1>0, <1>3 DEF StirredAfter
  <2> QED
    BY <1>0, <2>1, <2>2, <2>3 DEF Stays
<1>6. Heeds(a)
  <2>1. ASSUME Live, HeardAll, ~client.hasError, Trusted, NEW k \in Key
        PROVE  /\ Wrong(client.item, k) => StirsAction(a, k) \/ StirredAfter(0, k)'
               /\ Missing(client.item, k) => Tells(a, k) \/ ToldAfter(0, k)'
    BY <1>0, <1>5, <2>1 DEF ShowInv, FollowInv, Follows
  <2>2. ASSUME Live, HeardAll, Exact, NEW k \in Key
        PROVE  /\ Misleads(a, k) => /\ ToldAfter(0, k)'
                                    /\ a.states[k] \in Matching => StirredAfter(0, k)'
               /\ (/\ ~query.isSorted /\ Speaks(a) /\ db[k] \in Matching
                   /\ \E j \in Key \ {k} : a.states[j] \in Matching) => ToldAfter(0, k)'
    <3>1. Faithful(1, a)
      BY <1>0, <2>2 DEF ShowInv, QueueInv
    <3>2. Stays(0 + 1, 0, k)
      BY <1>4
    <3> QED
      BY <1>0, <3>1, <3>2 DEF Faithful, Stays
  <2> QED
    BY <2>1, <2>2 DEF Heeds
<1>7. FollowInv'
  BY <1>0, <1>1, <1>6, HandleShows DEF SubInv
<1>8. SourceInv' /\ (seen'.two = seen.two)
  BY <1>0, <1>1, HandleSource
<1>9. Live' = Live
  BY <1>0, HandleHolds DEF SubInv, TypeOK, SubTypeOK, Live
<1>10. QueueInv'
  <2> SUFFICES ASSUME Live, HeardAll, Exact, NEW i \in DOMAIN queue' PROVE Faithful(i, queue[i])'
    BY <1>0, <1>8, <1>9 DEF QueueInv, HeardAll, Exact, Gaps
  <2>1. Faithful(i + 1, queue[i + 1]) /\ queue'[i] = queue[i + 1] /\ i \in Nat
    BY <1>3 DEF ShowInv, QueueInv
  <2>2. \A k \in Key : Stays(i + 1, i, k)
    BY <1>4, <2>1
  <2> QED
    BY <1>0, <2>1, <2>2, FaithfulStays
<1> QED
  BY <1>7, <1>8, <1>10 DEF ShowInv


LEMMA SubStepShows ==
  ASSUME TypeOK, SubInv, SourceInv, ShowInv, TwoInv, Open \/ Stop \/ QueueStep
  PROVE  ShowInv' /\ SourceInv' /\ (seen'.two = seen.two)
<1>0. /\ client \in Client /\ seen \in [source : Source, two : BOOLEAN] /\ sub \in Closure /\ job \in Job
      /\ NoJob.kind = "idle" /\ Settled.kind = "settled"
      /\ Fetching(TRUE).kind = "fetch" /\ ~Fetching(TRUE).answered
  BY DEF TypeOK, NoJob, Settled, Fetching
<1>1. CASE Open
  <2>1. /\ ~sub.isOpen /\ queue' = <<>> /\ seen' = seen /\ job' = Fetching(TRUE)
    BY <1>1 DEF Open, SubInv, ListensInv
  <2>2. FollowInv'
    BY <1>0, <2>1 DEF FollowInv
  <2>3. QueueInv' /\ SourceInv'
    BY <2>1 DEF QueueInv, SourceInv
  <2> QED
    BY <2>1, <2>2, <2>3 DEF ShowInv
<1>2. CASE Stop
  <2>1. sub'.isStopped /\ sub'.isOpen = sub.isOpen
    BY <1>0, <1>2 DEF Stop, Closure
  <2> QED
    BY <1>2, <2>1 DEF Stop, ShowInv, FollowInv, QueueInv, SourceInv, Live
<1>3. CASE FetchAnswers
  <2>1. /\ UNCHANGED <<db, writer, notifier, owed, gaps, query, queue, sub, client, seen>>
        /\ job'.kind = "fetch" /\ job'.item \in Firsts(db)
    BY <1>0, <1>3 DEF FetchAnswers, storeVars, Job
  <2>2. PICK item \in Firsts(db) : item = job'.item
    BY <2>1
  <2>3. query.isSorted \/ Exact => Follows(item)'
    BY <2>1, <2>2, AnswerFollows, SameTold DEF Follows
  <2>4. FollowInv'
    BY <2>1, <2>2, <2>3 DEF FollowInv, Follows, Wrong, Missing, Better, KeyOf, Exact, Gaps
  <2>5. QueueInv'
    BY <2>1, SameQueue DEF ShowInv, Live, HeardAll, Exact, Gaps
  <2> QED
    BY <2>1, <2>4, <2>5 DEF ShowInv, SourceInv
<1>4. CASE FetchDone
  <2>1. seen'.two = seen.two
    BY <1>0, <1>4 DEF FetchDone, Shows
  <2> QED
    BY <1>4, <2>1, FetchDoneShows
<1>5. CASE FetchFails
  <2>1. /\ UNCHANGED <<db, writer, notifier, owed, gaps, query, queue, sub, seen>>
        /\ job'.kind = "settled" /\ client'.item = client.item /\ (Live => client'.hasError)
    BY <1>0, <1>5 DEF FetchFails, storeVars, Report, Client, Live
  <2>2. FollowInv'
    BY <2>1 DEF FollowInv, Live
  <2>3. QueueInv'
    BY <2>1, SameQueue DEF ShowInv, Live, HeardAll, Exact, Gaps
  <2> QED
    BY <2>1, <2>2, <2>3 DEF ShowInv, SourceInv
<1>6. CASE RunNext
  BY <1>6, RunShows
<1>7. CASE ClearTail
  <2>1. /\ UNCHANGED <<db, writer, notifier, owed, gaps, query, queue, sub, client, seen>>
        /\ job.kind = "settled" /\ job'.kind = "idle"
    BY <1>0, <1>7 DEF ClearTail, storeVars
  <2>2. PICK item : item = client.item
    OBVIOUS
  <2>3. Follows(item) => Follows(item)'
    BY <2>1, SameTold
  <2>4. FollowInv'
    BY <2>1, <2>2, <2>3
       DEF ShowInv, FollowInv, Follows, Wrong, Missing, Better, KeyOf, Live, HeardAll, Trusted, Gaps
  <2>5. QueueInv'
    BY <2>1, SameQueue DEF ShowInv, Live, HeardAll, Exact, Gaps
  <2> QED
    BY <2>1, <2>4, <2>5 DEF ShowInv, SourceInv
<1> QED
  BY <1>1, <1>2, <1>3, <1>4, <1>5, <1>6, <1>7 DEF QueueStep

\* nothing under way in the store is nothing to be told
LEMMA QuietTold ==
  ASSUME StoreInv, StoreQuiet, NEW k \in Key
  PROVE  k \notin owed /\ ~Underway(k) /\ ~Stirred(k)
<1>1. /\ \A w \in Writer : writer[w].states = Nothing /\ writer[w].reading = {}
      /\ \A n \in Notifier : notifier[n].states = Nothing
  BY DEF StoreInv, CallsInv, NoticesInv, StoreQuiet, IdleWriter, IdleNotifier
<1>2. db[k] # Untouched
  BY StatesTyped DEF StoreInv
<1> QED
  BY <1>1, <1>2 DEF Underway, AskedBy, HeldByCall, Stirred, Stirs, KeysOf, Nothing, StoreQuiet

LEMMA Shown == Spec => [](ShowInv /\ SourceInv /\ TwoInv)
<1>1. Init => ShowInv /\ SourceInv /\ TwoInv
  <2> SUFFICES ASSUME Init PROVE ShowInv /\ SourceInv /\ TwoInv
    OBVIOUS
  <2>1. ~seen.two => Cardinality(Matches(db)) <= 1
    <3>1. IsFiniteSet(Matches(db))
      BY SingleItemAssumption, FS_Subset DEF Matches
    <3>2. Cardinality(Matches(db)) \in Nat
      BY <3>1, FS_CardinalityType
    <3>3. seen.two <=> Cardinality(Matches(db)) > 1
      BY DEF Init
    <3> QED
      BY <3>2, <3>3
  <2>2. TwoInv
    BY <2>1, SingleItemAssumption, FS_Subset, OnlyOne DEF TwoInv, Matches
  <2> QED
    BY <2>2 DEF Init, ShowInv, FollowInv, QueueInv, SourceInv, Live
<1>2. /\ TypeOK /\ TypeOK' /\ StoreInv /\ MethodsInv /\ SubInv /\ ShowInv /\ SourceInv /\ TwoInv
      /\ [Next]_vars
      => ShowInv' /\ SourceInv' /\ TwoInv'
  <2> SUFFICES ASSUME TypeOK, TypeOK', StoreInv, MethodsInv, SubInv, ShowInv, SourceInv, TwoInv, [Next]_vars
               PROVE  ShowInv' /\ SourceInv' /\ TwoInv'
    OBVIOUS
  <2>0. StoreTypeOK /\ seen \in [source : Source, two : BOOLEAN]
    BY DEF TypeOK
  <2>1. CASE StoreStep /\ Remember
    <3>1. ShowInv'
      BY <2>1, StoreShows
    <3>2. SourceInv'
      BY <2>0, <2>1 DEF SourceInv, Remember
    <3>3. TwoInv'
      <4>1. PICK S : S = Matches(db')
        OBVIOUS
      <4>2. IsFiniteSet(S)
        <5>1. S \subseteq Key
          BY <4>1 DEF Matches
        <5> QED
          BY <5>1, SingleItemAssumption, FS_Subset
      <4>3. ~seen'.two => Cardinality(S) <= 1
        <5>1. Cardinality(S) \in Nat
          BY <4>2, FS_CardinalityType
        <5>2. ASSUME Cardinality(S) > 1 PROVE seen'.two
          BY <2>0, <2>1, <4>1, <5>2 DEF Remember
        <5>3. Cardinality(S) > 1 \/ Cardinality(S) <= 1
          BY <5>1
        <5> QED
          BY <5>2, <5>3
      <4>4. ~seen'.two => \A i, j \in S : i = j
        BY <4>2, <4>3, OnlyOne
      <4> QED
        BY <4>1, <4>4 DEF TwoInv, Matches
    <3> QED
      BY <3>1, <3>2, <3>3
  <2>2. ASSUME NEW a \in Actions, OneStory(a), EmissionTells(a), Receive(a)
        PROVE  ShowInv' /\ SourceInv' /\ TwoInv'
    BY <2>2, ReceiveShows DEF TwoInv, Matches, EmissionTells
  <2>3. ASSUME NEW w \in Writer, EmitWritten(w) PROVE ShowInv' /\ SourceInv' /\ TwoInv'
    <3>1. EmissionTells(WrittenAction(w))
      BY <2>3, WrittenTells DEF EmitWritten, Receive
    <3> QED
      BY <2>0, <2>2, <2>3, <3>1, ActionTypes, EmissionsStory DEF EmitWritten
  <2>4. ASSUME NEW w \in Writer, ReturnSilently(w) PROVE ShowInv' /\ SourceInv' /\ TwoInv'
    <3>1. /\ UNCHANGED <<db, owed, gaps, query, sub, queue, job, client, seen>>
          /\ queue \in Seq(Actions)
      BY <2>4 DEF ReturnSilently, Return, subVars, TypeOK
    <3>2. ASSUME NEW k \in Key PROVE (Underway(k) => Underway(k)') /\ (Stirred(k) => Stirred(k)')
      <4>1. writer[w].states[k] = Untouched /\ db[k] # Untouched
        BY <2>4, StatesTyped DEF ReturnSilently, Emits, KeysOf, StoreInv
      <4> QED
        BY <2>4, <4>1, ReturnTold, EmissionStirs DEF ReturnSilently
    <3>3. \A n \in Nat, k \in Key : Stays(n, n, k)
      BY <3>1, <3>2 DEF Stays, ToldAfter, Tells, StirredAfter, StirsAction
    <3>4. ShowInv'
      BY <3>1, <3>3, ShowStays DEF SubInv
    <3> QED
      BY <3>1, <3>4 DEF SourceInv, TwoInv, Matches
  <2>5. ASSUME NEW n \in Notifier, EmitNotified(n) PROVE ShowInv' /\ SourceInv' /\ TwoInv'
    <3>1. EmissionTells(ChangedAction(n))
      BY <2>5, NotifiedTells DEF EmitNotified, Receive
    <3> QED
      BY <2>0, <2>2, <2>5, <3>1, ActionTypes, EmissionsStory DEF EmitNotified
  <2>6. CASE EmitResync
    <3>1. EmissionTells(ResyncAction)
      BY <2>6, ResyncTells DEF EmitResync, Receive
    <3> QED
      BY <2>0, <2>2, <2>6, <3>1, ActionTypes, EmissionsStory DEF EmitResync
  <2>7. CASE Open \/ Stop \/ QueueStep
    <3>1. db' = db
      BY <2>7 DEF Open, Stop, QueueStep, Subscribe, Unsubscribe, FetchAnswers, FetchDone, FetchFails,
         RunNext, ClearTail, storeVars
    <3> QED
      BY <2>7, <3>1, SubStepShows DEF TwoInv, Matches
  <2>8. CASE UNCHANGED vars
    <3>1. UNCHANGED <<db, writer, notifier, owed, gaps, query, sub, queue, job, client, seen>>
      BY <2>8 DEF vars, storeVars, subVars
    <3>2. ASSUME NEW k \in Key PROVE (Underway(k) => Underway(k)') /\ (Stirred(k) => Stirred(k)')
      BY <3>1 DEF Underway, AskedBy, HeldByCall, Stirred, Stirs
    <3>3. \A n \in Nat, k \in Key : Stays(n, n, k)
      BY <3>1, <3>2 DEF Stays, ToldAfter, Tells, StirredAfter, StirsAction
    <3>4. ShowInv' /\ queue \in Seq(Actions)
      BY <3>1, <3>3, ShowStays DEF SubInv, TypeOK
    <3> QED
      BY <3>1, <3>4 DEF SourceInv, TwoInv, Matches
  <2> QED
    BY <2>1, <2>3, <2>4, <2>5, <2>6, <2>7, <2>8 DEF Next
<1> QED
  BY <1>1, <1>2, SingleTypeCorrect, StoreHolds, SubHolds, PTL DEF Spec

(***************************************************************************)
(* Once all is emitted, notified and handled, the client that was told of  *)
(* no error shows the document a fetch would answer (MongoQuerySingleItem, *)
(* computeChanges and its refetches).  On the way every document before    *)
(* the item shown is still to be told, every item shown that changed is    *)
(* still to be fetched again, and no action that waits misleads for good.  *)
(***************************************************************************)
THEOREM ShowsTheFirst == Spec => []ShowsFirst
<1>1. TypeOK /\ StoreInv /\ SubInv /\ ShowInv => ShowsFirst
  <2> SUFFICES ASSUME TypeOK, StoreInv, SubInv, ShowInv,
                      Live, Quiet, ~client.hasError, ~Gaps({"silent", "lost", "missed"}), Trusted
               PROVE  client.item \in Firsts(db)
    BY DEF ShowsFirst
  <2>1. Follows(client.item)
    BY DEF ShowInv, FollowInv, HeardAll, Quiet
  <2>2. ASSUME NEW k \in Key PROVE ~Wrong(client.item, k) /\ ~Missing(client.item, k)
    <3>1. k \notin owed /\ ~Underway(k) /\ ~Stirred(k)
      BY QuietTold DEF Quiet
    <3> QED
      BY <2>1, <3>1 DEF Follows, ToldAfter, StirredAfter, Quiet
  <2>3. CASE client.item = NoItem
    <3>1. Matches(db) = {}
      BY <2>2, <2>3 DEF Missing, Better, Matches, KeyOf, NoItem
    <3> QED
      BY <2>3, <3>1 DEF Firsts
  <2>4. ASSUME NEW k \in Key, NEW d \in Matching, client.item = {<<k, d>>}
        PROVE  client.item \in Firsts(db)
    <3>1. KeyOf(client.item) = {k} /\ \A p \in client.item : p[2] = d
      BY <2>4 DEF KeyOf
    <3>2. db[k] = d /\ k \in Matches(db)
      BY <2>2, <2>4, <3>1 DEF Wrong, Matches
    <3>3. ASSUME query.isSorted, NEW j \in Matches(db) PROVE Position[db[k]] <= Position[db[j]]
      <4>1. Position[db[k]] \in Nat /\ Position[db[j]] \in Nat
        BY <3>2, SingleItemAssumption DEF Matches
      <4>2. CASE j = k
        BY <4>1, <4>2
      <4>3. CASE j # k
        <5>1. ~Better(db[j], client.item)
          BY <2>2, <3>1, <4>3 DEF Missing, Matches
        <5> QED
          BY <3>1, <3>2, <3>3, <4>1, <5>1 DEF Better
      <4> QED
        BY <4>2, <4>3
    <3> QED
      BY <2>4, <3>2, <3>3 DEF Firsts
  <2>5. MatchingItem(client.item)
    BY DEF SubInv, ItemsInv
  <2> QED
    BY <2>3, <2>4, <2>5, ItemShapes
<1> QED
  BY <1>1, SingleTypeCorrect, StoreHolds, SubHolds, Shown, PTL
=============================================================================
