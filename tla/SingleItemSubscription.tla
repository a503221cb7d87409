------------------------ MODULE SingleItemSubscription ------------------------
(***************************************************************************)
(* One live query of a single item: MongoQuerySingleItem._subscribe of     *)
(* liwi-mongo, behind the action queue of createActionQueue, and the item  *)
(* its client keeps (applySingleItemChanges of react-liwi), listening to   *)
(* the SubscribeStore it extends.                                          *)
(*                                                                         *)
(* The item is the first document of a sort by a field that writes change  *)
(* (Position), or any matching document when there is no sort.  An item is *)
(* a set of at most one pair <<key, document>>; the empty set is null.     *)
(***************************************************************************)
EXTENDS SubscribeStore, Sequences

CONSTANTS
    Sub,        \* the listener this subscription registers
    Matching,   \* the documents its criteria match
    Position,   \* what the sort orders the documents by
    Queries     \* the queries a subscription may be of

\* fetchAndSubscribe or subscribe; with a sort or without
SingleQuery == [includeInitial : BOOLEAN, isSorted : BOOLEAN]

ASSUME SingleItemAssumption ==
    /\ Sub \in Listener
    /\ Matching \subseteq Doc
    /\ Position \in [Doc -> Nat]
    /\ Queries \subseteq SingleQuery
    /\ IsFiniteSet(Key)

VARIABLES
    query,      \* which does not change
    sub,        \* the closure of _subscribe
    queue,      \* actions behind the pending work
    job,        \* the pending work: the tail of the action queue
    client,     \* what the client shows, and whether it was told of an error
    seen        \* history: where the item shown came from, and whether two
                \* documents matched at a time

subVars == <<query, sub, queue, job, client, seen>>
vars == <<storeVars, subVars>>

Matches(d) == {k \in Key : d[k] \in Matching}
NoItem == {}
Item == {NoItem} \cup {{p} : p \in Key \X Doc}
KeyOf(item) == {p[1] : p \in item}

\* what a fetch limited to one document may answer on the collection d
Firsts(d) ==
    IF Matches(d) = {} THEN {NoItem}
    ELSE {{<<k, d[k]>>} : k \in {k \in Matches(d) :
              query.isSorted => \A j \in Matches(d) : Position[d[k]] <= Position[d[j]]}}

NoJob == [kind |-> "idle", initial |-> FALSE, answered |-> FALSE, item |-> NoItem]
Settled == [NoJob EXCEPT !.kind = "settled"]
Fetching(initial) == [NoJob EXCEPT !.kind = "fetch", !.initial = initial]

Job == [kind : {"idle", "settled", "fetch"}, initial : BOOLEAN, answered : BOOLEAN, item : Item]
Closure == [isOpen : BOOLEAN, isStopped : BOOLEAN, isReady : BOOLEAN,
            isInitializing : BOOLEAN, hasActionDuringInit : BOOLEAN, current : SUBSET Key]
Client == [item : Item, hasError : BOOLEAN]
Source == {"fetch", "change", "insertOver"}

TypeOK ==
    /\ StoreTypeOK
    /\ query \in SingleQuery
    /\ sub \in Closure
    /\ queue \in Seq(Actions)
    /\ job \in Job
    /\ client \in Client
    /\ seen \in [source : Source, two : BOOLEAN]

Init ==
    /\ StoreInit
    /\ query \in Queries
    /\ sub = [isOpen |-> FALSE, isStopped |-> FALSE, isReady |-> FALSE,
              isInitializing |-> TRUE, hasActionDuringInit |-> FALSE, current |-> {}]
    /\ queue = <<>>
    /\ job = NoJob
    /\ client = [item |-> NoItem, hasError |-> FALSE]
    /\ seen = [source |-> "fetch", two |-> Cardinality(Matches(db)) > 1]

-----------------------------------------------------------------------------
(* What is sent, and what the client makes of it *)

\* A fetch clears an error; a change after it does not say that all is well again.
Shows(item, source) ==
    /\ client' = [client EXCEPT !.item = item, !.hasError = @ /\ source # "fetch"]
    /\ seen' = [seen EXCEPT !.source = source]

Report ==
    /\ client' = IF sub.isStopped THEN client ELSE [client EXCEPT !.hasError = TRUE]
    /\ UNCHANGED seen

\* variant: the key held is that of the fetch, whatever is sent after it
SendKeepingKey(s, item, source, done) ==
    /\ sub' = s
    /\ job' = done
    /\ Shows(item, source)
\* send: the key held is that of the last change
Send(s, item, source, done) ==
    /\ sub' = [s EXCEPT !.current = KeyOf(item)]
    /\ job' = done
    /\ Shows(item, source)

-----------------------------------------------------------------------------
(* An action of the queue: s is the closure, done what the queue is left     *)
(* with when the action has nothing to wait for.                             *)

Ignored(s, a) ==
    \/ s.isStopped
    \/ a.type # "resync" /\ ~s.isReady

Inserted(a) == {k \in KeysOf(a.states) : a.states[k] \in Matching}
\* variant: concerned by the documents that match, not by the one it holds
FilteredByCriteria(s, a) == Inserted(a)
\* the documents that match, or are the one the client holds
Filtered(s, a) == {k \in KeysOf(a.states) : k \in s.current \/ a.states[k] \in Matching}

\* an action that may concern the item and whose documents do not tell the first
\* of the sort
MustRefetch(s, a) ==
    \/ a.type = "resync"
    \/ a.type = "changed" /\ Filtered(s, a) # {}
    \/ a.type = "deleted" /\ query.isSorted /\ KeysOf(a.states) \cap s.current # {}
    \/ a.type = "updated" /\ query.isSorted /\ Filtered(s, a) # {}

\* computeChanges finds nothing to send
NothingToSend(s, a) ==
    \/ a.type = "inserted" /\ Inserted(a) = {}
    \/ a.type = "deleted" /\ KeysOf(a.states) \cap s.current = {}
    \/ a.type \in {"updated", "changed"} /\ Filtered(s, a) = {}

\* Without a sort, one changed document at most may concern the item; with one,
\* only an inserted document is sent without a fetch.
SendChange(s, a, done) ==
    \/ /\ a.type = "inserted"
       /\ \E k \in Inserted(a) :
             Send(s, {<<k, a.states[k]>>},
                  IF query.isSorted /\ s.current # {} THEN "insertOver" ELSE "change", done)
    \/ /\ a.type = "deleted"
       /\ Send(s, NoItem, "change", done)
    \/ /\ a.type = "updated" /\ Cardinality(Filtered(s, a)) = 1
       /\ \E k \in Filtered(s, a) :
             Send(s, IF a.states[k] \in Matching THEN {<<k, a.states[k]>>} ELSE NoItem,
                  "change", done)
    \/ /\ a.type = "updated" /\ Cardinality(Filtered(s, a)) > 1
       /\ sub' = s
       /\ job' = done
       /\ Report

HandleAction(s, a, done) ==
    \/ /\ Ignored(s, a) \/ NothingToSend(s, a)
       /\ sub' = s
       /\ job' = done
       /\ UNCHANGED <<client, seen>>
    \/ /\ ~Ignored(s, a) /\ MustRefetch(s, a)
       /\ sub' = s
       /\ job' = Fetching(FALSE)
       /\ UNCHANGED <<client, seen>>
    \/ /\ ~Ignored(s, a) /\ ~MustRefetch(s, a) /\ ~NothingToSend(s, a)
       /\ SendChange(s, a, done)

Pending == job.kind # "idle"

\* the listener: at once when nothing is pending, behind the pending work if not
Receive(a) ==
    LET s == [sub EXCEPT !.hasActionDuringInit = @ \/ sub.isInitializing]
    IN  /\ \/ /\ Sub \notin listeners
              /\ UNCHANGED <<sub, queue, job, client, seen>>
           \/ /\ Sub \in listeners /\ ~Pending
              /\ HandleAction(s, a, NoJob)
              /\ UNCHANGED queue
           \/ /\ Sub \in listeners /\ Pending
              /\ queue' = Append(queue, a)
              /\ sub' = s
              /\ UNCHANGED <<job, client, seen>>
        /\ UNCHANGED query

-----------------------------------------------------------------------------
(* The steps of the subscription *)

\* without the initial result, the client holds what it has just fetched itself
Open ==
    /\ ~sub.isOpen
    /\ Subscribe(Sub)
    /\ sub' = [sub EXCEPT !.isOpen = TRUE]
    /\ job' = Fetching(TRUE)
    /\ IF query.includeInitial THEN UNCHANGED client
       ELSE \E item \in Firsts(db) : client' = [client EXCEPT !.item = item]
    /\ UNCHANGED <<query, queue, seen>>

Stop ==
    /\ sub.isOpen /\ ~sub.isStopped
    /\ Unsubscribe(Sub)
    /\ sub' = [sub EXCEPT !.isStopped = TRUE]
    /\ UNCHANGED <<query, queue, job, client, seen>>

FetchAnswers ==
    /\ job.kind = "fetch" /\ ~job.answered
    /\ \E item \in Firsts(db) : job' = [job EXCEPT !.answered = TRUE, !.item = item]
    /\ UNCHANGED <<storeVars, query, sub, queue, client, seen>>

SendsResult ==
    /\ ~sub.isStopped
    /\ job.initial => query.includeInitial \/ sub.hasActionDuringInit

\* history: the client of a subscription without initial result holds another
\* item than the one its subscription starts from
Missed ==
    IF SendsResult \/ sub.isStopped \/ job.item = client.item THEN {} ELSE Key \X {"missed"}

\* the initial fetch tells the key held, sent or not; a later one when it is sent
CurrentAfter == IF SendsResult \/ job.initial THEN KeyOf(job.item) ELSE sub.current

FetchDone ==
    /\ job.kind = "fetch" /\ job.answered
    /\ sub' = [sub EXCEPT !.current = CurrentAfter, !.isReady = TRUE,
                          !.isInitializing = @ /\ ~job.initial]
    /\ IF SendsResult THEN Shows(job.item, "fetch") ELSE UNCHANGED <<client, seen>>
    /\ job' = Settled
    /\ gaps' = gaps \cup Missed
    /\ UNCHANGED <<db, listeners, writer, notifier, owed, budget, query, queue>>

\* a failed initial fetch rejects the subscription, a later one is reported
FetchFails ==
    /\ job.kind = "fetch" /\ ~job.answered
    /\ Report
    /\ job' = Settled
    /\ UNCHANGED <<storeVars, query, sub, queue>>

RunNext ==
    /\ job.kind = "settled" /\ queue # <<>>
    /\ HandleAction(sub, Head(queue), Settled)
    /\ queue' = Tail(queue)
    /\ UNCHANGED <<storeVars, query>>

ClearTail ==
    /\ job.kind = "settled" /\ queue = <<>>
    /\ job' = NoJob
    /\ UNCHANGED <<storeVars, query, sub, queue, client, seen>>

QueueStep == FetchAnswers \/ FetchDone \/ FetchFails \/ RunNext \/ ClearTail

\* history: a write let two documents match at a time
Remember ==
    /\ seen' = [seen EXCEPT !.two = @ \/ Cardinality(Matches(db')) > 1]
    /\ UNCHANGED <<query, sub, queue, job, client>>

EmitWritten(w) == Emits(w) /\ Return(w) /\ Receive(WrittenAction(w))
ReturnSilently(w) == ~Emits(w) /\ Return(w) /\ UNCHANGED subVars
EmitNotified(n) == EmitChanged(n) /\ Receive(ChangedAction(n))
EmitResync == Resync /\ Receive(ResyncAction)

Next ==
    \/ StoreStep /\ Remember
    \/ \E w \in Writer : EmitWritten(w) \/ ReturnSilently(w)
    \/ \E n \in Notifier : EmitNotified(n)
    \/ EmitResync
    \/ Open \/ Stop
    \/ QueueStep

Spec == Init /\ [][Next]_vars

-----------------------------------------------------------------------------
(* Properties *)

Live == sub.isOpen /\ ~sub.isStopped
Quiet == StoreQuiet /\ job.kind = "idle" /\ queue = <<>>
Gaps(whys) == \E k \in Key, why \in whys : <<k, why>> \in gaps

\* what the item shown rests on: a fetch, or documents told by actions, which are
\* right if no write overtook them and one document matched at a time
Trusted ==
    \/ query.isSorted /\ seen.source = "fetch"
    \/ ~Gaps({"crossed"}) /\ IF query.isSorted THEN seen.source # "insertOver" ELSE ~seen.two

(***************************************************************************)
(* Once every write is emitted, every foreign key notified and the queue   *)
(* is empty, the client that was told of no error shows the document a     *)
(* fetch would answer: with a sort the first, whichever write moved it,    *)
(* and whatever it crossed.  Excused: without a sort, criteria that let    *)
(* two documents match; and a document inserted over the one shown, which  *)
(* is sent without comparing the two (computeChanges).                     *)
(***************************************************************************)
ShowsFirst ==
    (Live /\ Quiet /\ ~client.hasError /\ ~Gaps({"silent", "lost", "missed"}) /\ Trusted)
        => client.item \in Firsts(db)

(***************************************************************************)
(* The key the subscription decides by is the key of the item its client   *)
(* shows, whenever it may act on it (currentKey of _subscribe).            *)
(***************************************************************************)
HeldItem ==
    (Live /\ sub.isReady /\ query.includeInitial) => KeyOf(client.item) = sub.current

(***************************************************************************)
(* The invariants of every state: types, and what the subscription holds.  *)
(***************************************************************************)
SingleInv == TypeOK /\ HeldItem

-----------------------------------------------------------------------------
(* A statement of the documentation the code does not keep *)

(***************************************************************************)
(* MongoQuerySingleItem.ts:103-106: the query is fetched again when the    *)
(* result can only be known by querying.  With a sort, an inserted         *)
(* document replaces the item shown even when it sorts after it.           *)
(***************************************************************************)
InsertKeepsFirst ==
    (Live /\ Quiet /\ query.isSorted /\ ~client.hasError /\ gaps = {}) => client.item \in Firsts(db)
=============================================================================
