------------------------ MODULE CollectionSubscription ------------------------
(***************************************************************************)
(* One live collection query: MongoQueryCollection._subscribe of           *)
(* liwi-mongo, with its action queue (createActionQueue) and the list its  *)
(* client keeps by applying the changes it is sent (applyCollectionChanges *)
(* of react-liwi), listening to the SubscribeStore it extends.             *)
(*                                                                         *)
(* The changes travel to the client in order; they are applied here in the *)
(* step that sends them.  The rows of a query are ordered by a field that  *)
(* no write changes (Rank), as `sort: { created: 1 }` orders them.         *)
(***************************************************************************)
EXTENDS SubscribeStore, Sequences

CONSTANTS
    Sub,              \* the listener this subscription registers
    Matching,         \* the documents its criteria match
    Rank,             \* the order of its rows
    Options           \* the options a subscription may have

\* fetchAndSubscribe or subscribe; skip and limit, 0 when there is none; criteria
\* that mingo can test, as it cannot $text
QueryOptions == [includeInitial : BOOLEAN, skip : Nat, limit : Nat, isTestable : BOOLEAN]

ASSUME CollectionAssumption ==
    /\ Sub \in Listener
    /\ Matching \subseteq Doc
    /\ Rank \in [Key -> Nat]
    /\ Options \subseteq QueryOptions
    /\ IsFiniteSet(Key)

VARIABLES
    options,         \* of the query, which do not change
    sub,             \* the closure of _subscribe
    queue,           \* actions behind the pending work
    job,             \* the pending work: the tail of the action queue
    client           \* what the client shows, and whether it was told of an error

subVars == <<options, sub, queue, job, client>>
vars == <<storeVars, subVars>>

Windowed == options.limit > 0 \/ options.skip > 0
Matches(d) == {k \in Key : d[k] \in Matching}
Before(d, k) == {j \in Matches(d) : Rank[j] < Rank[k]}
InWindow(d, k) ==
    /\ k \in Matches(d)
    /\ Cardinality(Before(d, k)) >= options.skip
    /\ options.limit > 0 => Cardinality(Before(d, k)) < options.skip + options.limit

\* what find answers on the collection d, NoDoc standing for a key it does not return
Found(d) == [k \in Key |-> IF InWindow(d, k) THEN d[k] ELSE NoDoc]
\* variant: a count one too low
CountedOffByOne(d) == Cardinality(Matches(d)) - 1
Counted(d) == Cardinality(Matches(d))
Held(view) == {k \in Key : view[k] # NoDoc}
NoRows == [k \in Key |-> NoDoc]

NoJob == [kind |-> "idle", initial |-> FALSE, findDone |-> FALSE, countDone |-> FALSE,
          keys |-> {}, rows |-> NoRows, counted |-> 0]
\* the work is done, and its tail not cleared yet
Settled == [NoJob EXCEPT !.kind = "settled"]
Fetching(initial) == [NoJob EXCEPT !.kind = "fetch", !.initial = initial]
Rereading(ks) == [NoJob EXCEPT !.kind = "reread", !.keys = ks]

Job == [kind : {"idle", "settled", "fetch", "reread"}, initial : BOOLEAN,
        findDone : BOOLEAN, countDone : BOOLEAN,
        keys : SUBSET Key, rows : [Key -> State], counted : Nat]

Closure == [isOpen : BOOLEAN, isStopped : BOOLEAN, isReady : BOOLEAN,
            isInitializing : BOOLEAN, hasActionDuringInit : BOOLEAN,
            sentKeys : SUBSET Key, total : Nat]
Client == [rows : [Key -> State], total : Int, hasError : BOOLEAN]

TypeOK ==
    /\ StoreTypeOK
    /\ options \in QueryOptions
    /\ sub \in Closure
    /\ queue \in Seq(Actions)
    /\ job \in Job
    /\ client \in Client

Init ==
    /\ StoreInit
    /\ options \in Options
    /\ sub = [isOpen |-> FALSE, isStopped |-> FALSE, isReady |-> FALSE,
              isInitializing |-> TRUE, hasActionDuringInit |-> FALSE,
              sentKeys |-> {}, total |-> 0]
    /\ queue = <<>>
    /\ job = NoJob
    /\ client = [rows |-> NoRows, total |-> 0, hasError |-> FALSE]

-----------------------------------------------------------------------------
(* What the client does with the changes it is sent *)

ApplyInitial(c, rows, count) == [rows |-> rows, total |-> count, hasError |-> FALSE]

\* deleted, updated and inserted, of one callback; a row it does not hold is
\* not updated
ApplyChanges(c, m, states) ==
    [c EXCEPT
        !.rows = [k \in Key |->
                    CASE k \in m.deleted -> NoDoc
                      [] k \in m.inserted -> states[k]
                      [] k \in m.updated /\ c.rows[k] # NoDoc -> states[k]
                      [] OTHER -> c.rows[k]],
        !.total = @ + Cardinality(m.inserted) - Cardinality(m.deleted)]

\* onError: the callback is called with the error, unless stopped
Report == client' = IF sub.isStopped THEN client ELSE [client EXCEPT !.hasError = TRUE]

-----------------------------------------------------------------------------
(* An action of the queue.  s is the closure, done is what the queue is left *)
(* with when the action has nothing to wait for.                             *)

\* variant: a held document that stopped matching is taken for an update
MembershipsByKeyOnly(states, sentKeys) ==
    LET about == KeysOf(states)
    IN  [updated  |-> {k \in about \cap sentKeys : states[k] # NoDoc},
         deleted  |-> {k \in about \cap sentKeys : states[k] = NoDoc},
         inserted |-> {k \in about \ sentKeys : states[k] \in Matching}]

\* computeMemberships
Memberships(states, sentKeys) ==
    LET isMatching(k) == states[k] \in Matching
        about == KeysOf(states)
    IN  [updated  |-> {k \in about : k \in sentKeys /\ isMatching(k)},
         deleted  |-> {k \in about : k \in sentKeys /\ ~isMatching(k)},
         inserted |-> {k \in about : k \notin sentKeys /\ isMatching(k)}]

Refetch(s) ==
    /\ job' = Fetching(FALSE)
    /\ sub' = s
    /\ UNCHANGED client

\* variant: a key sent as deleted is still taken for held
KeysAfterKeeping(sentKeys, m) == sentKeys \cup m.inserted
KeysAfter(sentKeys, m) == (sentKeys \ m.deleted) \cup m.inserted

ApplyStates(s, states, done) ==
    LET m == Memberships(states, s.sentKeys)
        moves == m.inserted \cup m.deleted
    IN  \/ /\ Windowed /\ moves # {}
           /\ Refetch(s)
        \/ /\ ~Windowed \/ moves = {}
           /\ sub' = [s EXCEPT !.sentKeys = KeysAfter(@, m)]
           /\ client' = IF s.isStopped THEN client ELSE ApplyChanges(client, m, states)
           /\ job' = done

Ignored(s, a) ==
    \/ s.isStopped
    \/ a.type # "resync" /\ (~s.isReady \/ ~options.isTestable)

\* variant: only a limit is looked at
MayShiftLimit(s, a) ==
    /\ options.limit > 0 /\ s.total > Cardinality(s.sentKeys)
    /\ ~(KeysOf(a.states) \subseteq s.sentKeys)
\* a document the client does not hold may have shifted the window, or changed
\* the total
MayShift(s, a) ==
    /\ options.skip > 0 \/ (options.limit > 0 /\ s.total > Cardinality(s.sentKeys))
    /\ ~(KeysOf(a.states) \subseteq s.sentKeys)

Concerned(s, a) ==
    {k \in KeysOf(a.states) : k \in s.sentKeys \/ a.states[k] \in Matching}

HandleAction(s, a, done) ==
    \/ /\ \/ Ignored(s, a)
          \/ a.type = "changed" /\ ~MayShift(s, a) /\ Concerned(s, a) = {}
       /\ sub' = s
       /\ job' = done
       /\ UNCHANGED client
    \/ /\ ~Ignored(s, a)
       /\ a.type = "resync" \/ MayShift(s, a)
       /\ Refetch(s)
    \/ /\ ~Ignored(s, a) /\ ~MayShift(s, a)
       /\ a.type = "changed" /\ Concerned(s, a) # {}
       /\ sub' = s
       /\ job' = Rereading(Concerned(s, a))
       /\ UNCHANGED client
    \/ /\ ~Ignored(s, a) /\ ~MayShift(s, a)
       /\ a.type \notin {"changed", "resync"}
       /\ ApplyStates(s, a.states, done)

\* variants: an action never waits, or always does
NeverPending == FALSE
AlwaysPending == TRUE
\* the tail of the queue
Pending == job.kind # "idle"

\* the listener: at once when nothing is pending, behind the pending work if not
Receive(a) ==
    LET s == [sub EXCEPT !.hasActionDuringInit = @ \/ sub.isInitializing]
    IN  /\ \/ /\ Sub \notin listeners
              /\ UNCHANGED <<sub, queue, job, client>>
           \/ /\ Sub \in listeners
              /\ ~Pending
              /\ HandleAction(s, a, NoJob)
              /\ UNCHANGED queue
           \/ /\ Sub \in listeners
              /\ Pending
              /\ queue' = Append(queue, a)
              /\ sub' = s
              /\ UNCHANGED <<job, client>>
        /\ UNCHANGED options

-----------------------------------------------------------------------------
(* The steps of the subscription *)

\* Without the initial result, the client holds the result of an earlier fetch
\* of its own: here, of the last one it can have made.
Open ==
    /\ ~sub.isOpen
    /\ Subscribe(Sub)
    /\ sub' = [sub EXCEPT !.isOpen = TRUE]
    /\ job' = Fetching(TRUE)
    /\ client' = IF options.includeInitial THEN client ELSE ApplyInitial(client, Found(db), Counted(db))
    /\ UNCHANGED <<options, queue>>

Stop ==
    /\ sub.isOpen /\ ~sub.isStopped
    /\ Unsubscribe(Sub)
    /\ sub' = [sub EXCEPT !.isStopped = TRUE]
    /\ UNCHANGED <<options, queue, job, client>>

\* another listener of the store, a relay for instance
OtherListens ==
    /\ \E l \in Listener \ {Sub} : Subscribe(l)
    /\ UNCHANGED subVars

\* fetch sends both commands; each is answered from the collection of its moment
FindAnswers ==
    /\ job.kind = "fetch" /\ ~job.findDone
    /\ job' = [job EXCEPT !.findDone = TRUE, !.rows = Found(db)]
    /\ UNCHANGED <<storeVars, options, sub, queue, client>>

CountAnswers ==
    /\ job.kind = "fetch" /\ ~job.countDone
    /\ job' = [job EXCEPT !.countDone = TRUE, !.counted = Counted(db)]
    /\ UNCHANGED <<storeVars, options, sub, queue, client>>

\* variant: what was fetched is sent to a stopped subscription
SendsThoughStopped == job.initial => options.includeInitial \/ sub.hasActionDuringInit
SendsInitial ==
    /\ ~sub.isStopped
    /\ job.initial => options.includeInitial \/ sub.hasActionDuringInit

\* history: what a subscription without its initial result fetched, and its client
\* did not fetch before
Missed == IF SendsInitial \/ sub.isStopped THEN {} ELSE {k \in Key : job.rows[k] # client.rows[k]} \X {"missed"}

FetchDone ==
    /\ job.kind = "fetch" /\ job.findDone /\ job.countDone
    /\ sub' = [sub EXCEPT !.sentKeys = Held(job.rows), !.total = job.counted,
                          !.isReady = TRUE,
                          !.isInitializing = @ /\ ~job.initial]
    /\ client' = IF SendsInitial THEN ApplyInitial(client, job.rows, job.counted) ELSE client
    /\ job' = Settled
    /\ gaps' = gaps \cup Missed
    /\ UNCHANGED <<db, listeners, writer, notifier, owed, budget, options, queue>>

\* a failed initial fetch rejects the subscription, a later one is reported
FetchFails ==
    /\ job.kind = "fetch" /\ ~(job.findDone /\ job.countDone)
    /\ Report
    /\ job' = Settled
    /\ UNCHANGED <<storeVars, options, sub, queue>>

RereadAnswers ==
    /\ job.kind = "reread" /\ ~job.findDone
    /\ job' = [job EXCEPT !.findDone = TRUE,
                          !.rows = [k \in Key |-> IF k \in job.keys THEN db[k] ELSE NoDoc]]
    /\ UNCHANGED <<storeVars, options, sub, queue, client>>

RereadStates == [k \in Key |-> IF k \in job.keys THEN job.rows[k] ELSE Untouched]

RereadDone ==
    /\ job.kind = "reread" /\ job.findDone
    /\ \/ /\ sub.isStopped
          /\ job' = Settled
          /\ UNCHANGED <<sub, client>>
       \/ /\ ~sub.isStopped
          /\ ApplyStates(sub, RereadStates, Settled)
    /\ UNCHANGED <<storeVars, options, queue>>

RereadFails ==
    /\ job.kind = "reread" /\ ~job.findDone
    /\ Report
    /\ job' = Settled
    /\ UNCHANGED <<storeVars, options, sub, queue>>

\* variant: what waits behind a failed fetch is never run
RunNextUnlessFailed ==
    /\ job.kind = "settled" /\ queue # <<>> /\ ~client.hasError
    /\ HandleAction(sub, Head(queue), Settled)
    /\ queue' = Tail(queue)
    /\ UNCHANGED <<storeVars, options>>

RunNext ==
    /\ job.kind = "settled" /\ queue # <<>>
    /\ HandleAction(sub, Head(queue), Settled)
    /\ queue' = Tail(queue)
    /\ UNCHANGED <<storeVars, options>>

ClearTail ==
    /\ job.kind = "settled" /\ queue = <<>>
    /\ job' = NoJob
    /\ UNCHANGED <<storeVars, options, sub, queue, client>>

\* the store's steps that call the listeners
EmitWritten(w) == Emits(w) /\ Return(w) /\ Receive(WrittenAction(w))
ReturnSilently(w) == ~Emits(w) /\ Return(w) /\ UNCHANGED subVars
EmitNotified(n) == EmitChanged(n) /\ Receive(ChangedAction(n))
EmitResync == Resync /\ Receive(ResyncAction)

QueueStep ==
    \/ FindAnswers \/ CountAnswers \/ FetchDone \/ FetchFails
    \/ RereadAnswers \/ RereadDone \/ RereadFails
    \/ RunNext \/ ClearTail

Next ==
    \/ StoreStep /\ UNCHANGED subVars
    \/ \E w \in Writer : EmitWritten(w) \/ ReturnSilently(w)
    \/ \E n \in Notifier : EmitNotified(n)
    \/ EmitResync
    \/ Open \/ Stop \/ OtherListens
    \/ QueueStep

Spec == Init /\ [][Next]_vars

\* the event loop runs what is ready, and mongo answers or fails each command
Fairness == WF_vars(QueueStep)
FairSpec == Spec /\ Fairness

-----------------------------------------------------------------------------
(* Properties *)

Live == sub.isOpen /\ ~sub.isStopped
Quiet == StoreQuiet /\ job.kind = "idle" /\ queue = <<>>
GapKeys(whys) == {k \in Key : \E why \in whys : <<k, why>> \in gaps}
Agrees(k) == client.rows[k] = Found(db)[k]

\* the keys for which a client may differ from a fresh fetch, given the gaps of
\* the kinds whys; with a window one document moves the others
Excused(whys) == IF Windowed /\ GapKeys(whys) # {} THEN Key ELSE GapKeys(whys)
EqualsFreshFetch(whys) ==
    (Live /\ Quiet /\ options.isTestable /\ ~client.hasError) => \A k \in Key \ Excused(whys) : Agrees(k)

(***************************************************************************)
(* Once every write is emitted, every foreign key notified and the queue   *)
(* is empty, the client of a subscription that was told of no error shows  *)
(* what a fresh fetch returns, for every key without a gap: whatever the   *)
(* order in which writes, re-reads, refetches and notifications, repeated  *)
(* or late, went through the queue (_subscribe of MongoQueryCollection).   *)
(***************************************************************************)
Converged == EqualsFreshFetch(Why)

(***************************************************************************)
(* The keys the subscription believes its client holds are those the       *)
(* client holds, whenever it decides from them (sentKeys of _subscribe),   *)
(* when the client was sent the initial result.                            *)
(***************************************************************************)
HeldKeys == (Live /\ sub.isReady /\ options.includeInitial) => Held(client.rows) = sub.sentKeys

(***************************************************************************)
(* A change about to be emitted tells what is stored, unless another write *)
(* overtook it: this is what lets a subscription trust next (the atomic    *)
(* writes of MongoStore and the read-back of partialUpdateByKeyWithInfo).  *)
(***************************************************************************)
EmissionsFresh ==
    \A w \in Writer, k \in Key :
        writer[w].states[k] # Untouched => writer[w].states[k] = db[k] \/ <<k, "crossed">> \in gaps

(***************************************************************************)
(* While a fetch or a re-read is pending, the rows of the client change by *)
(* its result only: no older change overtakes it (createActionQueue).      *)
(***************************************************************************)
NotOvertaken ==
    [][(job.kind \in {"fetch", "reread"} /\ client'.rows # client.rows) => job'.kind = "settled"]_vars

(***************************************************************************)
(* Between two results the total a client shows moves with its rows: a     *)
(* document is counted once, however often it is written while it enters   *)
(* and leaves (meta.total of applyCollectionChanges).  The result of one   *)
(* fetch may be off, its find and count being answered at two moments.     *)
(***************************************************************************)
TotalFollowsRows ==
    [][options.includeInitial /\ job.kind # "fetch" =>
          client'.total - client.total = Cardinality(Held(client'.rows)) - Cardinality(Held(client.rows))]_vars

(***************************************************************************)
(* Once stopped, a subscription calls its callback no more, neither with   *)
(* changes nor with an error, whatever was pending when it stopped.        *)
(***************************************************************************)
SilentOnceStopped == [][sub.isStopped => client' = client]_vars

(***************************************************************************)
(* The pending work of a subscription ends, and its queue drains: no       *)
(* action waits forever behind a fetch that failed or was stopped.         *)
(***************************************************************************)
QueueDrains == (job.kind # "idle") ~> (job.kind = "idle" /\ queue = <<>>)

-----------------------------------------------------------------------------
(* Statements of the documentation the code does not keep *)

(***************************************************************************)
(* SubscribeStore.ts:129-131: a notification that crosses a local write is *)
(* harmless.  The emission of a local write may be older than the document *)
(* a subscription has just re-read.                                        *)
(***************************************************************************)
CrossingHarmless == EqualsFreshFetch(Why \ {"crossed"})

(***************************************************************************)
(* README of liwi-subscribe-store, Missing keys and failures:              *)
(* partialUpdateMany emits the writes that succeeded before rethrowing the *)
(* first failure, so listeners stay in sync with what was written.  An     *)
(* update whose read-back throws is applied and not emitted.               *)
(***************************************************************************)
SuccessesEmitted == EqualsFreshFetch(Why \ {"lost"})
=============================================================================
