---------------------------- MODULE SubscribeStore ----------------------------
(***************************************************************************)
(* The subscribe store of liwi-subscribe-store, wrapped around one mongo   *)
(* collection (MongoStore of liwi-mongo), seen from the process that       *)
(* serves the subscriptions.                                               *)
(*                                                                         *)
(* Local writes go through the proxy: each awaits its database commands    *)
(* and then calls the listeners, synchronously.  Another process writes    *)
(* the same collection and its keys reach notifyChanged some time later,   *)
(* possibly more than once.  Between two awaits any other writer may run.  *)
(*                                                                         *)
(* A document is abstracted to a member of Doc; what a partial update or a *)
(* replacement leaves in the database is the member the caller chose.  The *)
(* wrapped store has the WithInfo methods, as MongoStore has: the          *)
(* fallbacks for a store without them are not modelled.  A failed command  *)
(* has not been applied.                                                   *)
(***************************************************************************)
EXTENDS Integers, FiniteSets

CONSTANTS
    Key,         \* document keys
    Doc,         \* states a stored document may have
    NoDoc,       \* no document is stored under the key
    Untouched,   \* the emitted action says nothing of the key
    Writer,      \* callers of the write methods, each with one call under way
    Notifier,    \* calls of notifyChanged under way
    Listener,    \* what may subscribe to the store: query subscriptions, relays
    Selections,  \* the criteria given to partialUpdateMany and deleteMany
    Workloads    \* bounds: how often and with which methods the store is called

EmittingAlways == {"insertOne", "upsertOne"}
OfOneKey == {"insertOne", "upsertOne", "replaceOne", "partialUpdateByKey", "deleteByKey"}
Many == {"partialUpdateMany", "deleteMany"}
Deleting == {"deleteByKey", "deleteMany"}
ReadingBack == {"partialUpdateByKey", "partialUpdateMany"}
WriteMethods == OfOneKey \cup Many \cup {"replaceSeveral"}

\* local writes begun and the methods they use, writes of the other process, calls
\* of notifyChanged and of resync
Workload ==
    [writes : Nat, foreign : Nat, notices : Nat, resyncs : Nat, kinds : SUBSET WriteMethods]

ASSUME SubscribeStoreAssumption ==
    /\ NoDoc \notin Doc
    /\ Untouched \notin Doc \cup {NoDoc}
    /\ Selections \subseteq SUBSET Doc
    /\ Workloads \subseteq Workload

VARIABLES
    db,         \* the collection: what is stored under each key
    listeners,  \* the listeners of the proxy
    writer,     \* the call each writer has under way
    notifier,   \* the notifyChanged calls under way
    owed,       \* history: keys the other process wrote that neither a notification
                \* nor a resync has covered since
    budget,     \* what is left of the workload
    gaps        \* history: <<key, why>> for which no later emission is promised

storeVars == <<db, listeners, writer, notifier, owed, budget, gaps>>

State == Doc \cup {NoDoc}
Emitted == [Key -> State \cup {Untouched}]
Nothing == [k \in Key |-> Untouched]
KeysOf(states) == {k \in Key : states[k] # Untouched}

ActionType == {"inserted", "updated", "deleted", "changed", "resync"}
Actions == [type : ActionType, states : Emitted]

IdleWriter ==
    [phase |-> "idle", kind |-> "none", type |-> "updated", emits |-> FALSE,
     todo |-> {}, reading |-> {}, doc |-> NoDoc, accepts |-> {}, states |-> Nothing]
IdleNotifier == [phase |-> "idle", states |-> Nothing]

WriterRecord ==
    [phase : {"idle", "keys", "write"},
     kind : WriteMethods \cup {"none"}, type : ActionType, emits : BOOLEAN,
     todo : SUBSET Key, reading : SUBSET Key, doc : State, accepts : SUBSET State, states : Emitted]
NotifierRecord == [phase : {"idle", "asked", "read"}, states : Emitted]
Why == {"crossed", "silent", "lost", "missed"}

StoreTypeOK ==
    /\ db \in [Key -> State]
    /\ listeners \in SUBSET Listener
    /\ writer \in [Writer -> WriterRecord]
    /\ notifier \in [Notifier -> NotifierRecord]
    /\ owed \in SUBSET Key
    /\ budget \in Workload
    /\ gaps \in SUBSET (Key \X Why)

StoreInit ==
    /\ db \in [Key -> State]
    /\ listeners = {}
    /\ writer = [w \in Writer |-> IdleWriter]
    /\ notifier = [n \in Notifier |-> IdleNotifier]
    /\ owed = {}
    /\ budget \in Workloads
    /\ gaps = {}

-----------------------------------------------------------------------------
(* Listeners *)

Subscribe(l) ==
    /\ l \notin listeners
    /\ listeners' = listeners \cup {l}
    /\ UNCHANGED <<db, writer, notifier, owed, budget, gaps>>

Unsubscribe(l) ==
    /\ listeners' = listeners \ {l}
    /\ UNCHANGED <<db, writer, notifier, owed, budget, gaps>>

HasListeners == listeners # {}

-----------------------------------------------------------------------------
(* Local writes *)

\* the stored states the command of a write method applies to
Accepted(kind, selection) ==
    CASE kind = "insertOne" -> {NoDoc}
      [] kind = "upsertOne" -> State
      [] kind \in Many -> selection
      [] OTHER -> Doc

\* What the method knows before its first await: whether it must emit is
\* decided here, and not looked at again.  Without listeners the plain command
\* of the wrapped store examines every document by itself.
NewCall(kind, ks, d, selection) ==
    [phase |-> IF kind \in Many /\ HasListeners THEN "keys" ELSE "write",
     kind |-> kind,
     type |-> CASE kind = "insertOne" -> "inserted"
                [] kind \in Deleting -> "deleted"
                [] OTHER -> "updated",
     emits |-> HasListeners \/ kind \in EmittingAlways,
     todo |-> ks, reading |-> {},
     doc |-> d,
     accepts |-> Accepted(kind, selection),
     states |-> Nothing]

Begin(w, kind, ks, d, selection) ==
    /\ writer[w].phase = "idle"
    /\ budget.writes > 0
    /\ kind \in budget.kinds
    /\ kind \in OfOneKey => Cardinality(ks) = 1
    /\ kind \in Many => ks = Key
    /\ ks # {}
    /\ (d = NoDoc) <=> (kind \in Deleting)
    /\ writer' = [writer EXCEPT ![w] = NewCall(kind, ks, d, selection)]
    /\ budget' = [budget EXCEPT !.writes = @ - 1]
    /\ UNCHANGED <<db, listeners, notifier, owed, gaps>>

\* findKeys of partialUpdateMany and deleteMany
FindKeys(w) ==
    /\ writer[w].phase = "keys"
    /\ writer' = [writer EXCEPT ![w].phase = "write",
                                ![w].todo = {k \in Key : db[k] \in writer[w].accepts}]
    /\ UNCHANGED <<db, listeners, notifier, owed, budget, gaps>>

\* history: the key k is written while a writer of ws has written it, read it
\* back if need be, and not emitted it
Crossed(ws, k) ==
    IF \E w \in ws : writer[w].states[k] # Untouched THEN {<<k, "crossed">>} ELSE {}
\* history: the key k is written by a call that will not emit, to listeners
Silent(w, k) == IF ~writer[w].emits /\ HasListeners THEN {<<k, "silent">>} ELSE {}

\* changes.push
Record(states, k, s) == [states EXCEPT ![k] = s]

\* A partial update whose change is to be emitted reads the document back, in a
\* second command; the other changes are known at once.
ReadsBack(call) == call.emits /\ call.kind \in ReadingBack
AfterCommit(call, k, stored) ==
    [call EXCEPT
        !.todo = @ \ {k},
        !.reading = IF ReadsBack(call) THEN {k} ELSE {},
        !.states = IF call.emits /\ ~ReadsBack(call) THEN Record(@, k, call.doc) ELSE @,
        !.type = IF call.kind = "upsertOne" /\ stored = NoDoc THEN "inserted" ELSE @]

\* the command finds a document it applies to
Commit(w, k) ==
    /\ writer[w].phase = "write"
    /\ writer[w].reading = {}
    /\ k \in writer[w].todo
    /\ db[k] \in writer[w].accepts
    /\ db' = [db EXCEPT ![k] = writer[w].doc]
    /\ writer' = [writer EXCEPT ![w] = AfterCommit(@, k, db[k])]
    /\ gaps' = gaps \cup Crossed(Writer \ {w}, k) \cup Silent(w, k)
    /\ UNCHANGED <<listeners, notifier, owed, budget>>

\* nothing stored under k matches, or the key is taken: nothing to emit for it
Miss(w, k) ==
    /\ writer[w].phase = "write"
    /\ writer[w].reading = {}
    /\ k \in writer[w].todo
    /\ db[k] \notin writer[w].accepts
    /\ writer' = [writer EXCEPT ![w].todo = @ \ {k}]
    /\ UNCHANGED <<db, listeners, notifier, owed, budget, gaps>>

\* variant: the change is derived from the update, without reading the document
NextDerived(w, k) == writer[w].doc
\* findByKey after the update
NextReadBack(w, k) == db[k]

\* the second command of a partial update; a document deleted meanwhile has no
\* next and is not emitted
ReadBack(w, k) ==
    /\ k \in writer[w].reading
    /\ writer' = [writer EXCEPT
           ![w].reading = {},
           ![w].states = IF db[k] = NoDoc THEN @ ELSE Record(@, k, NextReadBack(w, k))]
    /\ UNCHANGED <<db, listeners, notifier, owed, budget, gaps>>

\* A command throws.  The loop of partialUpdateMany and deleteMany ends there;
\* replaceSeveral waits for its other documents.
CommandFails(w, k) ==
    /\ writer[w].phase = "write"
    /\ writer[w].reading = {}
    /\ k \in writer[w].todo
    /\ writer' = [writer EXCEPT
           ![w].todo = IF writer[w].kind \in Many THEN {} ELSE @ \ {k}]
    /\ UNCHANGED <<db, listeners, notifier, owed, budget, gaps>>

FindKeysFails(w) ==
    /\ writer[w].phase = "keys"
    /\ writer' = [writer EXCEPT ![w] = IdleWriter]
    /\ UNCHANGED <<db, listeners, notifier, owed, budget, gaps>>

\* the update was applied, its read-back throws: there is no change to emit
ReadBackFails(w, k) ==
    /\ k \in writer[w].reading
    /\ writer' = [writer EXCEPT ![w].reading = {}, ![w].todo = {}]
    /\ gaps' = gaps \cup {<<k, "lost">>}
    /\ UNCHANGED <<db, listeners, notifier, owed, budget>>

\* Every command of the call has settled: what was written is emitted, to the
\* listeners of now, and the call returns or rethrows.
CallSettled(w) ==
    writer[w].phase = "write" /\ writer[w].todo = {} /\ writer[w].reading = {}
WrittenAction(w) == [type |-> writer[w].type, states |-> writer[w].states]
Emits(w) == KeysOf(writer[w].states) # {}

Return(w) ==
    /\ CallSettled(w)
    /\ writer' = [writer EXCEPT ![w] = IdleWriter]
    /\ UNCHANGED <<db, listeners, notifier, owed, budget, gaps>>

-----------------------------------------------------------------------------
(* The other process, and the notifications of its writes *)

Foreign(k, s) ==
    /\ budget.foreign > 0
    /\ db[k] # s
    /\ db' = [db EXCEPT ![k] = s]
    /\ owed' = owed \cup {k}
    /\ budget' = [budget EXCEPT !.foreign = @ - 1]
    /\ gaps' = gaps \cup Crossed(Writer, k)
    /\ UNCHANGED <<listeners, writer, notifier>>

\* notifyChanged is called with keys owed or notified before; nobody listening,
\* it returns at once
NotifyChanged(n, ks) ==
    /\ notifier[n].phase = "idle"
    /\ budget.notices > 0
    /\ ks # {}
    /\ owed' = owed \ ks
    /\ budget' = [budget EXCEPT !.notices = @ - 1]
    /\ notifier' = IF HasListeners
                   THEN [notifier EXCEPT ![n] =
                           [phase |-> "asked",
                            states |-> [k \in Key |-> IF k \in ks THEN NoDoc ELSE Untouched]]]
                   ELSE notifier
    /\ UNCHANGED <<db, listeners, writer, gaps>>

\* its findAll answers with what is stored at that moment
NotifyFinds(n) ==
    /\ notifier[n].phase = "asked"
    /\ notifier' = [notifier EXCEPT ![n] =
           [phase |-> "read",
            states |-> [k \in Key |-> IF k \in KeysOf(notifier[n].states)
                                      THEN db[k] ELSE Untouched]]]
    /\ UNCHANGED <<db, listeners, writer, owed, budget, gaps>>

NotifyFails(n) ==
    /\ notifier[n].phase = "asked"
    /\ notifier' = [notifier EXCEPT ![n] = IdleNotifier]
    /\ gaps' = gaps \cup (KeysOf(notifier[n].states) \X {"lost"})
    /\ UNCHANGED <<db, listeners, writer, owed, budget>>

ChangedAction(n) == [type |-> "changed", states |-> notifier[n].states]

EmitChanged(n) ==
    /\ notifier[n].phase = "read"
    /\ notifier' = [notifier EXCEPT ![n] = IdleNotifier]
    /\ UNCHANGED <<db, listeners, writer, owed, budget, gaps>>

ResyncAction == [type |-> "resync", states |-> Nothing]

\* resync tells every listener to fetch again: no earlier write is owed after it
Resync ==
    /\ budget.resyncs > 0
    /\ owed' = {}
    /\ budget' = [budget EXCEPT !.resyncs = @ - 1]
    /\ UNCHANGED <<db, listeners, writer, notifier, gaps>>

-----------------------------------------------------------------------------
\* the steps that call no listener: of the local writes, of the other process and its
\* notifications, of notifyChanged
LocalStep ==
    \/ \E w \in Writer, k \in Key :
          \/ Commit(w, k) \/ Miss(w, k) \/ CommandFails(w, k)
          \/ ReadBack(w, k) \/ ReadBackFails(w, k)
    \/ \E w \in Writer : FindKeys(w) \/ FindKeysFails(w)
    \/ \E w \in Writer, kind \in WriteMethods, ks \in SUBSET Key, d \in State, sel \in Selections :
          Begin(w, kind, ks, d, sel)
ForeignStep ==
    \/ \E k \in Key, s \in State : Foreign(k, s)
    \/ \E n \in Notifier, ks \in SUBSET Key : NotifyChanged(n, ks)
NotifierStep == \E n \in Notifier : NotifyFinds(n) \/ NotifyFails(n)
StoreStep == LocalStep \/ ForeignStep \/ NotifierStep

\* nothing under way in the store: every write is emitted, notified or made up for
StoreQuiet ==
    /\ \A w \in Writer : writer[w].phase = "idle"
    /\ \A n \in Notifier : notifier[n].phase = "idle"
    /\ owed = {}
=============================================================================
