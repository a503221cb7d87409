------------------------- MODULE SubscribeStore_proofs -------------------------
(***************************************************************************)
(* What the steps of the subscribe store keep, for any keys, documents,    *)
(* writers and notifications: the facts the proofs about what listens to   *)
(* it rest on.                                                             *)
(***************************************************************************)
EXTENDS SubscribeStore, FiniteSetTheorems, TLAPS

-----------------------------------------------------------------------------
(* The store *)

LEMMA StoreInitType == StoreInit => StoreTypeOK
<1> SUFFICES ASSUME StoreInit PROVE StoreTypeOK
  OBVIOUS
<1>1. budget \in Workload
  BY SubscribeStoreAssumption DEF StoreInit
<1>2. QED
  BY <1>1, SubscribeStoreAssumption DEF StoreInit, StoreTypeOK, State, IdleWriter, IdleNotifier,
     WriterRecord, NotifierRecord, Nothing, Emitted, ActionType

\* the record of a new call is one a writer may hold
LEMMA NewCallType ==
  ASSUME NEW kind \in WriteMethods, NEW ks \in SUBSET Key, NEW d \in State,
         NEW selection \in SUBSET Doc
  PROVE  NewCall(kind, ks, d, selection) \in WriterRecord
<1>1. Accepted(kind, selection) \in SUBSET State
  BY DEF Accepted, State, WriteMethods, OfOneKey, Many
<1>2. Nothing \in Emitted
  BY DEF Nothing, Emitted
<1>3. QED
  BY <1>1, <1>2 DEF NewCall, WriterRecord, ActionType, HasListeners

\* what a writer is about to emit stays a map from keys to states
LEMMA RecordType ==
  ASSUME NEW states \in Emitted, NEW k \in Key, NEW s \in State
  PROVE  Record(states, k, s) \in Emitted
  BY DEF Record, Emitted

LEMMA AfterCommitType ==
  ASSUME NEW call \in WriterRecord, NEW k \in Key, NEW stored \in State
  PROVE  AfterCommit(call, k, stored) \in WriterRecord
<1>1. Record(call.states, k, call.doc) \in Emitted
  BY RecordType DEF WriterRecord
<1>2. QED
  BY <1>1 DEF AfterCommit, WriterRecord, ActionType

\* a step of a writer about one document keeps the types
LEMMA WriterKeyStepType ==
  ASSUME StoreTypeOK, NEW w \in Writer, NEW k \in Key,
         \/ Commit(w, k) \/ Miss(w, k) \/ CommandFails(w, k)
         \/ ReadBack(w, k) \/ ReadBackFails(w, k)
  PROVE  StoreTypeOK'
<1> USE DEF StoreTypeOK
<1>0. writer[w] \in WriterRecord
  OBVIOUS
<1>1. CASE Commit(w, k)
  <2>1. writer' \in [Writer -> WriterRecord]
    BY <1>1, <1>0, AfterCommitType DEF Commit
  <2>2. db' \in [Key -> State]
    BY <1>1, <1>0 DEF Commit, WriterRecord
  <2>3. gaps' \in SUBSET (Key \X Why)
    BY <1>1 DEF Commit, Crossed, Silent, Why
  <2>4. QED
    BY <1>1, <2>1, <2>2, <2>3 DEF Commit
<1>2. CASE Miss(w, k)
  BY <1>2, <1>0 DEF Miss, WriterRecord
<1>3. CASE CommandFails(w, k)
  BY <1>3, <1>0 DEF CommandFails, WriterRecord
<1>4. CASE ReadBack(w, k)
  <2>1. writer' \in [Writer -> WriterRecord]
    BY <1>4, <1>0, RecordType DEF ReadBack, WriterRecord, NextReadBack
  <2>2. QED
    BY <1>4, <2>1 DEF ReadBack
<1>5. CASE ReadBackFails(w, k)
  <2>1. writer' \in [Writer -> WriterRecord]
    BY <1>5, <1>0 DEF ReadBackFails, WriterRecord
  <2>2. gaps' \in SUBSET (Key \X Why)
    BY <1>5 DEF ReadBackFails, Why
  <2>3. QED
    BY <1>5, <2>1, <2>2 DEF ReadBackFails
<1>6. QED
  BY <1>1, <1>2, <1>3, <1>4, <1>5

\* so do the other steps of a writer
LEMMA WriterStepType ==
  ASSUME StoreTypeOK, NEW w \in Writer,
         FindKeys(w) \/ FindKeysFails(w) \/ Return(w)
  PROVE  StoreTypeOK'
<1> USE DEF StoreTypeOK
<1>0. /\ writer[w] \in WriterRecord
      /\ IdleWriter \in WriterRecord
  BY DEF IdleWriter, WriterRecord, Nothing, Emitted, State, ActionType
<1>1. CASE FindKeys(w)
  BY <1>1, <1>0 DEF FindKeys, WriterRecord
<1>2. CASE FindKeysFails(w)
  BY <1>2, <1>0 DEF FindKeysFails
<1>3. CASE Return(w)
  BY <1>3, <1>0 DEF Return
<1>4. QED
  BY <1>1, <1>2, <1>3

\* a step of notifyChanged keeps the types
LEMMA NotifierStepType ==
  ASSUME StoreTypeOK, NEW n \in Notifier,
         \/ \E ks \in SUBSET Key : NotifyChanged(n, ks)
         \/ NotifyFinds(n) \/ NotifyFails(n) \/ EmitChanged(n)
  PROVE  StoreTypeOK'
<1> USE DEF StoreTypeOK
<1>0. notifier[n] \in NotifierRecord /\ IdleNotifier \in NotifierRecord
  BY DEF IdleNotifier, NotifierRecord, Nothing, Emitted
<1>1. ASSUME NEW ks \in SUBSET Key, NotifyChanged(n, ks) PROVE StoreTypeOK'
  <2>1. budget' \in Workload
    BY <1>1 DEF NotifyChanged, Workload
  <2>2. [phase |-> "asked", states |-> [k \in Key |-> IF k \in ks THEN NoDoc ELSE Untouched]]
          \in NotifierRecord
    BY DEF NotifierRecord, Emitted, State
  <2>3. notifier' \in [Notifier -> NotifierRecord]
    BY <1>1, <2>2 DEF NotifyChanged
  <2>4. QED
    BY <1>1, <2>1, <2>3 DEF NotifyChanged
<1>2. CASE NotifyFinds(n)
  BY <1>2, <1>0 DEF NotifyFinds, NotifierRecord, Emitted, State
<1>3. CASE NotifyFails(n)
  BY <1>3, <1>0 DEF NotifyFails, NotifierRecord, KeysOf, Why
<1>4. CASE EmitChanged(n)
  BY <1>4, <1>0 DEF EmitChanged
<1>5. QED
  BY <1>1, <1>2, <1>3, <1>4

\* every step of the store keeps the types
LEMMA StoreStepType == StoreTypeOK /\ StoreStep => StoreTypeOK'
<1> SUFFICES ASSUME StoreTypeOK, StoreStep PROVE StoreTypeOK'
  OBVIOUS
<1>1. ASSUME NEW w \in Writer, NEW kind \in WriteMethods, NEW ks \in SUBSET Key, NEW d \in State,
             NEW sel \in Selections, Begin(w, kind, ks, d, sel)
      PROVE  StoreTypeOK'
  <2>1. NewCall(kind, ks, d, sel) \in WriterRecord
    BY NewCallType, SubscribeStoreAssumption
  <2>2. QED
    BY <1>1, <2>1 DEF StoreTypeOK, Workload, Begin
<1>2. ASSUME NEW k \in Key, NEW s \in State, Foreign(k, s) PROVE StoreTypeOK'
  BY <1>2 DEF StoreTypeOK, Workload, Foreign, Crossed, Why
<1>3. ASSUME NEW w \in Writer, NEW k \in Key,
             \/ Commit(w, k) \/ Miss(w, k) \/ CommandFails(w, k)
             \/ ReadBack(w, k) \/ ReadBackFails(w, k)
      PROVE  StoreTypeOK'
  BY <1>3, WriterKeyStepType
<1>4. ASSUME NEW w \in Writer, FindKeys(w) \/ FindKeysFails(w) PROVE StoreTypeOK'
  BY <1>4, WriterStepType
<1>5. ASSUME NEW n \in Notifier,
             \/ \E ks \in SUBSET Key : NotifyChanged(n, ks)
             \/ NotifyFinds(n) \/ NotifyFails(n)
      PROVE  StoreTypeOK'
  BY <1>5, NotifierStepType
<1>6. QED
  BY <1>1, <1>2, <1>3, <1>4, <1>5 DEF StoreStep, LocalStep, ForeignStep, NotifierStep

-----------------------------------------------------------------------------
(* What a change about to be emitted tells *)

\* A call has recorded nothing of a document it has yet to write or read back,
\* and nothing at all before its first command.
CallInv(w) ==
    LET call == writer[w]
    IN  /\ call.phase # "write" => call.states = Nothing /\ call.reading = {}
        /\ \A k \in call.todo \cup call.reading : call.states[k] = Untouched
        /\ call.todo \cap call.reading = {}

FreshFor(w, k) ==
    writer[w].states[k] # Untouched => writer[w].states[k] = db[k] \/ <<k, "crossed">> \in gaps

FreshInv == \A w \in Writer : CallInv(w) /\ \A k \in Key : FreshFor(w, k)

\* a step that changes neither the calls nor the documents
LEMMA FreshFrame ==
  ASSUME FreshInv, UNCHANGED <<db, writer>>, gaps \subseteq gaps'
  PROVE  FreshInv'
  BY DEF FreshInv, CallInv, FreshFor

\* a step that changes the call of w only, and no document
LEMMA FreshOneCall ==
  ASSUME StoreTypeOK, FreshInv, NEW w \in Writer, NEW call,
         UNCHANGED db, gaps \subseteq gaps',
         writer' = [writer EXCEPT ![w] = call],
         CallInv(w)', \A k \in Key : FreshFor(w, k)'
  PROVE  FreshInv'
<1>1. ASSUME NEW v \in Writer, v # w PROVE CallInv(v)' /\ \A k \in Key : FreshFor(v, k)'
  <2>1. writer'[v] = writer[v]
    BY <1>1 DEF StoreTypeOK
  <2>2. QED
    BY <2>1 DEF FreshInv, CallInv, FreshFor
<1>2. QED
  BY <1>1 DEF FreshInv

\* a step that writes the document of k: whoever holds an older state of it is
\* marked as crossed, but for w
LEMMA FreshWrite ==
  ASSUME StoreTypeOK, FreshInv, NEW k \in Key, NEW s, NEW ws \in SUBSET Writer,
         db' = [db EXCEPT ![k] = s],
         gaps \cup Crossed(ws, k) \subseteq gaps',
         NEW v \in ws, writer'[v] = writer[v]
  PROVE  CallInv(v)' /\ \A j \in Key : FreshFor(v, j)'
<1>1. CallInv(v)'
  BY DEF FreshInv, CallInv
<1>2. ASSUME NEW j \in Key PROVE FreshFor(v, j)'
  <2>1. CASE j = k
    BY <2>1 DEF Crossed, FreshFor
  <2>2. CASE j # k
    BY <2>2 DEF FreshFor, FreshInv, StoreTypeOK
  <2>3. QED
    BY <2>1, <2>2
<1>3. QED
  BY <1>1, <1>2

LEMMA FreshCommit ==
  ASSUME StoreTypeOK, FreshInv, NEW w \in Writer, NEW k \in Key, Commit(w, k)
  PROVE  FreshInv'
<1> DEFINE call == AfterCommit(writer[w], k, db[k])
<1>0. /\ writer[w] \in WriterRecord
      /\ writer'[w] = call
      /\ \A v \in Writer \ {w} : writer'[v] = writer[v]
      /\ db' = [db EXCEPT ![k] = writer[w].doc]
      /\ k \in writer[w].todo /\ writer[w].phase = "write" /\ writer[w].reading = {}
      /\ gaps \cup Crossed(Writer \ {w}, k) \subseteq gaps'
  BY DEF Commit, StoreTypeOK
<1>1. ASSUME NEW v \in Writer \ {w} PROVE CallInv(v)' /\ \A j \in Key : FreshFor(v, j)'
  BY <1>0, <1>1, FreshWrite
<1>2. /\ call.phase = "write" /\ call.todo = writer[w].todo \ {k}
      /\ call.reading = IF ReadsBack(writer[w]) THEN {k} ELSE {}
      /\ call.states = IF writer[w].emits /\ ~ReadsBack(writer[w])
                       THEN Record(writer[w].states, k, writer[w].doc) ELSE writer[w].states
  BY <1>0 DEF AfterCommit, WriterRecord
<1>3. writer[w].states \in Emitted /\ writer[w].states[k] = Untouched
  BY <1>0 DEF FreshInv, CallInv, WriterRecord
<1>4. \A j \in Key \ {k} : call.states[j] = writer[w].states[j]
  BY <1>2, <1>3 DEF Record, Emitted
<1>5. call.states[k] = Untouched \/ (call.states[k] = writer[w].doc /\ call.reading = {})
  BY <1>2, <1>3 DEF Record, Emitted
<1>6. call.todo \subseteq Key \ {k}
  BY <1>0, <1>2 DEF WriterRecord
<1> HIDE DEF call
<1>7. CallInv(w)'
  <2>1. \A j \in call.todo \cup call.reading : call.states[j] = Untouched
    <3>1. \A j \in call.todo : call.states[j] = Untouched
      BY <1>2, <1>4, <1>6 DEF FreshInv, CallInv
    <3>2. \A j \in call.reading : call.states[j] = Untouched
      BY <1>2, <1>5
    <3>3. QED
      BY <3>1, <3>2
  <2>2. call.todo \cap call.reading = {}
    BY <1>2
  <2>3. QED
    BY <1>0, <1>2, <2>1, <2>2 DEF CallInv
<1>8. ASSUME NEW j \in Key PROVE FreshFor(w, j)'
  <2>1. CASE j = k
    BY <1>0, <1>5, <2>1 DEF FreshFor, StoreTypeOK
  <2>2. CASE j # k
    BY <1>0, <1>4, <2>2 DEF FreshFor, FreshInv, StoreTypeOK
  <2>3. QED
    BY <2>1, <2>2
<1>9. QED
  BY <1>1, <1>7, <1>8 DEF FreshInv

\* the other steps of a call about one document
LEMMA FreshKeyStep ==
  ASSUME StoreTypeOK, FreshInv, NEW w \in Writer, NEW k \in Key,
         \/ Miss(w, k) \/ CommandFails(w, k) \/ ReadBack(w, k) \/ ReadBackFails(w, k)
  PROVE  FreshInv'
<1>0. writer[w] \in WriterRecord /\ CallInv(w) /\ \A j \in Key : FreshFor(w, j)
  BY DEF StoreTypeOK, FreshInv
<1>1. ASSUME NEW call,
             writer' = [writer EXCEPT ![w] = call], UNCHANGED db, gaps \subseteq gaps',
             call.phase = writer[w].phase, call.states = writer[w].states,
             call.todo \subseteq writer[w].todo, call.reading = {}
      PROVE  FreshInv'
  <2>1. writer'[w] = call
    BY <1>1 DEF StoreTypeOK
  <2>2. CallInv(w)' /\ \A j \in Key : FreshFor(w, j)'
    BY <1>0, <1>1, <2>1 DEF CallInv, FreshFor
  <2>3. QED
    BY <1>1, <2>2, FreshOneCall
<1>2. CASE Miss(w, k)
  <2> DEFINE call == [writer[w] EXCEPT !.todo = @ \ {k}]
  <2>1. writer' = [writer EXCEPT ![w] = call] /\ UNCHANGED <<db, gaps>>
    BY <1>2 DEF Miss
  <2>2. /\ call.phase = writer[w].phase /\ call.states = writer[w].states
        /\ call.todo \subseteq writer[w].todo /\ call.reading = {}
    BY <1>0, <1>2 DEF Miss, WriterRecord
  <2> HIDE DEF call
  <2>3. QED
    BY <1>1, <2>1, <2>2
<1>3. CASE CommandFails(w, k)
  <2> DEFINE call == [writer[w] EXCEPT !.todo = IF writer[w].kind \in Many THEN {} ELSE @ \ {k}]
  <2>1. writer' = [writer EXCEPT ![w] = call] /\ UNCHANGED <<db, gaps>>
    BY <1>3 DEF CommandFails
  <2>2. /\ call.phase = writer[w].phase /\ call.states = writer[w].states
        /\ call.todo \subseteq writer[w].todo /\ call.reading = {}
    BY <1>0, <1>3 DEF CommandFails, WriterRecord
  <2> HIDE DEF call
  <2>3. QED
    BY <1>1, <2>1, <2>2
<1>4. CASE ReadBackFails(w, k)
  <2> DEFINE call == [writer[w] EXCEPT !.reading = {}, !.todo = {}]
  <2>1. writer' = [writer EXCEPT ![w] = call] /\ UNCHANGED db /\ gaps \subseteq gaps'
    BY <1>4 DEF ReadBackFails
  <2>2. /\ call.phase = writer[w].phase /\ call.states = writer[w].states
        /\ call.todo \subseteq writer[w].todo /\ call.reading = {}
    BY <1>0 DEF WriterRecord
  <2> HIDE DEF call
  <2>3. QED
    BY <1>1, <2>1, <2>2
<1>5. CASE ReadBack(w, k)
  <2> DEFINE states == IF db[k] = NoDoc THEN writer[w].states
                       ELSE Record(writer[w].states, k, db[k])
             call == [writer[w] EXCEPT !.reading = {}, !.states = states]
  <2>1. writer' = [writer EXCEPT ![w] = call] /\ UNCHANGED <<db, gaps>>
    BY <1>5 DEF ReadBack, NextReadBack
  <2>2. /\ call.phase = writer[w].phase /\ call.states = states
        /\ call.todo = writer[w].todo /\ call.reading = {}
    BY <1>0 DEF WriterRecord
  <2>3. k \in writer[w].reading
    BY <1>5 DEF ReadBack
  <2>4. /\ \A j \in Key \ {k} : states[j] = writer[w].states[j]
        /\ states[k] \in {db[k], Untouched}
    BY <1>0, <2>3 DEF Record, Emitted, WriterRecord, CallInv
  <2> HIDE DEF call, states
  <2>5. writer'[w] = call
    BY <2>1 DEF StoreTypeOK
  <2>6. CallInv(w)'
    <3>1. k \notin writer[w].todo /\ writer[w].phase = "write" /\ writer[w].todo \subseteq Key
      BY <1>0, <2>3 DEF CallInv, WriterRecord
    <3>2. \A j \in call.todo : call.states[j] = Untouched
      BY <1>0, <2>2, <2>4, <3>1 DEF CallInv
    <3>3. QED
      BY <2>2, <2>5, <3>1, <3>2 DEF CallInv
  <2>7. \A j \in Key : FreshFor(w, j)'
    BY <1>0, <2>1, <2>2, <2>4, <2>5 DEF FreshFor
  <2>8. QED
    BY <2>1, <2>6, <2>7, FreshOneCall
<1>6. QED
  BY <1>2, <1>3, <1>4, <1>5

\* a call that has recorded nothing is fresh
LEMMA FreshBlank ==
  ASSUME StoreTypeOK, FreshInv, NEW w \in Writer, NEW call,
         writer' = [writer EXCEPT ![w] = call], UNCHANGED <<db, gaps>>,
         call.states = Nothing, call.reading = {}, call.todo \subseteq Key
  PROVE  FreshInv'
<1>1. writer'[w] = call
  BY DEF StoreTypeOK
<1>2. CallInv(w)' /\ \A j \in Key : FreshFor(w, j)'
  BY <1>1 DEF CallInv, FreshFor, Nothing
<1>3. QED
  BY <1>2, FreshOneCall

\* every step of the store keeps what the calls know fresh
LEMMA FreshStoreStep ==
  ASSUME StoreTypeOK, FreshInv, StoreStep
  PROVE  FreshInv'
<1>1. ASSUME NEW w \in Writer, NEW k \in Key,
             \/ Commit(w, k) \/ Miss(w, k) \/ CommandFails(w, k)
             \/ ReadBack(w, k) \/ ReadBackFails(w, k)
      PROVE  FreshInv'
  BY <1>1, FreshCommit, FreshKeyStep
<1>2. ASSUME NEW w \in Writer, FindKeys(w) PROVE FreshInv'
  <2> DEFINE found == {k \in Key : db[k] \in writer[w].accepts}
             call == [writer[w] EXCEPT !.phase = "write", !.todo = found]
  <2>1. writer[w] \in WriterRecord /\ CallInv(w) /\ writer[w].phase = "keys"
    BY <1>2 DEF StoreTypeOK, FreshInv, FindKeys
  <2>2. call.states = Nothing /\ call.reading = {} /\ call.todo \subseteq Key
    BY <2>1 DEF CallInv, WriterRecord
  <2>3. writer' = [writer EXCEPT ![w] = call] /\ UNCHANGED <<db, gaps>>
    BY <1>2 DEF FindKeys
  <2> HIDE DEF call
  <2>4. QED
    BY <2>2, <2>3, FreshBlank
<1>3. ASSUME NEW w \in Writer, FindKeysFails(w) PROVE FreshInv'
  <2>1. writer' = [writer EXCEPT ![w] = IdleWriter] /\ UNCHANGED <<db, gaps>>
    BY <1>3 DEF FindKeysFails
  <2>2. IdleWriter.states = Nothing /\ IdleWriter.reading = {} /\ IdleWriter.todo = {}
    BY DEF IdleWriter
  <2>3. QED
    BY <2>1, <2>2, FreshBlank
<1>4. ASSUME NEW w \in Writer, NEW kind \in WriteMethods, NEW ks \in SUBSET Key, NEW d \in State,
             NEW sel \in Selections, Begin(w, kind, ks, d, sel)
      PROVE  FreshInv'
  <2> DEFINE call == NewCall(kind, ks, d, sel)
  <2>1. call.states = Nothing /\ call.reading = {} /\ call.todo \subseteq Key
    BY DEF NewCall
  <2>2. writer' = [writer EXCEPT ![w] = call] /\ UNCHANGED <<db, gaps>>
    BY <1>4 DEF Begin
  <2> HIDE DEF call
  <2>3. QED
    BY <2>1, <2>2, FreshBlank
<1>5. ASSUME NEW k \in Key, NEW s \in State, Foreign(k, s) PROVE FreshInv'
  <2>1. /\ db' = [db EXCEPT ![k] = s] /\ writer' = writer
        /\ gaps \cup Crossed(Writer, k) \subseteq gaps'
    BY <1>5 DEF Foreign
  <2>2. \A v \in Writer : CallInv(v)' /\ \A j \in Key : FreshFor(v, j)'
    BY <2>1, FreshWrite
  <2>3. QED
    BY <2>2 DEF FreshInv
<1>6. ASSUME NEW n \in Notifier,
             \/ \E ks \in SUBSET Key : NotifyChanged(n, ks)
             \/ NotifyFinds(n) \/ NotifyFails(n)
      PROVE  FreshInv'
  <2>1. UNCHANGED <<db, writer>> /\ gaps \subseteq gaps'
    BY <1>6 DEF NotifyChanged, NotifyFinds, NotifyFails
  <2>2. QED
    BY <2>1, FreshFrame
<1>7. QED
  BY <1>1, <1>2, <1>3, <1>4, <1>5, <1>6 DEF StoreStep, LocalStep, ForeignStep, NotifierStep

-----------------------------------------------------------------------------
(* What is still to be told *)

\* The calls of the writers, and of notifyChanged: an update has a document, a
\* read-back is of one key, and what is not under way is blank.
CallsInv ==
    \A w \in Writer :
        /\ writer[w].kind \in ReadingBack => writer[w].doc # NoDoc
        /\ \A j, k \in writer[w].reading : j = k
        /\ writer[w].phase = "idle" => writer[w] = IdleWriter
NoticesInv == \A n \in Notifier : notifier[n].phase = "idle" => notifier[n] = IdleNotifier
StoreInv == StoreTypeOK /\ FreshInv /\ CallsInv /\ NoticesInv

\* what is stored under k is to be told, or asked for, by a notification or a call
AskedBy(n, k) ==
    /\ k \in KeysOf(notifier[n].states)
    /\ notifier[n].phase = "asked" \/ notifier[n].states[k] = db[k]
HeldByCall(w, k) == writer[w].states[k] = db[k] \/ (k \in writer[w].reading /\ db[k] # NoDoc)
Underway(k) == (\E n \in Notifier : AskedBy(n, k)) \/ (\E w \in Writer : HeldByCall(w, k))

NoGap(k) == \A why \in Why : <<k, why>> \notin gaps
\* whatever writes k is emitted or notified, overtaken or not
Heard(k) == \A why \in {"silent", "lost"} : <<k, why>> \notin gaps

LEMMA StoreInvInit == StoreInit => StoreInv
<1> SUFFICES ASSUME StoreInit PROVE StoreInv
  OBVIOUS
<1>1. StoreTypeOK
  BY StoreInitType
<1>2. FreshInv
  BY DEF StoreInit, FreshInv, CallInv, FreshFor, IdleWriter, Nothing
<1>3. CallsInv /\ NoticesInv
  BY DEF StoreInit, CallsInv, NoticesInv, IdleWriter, ReadingBack
<1> QED
  BY <1>1, <1>2, <1>3 DEF StoreInv

\* a step that changes the call of one writer only
LEMMA CallsOneCall ==
  ASSUME StoreTypeOK, CallsInv, NEW w \in Writer, NEW call,
         writer' = [writer EXCEPT ![w] = call],
         call.kind \in ReadingBack => call.doc # NoDoc,
         \A j, k \in call.reading : j = k,
         call.phase = "idle" => call = IdleWriter
  PROVE  CallsInv'
<1>1. \A v \in Writer : writer'[v] = IF v = w THEN call ELSE writer[v]
  BY DEF StoreTypeOK
<1> QED
  BY <1>1 DEF CallsInv

LEMMA CallsLocalStep ==
  ASSUME StoreTypeOK, CallsInv, LocalStep \/ \E w \in Writer : Return(w)
  PROVE  CallsInv'
<1>1. ASSUME NEW w \in Writer, NEW k \in Key, Commit(w, k) PROVE CallsInv'
  <2> DEFINE call == AfterCommit(writer[w], k, db[k])
  <2>1. /\ call.kind = writer[w].kind /\ call.doc = writer[w].doc /\ call.phase = "write"
        /\ call.reading \in {{}, {k}}
    BY <1>1 DEF StoreTypeOK, WriterRecord, AfterCommit, Commit
  <2>2. writer' = [writer EXCEPT ![w] = call]
    BY <1>1 DEF Commit
  <2> HIDE DEF call
  <2> QED
    BY <2>1, <2>2, CallsOneCall DEF CallsInv
<1>2. ASSUME NEW w \in Writer, NEW call, writer' = [writer EXCEPT ![w] = call],
             call.kind = writer[w].kind, call.doc = writer[w].doc,
             call.reading \in {{}, writer[w].reading}, call.phase # "idle"
      PROVE  CallsInv'
  BY <1>2, CallsOneCall DEF CallsInv
<1>3. ASSUME NEW w \in Writer, NEW k \in Key, Miss(w, k) PROVE CallsInv'
  <2> DEFINE call == [writer[w] EXCEPT !.todo = @ \ {k}]
  <2>1. /\ call.kind = writer[w].kind /\ call.doc = writer[w].doc /\ call.phase # "idle"
        /\ call.reading = writer[w].reading /\ writer' = [writer EXCEPT ![w] = call]
    BY <1>3 DEF StoreTypeOK, WriterRecord, Miss
  <2> HIDE DEF call
  <2> QED
    BY <1>2, <2>1
<1>4. ASSUME NEW w \in Writer, NEW k \in Key, CommandFails(w, k) PROVE CallsInv'
  <2> DEFINE call == [writer[w] EXCEPT !.todo = IF writer[w].kind \in Many THEN {} ELSE @ \ {k}]
  <2>1. /\ call.kind = writer[w].kind /\ call.doc = writer[w].doc /\ call.phase # "idle"
        /\ call.reading = writer[w].reading /\ writer' = [writer EXCEPT ![w] = call]
    BY <1>4 DEF StoreTypeOK, WriterRecord, CommandFails
  <2> HIDE DEF call
  <2> QED
    BY <1>2, <2>1
<1>5. ASSUME NEW w \in Writer, NEW k \in Key, ReadBack(w, k) \/ ReadBackFails(w, k) PROVE CallsInv'
  <2>0. writer[w].phase # "idle"
    BY <1>5 DEF ReadBack, ReadBackFails, CallsInv, IdleWriter
  <2>1. CASE ReadBack(w, k)
    <3> DEFINE call == [writer[w] EXCEPT !.reading = {},
                          !.states = IF db[k] = NoDoc THEN @ ELSE Record(@, k, NextReadBack(w, k))]
    <3>1. /\ call.kind = writer[w].kind /\ call.doc = writer[w].doc /\ call.phase = writer[w].phase
          /\ call.reading = {} /\ writer' = [writer EXCEPT ![w] = call]
      BY <2>1 DEF StoreTypeOK, WriterRecord, ReadBack
    <3> HIDE DEF call
    <3> QED
      BY <1>2, <2>0, <3>1
  <2>2. CASE ReadBackFails(w, k)
    <3> DEFINE call == [writer[w] EXCEPT !.reading = {}, !.todo = {}]
    <3>1. /\ call.kind = writer[w].kind /\ call.doc = writer[w].doc /\ call.phase = writer[w].phase
          /\ call.reading = {} /\ writer' = [writer EXCEPT ![w] = call]
      BY <2>2 DEF StoreTypeOK, WriterRecord, ReadBackFails
    <3> HIDE DEF call
    <3> QED
      BY <1>2, <2>0, <3>1
  <2> QED
    BY <1>5, <2>1, <2>2
<1>6. ASSUME NEW w \in Writer, FindKeys(w) PROVE CallsInv'
  <2> DEFINE call == [writer[w] EXCEPT !.phase = "write", !.todo = {k \in Key : db[k] \in writer[w].accepts}]
  <2>1. /\ call.kind = writer[w].kind /\ call.doc = writer[w].doc /\ call.phase = "write"
        /\ call.reading = writer[w].reading /\ writer' = [writer EXCEPT ![w] = call]
    BY <1>6 DEF StoreTypeOK, WriterRecord, FindKeys
  <2> HIDE DEF call
  <2> QED
    BY <1>2, <2>1
<1>7. ASSUME NEW w \in Writer, FindKeysFails(w) \/ Return(w) PROVE CallsInv'
  <2>1. writer' = [writer EXCEPT ![w] = IdleWriter]
    BY <1>7 DEF FindKeysFails, Return
  <2>2. IdleWriter.kind \notin ReadingBack /\ IdleWriter.reading = {}
    BY DEF IdleWriter, ReadingBack
  <2> QED
    BY <2>1, <2>2, CallsOneCall
<1>8. ASSUME NEW w \in Writer, NEW kind \in WriteMethods, NEW ks \in SUBSET Key, NEW d \in State,
             NEW sel \in Selections, Begin(w, kind, ks, d, sel)
      PROVE  CallsInv'
  <2> DEFINE call == NewCall(kind, ks, d, sel)
  <2>1. call.kind = kind /\ call.doc = d /\ call.reading = {} /\ call.phase # "idle"
    BY DEF NewCall
  <2>2. kind \in ReadingBack => d # NoDoc
    BY <1>8 DEF Begin, ReadingBack, Deleting
  <2>3. writer' = [writer EXCEPT ![w] = call]
    BY <1>8 DEF Begin
  <2> HIDE DEF call
  <2> QED
    BY <2>1, <2>2, <2>3, CallsOneCall
<1> QED
  BY <1>1, <1>3, <1>4, <1>5, <1>6, <1>7, <1>8 DEF LocalStep

LEMMA NoticesStep ==
  ASSUME StoreTypeOK, NoticesInv, NEW n \in Notifier,
         \/ \E ks \in SUBSET Key : NotifyChanged(n, ks)
         \/ NotifyFinds(n) \/ NotifyFails(n) \/ EmitChanged(n)
  PROVE  NoticesInv'
<1>1. \/ notifier' = notifier
      \/ \E c : notifier' = [notifier EXCEPT ![n] = c] /\ (c.phase = "idle" => c = IdleNotifier)
  BY DEF NotifyChanged, NotifyFinds, NotifyFails, EmitChanged
<1> QED
  BY <1>1 DEF NoticesInv, StoreTypeOK

\* every step of the store, and every emission, keeps these
LEMMA StoreInvStep ==
  ASSUME StoreInv,
         \/ StoreStep \/ Resync
         \/ \E w \in Writer : Return(w)
         \/ \E n \in Notifier : EmitChanged(n)
  PROVE  StoreInv'
<1> USE DEF StoreInv
<1>1. CASE StoreStep
  <2>1. StoreTypeOK' /\ FreshInv'
    BY <1>1, StoreStepType, FreshStoreStep
  <2>2. CASE LocalStep
    BY <2>1, <2>2, CallsLocalStep DEF NoticesInv, LocalStep, Begin, FindKeys, Commit, Miss,
       CommandFails, FindKeysFails, ReadBack, ReadBackFails
  <2>3. CASE ForeignStep \/ NotifierStep
    <3>1. writer' = writer /\ CallsInv'
      BY <2>3 DEF ForeignStep, NotifierStep, Foreign, NotifyChanged, NotifyFinds, NotifyFails, CallsInv
    <3>2. NoticesInv'
      BY <2>3, NoticesStep DEF ForeignStep, NotifierStep, Foreign, NoticesInv
    <3> QED
      BY <2>1, <3>1, <3>2
  <2> QED
    BY <1>1, <2>2, <2>3 DEF StoreStep
<1>2. CASE Resync
  <2>1. StoreTypeOK'
    BY <1>2 DEF Resync, StoreTypeOK, Workload
  <2>2. FreshInv'
    BY <1>2, FreshFrame DEF Resync
  <2> QED
    BY <1>2, <2>1, <2>2 DEF Resync, CallsInv, NoticesInv
<1>3. ASSUME NEW w \in Writer, Return(w) PROVE StoreInv'
  <2>1. StoreTypeOK' /\ CallsInv'
    BY <1>3, WriterStepType, CallsLocalStep
  <2>2. writer' = [writer EXCEPT ![w] = IdleWriter] /\ UNCHANGED <<db, gaps, notifier>>
    BY <1>3 DEF Return
  <2>3. IdleWriter.states = Nothing /\ IdleWriter.reading = {} /\ IdleWriter.todo = {}
    BY DEF IdleWriter
  <2>4. FreshInv'
    BY <2>2, <2>3, FreshBlank
  <2> QED
    BY <2>1, <2>2, <2>4 DEF NoticesInv
<1>4. ASSUME NEW n \in Notifier, EmitChanged(n) PROVE StoreInv'
  <2>1. StoreTypeOK' /\ NoticesInv'
    BY <1>4, NotifierStepType, NoticesStep
  <2>2. UNCHANGED <<db, writer, gaps>>
    BY <1>4 DEF EmitChanged
  <2> QED
    BY <2>1, <2>2, FreshFrame DEF CallsInv
<1> QED
  BY <1>1, <1>2, <1>3, <1>4

-----------------------------------------------------------------------------
(* What the steps do to it, for a key without a gap *)

LEMMA StatesTyped ==
  ASSUME StoreTypeOK
  PROVE  /\ \A k \in Key : db[k] \in State /\ db[k] # Untouched
         /\ \A w \in Writer : writer[w] \in WriterRecord /\ writer[w].states \in Emitted
         /\ \A n \in Notifier : notifier[n] \in NotifierRecord /\ notifier[n].states \in Emitted
  BY SubscribeStoreAssumption DEF StoreTypeOK, WriterRecord, NotifierRecord, State

\* while somebody listens, a write that is not told already will be
LEMMA CommitTold ==
  ASSUME StoreInv, HasListeners, NEW w \in Writer, NEW j \in Key, Commit(w, j),
         NEW k \in Key, Heard(k)'
  PROVE  /\ Underway(k) => Underway(k)'
         /\ db'[k] = db[k] \/ Underway(k)'
<1> DEFINE call == AfterCommit(writer[w], j, db[j])
<1>0. StoreTypeOK /\ CallsInv /\ writer[w] \in WriterRecord /\ db' = [db EXCEPT ![j] = writer[w].doc]
      /\ writer[w].reading = {} /\ notifier' = notifier
      /\ gaps' = gaps \cup Crossed(Writer \ {w}, j) \cup Silent(w, j)
  BY StatesTyped DEF StoreInv, Commit
<1>1. \A v \in Writer : writer'[v] = IF v = w THEN call ELSE writer[v]
  BY DEF StoreInv, StoreTypeOK, Commit
<1>2. /\ call.reading = IF ReadsBack(writer[w]) THEN {j} ELSE {}
      /\ call.states = IF writer[w].emits /\ ~ReadsBack(writer[w])
                       THEN Record(writer[w].states, j, writer[w].doc) ELSE writer[w].states
  BY <1>0 DEF AfterCommit, WriterRecord
<1>3. writer[w].states \in Emitted
  BY <1>0 DEF WriterRecord
<1> HIDE DEF call
<1>4. CASE k # j
  <2>1. db'[k] = db[k]
    BY <1>0, <1>4 DEF StoreTypeOK
  <2>2. call.states[k] = writer[w].states[k]
    BY <1>2, <1>3, <1>4 DEF Record, Emitted
  <2>3. \A v \in Writer : HeldByCall(v, k) => HeldByCall(v, k)'
    BY <1>0, <1>1, <2>1, <2>2 DEF HeldByCall
  <2>4. \A n \in Notifier : AskedBy(n, k) => AskedBy(n, k)'
    BY <1>0, <2>1 DEF AskedBy
  <2> QED
    BY <2>1, <2>3, <2>4 DEF Underway
<1>5. CASE k = j
  <2>1. <<k, "silent">> \notin gaps'
    BY DEF Heard
  <2>2. writer[w].emits
    BY <1>0, <1>5, <2>1 DEF Silent
  <2>3. db'[k] = writer[w].doc
    BY <1>0, <1>5 DEF StoreTypeOK
  <2>4. CASE ReadsBack(writer[w])
    <3>1. writer[w].doc # NoDoc
      BY <1>0, <2>4 DEF CallsInv, ReadsBack
    <3>2. HeldByCall(w, k)'
      BY <1>1, <1>2, <1>5, <2>3, <2>4, <3>1 DEF HeldByCall
    <3> QED
      BY <3>2 DEF Underway
  <2>5. CASE ~ReadsBack(writer[w])
    <3>1. call.states[k] = writer[w].doc
      BY <1>2, <1>3, <1>5, <2>2, <2>5 DEF Record, Emitted
    <3>2. HeldByCall(w, k)'
      BY <1>1, <2>3, <3>1 DEF HeldByCall
    <3> QED
      BY <3>2 DEF Underway
  <2> QED
    BY <2>4, <2>5
<1> QED
  BY <1>4, <1>5

\* the other steps of a call write no document and forget no change
LEMMA LocalTold ==
  ASSUME StoreInv, HasListeners, LocalStep, NEW k \in Key, Heard(k)'
  PROVE  /\ Underway(k) => Underway(k)'
         /\ db'[k] = db[k] \/ Underway(k)'
         /\ UNCHANGED <<listeners, owed>>
<1>0. StoreTypeOK /\ CallsInv /\ FreshInv /\ UNCHANGED <<listeners, owed>>
  BY DEF StoreInv, LocalStep, Begin, FindKeys, Commit, Miss, CommandFails, FindKeysFails,
     ReadBack, ReadBackFails
<1>1. ASSUME NEW w \in Writer, UNCHANGED <<db, notifier>>,
             \A v \in Writer \ {w} : writer'[v] = writer[v],
             HeldByCall(w, k) => HeldByCall(w, k)'
      PROVE  db'[k] = db[k] /\ (Underway(k) => Underway(k)')
  <2>1. \A v \in Writer : HeldByCall(v, k) => HeldByCall(v, k)'
    BY <1>1 DEF HeldByCall
  <2>2. \A n \in Notifier : AskedBy(n, k) => AskedBy(n, k)'
    BY <1>1 DEF AskedBy
  <2> QED
    BY <1>1, <2>1, <2>2 DEF Underway
<1>2. ASSUME NEW w \in Writer, NEW call, writer' = [writer EXCEPT ![w] = call], UNCHANGED <<db, notifier>>,
             call.states = writer[w].states, call.reading = writer[w].reading
      PROVE  db'[k] = db[k] /\ (Underway(k) => Underway(k)')
  <2>1. \A v \in Writer : writer'[v] = IF v = w THEN call ELSE writer[v]
    BY <1>0, <1>2 DEF StoreTypeOK
  <2>2. HeldByCall(w, k) => HeldByCall(w, k)'
    BY <1>2, <2>1 DEF HeldByCall
  <2> QED
    BY <1>1, <1>2, <2>1, <2>2
<1>3. ASSUME NEW w \in Writer, NEW j \in Key, Miss(w, j) \/ CommandFails(w, j)
      PROVE  db'[k] = db[k] /\ (Underway(k) => Underway(k)')
  <2> DEFINE todo == IF Miss(w, j) THEN writer[w].todo \ {j}
                     ELSE IF writer[w].kind \in Many THEN {} ELSE writer[w].todo \ {j}
             call == [writer[w] EXCEPT !.todo = todo]
  <2>1. writer' = [writer EXCEPT ![w] = call] /\ UNCHANGED <<db, notifier>>
    BY <1>3 DEF Miss, CommandFails
  <2>2. call.states = writer[w].states /\ call.reading = writer[w].reading
    BY <1>0, StatesTyped DEF WriterRecord
  <2> HIDE DEF call
  <2> QED
    BY <1>2, <2>1, <2>2
<1>4. ASSUME NEW w \in Writer, NEW j \in Key, ReadBack(w, j)
      PROVE  db'[k] = db[k] /\ (Underway(k) => Underway(k)')
  <2> DEFINE states == IF db[j] = NoDoc THEN writer[w].states ELSE Record(writer[w].states, j, db[j])
             call == [writer[w] EXCEPT !.reading = {}, !.states = states]
  <2>1. writer' = [writer EXCEPT ![w] = call] /\ UNCHANGED <<db, notifier>>
    BY <1>4 DEF ReadBack, NextReadBack
  <2>2. call.states = states /\ call.reading = {} /\ writer[w].states \in Emitted
    BY <1>0, StatesTyped DEF WriterRecord
  <2>3. \A v \in Writer : writer'[v] = IF v = w THEN call ELSE writer[v]
    BY <1>0, <2>1 DEF StoreTypeOK
  <2>4. /\ states[j] = IF db[j] = NoDoc THEN writer[w].states[j] ELSE db[j]
        /\ k # j => states[k] = writer[w].states[k]
    BY <2>2 DEF Record, Emitted
  <2>5. k \in writer[w].reading => k = j
    BY <1>0, <1>4 DEF ReadBack, CallsInv
  <2> HIDE DEF call, states
  <2>6. HeldByCall(w, k) => HeldByCall(w, k)'
    BY <2>1, <2>2, <2>3, <2>4, <2>5 DEF HeldByCall
  <2> QED
    BY <1>1, <2>1, <2>3, <2>6
<1>5. ASSUME NEW w \in Writer, NEW j \in Key, ReadBackFails(w, j)
      PROVE  db'[k] = db[k] /\ (Underway(k) => Underway(k)')
  <2> DEFINE call == [writer[w] EXCEPT !.reading = {}, !.todo = {}]
  <2>1. writer' = [writer EXCEPT ![w] = call] /\ UNCHANGED <<db, notifier>>
    BY <1>5 DEF ReadBackFails
  <2>2. call.states = writer[w].states
    BY <1>0, StatesTyped DEF WriterRecord
  <2>3. \A v \in Writer : writer'[v] = IF v = w THEN call ELSE writer[v]
    BY <1>0, <2>1 DEF StoreTypeOK
  <2>4. k \notin writer[w].reading
    BY <1>0, <1>5 DEF ReadBackFails, CallsInv, Heard
  <2> HIDE DEF call
  <2>5. HeldByCall(w, k) => HeldByCall(w, k)'
    BY <2>1, <2>2, <2>3, <2>4 DEF HeldByCall
  <2> QED
    BY <1>1, <2>1, <2>3, <2>5
<1>6. ASSUME NEW w \in Writer, writer[w].phase # "write", UNCHANGED <<db, notifier>>,
             \A v \in Writer \ {w} : writer'[v] = writer[v]
      PROVE  db'[k] = db[k] /\ (Underway(k) => Underway(k)')
  <2>1. writer[w].states = Nothing /\ writer[w].reading = {}
    BY <1>0, <1>6 DEF FreshInv, CallInv
  <2>2. ~HeldByCall(w, k)
    BY <1>0, <2>1, StatesTyped DEF HeldByCall, Nothing
  <2> QED
    BY <1>1, <1>6, <2>2
<1>7. ASSUME NEW w \in Writer, FindKeys(w) \/ FindKeysFails(w)
      PROVE  db'[k] = db[k] /\ (Underway(k) => Underway(k)')
  BY <1>0, <1>6, <1>7 DEF FindKeys, FindKeysFails, StoreTypeOK
<1>8. ASSUME NEW w \in Writer, NEW kind \in WriteMethods, NEW ks \in SUBSET Key, NEW d \in State,
             NEW sel \in Selections, Begin(w, kind, ks, d, sel)
      PROVE  db'[k] = db[k] /\ (Underway(k) => Underway(k)')
  BY <1>0, <1>6, <1>8 DEF Begin, StoreTypeOK
<1> QED
  BY <1>0, <1>3, <1>4, <1>5, <1>7, <1>8, CommitTold DEF LocalStep

\* a key that is notified is asked for; no notification is forgotten
LEMMA NotifyTold ==
  ASSUME StoreInv, HasListeners, NEW n \in Notifier, NEW k \in Key, Heard(k)',
         \/ \E ks \in SUBSET Key : NotifyChanged(n, ks)
         \/ NotifyFinds(n) \/ NotifyFails(n)
  PROVE  /\ Underway(k) => Underway(k)'
         /\ k \in owed => k \in owed' \/ Underway(k)'
         /\ UNCHANGED <<db, listeners>>
<1>0. StoreTypeOK /\ NoticesInv /\ db[k] # Untouched /\ UNCHANGED <<db, listeners, writer>>
  BY StatesTyped DEF StoreInv, NotifyChanged, NotifyFinds, NotifyFails
<1>1. \A v \in Writer : HeldByCall(v, k) => HeldByCall(v, k)'
  BY <1>0 DEF HeldByCall
<1>2. ASSUME \A m \in Notifier \ {n} : notifier'[m] = notifier[m], AskedBy(n, k) => AskedBy(n, k)'
      PROVE  Underway(k) => Underway(k)'
  <2>1. \A m \in Notifier : AskedBy(m, k) => AskedBy(m, k)'
    BY <1>0, <1>2 DEF AskedBy
  <2> QED
    BY <1>1, <2>1 DEF Underway
<1>3. ASSUME NEW ks \in SUBSET Key, NotifyChanged(n, ks)
      PROVE  (Underway(k) => Underway(k)') /\ (k \in owed => k \in owed' \/ Underway(k)')
  <2> DEFINE asked == [phase |-> "asked", states |-> [i \in Key |-> IF i \in ks THEN NoDoc ELSE Untouched]]
  <2>1. /\ \A m \in Notifier : notifier'[m] = IF m = n THEN asked ELSE notifier[m]
        /\ owed' = owed \ ks
    BY <1>0, <1>3 DEF NotifyChanged, StoreTypeOK
  <2>2. ~AskedBy(n, k)
    <3>1. notifier[n].states = Nothing
      BY <1>0, <1>3 DEF NotifyChanged, NoticesInv, IdleNotifier
    <3>2. k \notin KeysOf(Nothing)
      BY DEF KeysOf, Nothing
    <3> QED
      BY <3>1, <3>2 DEF AskedBy
  <2>3. k \in ks => AskedBy(n, k)'
    <3>1. asked.phase = "asked" /\ (k \in ks => asked.states[k] = NoDoc)
      OBVIOUS
    <3>2. notifier'[n] = asked
      BY <2>1
    <3> HIDE DEF asked
    <3> QED
      BY <3>1, <3>2, SubscribeStoreAssumption DEF AskedBy, KeysOf, State
  <2> QED
    BY <1>2, <2>1, <2>2, <2>3 DEF Underway
<1>4. CASE NotifyFinds(n)
  <2> DEFINE found == [i \in Key |-> IF i \in KeysOf(notifier[n].states) THEN db[i] ELSE Untouched]
  <2>1. /\ \A m \in Notifier : notifier'[m] =
             IF m = n THEN [phase |-> "read", states |-> found] ELSE notifier[m]
        /\ owed' = owed
    BY <1>0, <1>4 DEF NotifyFinds, StoreTypeOK
  <2>2. k \in KeysOf(notifier[n].states) => found[k] = db[k]
    OBVIOUS
  <2> HIDE DEF found
  <2>3. AskedBy(n, k) => AskedBy(n, k)'
    <3>1. notifier'[n].phase = "read" /\ notifier'[n].states = found
      BY <2>1
    <3>2. k \in KeysOf(notifier[n].states) => k \in KeysOf(found)
      BY <1>0, <2>2 DEF KeysOf
    <3> QED
      BY <1>0, <2>2, <3>1, <3>2 DEF AskedBy
  <2> QED
    BY <1>0, <1>2, <2>1, <2>3
<1>5. CASE NotifyFails(n)
  <2>1. /\ \A m \in Notifier \ {n} : notifier'[m] = notifier[m]
        /\ owed' = owed
    BY <1>0, <1>5 DEF NotifyFails, StoreTypeOK
  <2>2. ~AskedBy(n, k)
    <3>1. <<k, "lost">> \notin gaps'
      BY DEF Heard
    <3>2. k \notin KeysOf(notifier[n].states)
      BY <1>5, <3>1 DEF NotifyFails
    <3> QED
      BY <3>2 DEF AskedBy
  <2> QED
    BY <1>0, <1>2, <2>1, <2>2
<1> QED
  BY <1>0, <1>3, <1>4, <1>5

\* a write of the other process is owed
LEMMA ForeignTold ==
  ASSUME StoreInv, NEW j \in Key, NEW s \in State, Foreign(j, s), NEW k \in Key
  PROVE  /\ k # j => db'[k] = db[k] /\ (Underway(k) => Underway(k)')
         /\ owed' = owed \cup {j} /\ UNCHANGED listeners
<1>1. k # j => db'[k] = db[k]
  BY DEF Foreign, StoreInv, StoreTypeOK
<1>2. UNCHANGED <<writer, notifier, listeners>> /\ owed' = owed \cup {j}
  BY DEF Foreign
<1> QED
  BY <1>1, <1>2 DEF Underway, AskedBy, HeldByCall

\* a call that returns tells what it holds
LEMMA ReturnTold ==
  ASSUME StoreInv, NEW w \in Writer, Return(w), NEW k \in Key
  PROVE  /\ Underway(k) => Underway(k)' \/ writer[w].states[k] = db[k]
         /\ UNCHANGED <<db, listeners, owed, gaps>>
<1>1. \A v \in Writer \ {w} : writer'[v] = writer[v]
  BY DEF Return, StoreInv, StoreTypeOK
<1>2. writer[w].reading = {} /\ UNCHANGED <<db, listeners, owed, gaps, notifier>>
  BY DEF Return, CallSettled
<1> QED
  BY <1>1, <1>2 DEF Underway, AskedBy, HeldByCall

\* a notification that is emitted tells what it found
LEMMA ChangedTold ==
  ASSUME StoreInv, NEW n \in Notifier, EmitChanged(n), NEW k \in Key
  PROVE  /\ Underway(k) => \/ Underway(k)'
                           \/ k \in KeysOf(notifier[n].states) /\ notifier[n].states[k] = db[k]
         /\ UNCHANGED <<db, listeners, owed, gaps>>
<1>1. \A m \in Notifier \ {n} : notifier'[m] = notifier[m]
  BY DEF EmitChanged, StoreInv, StoreTypeOK
<1>2. notifier[n].phase = "read" /\ UNCHANGED <<db, listeners, owed, gaps, writer>>
  BY DEF EmitChanged
<1> QED
  BY <1>1, <1>2 DEF Underway, AskedBy, HeldByCall


\* what was not promised is not promised later
LEMMA GapsGrow == StoreStep => gaps \subseteq gaps'
  BY DEF StoreStep, LocalStep, ForeignStep, NotifierStep, Begin, FindKeys, Commit, Miss, CommandFails,
     FindKeysFails, ReadBack, ReadBackFails, Foreign, NotifyChanged, NotifyFinds, NotifyFails

\* the steps of the store together
LEMMA StoreTells ==
  ASSUME StoreInv, HasListeners, StoreStep, NEW k \in Key, Heard(k)'
  PROVE  /\ k \in owed \/ Underway(k) => k \in owed' \/ Underway(k)'
         /\ db'[k] = db[k] \/ k \in owed' \/ Underway(k)'
         /\ UNCHANGED listeners
<1>1. CASE LocalStep
  BY <1>1, LocalTold
<1>2. ASSUME NEW j \in Key, NEW s \in State, Foreign(j, s)
      PROVE  /\ k \in owed \/ Underway(k) => k \in owed' \/ Underway(k)'
             /\ db'[k] = db[k] \/ k \in owed' \/ Underway(k)'
             /\ UNCHANGED listeners
  BY <1>2, ForeignTold
<1>3. ASSUME NEW n \in Notifier,
             \/ \E ks \in SUBSET Key : NotifyChanged(n, ks)
             \/ NotifyFinds(n) \/ NotifyFails(n)
      PROVE  /\ k \in owed \/ Underway(k) => k \in owed' \/ Underway(k)'
             /\ UNCHANGED <<db, listeners>>
  BY <1>3, NotifyTold
<1> QED
  BY <1>1, <1>2, <1>3 DEF StoreStep, ForeignStep, NotifierStep

-----------------------------------------------------------------------------
(* Insertions, and the changes of what was stored *)

\* An insertion is of one key that was not stored, what is read back is an update,
\* and a deletion tells that nothing is stored.
MethodOf(call) ==
    /\ call.type = "inserted" =>
          /\ call.kind \in EmittingAlways
          /\ call.kind = "upsertOne" => call.todo = {}
    /\ call.kind \in EmittingAlways => \A j, k \in call.todo \cup KeysOf(call.states) : j = k
    /\ call.kind = "insertOne" => call.accepts = {NoDoc}
    /\ call.kind \in ReadingBack => call.type = "updated"
    /\ call.reading # {} => call.kind \in ReadingBack
    /\ call.phase = "keys" => call.kind \in Many
    /\ call.type = "deleted" =>
          call.doc = NoDoc /\ \A k \in KeysOf(call.states) : call.states[k] = NoDoc
MethodsInv == \A w \in Writer : MethodOf(writer[w])

\* what an emission says, by its type
OneStory(a) ==
    /\ a.type = "inserted" => \A j, k \in KeysOf(a.states) : j = k
    /\ a.type = "deleted" => \A k \in KeysOf(a.states) : a.states[k] = NoDoc

LEMMA EmissionsStory ==
  ASSUME MethodsInv
  PROVE  /\ \A w \in Writer : OneStory(WrittenAction(w))
         /\ \A n \in Notifier : OneStory(ChangedAction(n))
         /\ OneStory(ResyncAction)
  BY DEF MethodsInv, MethodOf, OneStory, WrittenAction, ChangedAction, ResyncAction

LEMMA IdleMethod == MethodOf(IdleWriter)
  BY DEF MethodOf, IdleWriter, EmittingAlways, ReadingBack

\* a step that changes the call of one writer only
LEMMA MethodsOneCall ==
  ASSUME StoreTypeOK, MethodsInv, NEW w \in Writer, NEW call, MethodOf(call),
         writer' = [writer EXCEPT ![w] = call]
  PROVE  MethodsInv'
<1>1. \A v \in Writer : writer'[v] = IF v = w THEN call ELSE writer[v]
  BY DEF StoreTypeOK
<1> QED
  BY <1>1 DEF MethodsInv, MethodOf, KeysOf

\* a new call tells what its method says
LEMMA NewMethod ==
  ASSUME IsFiniteSet(Key), NEW w \in Writer, NEW kind \in WriteMethods, NEW ks \in SUBSET Key,
         NEW d \in State, NEW sel, Begin(w, kind, ks, d, sel)
  PROVE  MethodOf(NewCall(kind, ks, d, sel))
<1> DEFINE call == NewCall(kind, ks, d, sel)
<1>1. /\ call.kind = kind /\ call.todo = ks /\ call.reading = {} /\ call.doc = d
      /\ call.states = Nothing /\ call.accepts = Accepted(kind, sel)
      /\ call.phase = "keys" => kind \in Many
      /\ call.type = IF kind = "insertOne" THEN "inserted"
                     ELSE IF kind \in Deleting THEN "deleted" ELSE "updated"
  BY DEF NewCall, Deleting
<1> HIDE DEF call
<1>2. KeysOf(call.states) = {}
  BY <1>1 DEF KeysOf, Nothing
<1>3. ASSUME kind \in OfOneKey PROVE \A j, k \in ks : j = k
  <2>1. IsFiniteSet(ks) /\ Cardinality(ks) = 1
    BY <1>3, FS_Subset DEF Begin
  <2>2. PICK x : ks = {x}
    BY <2>1, FS_Singleton
  <2> QED
    BY <2>2
<1>4. kind \in Deleting => d = NoDoc
  BY DEF Begin
<1>5. kind = "insertOne" => call.accepts = {NoDoc}
  BY <1>1 DEF Accepted, Many
<1> QED
  BY <1>1, <1>2, <1>3, <1>4, <1>5
     DEF MethodOf, EmittingAlways, OfOneKey, ReadingBack, Deleting, call

\* so does a call that has written a document
LEMMA CommitMethod ==
  ASSUME NEW call \in WriterRecord, MethodOf(call), NEW k \in Key, k \in call.todo, NEW stored
  PROVE  MethodOf(AfterCommit(call, k, stored))
<1> DEFINE after == AfterCommit(call, k, stored)
           states == IF call.emits /\ ~ReadsBack(call) THEN Record(call.states, k, call.doc)
                     ELSE call.states
<1>1. /\ after.kind = call.kind /\ after.phase = call.phase /\ after.todo = call.todo \ {k} /\ after.doc = call.doc
      /\ after.accepts = call.accepts /\ after.states = states
      /\ after.reading = IF ReadsBack(call) THEN {k} ELSE {}
      /\ after.type = IF call.kind = "upsertOne" /\ stored = NoDoc THEN "inserted" ELSE call.type
  BY DEF AfterCommit, WriterRecord
<1>2. call.states \in Emitted
  BY DEF WriterRecord
<1>3. \A j \in Key : states[j] = call.states[j] \/ (j = k /\ states[j] = call.doc)
  BY <1>2 DEF Record, Emitted
<1>4. KeysOf(states) \subseteq KeysOf(call.states) \cup {k}
  BY <1>3 DEF KeysOf
<1> HIDE DEF after, states
<1>5. after.type = "inserted" =>
         after.kind \in EmittingAlways /\ (after.kind = "upsertOne" => after.todo = {})
  BY <1>1 DEF MethodOf, EmittingAlways
<1>6. after.kind \in EmittingAlways =>
         \A i, j \in after.todo \cup KeysOf(after.states) : i = j
  BY <1>1, <1>4 DEF MethodOf
<1>7. after.reading # {} => after.kind \in ReadingBack
  BY <1>1 DEF ReadsBack
<1>8. after.kind \in ReadingBack => after.type = "updated"
  BY <1>1 DEF MethodOf, ReadingBack
<1>9. after.type = "deleted" =>
         after.doc = NoDoc /\ \A j \in KeysOf(after.states) : after.states[j] = NoDoc
  BY <1>1, <1>3 DEF MethodOf, KeysOf
<1> QED
  BY <1>1, <1>5, <1>6, <1>7, <1>8, <1>9 DEF MethodOf, after

LEMMA MethodsStep ==
  ASSUME IsFiniteSet(Key), StoreTypeOK, MethodsInv,
         \/ StoreStep \/ Resync
         \/ \E w \in Writer : Return(w)
         \/ \E n \in Notifier : EmitChanged(n)
  PROVE  MethodsInv'
<1>1. ASSUME NEW w \in Writer, NEW k \in Key, Commit(w, k) PROVE MethodsInv'
  <2>1. MethodOf(AfterCommit(writer[w], k, db[k]))
    BY <1>1, StatesTyped, CommitMethod DEF Commit, MethodsInv
  <2> QED
    BY <1>1, <2>1, MethodsOneCall DEF Commit
<1>2. ASSUME NEW w \in Writer, NEW todo, todo \subseteq writer[w].todo,
             writer' = [writer EXCEPT ![w].todo = todo]
      PROVE  MethodsInv'
  <2> DEFINE call == [writer[w] EXCEPT !.todo = todo]
  <2>1. MethodOf(call)
    <3>1. MethodOf(writer[w]) /\ writer[w] \in WriterRecord
      BY StatesTyped DEF MethodsInv
    <3>2. /\ call.kind = writer[w].kind /\ call.todo = todo /\ call.doc = writer[w].doc
          /\ call.accepts = writer[w].accepts /\ call.states = writer[w].states
          /\ call.reading = writer[w].reading /\ call.type = writer[w].type
          /\ call.phase = writer[w].phase
      BY <3>1 DEF WriterRecord
    <3> HIDE DEF call
    <3> QED
      BY <1>2, <3>1, <3>2 DEF MethodOf
  <2>2. writer' = [writer EXCEPT ![w] = call]
    BY <1>2
  <2> HIDE DEF call
  <2> QED
    BY <2>1, <2>2, MethodsOneCall
<1>3. ASSUME NEW w \in Writer, NEW k \in Key, Miss(w, k) \/ CommandFails(w, k) PROVE MethodsInv'
  <2>1. \E todo \in SUBSET writer[w].todo : writer' = [writer EXCEPT ![w].todo = todo]
    BY <1>3 DEF Miss, CommandFails
  <2> QED
    BY <1>2, <2>1
<1>4. ASSUME NEW w \in Writer, NEW k \in Key, ReadBack(w, k) \/ ReadBackFails(w, k) PROVE MethodsInv'
  <2>1. /\ writer[w].kind \in ReadingBack /\ writer[w].type = "updated" /\ writer[w] \in WriterRecord
        /\ writer[w].phase = "keys" => writer[w].kind \in Many
    BY <1>4, StatesTyped DEF ReadBack, ReadBackFails, MethodsInv, MethodOf
  <2>2. PICK call : /\ writer' = [writer EXCEPT ![w] = call]
                    /\ call.kind = writer[w].kind /\ call.type = writer[w].type
                    /\ call.phase = writer[w].phase /\ call.reading = {}
    <3>1. CASE ReadBack(w, k)
      <4> DEFINE states == IF db[k] = NoDoc THEN writer[w].states ELSE Record(writer[w].states, k, db[k])
                 call == [writer[w] EXCEPT !.reading = {}, !.states = states]
      <4>1. writer' = [writer EXCEPT ![w] = call]
        BY <3>1 DEF ReadBack, NextReadBack
      <4>2. call.kind = writer[w].kind /\ call.type = writer[w].type /\ call.reading = {}
              /\ call.phase = writer[w].phase
        BY <2>1 DEF WriterRecord
      <4> HIDE DEF call
      <4> QED
        BY <4>1, <4>2
    <3>2. CASE ReadBackFails(w, k)
      <4> DEFINE call == [writer[w] EXCEPT !.reading = {}, !.todo = {}]
      <4>1. writer' = [writer EXCEPT ![w] = call]
        BY <3>2 DEF ReadBackFails
      <4>2. call.kind = writer[w].kind /\ call.type = writer[w].type /\ call.reading = {}
              /\ call.phase = writer[w].phase
        BY <2>1 DEF WriterRecord
      <4> HIDE DEF call
      <4> QED
        BY <4>1, <4>2
    <3> QED
      BY <1>4, <3>1, <3>2
  <2>3. MethodOf(call)
    BY <2>1, <2>2 DEF MethodOf, EmittingAlways, ReadingBack
  <2> QED
    BY <2>2, <2>3, MethodsOneCall
<1>5. ASSUME NEW w \in Writer, FindKeysFails(w) \/ Return(w) PROVE MethodsInv'
  BY <1>5, IdleMethod, MethodsOneCall DEF FindKeysFails, Return
<1>6. ASSUME NEW w \in Writer, NEW kind \in WriteMethods, NEW ks \in SUBSET Key, NEW d \in State,
             NEW sel \in Selections, Begin(w, kind, ks, d, sel)
      PROVE  MethodsInv'
  <2>1. MethodOf(NewCall(kind, ks, d, sel))
    BY <1>6, NewMethod
  <2> QED
    BY <1>6, <2>1, MethodsOneCall DEF Begin
<1>7. ASSUME UNCHANGED writer PROVE MethodsInv'
  BY <1>7 DEF MethodsInv, MethodOf, KeysOf
<1>8. ASSUME NEW w \in Writer, FindKeys(w) PROVE MethodsInv'
  <2> DEFINE call == [writer[w] EXCEPT !.phase = "write", !.todo = {k \in Key : db[k] \in writer[w].accepts}]
  <2>1. writer[w].kind \in Many /\ MethodOf(writer[w]) /\ writer[w] \in WriterRecord
    BY <1>8, StatesTyped DEF FindKeys, MethodsInv, MethodOf
  <2>2. /\ call.kind = writer[w].kind /\ call.doc = writer[w].doc /\ call.phase = "write"
        /\ call.states = writer[w].states
        /\ call.reading = writer[w].reading /\ call.type = writer[w].type
    BY <2>1 DEF WriterRecord
  <2>3. writer' = [writer EXCEPT ![w] = call]
    BY <1>8 DEF FindKeys
  <2> HIDE DEF call
  <2>4. MethodOf(call)
    BY <2>1, <2>2 DEF MethodOf, EmittingAlways, Many
  <2> QED
    BY <2>3, <2>4, MethodsOneCall
<1> QED
  BY <1>1, <1>3, <1>4, <1>5, <1>6, <1>7, <1>8
     DEF StoreStep, LocalStep, ForeignStep, NotifierStep, Foreign, NotifyChanged, NotifyFinds,
         NotifyFails, EmitChanged, Resync


\* what was stored under k has changed, and a notification or a call that inserts
\* nothing is to tell so
Stirs(w, k) ==
    \/ writer[w].type # "inserted" /\ writer[w].states[k] # Untouched
    \/ k \in writer[w].reading /\ db[k] # NoDoc
Stirred(k) ==
    \/ \E n \in Notifier : k \in KeysOf(notifier[n].states)
    \/ \E w \in Writer : Stirs(w, k)

\* a write of what was stored is told by its call
LEMMA CommitStirs ==
  ASSUME StoreInv, MethodsInv, HasListeners, NEW w \in Writer, NEW j \in Key, Commit(w, j),
         NEW k \in Key, Heard(k)'
  PROVE  /\ Stirred(k) => Stirred(k)'
         /\ db[k] # NoDoc => db'[k] = db[k] \/ Stirred(k)'
<1> DEFINE call == AfterCommit(writer[w], j, db[j])
<1>0. /\ StoreTypeOK /\ CallsInv /\ writer[w] \in WriterRecord /\ MethodOf(writer[w])
      /\ db' = [db EXCEPT ![j] = writer[w].doc]
      /\ writer[w].reading = {} /\ notifier' = notifier
      /\ gaps' = gaps \cup Crossed(Writer \ {w}, j) \cup Silent(w, j)
      /\ j \in writer[w].todo /\ db[j] \in writer[w].accepts
  BY StatesTyped DEF StoreInv, MethodsInv, Commit
<1>1. \A v \in Writer : writer'[v] = IF v = w THEN call ELSE writer[v]
  BY DEF StoreInv, StoreTypeOK, Commit
<1>2. /\ call.reading = IF ReadsBack(writer[w]) THEN {j} ELSE {}
      /\ call.states = IF writer[w].emits /\ ~ReadsBack(writer[w])
                       THEN Record(writer[w].states, j, writer[w].doc) ELSE writer[w].states
      /\ call.type = IF writer[w].kind = "upsertOne" /\ db[j] = NoDoc THEN "inserted" ELSE writer[w].type
  BY <1>0 DEF AfterCommit, WriterRecord
<1>3. writer[w].states \in Emitted /\ writer[w].doc \in State
  BY <1>0 DEF WriterRecord
<1> HIDE DEF call
<1>4. writer[w].kind = "upsertOne" => \A i \in Key : writer[w].states[i] # Untouched => i = j
  BY <1>0 DEF MethodOf, EmittingAlways, KeysOf
<1>5. ASSUME k = j, db[k] # NoDoc PROVE Stirred(k)'
  <2>1. writer[w].emits
    BY <1>0, <1>5 DEF Silent, Heard
  <2>2. db'[k] = writer[w].doc
    BY <1>0, <1>5 DEF StoreTypeOK
  <2>3. CASE ReadsBack(writer[w])
    <3>1. writer[w].doc # NoDoc
      BY <1>0, <2>3 DEF CallsInv, ReadsBack
    <3>2. Stirs(w, k)'
      BY <1>1, <1>2, <1>5, <2>2, <2>3, <3>1 DEF Stirs
    <3> QED
      BY <3>2 DEF Stirred
  <2>4. CASE ~ReadsBack(writer[w])
    <3>1. call.states[k] = writer[w].doc
      BY <1>2, <1>3, <1>5, <2>1, <2>4 DEF Record, Emitted
    <3>2. writer[w].kind # "insertOne"
      BY <1>0, <1>5 DEF MethodOf
    <3>3. writer[w].type # "inserted"
      BY <1>0, <3>2 DEF MethodOf, EmittingAlways
    <3>4. call.type # "inserted" /\ call.states[k] # Untouched
      BY <1>2, <1>3, <1>5, <3>1, <3>3, SubscribeStoreAssumption DEF State
    <3>5. Stirs(w, k)'
      BY <1>1, <3>4 DEF Stirs
    <3> QED
      BY <3>5 DEF Stirred
  <2> QED
    BY <2>3, <2>4
<1>6. ASSUME ~(k = j /\ db[k] # NoDoc) PROVE Stirred(k) => Stirred(k)'
  <2>1. k # j => db'[k] = db[k]
    BY <1>0 DEF StoreTypeOK
  <2>2. \A v \in Writer \ {w} : Stirs(v, k) => Stirs(v, k)'
    BY <1>1, <1>6, <2>1 DEF Stirs
  <2>3. Stirs(w, k) => Stirs(w, k)'
    <3>1. ASSUME Stirs(w, k)
          PROVE  call.type # "inserted" /\ call.states[k] # Untouched
      <4>1. writer[w].type # "inserted" /\ writer[w].states[k] # Untouched
        BY <1>0, <3>1 DEF Stirs
      <4>2. k # j => call.states[k] = writer[w].states[k]
        BY <1>2, <1>3 DEF Record, Emitted
      <4>3. k = j => call.states[k] # Untouched
        BY <1>2, <1>3, <4>1, SubscribeStoreAssumption DEF Record, Emitted, State
      <4>4. writer[w].kind # "upsertOne" \/ k = j
        BY <1>4, <4>1
      <4>5. CASE k # j
        BY <1>2, <4>1, <4>2, <4>4, <4>5
      <4>6. CASE k = j
        <5>1. writer[w].states[j] = Untouched
          BY <1>0 DEF StoreInv, FreshInv, CallInv
        <5> QED
          BY <4>1, <4>6, <5>1
      <4> QED
        BY <4>5, <4>6
    <3> QED
      BY <1>1, <3>1 DEF Stirs
  <2>4. \A n \in Notifier : notifier'[n] = notifier[n]
    BY <1>0
  <2> QED
    BY <2>2, <2>3, <2>4 DEF Stirred, KeysOf
<1>7. k # j => db'[k] = db[k]
  BY <1>0 DEF StoreTypeOK
<1> QED
  BY <1>5, <1>6, <1>7


LEMMA LocalStirs ==
  ASSUME StoreInv, MethodsInv, HasListeners, LocalStep, NEW k \in Key, Heard(k)'
  PROVE  /\ Stirred(k) => Stirred(k)'
         /\ db[k] # NoDoc => db'[k] = db[k] \/ Stirred(k)'
<1>0. StoreTypeOK /\ CallsInv /\ FreshInv /\ MethodsInv
  BY DEF StoreInv
<1>1. ASSUME NEW w \in Writer, NEW call, writer' = [writer EXCEPT ![w] = call],
             UNCHANGED <<db, notifier>>,
             Stirs(w, k) => \/ call.type # "inserted" /\ call.states[k] # Untouched
                            \/ k \in call.reading /\ db[k] # NoDoc
      PROVE  db'[k] = db[k] /\ (Stirred(k) => Stirred(k)')
  <2>1. \A v \in Writer : writer'[v] = IF v = w THEN call ELSE writer[v]
    BY <1>0, <1>1 DEF StoreTypeOK
  <2>2. \A v \in Writer : Stirs(v, k) => Stirs(v, k)'
    BY <1>1, <2>1 DEF Stirs
  <2>3. \A n \in Notifier : notifier'[n] = notifier[n]
    BY <1>1
  <2> QED
    BY <1>1, <2>2, <2>3 DEF Stirred, KeysOf
<1>2. ASSUME NEW w \in Writer, NEW j \in Key, Miss(w, j) \/ CommandFails(w, j)
      PROVE  db'[k] = db[k] /\ (Stirred(k) => Stirred(k)')
  <2> DEFINE todo == IF Miss(w, j) THEN writer[w].todo \ {j}
                     ELSE IF writer[w].kind \in Many THEN {} ELSE writer[w].todo \ {j}
             call == [writer[w] EXCEPT !.todo = todo]
  <2>1. writer' = [writer EXCEPT ![w] = call] /\ UNCHANGED <<db, notifier>>
    BY <1>2 DEF Miss, CommandFails
  <2>2. call.states = writer[w].states /\ call.reading = writer[w].reading /\ call.type = writer[w].type
    BY <1>0, StatesTyped DEF WriterRecord
  <2> HIDE DEF call
  <2> QED
    BY <1>1, <2>1, <2>2 DEF Stirs
<1>3. ASSUME NEW w \in Writer, NEW j \in Key, ReadBack(w, j)
      PROVE  db'[k] = db[k] /\ (Stirred(k) => Stirred(k)')
  <2> DEFINE states == IF db[j] = NoDoc THEN writer[w].states ELSE Record(writer[w].states, j, db[j])
             call == [writer[w] EXCEPT !.reading = {}, !.states = states]
  <2>1. writer' = [writer EXCEPT ![w] = call] /\ UNCHANGED <<db, notifier>>
    BY <1>3 DEF ReadBack, NextReadBack
  <2>2. /\ call.states = states /\ call.reading = {} /\ call.type = writer[w].type
        /\ writer[w].states \in Emitted
    BY <1>0, StatesTyped DEF WriterRecord
  <2>3. writer[w].type # "inserted"
    BY <1>0, <1>3 DEF ReadBack, MethodsInv, MethodOf
  <2>4. /\ states[j] = IF db[j] = NoDoc THEN writer[w].states[j] ELSE db[j]
        /\ k # j => states[k] = writer[w].states[k]
    BY <2>2 DEF Record, Emitted
  <2>5. k \in writer[w].reading => k = j
    BY <1>0, <1>3 DEF ReadBack, CallsInv
  <2>6. db[j] # Untouched
    BY <1>0, StatesTyped
  <2> HIDE DEF call, states
  <2>7. Stirs(w, k) => call.type # "inserted" /\ call.states[k] # Untouched
    BY <2>2, <2>3, <2>4, <2>5, <2>6 DEF Stirs
  <2> QED
    BY <1>1, <2>1, <2>7
<1>4. ASSUME NEW w \in Writer, NEW j \in Key, ReadBackFails(w, j)
      PROVE  db'[k] = db[k] /\ (Stirred(k) => Stirred(k)')
  <2> DEFINE call == [writer[w] EXCEPT !.reading = {}, !.todo = {}]
  <2>1. writer' = [writer EXCEPT ![w] = call] /\ UNCHANGED <<db, notifier>>
    BY <1>4 DEF ReadBackFails
  <2>2. call.states = writer[w].states /\ call.type = writer[w].type
    BY <1>0, StatesTyped DEF WriterRecord
  <2>3. k \notin writer[w].reading
    BY <1>0, <1>4 DEF ReadBackFails, CallsInv, Heard
  <2> HIDE DEF call
  <2> QED
    BY <1>1, <2>1, <2>2, <2>3 DEF Stirs
<1>5. ASSUME NEW w \in Writer, writer[w].phase # "write"
      PROVE  ~Stirs(w, k)
  <2>1. writer[w].states = Nothing /\ writer[w].reading = {}
    BY <1>0, <1>5 DEF FreshInv, CallInv
  <2> QED
    BY <2>1 DEF Stirs, Nothing
<1>6. ASSUME NEW w \in Writer, FindKeys(w) \/ FindKeysFails(w)
      PROVE  db'[k] = db[k] /\ (Stirred(k) => Stirred(k)')
  <2>1. UNCHANGED <<db, notifier>> /\ ~Stirs(w, k)
    BY <1>5, <1>6 DEF FindKeys, FindKeysFails
  <2>2. \E call : writer' = [writer EXCEPT ![w] = call]
    BY <1>6 DEF FindKeys, FindKeysFails
  <2> QED
    BY <1>1, <2>1, <2>2
<1>7. ASSUME NEW w \in Writer, NEW kind \in WriteMethods, NEW ks \in SUBSET Key, NEW d \in State,
             NEW sel \in Selections, Begin(w, kind, ks, d, sel)
      PROVE  db'[k] = db[k] /\ (Stirred(k) => Stirred(k)')
  <2>1. UNCHANGED <<db, notifier>> /\ ~Stirs(w, k)
    BY <1>5, <1>7 DEF Begin
  <2>2. \E call : writer' = [writer EXCEPT ![w] = call]
    BY <1>7 DEF Begin
  <2> QED
    BY <1>1, <2>1, <2>2
<1> QED
  BY <1>0, <1>2, <1>3, <1>4, <1>6, <1>7, CommitStirs DEF LocalStep

\* what is owed or asked for stays so until it is found
LEMMA NotifyStirs ==
  ASSUME StoreInv, HasListeners, NEW n \in Notifier, NEW k \in Key, Heard(k)',
         \/ \E ks \in SUBSET Key : NotifyChanged(n, ks)
         \/ NotifyFinds(n) \/ NotifyFails(n)
  PROVE  /\ Stirred(k) => Stirred(k)'
         /\ k \in owed => k \in owed' \/ Stirred(k)'
<1>0. StoreTypeOK /\ NoticesInv /\ db[k] # Untouched /\ UNCHANGED <<db, listeners, writer>>
  BY StatesTyped DEF StoreInv, NotifyChanged, NotifyFinds, NotifyFails
<1>1. \A v \in Writer : Stirs(v, k) => Stirs(v, k)'
  BY <1>0 DEF Stirs
<1>2. ASSUME NEW r, \A m \in Notifier : notifier'[m] = IF m = n THEN r ELSE notifier[m],
             notifier[n].states[k] # Untouched => r.states[k] # Untouched
      PROVE  Stirred(k) => Stirred(k)'
  <2>1. \A m \in Notifier : k \in KeysOf(notifier[m].states) => k \in KeysOf(notifier'[m].states)
    BY <1>2 DEF KeysOf
  <2> QED
    BY <1>1, <2>1 DEF Stirred, KeysOf
<1>3. ASSUME NEW ks \in SUBSET Key, NotifyChanged(n, ks)
      PROVE  (Stirred(k) => Stirred(k)') /\ (k \in owed => k \in owed' \/ Stirred(k)')
  <2> DEFINE asked == [phase |-> "asked", states |-> [i \in Key |-> IF i \in ks THEN NoDoc ELSE Untouched]]
  <2>1. /\ \A m \in Notifier : notifier'[m] = IF m = n THEN asked ELSE notifier[m]
        /\ owed' = owed \ ks
    BY <1>0, <1>3 DEF NotifyChanged, StoreTypeOK
  <2>2. notifier[n].states[k] = Untouched
    BY <1>0, <1>3 DEF NotifyChanged, NoticesInv, IdleNotifier, Nothing
  <2>3. k \in ks => asked.states[k] # Untouched
    BY SubscribeStoreAssumption
  <2> HIDE DEF asked
  <2>4. k \in ks => Stirred(k)'
    BY <2>1, <2>3 DEF Stirred, KeysOf
  <2> QED
    BY <1>2, <2>1, <2>2, <2>4
<1>4. CASE NotifyFinds(n)
  <2> DEFINE found == [phase |-> "read", states |-> [i \in Key |-> IF i \in KeysOf(notifier[n].states) THEN db[i] ELSE Untouched]]
  <2>1. /\ \A m \in Notifier : notifier'[m] = IF m = n THEN found ELSE notifier[m]
        /\ owed' = owed
    BY <1>0, <1>4 DEF NotifyFinds, StoreTypeOK
  <2>2. notifier[n].states[k] # Untouched => found.states[k] # Untouched
    BY <1>0 DEF KeysOf
  <2> HIDE DEF found
  <2> QED
    BY <1>2, <2>1, <2>2
<1>5. CASE NotifyFails(n)
  <2>1. /\ \A m \in Notifier : notifier'[m] = IF m = n THEN IdleNotifier ELSE notifier[m]
        /\ owed' = owed
    BY <1>0, <1>5 DEF NotifyFails, StoreTypeOK
  <2>2. notifier[n].states[k] = Untouched
    BY <1>5 DEF NotifyFails, Heard, KeysOf
  <2> QED
    BY <1>2, <2>1, <2>2
<1> QED
  BY <1>3, <1>4, <1>5

\* a call that returns stirs what it has changed, a notification what it found
LEMMA EmissionStirs ==
  ASSUME StoreInv, NEW k \in Key
  PROVE  /\ \A w \in Writer : Return(w) /\ Stirred(k) =>
               \/ Stirred(k)'
               \/ writer[w].type # "inserted" /\ writer[w].states[k] # Untouched
         /\ \A n \in Notifier : EmitChanged(n) /\ Stirred(k) =>
               Stirred(k)' \/ k \in KeysOf(notifier[n].states)
<1>1. ASSUME NEW w \in Writer, Return(w), Stirred(k)
      PROVE  Stirred(k)' \/ (writer[w].type # "inserted" /\ writer[w].states[k] # Untouched)
  <2>1. \A v \in Writer \ {w} : writer'[v] = writer[v]
    BY <1>1 DEF Return, StoreInv, StoreTypeOK
  <2>2. writer[w].reading = {} /\ UNCHANGED <<db, notifier>>
    BY <1>1 DEF Return, CallSettled
  <2> QED
    BY <1>1, <2>1, <2>2 DEF Stirred, Stirs, KeysOf
<1>2. ASSUME NEW n \in Notifier, EmitChanged(n), Stirred(k)
      PROVE  Stirred(k)' \/ k \in KeysOf(notifier[n].states)
  <2>1. \A m \in Notifier \ {n} : notifier'[m] = notifier[m]
    BY <1>2 DEF EmitChanged, StoreInv, StoreTypeOK
  <2>2. UNCHANGED <<db, writer>>
    BY <1>2 DEF EmitChanged
  <2> QED
    BY <1>2, <2>1, <2>2 DEF Stirred, Stirs, KeysOf
<1> QED
  BY <1>1, <1>2

\* the steps of the store together
LEMMA StoreStirs ==
  ASSUME StoreInv, MethodsInv, HasListeners, StoreStep, NEW k \in Key, Heard(k)'
  PROVE  /\ k \in owed \/ Stirred(k) => k \in owed' \/ Stirred(k)'
         /\ db[k] # NoDoc => db'[k] = db[k] \/ k \in owed' \/ Stirred(k)'
<1>1. CASE LocalStep
  <2>1. owed' = owed
    BY <1>1 DEF LocalStep, Begin, FindKeys, Commit, Miss, CommandFails, FindKeysFails, ReadBack,
       ReadBackFails
  <2> QED
    BY <1>1, <2>1, LocalStirs
<1>2. ASSUME NEW j \in Key, NEW s \in State, Foreign(j, s)
      PROVE  /\ k \in owed \/ Stirred(k) => k \in owed' \/ Stirred(k)'
             /\ db'[k] = db[k] \/ k \in owed'
  <2>1. /\ k # j => db'[k] = db[k]
        /\ owed' = owed \cup {j} /\ UNCHANGED <<writer, notifier>>
    BY <1>2 DEF Foreign, StoreInv, StoreTypeOK
  <2> QED
    BY <2>1 DEF Stirred, Stirs, KeysOf
<1>3. ASSUME NEW n \in Notifier,
             \/ \E ks \in SUBSET Key : NotifyChanged(n, ks)
             \/ NotifyFinds(n) \/ NotifyFails(n)
      PROVE  /\ k \in owed \/ Stirred(k) => k \in owed' \/ Stirred(k)'
             /\ db' = db
  <2>1. UNCHANGED db /\ (NotifyFinds(n) \/ NotifyFails(n) => owed' = owed)
    BY <1>3 DEF NotifyChanged, NotifyFinds, NotifyFails
  <2> QED
    BY <1>3, <2>1, NotifyStirs
<1> QED
  BY <1>1, <1>2, <1>3 DEF StoreStep, ForeignStep, NotifierStep
=============================================================================
