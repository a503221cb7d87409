---------------------------- MODULE LiveQuery_proofs ----------------------------
(***************************************************************************)
(* Theorems about the live collection query, for every set of keys,        *)
(* documents, writers and notifications of the store it listens to: first  *)
(* those of CollectionSubscription by itself (Spec), then those of the     *)
(* store relay (RelaySpec), whose consumer is such a query whatever the    *)
(* producer and the connection do, and misses nothing while it is live.    *)
(***************************************************************************)
EXTENDS StoreRelay, SubscribeStore_proofs, FiniteSetTheorems,
    WellFoundedInduction

-----------------------------------------------------------------------------
(* The subscription *)

\* a stored collection is shown as rows, with a count
LEMMA FetchedType ==
  ASSUME NEW d \in [Key -> State]
  PROVE  Found(d) \in [Key -> State] /\ Counted(d) \in Nat
<1>1. Found(d) \in [Key -> State]
  BY DEF Found, State
<1>2. IsFiniteSet(Matches(d))
  BY FS_Subset, CollectionAssumption DEF Matches
<1>3. QED
  BY <1>1, <1>2, FS_CardinalityType DEF Counted

\* the keys of a membership are keys, in finite sets
LEMMA MembershipsType ==
  ASSUME NEW states \in Emitted, NEW sentKeys \in SUBSET Key
  PROVE  LET m == Memberships(states, sentKeys)
         IN  /\ m.updated \in SUBSET Key /\ m.deleted \in SUBSET Key
             /\ m.inserted \in SUBSET Key
             /\ Cardinality(m.inserted) \in Nat /\ Cardinality(m.deleted) \in Nat
             /\ KeysAfter(sentKeys, m) \in SUBSET Key
<1> DEFINE m == Memberships(states, sentKeys)
<1>1. m.updated \in SUBSET Key /\ m.deleted \in SUBSET Key /\ m.inserted \in SUBSET Key
  BY DEF Memberships, KeysOf
<1>2. IsFiniteSet(m.inserted) /\ IsFiniteSet(m.deleted)
  BY <1>1, FS_Subset, CollectionAssumption
<1>3. Cardinality(m.inserted) \in Nat /\ Cardinality(m.deleted) \in Nat
  BY <1>2, FS_CardinalityType
<1>4. KeysAfter(sentKeys, m) \in SUBSET Key
  BY <1>1 DEF KeysAfter
<1>5. QED
  BY <1>1, <1>3, <1>4

SubTypeOK ==
    /\ options \in QueryOptions
    /\ sub \in Closure
    /\ queue \in Seq(Actions)
    /\ job \in Job
    /\ client \in Client

\* the values the tail of the queue takes
LEMMA JobTypes ==
  /\ NoJob \in Job /\ Settled \in Job
  /\ \A b \in BOOLEAN : Fetching(b) \in Job
  /\ \A ks \in SUBSET Key : Rereading(ks) \in Job
<1>1. NoJob \in Job
  BY DEF NoJob, Job, NoRows, State
<1>2. QED
  BY <1>1 DEF NoJob, Settled, Fetching, Rereading, Job, NoRows, State

LEMMA ApplyInitialType ==
  ASSUME NEW c \in Client, NEW rows \in [Key -> State], NEW count \in Nat
  PROVE  ApplyInitial(c, rows, count) \in Client
  BY DEF ApplyInitial, Client

\* the changes of a membership leave a client with rows and a total
LEMMA ApplyChangesType ==
  ASSUME NEW c \in Client, NEW states \in Emitted, NEW sentKeys \in SUBSET Key
  PROVE  ApplyChanges(c, Memberships(states, sentKeys), states) \in Client
<1> DEFINE m == Memberships(states, sentKeys)
           rows == [k \in Key |->
                    CASE k \in m.deleted -> NoDoc
                      [] k \in m.inserted -> states[k]
                      [] k \in m.updated /\ c.rows[k] # NoDoc -> states[k]
                      [] OTHER -> c.rows[k]]
<1>1. ASSUME NEW k \in Key, k \in m.inserted \cup m.updated PROVE states[k] \in State
  BY <1>1, CollectionAssumption DEF Memberships, State
<1>2. rows \in [Key -> State]
  BY <1>1 DEF Client, State
<1>3. c.total + Cardinality(m.inserted) - Cardinality(m.deleted) \in Int
  BY MembershipsType DEF Client
<1>4. ApplyChanges(c, m, states)
        = [c EXCEPT !.rows = rows,
                    !.total = c.total + Cardinality(m.inserted) - Cardinality(m.deleted)]
  BY DEF ApplyChanges
<1> HIDE DEF rows, m
<1>5. ApplyChanges(c, m, states) \in Client
  BY <1>2, <1>3, <1>4 DEF Client
<1>6. QED
  BY <1>5 DEF m

LEMMA ApplyStatesType ==
  ASSUME client \in Client, NEW s \in Closure, NEW states \in Emitted, NEW done \in Job,
         ApplyStates(s, states, done)
  PROVE  sub' \in Closure /\ client' \in Client /\ job' \in Job
<1>1. s.sentKeys \in SUBSET Key
  BY DEF Closure
<1> DEFINE m == Memberships(states, s.sentKeys)
<1>2. CASE Refetch(s)
  BY <1>2, JobTypes DEF Refetch
<1>3. CASE /\ sub' = [s EXCEPT !.sentKeys = KeysAfter(@, m)]
           /\ client' = IF s.isStopped THEN client ELSE ApplyChanges(client, m, states)
           /\ job' = done
  <2>1. KeysAfter(s.sentKeys, m) \in SUBSET Key
    BY <1>1, MembershipsType
  <2>2. ApplyChanges(client, m, states) \in Client
    BY <1>1, ApplyChangesType
  <2> HIDE DEF m
  <2>3. sub' \in Closure
    BY <1>3, <2>1 DEF Closure
  <2>4. QED
    BY <1>3, <2>2, <2>3
<1>4. QED
  BY <1>2, <1>3 DEF ApplyStates

LEMMA HandleActionType ==
  ASSUME client \in Client, NEW s \in Closure, NEW a \in Actions, NEW done \in Job,
         HandleAction(s, a, done)
  PROVE  sub' \in Closure /\ client' \in Client /\ job' \in Job
<1>1. a.states \in Emitted
  BY DEF Actions
<1>2. Rereading(Concerned(s, a)) \in Job
  BY JobTypes DEF Concerned, KeysOf
<1>3. CASE ApplyStates(s, a.states, done)
  BY <1>3, <1>1, ApplyStatesType
<1>4. CASE Refetch(s)
  BY <1>4, JobTypes DEF Refetch
<1>5. QED
  BY <1>2, <1>3, <1>4 DEF HandleAction

LEMMA ReceiveType ==
  ASSUME SubTypeOK, NEW a \in Actions, Receive(a)
  PROVE  SubTypeOK'
<1> DEFINE s == [sub EXCEPT !.hasActionDuringInit = @ \/ sub.isInitializing]
<1>1. s \in Closure
  BY DEF SubTypeOK, Closure
<1>2. NoJob \in Job
  BY JobTypes
<1>3. CASE HandleAction(s, a, NoJob) /\ UNCHANGED queue /\ UNCHANGED options
  <2> HIDE DEF s
  <2>1. QED
    BY <1>1, <1>2, <1>3, HandleActionType DEF SubTypeOK
<1>4. CASE queue' = Append(queue, a) /\ sub' = s /\ UNCHANGED <<job, client, options>>
  <2> HIDE DEF s
  <2>1. QED
    BY <1>1, <1>4 DEF SubTypeOK
<1>5. CASE UNCHANGED <<sub, queue, job, client, options>>
  BY <1>5 DEF SubTypeOK
<1>6. QED
  BY <1>3, <1>4, <1>5 DEF Receive

\* what the store emits are actions
LEMMA ActionTypes ==
  ASSUME StoreTypeOK
  PROVE  /\ \A w \in Writer : WrittenAction(w) \in Actions
         /\ \A n \in Notifier : ChangedAction(n) \in Actions
         /\ ResyncAction \in Actions
<1>1. Nothing \in Emitted
  BY DEF Nothing, Emitted
<1>2. QED
  BY <1>1 DEF StoreTypeOK, WrittenAction, ChangedAction, ResyncAction, Actions, ActionType,
     WriterRecord, NotifierRecord

\* the steps of the subscription itself
LEMMA SubStepType ==
  ASSUME TypeOK, Open \/ Stop \/ OtherListens \/ QueueStep
  PROVE  TypeOK'
<1>0. /\ sub \in Closure /\ job \in Job /\ client \in Client /\ queue \in Seq(Actions)
      /\ options \in QueryOptions /\ StoreTypeOK /\ db \in [Key -> State]
  BY DEF TypeOK, StoreTypeOK
<1>1. Settled \in Job /\ NoJob \in Job /\ Fetching(TRUE) \in Job
  BY JobTypes
<1>2. Found(db) \in [Key -> State] /\ Counted(db) \in Nat
  BY <1>0, FetchedType
<1>3. CASE Open
  <2>1. ApplyInitial(client, Found(db), Counted(db)) \in Client
    BY <1>0, <1>2, ApplyInitialType
  <2>2. StoreTypeOK'
    BY <1>0, <1>3, CollectionAssumption DEF StoreTypeOK, Open, Subscribe
  <2>3. QED
    BY <1>0, <1>1, <1>3, <2>1, <2>2 DEF TypeOK, Open, Closure
<1>4. CASE Stop
  <2>1. StoreTypeOK'
    BY <1>0, <1>4 DEF StoreTypeOK, Stop, Unsubscribe
  <2>2. QED
    BY <1>0, <1>4, <2>1 DEF TypeOK, Stop, Closure
<1>5. CASE OtherListens
  <2>1. StoreTypeOK'
    BY <1>0, <1>5 DEF StoreTypeOK, OtherListens, Subscribe
  <2>2. QED
    BY <1>0, <1>5, <2>1 DEF TypeOK, OtherListens, subVars
<1> DEFINE StoreSame == UNCHANGED <<storeVars, options>>
<1>6. ASSUME StoreSame PROVE StoreTypeOK' /\ options' = options
  BY <1>0, <1>6 DEF StoreTypeOK, storeVars
<1>7. CASE FindAnswers
  BY <1>0, <1>2, <1>6, <1>7 DEF FindAnswers, TypeOK, Job
<1>8. CASE CountAnswers
  BY <1>0, <1>2, <1>6, <1>8 DEF CountAnswers, TypeOK, Job
<1>9. CASE FetchDone
  <2>1. job.rows \in [Key -> State] /\ job.counted \in Nat
    BY <1>0 DEF Job
  <2>2. client' \in Client
    BY <1>0, <1>9, <2>1, ApplyInitialType DEF FetchDone
  <2>3. Held(job.rows) \in SUBSET Key
    BY DEF Held
  <2>4. sub' \in Closure
    BY <1>0, <1>9, <2>1, <2>3 DEF FetchDone, Closure
  <2>5. Missed \in SUBSET (Key \X Why)
    BY DEF Missed, Why
  <2>6. StoreTypeOK' /\ options' = options
    BY <1>0, <1>9, <2>5 DEF FetchDone, StoreTypeOK
  <2>7. QED
    BY <1>0, <1>1, <1>9, <2>2, <2>4, <2>6 DEF FetchDone, TypeOK
<1>10. CASE FetchFails
  BY <1>0, <1>1, <1>6, <1>10 DEF FetchFails, Report, TypeOK, Client
<1>11. CASE RereadAnswers
  <2>1. [k \in Key |-> IF k \in job.keys THEN db[k] ELSE NoDoc] \in [Key -> State]
    BY <1>0 DEF State
  <2>2. job' \in Job
    BY <1>0, <1>11, <2>1 DEF RereadAnswers, Job
  <2>3. QED
    BY <1>0, <1>6, <1>11, <2>2 DEF RereadAnswers, TypeOK
<1>12. CASE RereadDone
  <2>1. RereadStates \in Emitted
    BY <1>0 DEF RereadStates, Emitted, Job
  <2>2. sub' \in Closure /\ client' \in Client /\ job' \in Job
    BY <1>0, <1>1, <1>12, <2>1, ApplyStatesType DEF RereadDone
  <2>3. QED
    BY <1>0, <1>6, <1>12, <2>2 DEF RereadDone, TypeOK
<1>13. CASE RereadFails
  BY <1>0, <1>1, <1>6, <1>13 DEF RereadFails, Report, TypeOK, Client
<1>14. CASE RunNext
  <2>1. Head(queue) \in Actions /\ Tail(queue) \in Seq(Actions)
    BY <1>0, <1>14 DEF RunNext
  <2>2. sub' \in Closure /\ client' \in Client /\ job' \in Job
    BY <1>0, <1>1, <1>14, <2>1, HandleActionType DEF RunNext
  <2>3. QED
    BY <1>0, <1>6, <1>14, <2>1, <2>2 DEF RunNext, TypeOK
<1>15. CASE ClearTail
  BY <1>0, <1>1, <1>6, <1>15 DEF ClearTail, TypeOK
<1>16. QED
  BY <1>3, <1>4, <1>5, <1>7, <1>8, <1>9, <1>10, <1>11, <1>12, <1>13, <1>14, <1>15 DEF QueueStep

\* the steps of the store that call the listeners
LEMMA EmitType ==
  ASSUME TypeOK,
         \/ \E w \in Writer : EmitWritten(w) \/ ReturnSilently(w)
         \/ \E n \in Notifier : EmitNotified(n)
         \/ EmitResync
  PROVE  TypeOK'
<1>0. StoreTypeOK /\ SubTypeOK
  BY DEF TypeOK, SubTypeOK
<1>1. ASSUME StoreTypeOK', SubTypeOK' PROVE TypeOK'
  BY <1>1 DEF TypeOK, SubTypeOK
<1>2. ASSUME NEW w \in Writer, EmitWritten(w) PROVE TypeOK'
  <2>1. StoreTypeOK'
    BY <1>0, <1>2, WriterStepType DEF EmitWritten
  <2>2. SubTypeOK'
    BY <1>0, <1>2, ActionTypes, ReceiveType DEF EmitWritten
  <2>3. QED
    BY <1>1, <2>1, <2>2
<1>3. ASSUME NEW w \in Writer, ReturnSilently(w) PROVE TypeOK'
  <2>1. StoreTypeOK'
    BY <1>0, <1>3, WriterStepType DEF ReturnSilently
  <2>2. SubTypeOK'
    BY <1>0, <1>3 DEF ReturnSilently, SubTypeOK, subVars
  <2>3. QED
    BY <1>1, <2>1, <2>2
<1>4. ASSUME NEW n \in Notifier, EmitNotified(n) PROVE TypeOK'
  <2>1. StoreTypeOK'
    BY <1>0, <1>4, NotifierStepType DEF EmitNotified
  <2>2. SubTypeOK'
    BY <1>0, <1>4, ActionTypes, ReceiveType DEF EmitNotified
  <2>3. QED
    BY <1>1, <2>1, <2>2
<1>5. CASE EmitResync
  <2>1. StoreTypeOK'
    BY <1>0, <1>5 DEF EmitResync, Resync, StoreTypeOK, Workload
  <2>2. SubTypeOK'
    BY <1>0, <1>5, ActionTypes, ReceiveType DEF EmitResync
  <2>3. QED
    BY <1>1, <2>1, <2>2
<1>6. QED
  BY <1>2, <1>3, <1>4, <1>5

(***************************************************************************)
(* Every variable keeps its type: what is emitted are states of documents, *)
(* what the client holds are documents, and the counts it is given are     *)
(* numbers, the keys being finitely many.                                  *)
(***************************************************************************)
THEOREM TypeCorrect == Spec => []TypeOK
<1>1. Init => TypeOK
  <2> SUFFICES ASSUME Init PROVE TypeOK
    OBVIOUS
  <2>1. StoreTypeOK
    BY StoreInitType DEF Init
  <2>2. NoJob \in Job /\ NoRows \in [Key -> State]
    BY JobTypes DEF NoRows, State
  <2>3. QED
    BY <2>1, <2>2, CollectionAssumption DEF Init, TypeOK, Closure, Client
<1>2. TypeOK /\ [Next]_vars => TypeOK'
  <2> SUFFICES ASSUME TypeOK, [Next]_vars PROVE TypeOK'
    OBVIOUS
  <2>1. CASE StoreStep /\ UNCHANGED subVars
    <3>1. StoreTypeOK'
      BY <2>1, StoreStepType DEF TypeOK
    <3>2. QED
      BY <2>1, <3>1 DEF TypeOK, subVars
  <2>2. CASE UNCHANGED vars
    BY <2>2 DEF vars, storeVars, subVars, TypeOK, StoreTypeOK
  <2>3. QED
    BY <2>1, <2>2, SubStepType, EmitType DEF Next
<1>3. QED
  BY <1>1, <1>2, PTL DEF Spec

-----------------------------------------------------------------------------
(* What a change about to be emitted tells *)

(***************************************************************************)
(* A change about to be emitted tells what is stored, unless another write *)
(* overtook it, for any number of writers and documents and every write    *)
(* method: EmissionsFresh, of the atomic commands of MongoStore and the    *)
(* read-back of partialUpdateByKeyWithInfo.                                *)
(***************************************************************************)
THEOREM EmissionsAreFresh == Spec => []EmissionsFresh
<1>1. Init => FreshInv
  BY DEF Init, StoreInit, FreshInv, CallInv, FreshFor, IdleWriter, Nothing
<1>2. TypeOK /\ FreshInv /\ [Next]_vars => FreshInv'
  <2> SUFFICES ASSUME TypeOK, FreshInv, [Next]_vars PROVE FreshInv'
    OBVIOUS
  <2>0. StoreTypeOK
    BY DEF TypeOK
  <2>1. CASE StoreStep
    BY <2>0, <2>1, FreshStoreStep
  <2>2. ASSUME NEW w \in Writer, Return(w) PROVE FreshInv'
    <3>1. writer' = [writer EXCEPT ![w] = IdleWriter] /\ UNCHANGED <<db, gaps>>
      BY <2>2 DEF Return
    <3>2. IdleWriter.states = Nothing /\ IdleWriter.reading = {} /\ IdleWriter.todo = {}
      BY DEF IdleWriter
    <3>3. QED
      BY <2>0, <3>1, <3>2, FreshBlank
  <2>3. CASE UNCHANGED <<db, writer>> /\ gaps \subseteq gaps'
    BY <2>3, FreshFrame
  <2>4. ASSUME NEW n \in Notifier, EmitChanged(n) PROVE FreshInv'
    BY <2>3, <2>4 DEF EmitChanged
  <2>5. CASE EmitResync
    BY <2>3, <2>5 DEF EmitResync, Resync
  <2>6. CASE Open \/ Stop \/ OtherListens
    BY <2>3, <2>6 DEF Open, Stop, OtherListens, Subscribe, Unsubscribe
  <2>7. CASE QueueStep
    <3>1. UNCHANGED <<db, writer>> /\ gaps \subseteq gaps'
      BY <2>7 DEF QueueStep, FindAnswers, CountAnswers, FetchDone, FetchFails, RereadAnswers,
         RereadDone, RereadFails, RunNext, ClearTail, storeVars
    <3>2. QED
      BY <2>3, <3>1
  <2>8. CASE UNCHANGED vars
    BY <2>3, <2>8 DEF vars, storeVars
  <2>9. QED
    BY <2>1, <2>2, <2>4, <2>5, <2>6, <2>7, <2>8
    DEF Next, EmitWritten, ReturnSilently, EmitNotified
<1>3. FreshInv => EmissionsFresh
  BY DEF FreshInv, FreshFor, EmissionsFresh
<1>4. QED
  BY <1>1, <1>2, <1>3, TypeCorrect, PTL DEF Spec

-----------------------------------------------------------------------------
(* What the subscription believes its client holds *)

\* the step neither opens nor stops the subscription
Kept == sub'.isOpen = sub.isOpen /\ sub'.isStopped = sub.isStopped

LEMMA HandleActionKeeps ==
  ASSUME NEW s \in Closure, NEW a, NEW done, HandleAction(s, a, done)
  PROVE  sub'.isOpen = s.isOpen /\ sub'.isStopped = s.isStopped
  BY DEF HandleAction, ApplyStates, Refetch, Closure

LEMMA ReceiveKeeps ==
  ASSUME TypeOK, NEW a, Receive(a)
  PROVE  Kept
<1> DEFINE s == [sub EXCEPT !.hasActionDuringInit = @ \/ sub.isInitializing]
<1>1. s \in Closure /\ s.isOpen = sub.isOpen /\ s.isStopped = sub.isStopped
  BY DEF TypeOK, Closure
<1>2. HandleAction(s, a, NoJob) \/ sub' = s \/ sub' = sub
  BY DEF Receive
<1> HIDE DEF s
<1>3. QED
  BY <1>1, <1>2, HandleActionKeeps DEF Kept

LEMMA QueueKeeps ==
  ASSUME TypeOK, QueueStep
  PROVE  Kept
<1>0. sub \in Closure
  BY DEF TypeOK
<1>1. CASE UNCHANGED sub
  BY <1>1 DEF Kept
<1>2. CASE FetchDone
  BY <1>0, <1>2 DEF FetchDone, Closure, Kept
<1>3. CASE RereadDone
  BY <1>0, <1>3 DEF RereadDone, ApplyStates, Refetch, Closure, Kept
<1>4. CASE RunNext
  BY <1>0, <1>4, HandleActionKeeps DEF RunNext, Kept
<1>5. QED
  BY <1>1, <1>2, <1>3, <1>4 DEF QueueStep, FindAnswers, CountAnswers, FetchFails, RereadAnswers,
     RereadFails, ClearTail

\* Before it is opened a subscription listens to nothing, waits for nothing and
\* was not stopped.
OpenInv ==
    ~sub.isOpen => ~sub.isStopped /\ ~sub.isReady /\ Sub \notin listeners /\ job.kind = "idle"

LEMMA OpenFirst == Spec => []OpenInv
<1>1. Init => OpenInv
  BY DEF Init, StoreInit, OpenInv, NoJob
<1>2. TypeOK /\ OpenInv /\ [Next]_vars => OpenInv'
  <2> SUFFICES ASSUME TypeOK, OpenInv, [Next]_vars, ~sub.isOpen, ~sub'.isOpen PROVE OpenInv'
    BY ReceiveKeeps, QueueKeeps
    DEF OpenInv, Kept, Next, subVars, vars, EmitWritten, ReturnSilently, EmitNotified, EmitResync,
        OtherListens, Open, Stop, TypeOK, Closure
  <2>0. ~sub.isStopped /\ ~sub.isReady /\ Sub \notin listeners /\ job.kind = "idle"
    BY DEF OpenInv
  <2>1. CASE StoreStep /\ UNCHANGED subVars
    <3>1. UNCHANGED listeners
      BY <2>1 DEF StoreStep, LocalStep, ForeignStep, NotifierStep, Begin, FindKeys, Commit, Miss, CommandFails, FindKeysFails, ReadBack,
         ReadBackFails, Foreign, NotifyChanged, NotifyFinds, NotifyFails
    <3>2. QED
      BY <2>0, <2>1, <3>1 DEF subVars, OpenInv
  <2>2. ASSUME NEW a, Receive(a), UNCHANGED listeners PROVE OpenInv'
    BY <2>0, <2>2 DEF Receive, OpenInv
  <2>3. CASE OtherListens
    BY <2>0, <2>3 DEF OtherListens, Subscribe, subVars, OpenInv
  <2>4. CASE QueueStep
    BY <2>0, <2>4 DEF QueueStep, FindAnswers, CountAnswers, FetchDone, FetchFails, RereadAnswers,
       RereadDone, RereadFails, RunNext, ClearTail
  <2>5. CASE UNCHANGED <<sub, job, listeners>>
    BY <2>0, <2>5 DEF OpenInv
  <2>6. CASE Open \/ Stop
    BY <2>0, <2>6 DEF Open, Stop, TypeOK, Closure
  <2>7. QED
    BY <2>1, <2>2, <2>3, <2>4, <2>5, <2>6
    DEF Next, vars, storeVars, subVars, EmitWritten, ReturnSilently, EmitNotified, EmitResync,
        Return, EmitChanged, Resync
<1>3. QED
  BY <1>1, <1>2, TypeCorrect, PTL DEF Spec

(***************************************************************************)
(* After the callback was removed nothing reaches the client any more,     *)
(* whatever was pending or queued when the subscription stopped.           *)
(***************************************************************************)
THEOREM StoppedIsSilent == Spec => SilentOnceStopped
<1>1. ASSUME sub.isStopped, NEW s, s.isStopped, NEW states, NEW done, ApplyStates(s, states, done)
      PROVE  client' = client
  BY <1>1 DEF ApplyStates, Refetch
<1>2. ASSUME NEW s, s.isStopped, NEW a, NEW done, HandleAction(s, a, done)
      PROVE  client' = client
  BY <1>2 DEF HandleAction, Refetch, Ignored
<1>3. ASSUME TypeOK, sub.isStopped, NEW a, Receive(a)
      PROVE  client' = client
  <2> DEFINE s == [sub EXCEPT !.hasActionDuringInit = @ \/ sub.isInitializing]
  <2>1. s.isStopped
    BY <1>3 DEF TypeOK, Closure
  <2> HIDE DEF s
  <2>2. CASE HandleAction(s, a, NoJob)
    BY <1>2, <2>1, <2>2
  <2>3. QED
    BY <1>3, <2>2 DEF Receive, s
<1>4. TypeOK /\ OpenInv /\ [Next]_vars
        => (sub.isStopped => client' = client)
  <2> SUFFICES ASSUME TypeOK, OpenInv, [Next]_vars, sub.isStopped PROVE client' = client
    OBVIOUS
  <2>1. CASE StoreStep /\ UNCHANGED subVars
    BY <2>1 DEF subVars
  <2>2. CASE \/ \E w \in Writer : EmitWritten(w) \/ ReturnSilently(w)
             \/ \E n \in Notifier : EmitNotified(n)
             \/ EmitResync
    BY <1>3, <2>2 DEF EmitWritten, ReturnSilently, EmitNotified, EmitResync, subVars
  <2>3. CASE Open \/ Stop \/ OtherListens
    <3>1. ~Open /\ ~Stop
      BY DEF Open, Stop, OpenInv
    <3>2. QED
      BY <2>3, <3>1 DEF OtherListens, subVars
  <2>4. CASE QueueStep
    BY <1>2, <2>4 DEF QueueStep, FindAnswers, CountAnswers, FetchDone, SendsInitial, FetchFails,
       Report, RereadAnswers, RereadDone, RereadFails, RunNext, ClearTail
  <2>5. CASE UNCHANGED vars
    BY <2>5 DEF vars, subVars
  <2>6. QED
    BY <2>1, <2>2, <2>3, <2>4, <2>5 DEF Next
<1>5. QED
  BY <1>4, TypeCorrect, OpenFirst, PTL DEF Spec, SilentOnceStopped

\* the rows of the client of a subscription s are those s believes it sent
HeldBy(s, c) ==
    (s.isOpen /\ ~s.isStopped /\ s.isReady /\ options.includeInitial) => Held(c.rows) = s.sentKeys

\* the client applies a membership to the very keys the subscription keeps
LEMMA HeldAfterChanges ==
  ASSUME NEW c \in Client, NEW states \in Emitted
  PROVE  LET m == Memberships(states, Held(c.rows))
         IN  Held(ApplyChanges(c, m, states).rows) = KeysAfter(Held(c.rows), m)
<1> DEFINE m == Memberships(states, Held(c.rows))
           rows == ApplyChanges(c, m, states).rows
<1>1. \A k \in Key : rows[k] =
         CASE k \in m.deleted -> NoDoc
           [] k \in m.inserted -> states[k]
           [] k \in m.updated /\ c.rows[k] # NoDoc -> states[k]
           [] OTHER -> c.rows[k]
  BY DEF ApplyChanges, Client
<1>2. \A k \in m.inserted \cup m.updated : states[k] # NoDoc
  BY CollectionAssumption, SubscribeStoreAssumption DEF Memberships
<1>3. /\ m.deleted \cap m.inserted = {} /\ m.deleted \subseteq Held(c.rows)
      /\ m.inserted \subseteq Key \ Held(c.rows)
      /\ m.updated \cap (m.deleted \cup m.inserted) = {}
  BY DEF Memberships, KeysOf
<1> HIDE DEF m, rows
<1>4. Held(rows) = (Held(c.rows) \ m.deleted) \cup m.inserted
  <2>1. ASSUME NEW k \in Key
        PROVE  rows[k] # NoDoc <=> k \in (Held(c.rows) \ m.deleted) \cup m.inserted
    <3>1. CASE k \in m.deleted
      BY <1>1, <1>3, <3>1
    <3>2. CASE k \in m.inserted
      BY <1>1, <1>2, <1>3, <3>2
    <3>3. CASE k \notin m.deleted \cup m.inserted
      <4>1. rows[k] = IF k \in m.updated /\ c.rows[k] # NoDoc THEN states[k] ELSE c.rows[k]
        BY <1>1, <3>3
      <4>2. QED
        BY <1>2, <3>3, <4>1 DEF Held
    <3>4. QED
      BY <3>1, <3>2, <3>3
  <2>2. QED
    BY <2>1, <1>3 DEF Held
<1>5. QED
  BY <1>4 DEF KeysAfter, m, rows

LEMMA HeldApplyStates ==
  ASSUME client \in Client, NEW s \in Closure, NEW states \in Emitted, NEW done,
         HeldBy(s, client), options' = options, ApplyStates(s, states, done)
  PROVE  HeldBy(sub, client)'
<1> DEFINE m == Memberships(states, s.sentKeys)
<1>1. CASE Refetch(s)
  BY <1>1 DEF Refetch, HeldBy
<1>2. CASE /\ sub' = [s EXCEPT !.sentKeys = KeysAfter(@, m)]
           /\ client' = IF s.isStopped THEN client ELSE ApplyChanges(client, m, states)
  <2> SUFFICES ASSUME s.isOpen, ~s.isStopped, s.isReady, options.includeInitial
               PROVE  Held(client'.rows) = sub'.sentKeys
    BY <1>2 DEF HeldBy, Closure
  <2>1. s.sentKeys = Held(client.rows)
    BY DEF HeldBy
  <2>2. sub'.sentKeys = KeysAfter(s.sentKeys, m)
    BY <1>2 DEF Closure
  <2>3. QED
    BY <1>2, <2>1, <2>2, HeldAfterChanges
<1>3. QED
  BY <1>1, <1>2 DEF ApplyStates

LEMMA HeldHandleAction ==
  ASSUME client \in Client, NEW s \in Closure, NEW a \in Actions, NEW done,
         HeldBy(s, client), options' = options, HandleAction(s, a, done)
  PROVE  HeldBy(sub, client)'
<1>1. CASE ApplyStates(s, a.states, done)
  BY <1>1, HeldApplyStates DEF Actions
<1>2. CASE sub' = s /\ UNCHANGED client
  BY <1>2 DEF HeldBy
<1>3. QED
  BY <1>1, <1>2 DEF HandleAction, Refetch

LEMMA HeldReceive ==
  ASSUME TypeOK, NEW a \in Actions, HeldBy(sub, client), Receive(a)
  PROVE  HeldBy(sub, client)'
<1> DEFINE s == [sub EXCEPT !.hasActionDuringInit = @ \/ sub.isInitializing]
<1>1. s \in Closure /\ HeldBy(s, client)
  BY DEF TypeOK, Closure, HeldBy
<1>2. options' = options
  BY DEF Receive
<1>3. HandleAction(s, a, NoJob) \/ (sub' = s /\ client' = client) \/ UNCHANGED <<sub, client>>
  BY DEF Receive
<1> HIDE DEF s
<1>4. QED
  BY <1>1, <1>2, <1>3, HeldHandleAction DEF TypeOK, HeldBy

(***************************************************************************)
(* The keys a subscription decides from are those its client holds, for    *)
(* any window and criteria, whatever crosses its fetches and re-reads:     *)
(* HeldKeys, of sentKeys in _subscribe.                                    *)
(***************************************************************************)
THEOREM HeldKeysAgree == Spec => []HeldKeys
<1>1. Init => HeldBy(sub, client)
  BY DEF Init, HeldBy
<1>2. TypeOK /\ OpenInv /\ HeldBy(sub, client) /\ [Next]_vars => HeldBy(sub, client)'
  <2> SUFFICES ASSUME TypeOK, OpenInv, HeldBy(sub, client), [Next]_vars
               PROVE  HeldBy(sub, client)'
    OBVIOUS
  <2>0. sub \in Closure /\ client \in Client /\ StoreTypeOK /\ job \in Job
    BY DEF TypeOK
  <2>1. CASE UNCHANGED <<options, sub, client>>
    BY <2>1 DEF HeldBy
  <2>2. ASSUME NEW a \in Actions, Receive(a) PROVE HeldBy(sub, client)'
    BY <2>2, HeldReceive
  <2>3. CASE \/ \E w \in Writer : EmitWritten(w) \/ ReturnSilently(w)
             \/ \E n \in Notifier : EmitNotified(n)
             \/ EmitResync
    BY <2>0, <2>1, <2>2, <2>3, ActionTypes
    DEF EmitWritten, ReturnSilently, EmitNotified, EmitResync, subVars
  <2>4. CASE Open
    BY <2>0, <2>4 DEF Open, OpenInv, Closure, HeldBy
  <2>5. CASE Stop
    BY <2>0, <2>5 DEF Stop, Closure, HeldBy
  <2>6. CASE FetchDone
    <3>1. options.includeInitial => SendsInitial \/ sub.isStopped
      BY DEF SendsInitial
    <3>2. QED
      BY <2>0, <2>6, <3>1 DEF FetchDone, ApplyInitial, Closure, HeldBy
  <2>7. CASE FetchFails \/ RereadFails
    BY <2>0, <2>7 DEF FetchFails, RereadFails, Report, Client, HeldBy
  <2>8. CASE RereadDone
    <3>1. RereadStates \in Emitted
      BY <2>0 DEF RereadStates, Emitted, Job
    <3>2. QED
      BY <2>0, <2>1, <2>8, <3>1, HeldApplyStates DEF RereadDone, HeldBy
  <2>9. CASE RunNext
    <3>1. Head(queue) \in Actions
      BY <2>9 DEF RunNext, TypeOK
    <3>2. QED
      BY <2>0, <2>9, <3>1, HeldHandleAction DEF RunNext, HeldBy
  <2>10. QED
    BY <2>1, <2>3, <2>4, <2>5, <2>6, <2>7, <2>8, <2>9
    DEF Next, QueueStep, vars, subVars, OtherListens, FindAnswers, CountAnswers, RereadAnswers,
        ClearTail
<1>3. HeldBy(sub, client) => HeldKeys
  BY DEF HeldBy, HeldKeys, Live
<1>4. QED
  BY <1>1, <1>2, <1>3, TypeCorrect, OpenFirst, PTL DEF Spec

-----------------------------------------------------------------------------
(* The total of the client *)

\* a membership changes the total by what it changes the number of rows
LEMMA TotalAfterChanges ==
  ASSUME NEW c \in Client, NEW states \in Emitted
  PROVE  LET after == ApplyChanges(c, Memberships(states, Held(c.rows)), states)
         IN  after.total - c.total = Cardinality(Held(after.rows)) - Cardinality(Held(c.rows))
<1> DEFINE m == Memberships(states, Held(c.rows))
           held == Held(c.rows)
           after == ApplyChanges(c, m, states)
<1>1. after.total = c.total + Cardinality(m.inserted) - Cardinality(m.deleted)
  BY DEF ApplyChanges, Client
<1>2. Held(after.rows) = (held \ m.deleted) \cup m.inserted
  BY HeldAfterChanges DEF KeysAfter
<1>3. held \subseteq Key /\ m.deleted \subseteq held /\ m.inserted \subseteq Key \ held
  BY DEF Memberships, KeysOf, Held
<1>4. c.total \in Int
  BY DEF Client
<1> HIDE DEF m, held, after
<1>5. IsFiniteSet(held) /\ IsFiniteSet(held \ m.deleted) /\ IsFiniteSet(m.inserted)
        /\ IsFiniteSet(m.deleted)
  BY <1>3, FS_Subset, CollectionAssumption
<1>6. Cardinality(held \ m.deleted) = Cardinality(held) - Cardinality(m.deleted)
  <2>1. held \cap m.deleted = m.deleted
    BY <1>3
  <2>2. QED
    BY <1>5, <2>1, FS_Difference
<1>7. Cardinality((held \ m.deleted) \cup m.inserted)
        = Cardinality(held \ m.deleted) + Cardinality(m.inserted)
  <2>1. (held \ m.deleted) \cap m.inserted = {}
    BY <1>3
  <2>2. Cardinality((held \ m.deleted) \cup m.inserted)
          = Cardinality(held \ m.deleted) + Cardinality(m.inserted) - Cardinality({})
    BY <1>5, <2>1, FS_Union
  <2>3. QED
    BY <1>5, <2>2, FS_EmptySet, FS_CardinalityType
<1>8. /\ Cardinality(held) \in Nat /\ Cardinality(m.deleted) \in Nat
      /\ Cardinality(m.inserted) \in Nat
  BY <1>5, FS_CardinalityType
<1>9. after.total - c.total = Cardinality(Held(after.rows)) - Cardinality(held)
  BY <1>1, <1>2, <1>4, <1>6, <1>7, <1>8
<1>10. QED
  BY <1>9 DEF after, m, held

\* the total and the rows of the client move together
InStep ==
    client'.total - client.total = Cardinality(Held(client'.rows)) - Cardinality(Held(client.rows))

LEMMA InStepSame ==
  ASSUME client \in Client, client'.rows = client.rows, client'.total = client.total
  PROVE  InStep
<1>1. Held(client.rows) \subseteq Key /\ IsFiniteSet(Held(client.rows))
  BY FS_Subset, CollectionAssumption DEF Held
<1>2. Cardinality(Held(client.rows)) \in Nat /\ client.total \in Int
  BY <1>1, FS_CardinalityType DEF Client
<1>3. Held(client'.rows) = Held(client.rows)
  OBVIOUS
<1>4. QED
  BY <1>2, <1>3 DEF InStep

LEMMA InStepApplyStates ==
  ASSUME client \in Client, NEW s \in Closure, NEW states \in Emitted, NEW done,
         ~s.isStopped => s.sentKeys = Held(client.rows), ApplyStates(s, states, done)
  PROVE  InStep
<1>1. CASE UNCHANGED client
  BY <1>1, InStepSame
<1>2. CASE ~s.isStopped /\ client' = ApplyChanges(client, Memberships(states, s.sentKeys), states)
  BY <1>2, TotalAfterChanges DEF InStep
<1>3. QED
  BY <1>1, <1>2 DEF ApplyStates, Refetch

LEMMA InStepHandleAction ==
  ASSUME client \in Client, NEW s \in Closure, NEW a \in Actions, NEW done,
         (~s.isStopped /\ s.isReady) => s.sentKeys = Held(client.rows), HandleAction(s, a, done)
  PROVE  InStep
<1>1. CASE UNCHANGED client
  BY <1>1, InStepSame
<1>2. CASE ~Ignored(s, a) /\ a.type # "resync" /\ ApplyStates(s, a.states, done)
  <2>1. s.isReady
    BY <1>2 DEF Ignored
  <2>2. QED
    BY <1>2, <2>1, InStepApplyStates DEF Actions
<1>3. QED
  BY <1>1, <1>2 DEF HandleAction, Refetch

\* what is re-read was asked for by a subscription that holds rows
RereadInv == job.kind = "reread" => sub.isReady

LEMMA RereadWhenReady == Spec => []RereadInv
<1>1. Init => RereadInv
  BY DEF Init, RereadInv, NoJob
<1>2. ASSUME NEW s \in Closure, NEW a, NEW done \in {NoJob, Settled}, HandleAction(s, a, done)
      PROVE  RereadInv'
  <2>1. done.kind # "reread" /\ Fetching(FALSE).kind # "reread"
    BY DEF NoJob, Settled, Fetching
  <2>2. CASE job' = done \/ job' = Fetching(FALSE)
    BY <2>1, <2>2 DEF RereadInv
  <2>3. CASE ~Ignored(s, a) /\ a.type = "changed" /\ sub' = s
    BY <2>3 DEF Ignored, RereadInv
  <2>4. QED
    BY <1>2, <2>2, <2>3 DEF HandleAction, ApplyStates, Refetch
<1>3. ASSUME TypeOK, RereadInv, NEW a, Receive(a) PROVE RereadInv'
  <2> DEFINE s == [sub EXCEPT !.hasActionDuringInit = @ \/ sub.isInitializing]
  <2>1. s \in Closure /\ s.isReady = sub.isReady
    BY <1>3 DEF TypeOK, Closure
  <2>2. HandleAction(s, a, NoJob) \/ (sub' = s /\ UNCHANGED job) \/ UNCHANGED <<sub, job>>
    BY <1>3 DEF Receive
  <2> HIDE DEF s
  <2>3. QED
    BY <1>2, <1>3, <2>1, <2>2 DEF RereadInv
<1>4. TypeOK /\ RereadInv /\ [Next]_vars => RereadInv'
  <2> SUFFICES ASSUME TypeOK, RereadInv, [Next]_vars PROVE RereadInv'
    OBVIOUS
  <2>0. sub \in Closure /\ job \in Job
    BY DEF TypeOK
  <2>1. CASE UNCHANGED <<sub, job>>
    BY <2>1 DEF RereadInv
  <2>2. CASE \/ \E w \in Writer : EmitWritten(w) \/ ReturnSilently(w)
             \/ \E n \in Notifier : EmitNotified(n)
             \/ EmitResync
    BY <1>3, <2>1, <2>2 DEF EmitWritten, ReturnSilently, EmitNotified, EmitResync, subVars
  <2>3. CASE Open
    BY <2>3 DEF Open, Fetching, NoJob, RereadInv
  <2>4. CASE Stop
    BY <2>0, <2>4 DEF Stop, Closure, RereadInv
  <2>5. CASE FindAnswers \/ CountAnswers \/ RereadAnswers
    BY <2>0, <2>5 DEF FindAnswers, CountAnswers, RereadAnswers, Job, RereadInv
  <2>6. CASE FetchDone \/ FetchFails \/ RereadFails \/ ClearTail
    BY <2>6 DEF FetchDone, FetchFails, RereadFails, ClearTail, Settled, NoJob, RereadInv
  <2>7. CASE RereadDone
    BY <2>7 DEF RereadDone, ApplyStates, Refetch, Fetching, Settled, NoJob, RereadInv
  <2>8. CASE RunNext
    BY <1>2, <2>0, <2>8 DEF RunNext
  <2>9. QED
    BY <2>1, <2>2, <2>3, <2>4, <2>5, <2>6, <2>7, <2>8
    DEF Next, QueueStep, vars, subVars, OtherListens
<1>5. QED
  BY <1>1, <1>4, TypeCorrect, PTL DEF Spec

(***************************************************************************)
(* Between two results the total of a client moves with its rows, for any  *)
(* number of documents and any interleaving: TotalFollowsRows, of the      *)
(* meta.total that applyCollectionChanges keeps.                           *)
(***************************************************************************)
THEOREM TotalsFollowRows == Spec => TotalFollowsRows
<1>1. TypeOK /\ OpenInv /\ RereadInv /\ HeldKeys /\ [Next]_vars
        => (options.includeInitial /\ job.kind # "fetch" => InStep)
  <2> SUFFICES ASSUME TypeOK, OpenInv, RereadInv, HeldKeys, [Next]_vars,
                      options.includeInitial, job.kind # "fetch"
               PROVE  InStep
    OBVIOUS
  <2>0. sub \in Closure /\ client \in Client /\ StoreTypeOK /\ job \in Job
    BY DEF TypeOK
  <2>1. (~sub.isStopped /\ sub.isReady) => sub.sentKeys = Held(client.rows)
    BY DEF OpenInv, HeldKeys, Live
  <2>2. CASE UNCHANGED client
    BY <2>0, <2>2, InStepSame
  <2>3. ASSUME NEW a \in Actions, Receive(a) PROVE InStep
    <3> DEFINE s == [sub EXCEPT !.hasActionDuringInit = @ \/ sub.isInitializing]
    <3>1. /\ s \in Closure
          /\ (~s.isStopped /\ s.isReady) => s.sentKeys = Held(client.rows)
      BY <2>0, <2>1 DEF Closure
    <3>2. HandleAction(s, a, NoJob) \/ UNCHANGED client
      BY <2>3 DEF Receive
    <3> HIDE DEF s
    <3>3. QED
      BY <2>0, <2>2, <3>1, <3>2, InStepHandleAction
  <2>4. CASE \/ \E w \in Writer : EmitWritten(w) \/ ReturnSilently(w)
             \/ \E n \in Notifier : EmitNotified(n)
             \/ EmitResync
    BY <2>0, <2>2, <2>3, <2>4, ActionTypes
    DEF EmitWritten, ReturnSilently, EmitNotified, EmitResync, subVars
  <2>5. CASE RereadFails
    <3>1. client'.rows = client.rows /\ client'.total = client.total
      BY <2>0, <2>5 DEF RereadFails, Report, Client
    <3>2. QED
      BY <2>0, <3>1, InStepSame
  <2>6. CASE RereadDone
    <3>1. RereadStates \in Emitted
      BY <2>0 DEF RereadStates, Emitted, Job
    <3>2. sub.isReady
      BY <2>6 DEF RereadDone, RereadInv
    <3>3. QED
      BY <2>0, <2>1, <2>2, <2>6, <3>1, <3>2, InStepApplyStates DEF RereadDone
  <2>7. CASE RunNext
    <3>1. Head(queue) \in Actions
      BY <2>7 DEF RunNext, TypeOK
    <3>2. QED
      BY <2>0, <2>1, <2>7, <3>1, InStepHandleAction DEF RunNext
  <2>8. CASE Open
    BY <2>2, <2>8 DEF Open
  <2>9. ~FetchDone /\ ~FetchFails
    BY DEF FetchDone, FetchFails
  <2>10. QED
    BY <2>2, <2>4, <2>5, <2>6, <2>7, <2>8, <2>9
    DEF Next, QueueStep, vars, subVars, OtherListens, Stop, FindAnswers, CountAnswers,
        RereadAnswers, ClearTail
<1>2. QED
  BY <1>1, TypeCorrect, OpenFirst, RereadWhenReady, HeldKeysAgree, PTL
  DEF Spec, TotalFollowsRows, InStep

-----------------------------------------------------------------------------
(* The window *)

\* some element of a set of keys has the least rank
LEMMA LeastRank ==
  ASSUME NEW N \in SUBSET Key, N # {}
  PROVE  \E m \in N : \A j \in N : ~(Rank[j] < Rank[m])
<1> DEFINE Under(j) == {i \in N : Rank[i] < Rank[j]}
           T == {Under(j) : j \in N}
<1>1. Rank \in [Key -> Nat] /\ IsFiniteSet(Key)
  BY CollectionAssumption
<1>2. T # {} /\ T \subseteq FiniteSubsetsOf(Key)
  <2>1. \A j \in N : Under(j) \in SUBSET Key /\ IsFiniteSet(Under(j))
    BY <1>1, FS_Subset
  <2> QED
    BY <2>1 DEF FiniteSubsetsOf
<1>3. PICK U \in T : \A V \in T : ~(<<V, U>> \in StrictSubsetOrdering(Key))
  <2>1. IsWellFoundedOn(StrictSubsetOrdering(Key), FiniteSubsetsOf(Key))
    BY FS_StrictSubsetOrderingWellFounded
  <2> HIDE DEF T
  <2> QED
    BY <1>2, <2>1, WFMin
<1>4. PICK m \in N : U = Under(m)
  BY <1>3
<1>5. ASSUME NEW j \in N, Rank[j] < Rank[m] PROVE FALSE
  <2>1. Under(j) \subseteq Under(m) /\ j \in Under(m) /\ j \notin Under(j)
    BY <1>1, <1>5
  <2>2. Under(j) \in SUBSET Key /\ Under(m) \in SUBSET Key
    OBVIOUS
  <2>3. <<Under(j), Under(m)>> \in StrictSubsetOrdering(Key)
    <3> HIDE DEF Under
    <3> QED
      BY <2>1, <2>2 DEF StrictSubsetOrdering
  <2> QED
    BY <1>3, <1>4, <2>3
<1> QED
  BY <1>4, <1>5

\* documents that leave the collection outside of a window that starts with the
\* first one, which all stay, do not move it
LEMMA WindowStays ==
  ASSUME options \in QueryOptions, NEW d \in [Key -> State], NEW e \in [Key -> State],
         Matches(e) \subseteq Matches(d), \A k \in Key : InWindow(d, k) => k \in Matches(e),
         options.skip > 0 \/ ~Windowed => Matches(e) = Matches(d)
  PROVE  \A k \in Key : InWindow(e, k) <=> InWindow(d, k)
<1>0. /\ options.skip \in Nat /\ options.limit \in Nat
      /\ Rank \in [Key -> Nat] /\ IsFiniteSet(Key)
  BY CollectionAssumption DEF QueryOptions
<1>1. CASE Matches(e) = Matches(d)
  BY <1>1 DEF InWindow, Before
<1>2. CASE options.skip = 0 /\ options.limit > 0
  <2>1. \A k \in Key : /\ IsFiniteSet(Before(d, k)) /\ Before(e, k) \subseteq Before(d, k)
                       /\ Cardinality(Before(d, k)) \in Nat /\ Cardinality(Before(e, k)) \in Nat
                       /\ Cardinality(Before(e, k)) <= Cardinality(Before(d, k))
    <3> TAKE k \in Key
    <3>1. Before(d, k) \in SUBSET Key /\ Before(e, k) \in SUBSET Before(d, k)
      BY DEF Before, Matches
    <3>2. IsFiniteSet(Before(d, k)) /\ IsFiniteSet(Before(e, k))
      BY <1>0, <3>1, FS_Subset
    <3> QED
      BY <3>1, <3>2, FS_Subset, FS_CardinalityType
  <2>2. \A c \in {d, e}, k \in Key :
           InWindow(c, k) <=> k \in Matches(c) /\ Cardinality(Before(c, k)) < options.limit
    BY <1>0, <1>2, <2>1 DEF InWindow
  <2>3. ASSUME NEW k \in Key, InWindow(d, k) PROVE InWindow(e, k)
    BY <1>0, <2>1, <2>2, <2>3
  <2>4. ASSUME NEW k \in Key, InWindow(e, k), ~InWindow(d, k) PROVE FALSE
    <3> DEFINE N == {j \in Matches(d) : ~InWindow(d, j)}
    <3>1. k \in N
      BY <2>2, <2>4
    <3>2. PICK m \in N : \A j \in N : ~(Rank[j] < Rank[m])
      <4>1. N \in SUBSET Key /\ N # {}
        BY <3>1 DEF Matches
      <4> HIDE DEF N
      <4> QED
        BY <4>1, LeastRank
    <3>3. m \in Key /\ m \in Matches(d) /\ ~InWindow(d, m) /\ ~(Rank[k] < Rank[m])
      BY <3>1, <3>2 DEF Matches
    <3>4. Before(d, m) \subseteq Before(e, k)
      <4> SUFFICES ASSUME NEW j \in Before(d, m) PROVE j \in Before(e, k)
        OBVIOUS
      <4>1. j \in Matches(d) /\ j \in Key /\ Rank[j] < Rank[m]
        BY DEF Before, Matches
      <4>2. j \in Matches(e)
        BY <3>2, <4>1
      <4>3. Rank[j] < Rank[k]
        BY <1>0, <3>3, <4>1
      <4> QED
        BY <4>2, <4>3 DEF Before
    <3>5. Cardinality(Before(d, m)) <= Cardinality(Before(e, k))
      <4>1. IsFiniteSet(Before(e, k))
        BY <2>1, FS_Subset
      <4> QED
        BY <3>4, <4>1, FS_Subset
    <3> QED
      BY <1>0, <2>1, <2>2, <2>4, <3>3, <3>5
  <2> QED
    BY <2>3, <2>4
<1> QED
  BY <1>0, <1>1, <1>2 DEF Windowed


\* a collection of which some states became known
After(d, states) == [k \in Key |-> IF states[k] = Untouched THEN d[k] ELSE states[k]]

LEMMA AfterType ==
  ASSUME NEW d \in [Key -> State], NEW states \in Emitted
  PROVE  After(d, states) \in [Key -> State]
<1>1. \A k \in Key : states[k] \in State \cup {Untouched} /\ d[k] \in State
  BY DEF Emitted
<1> QED
  BY <1>1 DEF After

\* without a window every matching document is found
LEMMA FoundUnwindowed ==
  ASSUME options \in QueryOptions, ~Windowed, NEW d \in [Key -> State], NEW k \in Key
  PROVE  Found(d)[k] = IF d[k] \in Matching THEN d[k] ELSE NoDoc
<1>1. options.skip = 0 /\ options.limit = 0
  BY DEF QueryOptions, Windowed
<1>2. Before(d, k) \in SUBSET Key
  BY DEF Before, Matches
<1>3. Cardinality(Before(d, k)) \in Nat
  BY <1>2, FS_Subset, FS_CardinalityType, CollectionAssumption
<1> QED
  BY <1>1, <1>3 DEF Found, InWindow, Matches

\* for the keys T the rows are those found in d, sent their keys; and the states move
\* no document into a window or out of it
Steady(d, states, rows, sent, T) ==
    /\ Windowed => T = Key /\ \A k \in KeysOf(states) : k \in sent <=> states[k] \in Matching
    /\ options.skip > 0 => KeysOf(states) \subseteq sent
    /\ \A k \in T : rows[k] = Found(d)[k] /\ (rows[k] # NoDoc <=> k \in sent)

\* what a fetch returns once the states are known
LEMMA FoundAfter ==
  ASSUME options \in QueryOptions, NEW d \in [Key -> State], NEW states \in Emitted,
         NEW rows, NEW sent, NEW T \in SUBSET Key, Steady(d, states, rows, sent, T)
  PROVE  \A k \in T : Found(After(d, states))[k] =
            IF states[k] = Untouched THEN rows[k] ELSE IF states[k] \in Matching THEN states[k] ELSE NoDoc
<1>0. /\ Windowed => T = Key /\ \A k \in KeysOf(states) : k \in sent <=> states[k] \in Matching
      /\ options.skip > 0 => KeysOf(states) \subseteq sent
      /\ \A k \in T : rows[k] = Found(d)[k] /\ (rows[k] # NoDoc <=> k \in sent)
  BY DEF Steady
<1> DEFINE e == After(d, states)
<1>1. e \in [Key -> State] /\ \A k \in Key : e[k] = IF states[k] = Untouched THEN d[k] ELSE states[k]
  BY AfterType DEF After
<1> HIDE DEF e
<1>2. CASE ~Windowed
  <2> SUFFICES ASSUME NEW k \in T
               PROVE  Found(e)[k] = IF states[k] = Untouched THEN rows[k]
                                    ELSE IF states[k] \in Matching THEN states[k] ELSE NoDoc
    BY DEF e
  <2>1. Found(e)[k] = IF e[k] \in Matching THEN e[k] ELSE NoDoc
    BY <1>1, <1>2, FoundUnwindowed
  <2>2. rows[k] = IF d[k] \in Matching THEN d[k] ELSE NoDoc
    BY <1>0, <1>2, FoundUnwindowed
  <2> QED
    BY <1>1, <2>1, <2>2
<1>3. CASE Windowed
  <2>1. T = Key /\ \A k \in KeysOf(states) : k \in sent <=> states[k] \in Matching
    BY <1>0, <1>3
  <2>2. \A k \in Key : /\ Found(d)[k] = IF InWindow(d, k) THEN d[k] ELSE NoDoc
                       /\ Found(e)[k] = IF InWindow(e, k) THEN e[k] ELSE NoDoc
    BY DEF Found
  <2>3. \A k \in Key : InWindow(d, k) => d[k] \in Matching /\ d[k] # NoDoc
    BY CollectionAssumption, SubscribeStoreAssumption DEF InWindow, Matches
  <2>4. \A k \in Key : InWindow(d, k) <=> k \in sent
    BY <1>0, <2>1, <2>2, <2>3
  <2>5. Matches(e) \subseteq Matches(d)
    <3> SUFFICES ASSUME NEW k \in Key, e[k] \in Matching PROVE d[k] \in Matching
      BY DEF Matches
    <3> QED
      BY <1>1, <2>1, <2>3, <2>4 DEF KeysOf
  <2>6. \A k \in Key : InWindow(d, k) => k \in Matches(e)
    <3> SUFFICES ASSUME NEW k \in Key, InWindow(d, k) PROVE e[k] \in Matching
      BY DEF Matches
    <3> QED
      BY <1>1, <2>1, <2>3, <2>4 DEF KeysOf
  <2>7. options.skip > 0 => Matches(e) = Matches(d)
    <3> SUFFICES ASSUME options.skip > 0, NEW k \in Key, d[k] \in Matching PROVE e[k] \in Matching
      BY <2>5 DEF Matches
    <3> QED
      BY <1>0, <1>1, <2>1 DEF KeysOf
  <2>8. \A k \in Key : InWindow(e, k) <=> InWindow(d, k)
    BY <1>1, <1>3, <2>5, <2>6, <2>7, WindowStays
  <2>9. ASSUME NEW k \in Key
        PROVE  Found(e)[k] = IF states[k] = Untouched THEN rows[k]
                             ELSE IF states[k] \in Matching THEN states[k] ELSE NoDoc
    <3>1. /\ Found(e)[k] = IF k \in sent THEN e[k] ELSE NoDoc
          /\ rows[k] = IF k \in sent THEN d[k] ELSE NoDoc
      BY <1>0, <2>1, <2>2, <2>4, <2>8
    <3>2. states[k] # Untouched => (k \in sent <=> states[k] \in Matching)
      BY <2>1 DEF KeysOf
    <3> QED
      BY <1>1, <3>1, <3>2
  <2> QED
    BY <2>1, <2>9 DEF e
<1> QED
  BY <1>2, <1>3

\* the row a client has after a membership, and whether the subscription takes it for held
LEMMA RowAfter ==
  ASSUME NEW c \in Client, NEW states \in Emitted, NEW sent \in SUBSET Key, NEW k \in Key,
         c.rows[k] # NoDoc <=> k \in sent
  PROVE  LET m == Memberships(states, sent)
             row == ApplyChanges(c, m, states).rows[k]
         IN  /\ row = IF states[k] = Untouched THEN c.rows[k]
                      ELSE IF states[k] \in Matching THEN states[k] ELSE NoDoc
             /\ row # NoDoc <=> k \in KeysAfter(sent, m)
<1> DEFINE m == Memberships(states, sent)
           row == ApplyChanges(c, m, states).rows[k]
<1>1. row = CASE k \in m.deleted -> NoDoc
              [] k \in m.inserted -> states[k]
              [] k \in m.updated /\ c.rows[k] # NoDoc -> states[k]
              [] OTHER -> c.rows[k]
  BY DEF ApplyChanges, Client
<1>2. /\ k \in m.deleted <=> states[k] # Untouched /\ k \in sent /\ states[k] \notin Matching
      /\ k \in m.inserted <=> states[k] # Untouched /\ k \notin sent /\ states[k] \in Matching
      /\ k \in m.updated <=> states[k] # Untouched /\ k \in sent /\ states[k] \in Matching
  BY DEF Memberships, KeysOf
<1>3. states[k] \in Matching => states[k] # NoDoc
  BY CollectionAssumption, SubscribeStoreAssumption
<1> HIDE DEF m, row
<1>4. row = IF states[k] = Untouched THEN c.rows[k]
            ELSE IF states[k] \in Matching THEN states[k] ELSE NoDoc
  <2>1. CASE k \in m.deleted
    BY <1>1, <1>2, <2>1
  <2>2. CASE k \in m.inserted
    BY <1>1, <1>2, <2>2
  <2>3. CASE k \notin m.deleted \cup m.inserted
    BY <1>1, <1>2, <2>3
  <2> QED
    BY <2>1, <2>2, <2>3
<1>5. row # NoDoc <=> k \in (sent \ m.deleted) \cup m.inserted
  BY <1>2, <1>3, <1>4
<1> QED
  BY <1>4, <1>5 DEF m, row, KeysAfter


-----------------------------------------------------------------------------
(* What the client shows, once everything was told *)

\* the action tells what is stored under k; or it would have a client show
\* something else
Tells(a, k) == a.type = "resync" \/ (k \in KeysOf(a.states) /\ a.states[k] = db[k])
Misleads(a, k) == a.type \notin {"changed", "resync"} /\ k \in KeysOf(a.states) /\ a.states[k] # db[k]

\* The client shows what is found in a collection d, or will show it when the
\* pending fetch is done.
ShownFrom(d, k) ==
    IF job.kind = "fetch" THEN job.findDone => job.rows[k] = Found(d)[k]
    ELSE client.hasError \/ client.rows[k] = Found(d)[k]

\* d is as good as the stored collection for k, or the pending work reads k yet
Same(d, k) == d[k] = db[k] \/ (d[k] \notin Matching /\ db[k] \notin Matching)
Works(d, k) ==
    CASE job.kind = "fetch" -> ~job.findDone \/ Same(d, k)
      [] job.kind = "reread" /\ k \in job.keys -> ~job.findDone \/ job.rows[k] = db[k]
      [] OTHER -> Same(d, k) \/ client.hasError

\* the queue ends with what is stored under k
Settles(d, k) ==
    \/ \E i \in DOMAIN queue : /\ Tells(queue[i], k)
                               /\ \A j \in DOMAIN queue : j > i => ~Misleads(queue[j], k)
    \/ Works(d, k) /\ \A j \in DOMAIN queue : ~Misleads(queue[j], k)

Tracked(k) == Live /\ options.isTestable /\ k \notin Excused(Why)
HeldAt(k) == sub.isReady => (client.rows[k] # NoDoc <=> k \in sub.sentKeys)
ToldOf(d, k) == k \in owed \/ Underway(k) \/ Settles(d, k)

\* there is a collection the client follows, for every key without a gap
Follows(d) == \A k \in Key : Tracked(k) => HeldAt(k) /\ ShownFrom(d, k) /\ ToldOf(d, k)
FollowInv == \E d \in [Key -> State] : Follows(d)

ListensInv ==
    /\ Live => Sub \in listeners
    /\ Live /\ ~sub.isReady => job.kind = "fetch" \/ client.hasError
    /\ job.kind = "idle" => queue = <<>>
    /\ job.kind = "reread" => sub.isReady /\ (options.skip > 0 => job.keys \subseteq sub.sentKeys)

\* the closure an action is handled with
Alike(s) ==
    /\ s.isOpen = sub.isOpen /\ s.isStopped = sub.isStopped /\ s.isReady = sub.isReady
    /\ s.sentKeys = sub.sentKeys

LEMMA ReceiveHandles ==
  ASSUME TypeOK, NEW a, Receive(a), Sub \in listeners
  PROVE  \E s \in Closure :
            /\ Alike(s) /\ options' = options
            /\ \/ job.kind = "idle" /\ HandleAction(s, a, NoJob) /\ queue' = queue
               \/ job.kind # "idle" /\ queue' = Append(queue, a) /\ sub' = s /\ UNCHANGED <<job, client>>
<1> DEFINE s == [sub EXCEPT !.hasActionDuringInit = @ \/ sub.isInitializing]
<1>1. s \in Closure /\ Alike(s)
  BY DEF TypeOK, Closure, Alike
<1>2. /\ options' = options
      /\ \/ job.kind = "idle" /\ HandleAction(s, a, NoJob) /\ queue' = queue
         \/ job.kind # "idle" /\ queue' = Append(queue, a) /\ sub' = s /\ UNCHANGED <<job, client>>
  BY DEF Receive, Pending
<1> HIDE DEF s
<1> QED
  BY <1>1, <1>2

\* Handled from a closure, an action leaves one that is open as before, with
\* work it has a right to.
LEMMA HandleListens ==
  ASSUME ListensInv, sub \in Closure, client \in Client,
         NEW s \in Closure, Alike(s), NEW a \in Actions, NEW done \in {NoJob, Settled},
         job.kind \in {"idle", "settled"}, HandleAction(s, a, done), UNCHANGED options
  PROVE  /\ sub'.isOpen = sub.isOpen /\ sub'.isStopped = sub.isStopped /\ sub'.isReady = sub.isReady
         /\ Live /\ ~sub.isReady => job'.kind = "fetch" \/ client'.hasError
         /\ job'.kind = "reread" =>
               sub'.isReady /\ (options.skip > 0 => job'.keys \subseteq sub'.sentKeys)
         /\ job'.kind = "idle" => job' = NoJob /\ done = NoJob
<1>0. /\ NoJob.kind = "idle" /\ Settled.kind = "settled" /\ Fetching(FALSE).kind = "fetch"
      /\ \A ks : Rereading(ks).kind = "reread" /\ Rereading(ks).keys = ks
  BY DEF NoJob, Settled, Fetching, Rereading
<1>1. CASE Refetch(s)
  BY <1>0, <1>1 DEF Refetch, Alike
<1>2. CASE sub' = s /\ job' = done /\ UNCHANGED client
  BY <1>0, <1>2 DEF Alike, ListensInv
<1>3. CASE /\ ~Ignored(s, a) /\ ~MayShift(s, a) /\ a.type = "changed"
           /\ sub' = s /\ job' = Rereading(Concerned(s, a)) /\ UNCHANGED client
  BY <1>0, <1>3 DEF Ignored, MayShift, Concerned, Alike
<1>4. CASE ~Ignored(s, a) /\ a.type # "resync" /\ ApplyStates(s, a.states, done)
  <2>1. s.isReady
    BY <1>4 DEF Ignored
  <2>2. sub'.isOpen = s.isOpen /\ sub'.isStopped = s.isStopped /\ sub'.isReady = s.isReady
    BY <1>4 DEF ApplyStates, Refetch, Closure
  <2> QED
    BY <1>0, <1>4, <2>1, <2>2 DEF ApplyStates, Refetch, Alike
<1> QED
  BY <1>1, <1>2, <1>3, <1>4 DEF HandleAction

LEMMA ReceiveListens ==
  ASSUME TypeOK, OpenInv, ListensInv, NEW a \in Actions, Receive(a), UNCHANGED listeners
  PROVE  ListensInv'
<1>1. CASE Sub \notin listeners
  BY <1>1 DEF Receive, ListensInv, Live
<1>2. CASE Sub \in listeners
  <2>1. PICK s \in Closure :
            /\ Alike(s) /\ options' = options
            /\ \/ job.kind = "idle" /\ HandleAction(s, a, NoJob) /\ queue' = queue
               \/ job.kind # "idle" /\ queue' = Append(queue, a) /\ sub' = s /\ UNCHANGED <<job, client>>
    BY <1>2, ReceiveHandles
  <2>2. CASE job.kind = "idle" /\ HandleAction(s, a, NoJob) /\ queue' = queue
    BY <2>1, <2>2, HandleListens DEF TypeOK, ListensInv, Live
  <2>3. CASE job.kind # "idle" /\ sub' = s /\ UNCHANGED <<job, client>>
    BY <2>1, <2>3 DEF ListensInv, Live, Alike
  <2> QED
    BY <2>1, <2>2, <2>3
<1> QED
  BY <1>1, <1>2

\* A subscription that lives is called for every emission; not ready, it fetches or was
\* told of an error; and what it re-reads does not move its window.
LEMMA LiveListens == Spec => []ListensInv
<1>1. Init => ListensInv
  BY DEF Init, ListensInv, Live, NoJob
<1>2. TypeOK /\ OpenInv /\ ListensInv /\ [Next]_vars => ListensInv'
  <2> SUFFICES ASSUME TypeOK, OpenInv, ListensInv, [Next]_vars PROVE ListensInv'
    OBVIOUS
  <2>0. sub \in Closure /\ client \in Client /\ StoreTypeOK /\ job \in Job /\ queue \in Seq(Actions)
    BY DEF TypeOK
  <2>1. CASE StoreStep /\ UNCHANGED subVars
    <3>1. UNCHANGED listeners
      BY <2>1 DEF StoreStep, LocalStep, ForeignStep, NotifierStep, Begin, FindKeys, Commit, Miss, CommandFails, FindKeysFails, ReadBack,
         ReadBackFails, Foreign, NotifyChanged, NotifyFinds, NotifyFails
    <3> QED
      BY <2>1, <3>1 DEF subVars, ListensInv, Live
  <2>2. CASE UNCHANGED <<subVars, listeners>>
    BY <2>2 DEF subVars, ListensInv, Live
  <2>3. CASE \/ \E w \in Writer : EmitWritten(w) \/ ReturnSilently(w)
             \/ \E n \in Notifier : EmitNotified(n)
             \/ EmitResync
    BY <2>0, <2>2, <2>3, ReceiveListens, ActionTypes
    DEF EmitWritten, ReturnSilently, EmitNotified, EmitResync, Return, EmitChanged, Resync
  <2>4. CASE Open
    BY <2>0, <2>4 DEF Open, Subscribe, Fetching, NoJob, ListensInv, OpenInv, Closure, Live
  <2>5. CASE Stop
    BY <2>0, <2>5 DEF Stop, Unsubscribe, ListensInv, Closure, Live
  <2>6. CASE OtherListens
    BY <2>6 DEF OtherListens, Subscribe, subVars, ListensInv, Live
  <2>7. CASE FindAnswers \/ CountAnswers \/ RereadAnswers
    BY <2>0, <2>7 DEF FindAnswers, CountAnswers, RereadAnswers, storeVars, Job, ListensInv, Live
  <2>8. CASE FetchDone
    BY <2>0, <2>8 DEF FetchDone, Settled, NoJob, Closure, ListensInv, Live
  <2>9. CASE FetchFails \/ RereadFails
    <3>1. UNCHANGED <<sub, listeners, queue>> /\ job' = Settled /\ (Live => client'.hasError)
      BY <2>0, <2>9 DEF FetchFails, RereadFails, Report, Client, storeVars, Live
    <3> QED
      BY <3>1 DEF Settled, NoJob, ListensInv, Live
  <2>10. CASE RereadDone
    <3>1. sub.isReady /\ UNCHANGED <<listeners, queue, options>>
      BY <2>10 DEF RereadDone, ListensInv, storeVars
    <3>2. /\ sub'.isOpen = sub.isOpen /\ sub'.isStopped = sub.isStopped /\ sub'.isReady = sub.isReady
          /\ job' = Settled \/ job' = Fetching(FALSE)
      BY <2>0, <2>10 DEF RereadDone, ApplyStates, Refetch, Closure
    <3> QED
      BY <3>1, <3>2 DEF Settled, NoJob, Fetching, ListensInv, Live
  <2>11. CASE RunNext
    <3>1. Head(queue) \in Actions /\ job.kind = "settled" /\ HandleAction(sub, Head(queue), Settled)
            /\ UNCHANGED <<listeners, options>> /\ NoJob # Settled
      BY <2>0, <2>11 DEF RunNext, storeVars, NoJob, Settled
    <3>2. Alike(sub)
      BY DEF Alike
    <3> QED
      BY <2>0, <3>1, <3>2, HandleListens DEF ListensInv, Live
  <2>12. CASE ClearTail
    BY <2>12 DEF ClearTail, NoJob, storeVars, ListensInv, Live
  <2> QED
    BY <2>1, <2>2, <2>3, <2>4, <2>5, <2>6, <2>7, <2>8, <2>9, <2>10, <2>11, <2>12
    DEF Next, QueueStep, vars, storeVars
<1> QED
  BY <1>1, <1>2, TypeCorrect, OpenFirst, PTL DEF Spec


\* with a window the keys are tracked together
LEMMA TrackedTogether ==
  ASSUME NEW j \in Key, Tracked(j)
  PROVE  /\ NoGap(j) /\ Live /\ options.isTestable
         /\ Windowed => \A k \in Key : Tracked(k)
  BY DEF Tracked, Excused, GapKeys, NoGap

LEMMA TrackedBefore ==
  ASSUME NEW k \in Key, Tracked(k)', gaps \subseteq gaps', options' = options, Live' => Live
  PROVE  Tracked(k)
<1>1. GapKeys(Why) \subseteq GapKeys(Why)' /\ Windowed' = Windowed
  BY DEF GapKeys, Windowed
<1>2. Excused(Why) \subseteq Excused(Why)'
  BY <1>1 DEF Excused, GapKeys
<1> QED
  BY <1>2 DEF Tracked

\* what a fetch returns for the tracked keys once the states are known
LEMMA TrackedFound ==
  ASSUME options \in QueryOptions, sub \in Closure, NEW d \in [Key -> State], NEW states \in Emitted,
         Windowed => \A k \in KeysOf(states) : k \in sub.sentKeys <=> states[k] \in Matching,
         options.skip > 0 => KeysOf(states) \subseteq sub.sentKeys,
         \A k \in Key : Tracked(k) =>
            client.rows[k] = Found(d)[k] /\ (client.rows[k] # NoDoc <=> k \in sub.sentKeys),
         NEW j \in Key, Tracked(j)
  PROVE  Found(After(d, states))[j] =
            IF states[j] = Untouched THEN client.rows[j]
            ELSE IF states[j] \in Matching THEN states[j] ELSE NoDoc
<1> DEFINE T == {k \in Key : Tracked(k)}
<1>1. Windowed => T = Key /\ \A k \in KeysOf(states) : k \in sub.sentKeys <=> states[k] \in Matching
  <2>1. ASSUME Windowed PROVE T = Key
    BY <2>1, TrackedTogether
  <2> QED
    BY <2>1
<1>2. \A k \in T : client.rows[k] = Found(d)[k] /\ (client.rows[k] # NoDoc <=> k \in sub.sentKeys)
  OBVIOUS
<1>3. j \in T /\ T \in SUBSET Key
  OBVIOUS
<1> HIDE DEF T
<1>4. Steady(d, states, client.rows, sub.sentKeys, T)
  BY <1>1, <1>2 DEF Steady
<1> QED
  BY <1>3, <1>4, FoundAfter

\* a step of the store, the subscription doing nothing
LEMMA IdleFollows ==
  ASSUME UNCHANGED subVars, gaps \subseteq gaps', NEW d \in [Key -> State], Follows(d),
         \A k \in Key : Tracked(k)' =>
            \/ db'[k] = db[k] /\ (ToldOf(d, k) => Settles(d, k) \/ k \in owed' \/ Underway(k)')
            \/ k \in owed' \/ Underway(k)'
  PROVE  Follows(d)'
<1> SUFFICES ASSUME NEW k \in Key, Tracked(k)' PROVE (HeldAt(k) /\ ShownFrom(d, k) /\ ToldOf(d, k))'
  BY DEF Follows
<1>1. Tracked(k)
  BY TrackedBefore DEF subVars, Live
<1>2. HeldAt(k)' /\ ShownFrom(d, k)'
  <2>1. HeldAt(k) /\ ShownFrom(d, k)
    BY <1>1 DEF Follows
  <2>2. Found(d)' = Found(d)
    BY DEF subVars, Found, InWindow, Before, Matches
  <2> QED
    BY <2>1, <2>2 DEF subVars, HeldAt, ShownFrom
<1>3. ASSUME db'[k] = db[k], Settles(d, k) PROVE Settles(d, k)'
  BY <1>3 DEF subVars, Settles, Works, Same, Tells, Misleads
<1>4. ToldOf(d, k)
  BY <1>1 DEF Follows
<1> QED
  BY <1>2, <1>3, <1>4 DEF ToldOf

LEMMA StoreFollows ==
  ASSUME StoreInv, ListensInv, NEW d \in [Key -> State], Follows(d), StoreStep, UNCHANGED subVars
  PROVE  Follows(d)'
<1>0. gaps \subseteq gaps'
  BY GapsGrow
<1>1. ASSUME NEW k \in Key, Tracked(k)'
      PROVE  HasListeners /\ Heard(k)'
  <2>1. Tracked(k)
    BY <1>0, <1>1, TrackedBefore DEF subVars, Live
  <2>2. HasListeners
    BY <2>1 DEF Tracked, ListensInv, HasListeners
  <2>3. Heard(k)'
    BY <1>1 DEF Tracked, Excused, GapKeys, Heard, Why
  <2> QED
    BY <2>2, <2>3
<1>2. ASSUME NEW k \in Key, Tracked(k)'
      PROVE  \/ db'[k] = db[k] /\ (ToldOf(d, k) => Settles(d, k) \/ k \in owed' \/ Underway(k)')
             \/ k \in owed' \/ Underway(k)'
  BY <1>1, <1>2, StoreTells DEF ToldOf
<1> QED
  BY <1>0, <1>2, IdleFollows

\* What becomes of the collection that is followed when states are applied: they
\* become part of it, or all is fetched again.
LEMMA ApplyFollows ==
  ASSUME options \in QueryOptions, sub \in Closure, client \in Client, UNCHANGED <<db, gaps, options>>,
         NEW s \in Closure, Alike(s), s.isReady, ~s.isStopped, NEW states \in Emitted,
         NEW done \in {NoJob, Settled}, job.kind # "fetch",
         options.skip > 0 => KeysOf(states) \subseteq s.sentKeys,
         ApplyStates(s, states, done),
         NEW d \in [Key -> State], \A k \in Key : Tracked(k) => HeldAt(k) /\ ShownFrom(d, k)
  PROVE  /\ \A k \in Key : Tracked(k) => HeldAt(k)'
         /\ \/ job' = Fetching(FALSE)
            \/ /\ job' = done /\ client'.hasError = client.hasError
               /\ \A k \in Key : Tracked(k) => ShownFrom(After(d, states), k)'
<1>0. /\ s.sentKeys \in SUBSET Key /\ s.sentKeys = sub.sentKeys /\ s.isReady = sub.isReady
      /\ NoJob.kind = "idle" /\ Settled.kind = "settled"
  BY DEF Closure, Alike, NoJob, Settled
<1> DEFINE m == Memberships(states, s.sentKeys)
<1>1. CASE Refetch(s)
  BY <1>0, <1>1 DEF Refetch, HeldAt
<1>2. CASE /\ ~Windowed \/ m.inserted \cup m.deleted = {}
           /\ sub' = [s EXCEPT !.sentKeys = KeysAfter(@, m)]
           /\ client' = ApplyChanges(client, m, states)
           /\ job' = done
  <2>1. sub'.sentKeys = KeysAfter(s.sentKeys, m) /\ client'.hasError = client.hasError
    BY <1>2 DEF Closure, ApplyChanges, Client
  <2>2. ASSUME NEW k \in Key, Tracked(k)
        PROVE  /\ client.rows[k] # NoDoc <=> k \in s.sentKeys
               /\ client'.rows[k] = IF states[k] = Untouched THEN client.rows[k]
                                    ELSE IF states[k] \in Matching THEN states[k] ELSE NoDoc
               /\ client'.rows[k] # NoDoc <=> k \in sub'.sentKeys
    <3>1. client.rows[k] # NoDoc <=> k \in s.sentKeys
      BY <1>0, <2>2 DEF HeldAt
    <3> HIDE DEF m
    <3> QED
      BY <1>0, <1>2, <2>1, <3>1, RowAfter DEF m
  <2>3. \A k \in Key : Tracked(k) => HeldAt(k)'
    BY <2>2 DEF HeldAt
  <2>4. ASSUME ~client.hasError, NEW j \in Key, Tracked(j)
        PROVE  client'.rows[j] = Found(After(d, states))[j]
    <3>1. Windowed => \A k \in KeysOf(states) : k \in sub.sentKeys <=> states[k] \in Matching
      BY <1>0, <1>2 DEF Memberships
    <3>2. \A k \in Key : Tracked(k) =>
             client.rows[k] = Found(d)[k] /\ (client.rows[k] # NoDoc <=> k \in sub.sentKeys)
      BY <1>0, <2>2, <2>4 DEF ShownFrom
    <3>3. options.skip > 0 => KeysOf(states) \subseteq sub.sentKeys
      BY <1>0
    <3>4. Found(After(d, states))[j] =
            IF states[j] = Untouched THEN client.rows[j] ELSE IF states[j] \in Matching THEN states[j] ELSE NoDoc
      BY <2>4, <3>1, <3>2, <3>3, TrackedFound
    <3> QED
      BY <2>2, <2>4, <3>4
  <2>5. \A k \in Key : Tracked(k) => ShownFrom(After(d, states), k)'
    <3> SUFFICES ASSUME NEW k \in Key, Tracked(k), ~client.hasError
                 PROVE  client'.rows[k] = Found(After(d, states))'[k]
      BY <1>0, <1>2, <2>1 DEF ShownFrom
    <3>1. Found(After(d, states))' = Found(After(d, states))
      BY DEF Found, InWindow, Before, Matches
    <3> QED
      BY <2>4, <3>1
  <2> QED
    BY <1>2, <2>1, <2>3, <2>5
<1> QED
  BY <1>1, <1>2 DEF ApplyStates


\* Handling an action, a subscription comes to follow a collection that has what the
\* action tells.
LEMMA ActionFollows ==
  ASSUME options \in QueryOptions, sub \in Closure, client \in Client, db \in [Key -> State],
         ListensInv, UNCHANGED <<db, gaps, options>>,
         NEW s \in Closure, Alike(s), NEW a \in Actions, NEW done \in {NoJob, Settled},
         job.kind \in {"idle", "settled"}, HandleAction(s, a, done),
         NEW d \in [Key -> State], \A k \in Key : Tracked(k) => HeldAt(k) /\ ShownFrom(d, k)
  PROVE  \E e \in [Key -> State] : \A k \in Key : Tracked(k) =>
            /\ HeldAt(k)' /\ ShownFrom(e, k)'
            /\ Tells(a, k) \/ (Works(d, k) /\ ~Misleads(a, k)) => Works(e, k)'
<1>0. /\ NoJob.kind = "idle" /\ Settled.kind = "settled"
      /\ Fetching(FALSE).kind = "fetch" /\ Fetching(FALSE).findDone = FALSE
      /\ \A ks : /\ Rereading(ks).kind = "reread" /\ Rereading(ks).findDone = FALSE
                 /\ Rereading(ks).keys = ks
      /\ a.states \in Emitted /\ s.sentKeys \in SUBSET Key
  BY DEF NoJob, Settled, Fetching, Rereading, Actions, Closure
<1>1. \A k \in Key : Works(d, k) => Same(d, k) \/ client.hasError
  BY DEF Works
<1> DEFINE After1(e, k) ==
             Tells(a, k) \/ (Works(d, k) /\ ~Misleads(a, k)) => Works(e, k)'
           Goal == \E e \in [Key -> State] : \A k \in Key : Tracked(k) =>
             HeldAt(k)' /\ ShownFrom(e, k)' /\ After1(e, k)
<1>2. CASE job' = Fetching(FALSE) /\ \A k \in Key : Tracked(k) => HeldAt(k)'
  <2>1. \A k \in Key : ShownFrom(d, k)' /\ Works(d, k)'
    BY <1>0, <1>2 DEF ShownFrom, Works
  <2> QED
    BY <1>2, <2>1
<1>3. CASE Refetch(s)
  <2>1. \A k \in Key : HeldAt(k) => HeldAt(k)'
    BY <1>3 DEF Refetch, HeldAt, Alike
  <2> QED
    BY <1>2, <1>3, <2>1 DEF Refetch
\* nothing is done, or what is told of is re-read
<1>4. ASSUME NEW ks \in SUBSET Key, sub' = s, UNCHANGED client,
             (job' = done /\ ks = {}) \/ job' = Rereading(ks),
             client.hasError \/
               /\ s.isReady /\ a.type = "changed"
               /\ \A k \in KeysOf(a.states) \ ks : k \notin s.sentKeys /\ a.states[k] \notin Matching
               /\ options.skip > 0 => KeysOf(a.states) \subseteq s.sentKeys
      PROVE  Goal
  <2>1. \A k \in Key : HeldAt(k) => HeldAt(k)'
    BY <1>4 DEF HeldAt, Alike
  <2>2. CASE client.hasError
    <3>1. \A k \in Key : ShownFrom(d, k)' /\ Works(d, k)'
      BY <1>0, <1>4, <2>2 DEF ShownFrom, Works
    <3> QED
      BY <2>1, <3>1
  <2>3. CASE ~client.hasError
    <3>1. PICK told \in Emitted : \A k \in Key :
             told[k] = IF k \in KeysOf(a.states) \ ks /\ a.states[k] = db[k] THEN a.states[k] ELSE Untouched
      <4> DEFINE t == [k \in Key |-> IF k \in KeysOf(a.states) \ ks /\ a.states[k] = db[k]
                                     THEN a.states[k] ELSE Untouched]
      <4>1. t \in Emitted
        BY <1>0 DEF Emitted
      <4> QED
        BY <4>1
    <3> DEFINE e == After(d, told)
    <3>2. \A k \in Key : told[k] # Untouched =>
             /\ k \in KeysOf(a.states) \ ks /\ told[k] = db[k]
             /\ k \notin s.sentKeys /\ told[k] \notin Matching
      BY <1>4, <2>3, <3>1
    <3>3. e \in [Key -> State] /\ \A k \in Key : e[k] = IF told[k] = Untouched THEN d[k] ELSE told[k]
      BY <3>1, AfterType DEF After
    <3>4. ASSUME NEW k \in Key, Tracked(k) PROVE client.rows[k] = Found(e)[k]
      <4>1. \A j \in KeysOf(told) : j \in sub.sentKeys <=> told[j] \in Matching
        BY <1>4, <3>2 DEF KeysOf, Alike
      <4>2. \A j \in Key : Tracked(j) =>
               client.rows[j] = Found(d)[j] /\ (client.rows[j] # NoDoc <=> j \in sub.sentKeys)
        BY <1>0, <1>4, <2>3 DEF ShownFrom, HeldAt, Alike
      <4>3. options.skip > 0 => KeysOf(told) \subseteq sub.sentKeys
        BY <1>4, <2>3, <3>2 DEF KeysOf, Alike
      <4>4. Found(After(d, told))[k] =
               IF told[k] = Untouched THEN client.rows[k]
               ELSE IF told[k] \in Matching THEN told[k] ELSE NoDoc
        BY <3>1, <3>4, <4>1, <4>2, <4>3, TrackedFound
      <4> QED
        BY <3>2, <3>4, <4>2, <4>4 DEF Alike
    <3>5. Found(e)' = Found(e)
      BY DEF Found, InWindow, Before, Matches, After
    <3>6. ASSUME NEW k \in Key, Tracked(k) PROVE HeldAt(k)' /\ ShownFrom(e, k)'
      <4>1. HeldAt(k)'
        BY <2>1, <3>6
      <4>2. job'.kind # "fetch" /\ client' = client
        BY <1>0, <1>4
      <4> HIDE DEF e
      <4> QED
        BY <3>4, <3>5, <3>6, <4>1, <4>2 DEF ShownFrom
    <3>7. ASSUME NEW k \in Key, Tells(a, k) \/ Works(d, k) PROVE Works(e, k)'
      <4>1. CASE job' = Rereading(ks) /\ k \in ks
        BY <1>0, <4>1 DEF Works
      <4>2. CASE k \notin ks
        <5>1. told[k] # Untouched => e[k] = db[k]
          BY <3>2, <3>3
        <5>2. told[k] = Untouched => Same(d, k) /\ e[k] = d[k]
          <6>1. told[k] = Untouched => ~Tells(a, k)
            BY <1>4, <2>3, <3>1, <4>2 DEF Tells, KeysOf
          <6> QED
            BY <1>1, <2>3, <3>3, <3>7, <6>1
        <5>3. Same(e, k)'
          <6> HIDE DEF e
          <6> QED
            BY <5>1, <5>2 DEF Same
        <5>4. job'.kind # "fetch" /\ ~(job'.kind = "reread" /\ k \in job'.keys)
          BY <1>0, <1>4, <4>2
        <5> HIDE DEF e
        <5> QED
          BY <5>3, <5>4 DEF Works
      <4> QED
        BY <1>4, <4>1, <4>2
    <3> HIDE DEF e
    <3> QED
      BY <3>3, <3>6, <3>7
  <2> QED
    BY <2>2, <2>3
<1>5. CASE Live
  <2>1. ~s.isStopped
    BY <1>5 DEF Live, Alike
  <2>2. CASE Ignored(s, a) /\ sub' = s /\ job' = done /\ UNCHANGED client
    <3>1. CASE options.isTestable
      <4>1. client.hasError
        BY <1>5, <2>1, <2>2, <3>1 DEF Ignored, ListensInv, Alike
      <4>2. {} \in SUBSET Key
        OBVIOUS
      <4> QED
        BY <1>4, <2>2, <4>1, <4>2
    <3>2. CASE ~options.isTestable
      BY <3>2 DEF Tracked
    <3> QED
      BY <3>1, <3>2
  <2>3. CASE /\ ~Ignored(s, a) /\ a.type = "changed" /\ ~MayShift(s, a) /\ Concerned(s, a) = {}
             /\ sub' = s /\ job' = done /\ UNCHANGED client
    <3>1. s.isReady
      BY <2>3 DEF Ignored
    <3> QED
      BY <1>4, <2>3, <3>1 DEF MayShift, Concerned
  <2>4. CASE /\ ~Ignored(s, a) /\ ~MayShift(s, a) /\ a.type = "changed"
             /\ sub' = s /\ job' = Rereading(Concerned(s, a)) /\ UNCHANGED client
    <3>1. s.isReady
      BY <2>4 DEF Ignored
    <3>2. Concerned(s, a) \in SUBSET Key
      BY DEF Concerned, KeysOf
    <3>3. /\ \A k \in KeysOf(a.states) \ Concerned(s, a) : k \notin s.sentKeys /\ a.states[k] \notin Matching
          /\ options.skip > 0 => KeysOf(a.states) \subseteq s.sentKeys
      BY <2>4 DEF Concerned, MayShift
    <3> QED
      BY <1>4, <2>4, <3>1, <3>2, <3>3
  <2>5. CASE /\ ~Ignored(s, a) /\ ~MayShift(s, a) /\ a.type \notin {"changed", "resync"}
             /\ ApplyStates(s, a.states, done)
    <3>1. s.isReady /\ (options.skip > 0 => KeysOf(a.states) \subseteq s.sentKeys)
      BY <2>5 DEF Ignored, MayShift
    <3>2. /\ \A k \in Key : Tracked(k) => HeldAt(k)'
          /\ \/ job' = Fetching(FALSE)
             \/ /\ job' = done /\ client'.hasError = client.hasError
                /\ \A k \in Key : Tracked(k) => ShownFrom(After(d, a.states), k)'
      BY <1>0, <2>1, <2>5, <3>1, ApplyFollows
    <3>3. CASE job' = Fetching(FALSE)
      BY <1>2, <3>2, <3>3
    <3>4. CASE /\ job' = done /\ client'.hasError = client.hasError
               /\ \A k \in Key : Tracked(k) => ShownFrom(After(d, a.states), k)'
      <4> DEFINE e == After(d, a.states)
      <4>1. /\ e \in [Key -> State]
            /\ \A k \in Key : e[k] = IF a.states[k] = Untouched THEN d[k] ELSE a.states[k]
        BY <1>0, AfterType DEF After
      <4>2. ASSUME NEW k \in Key, Tells(a, k) \/ (Works(d, k) /\ ~Misleads(a, k)) PROVE Works(e, k)'
        <5>1. job'.kind \notin {"fetch", "reread"} /\ db' = db
          BY <1>0, <3>4
        <5>2. Same(e, k)' \/ client.hasError
          <6>1. CASE a.states[k] = Untouched
            <7>1. Same(d, k) \/ client.hasError
              BY <1>1, <2>5, <4>2, <6>1 DEF Tells, KeysOf
            <7> HIDE DEF e
            <7> QED
              BY <4>1, <5>1, <6>1, <7>1 DEF Same
          <6>2. CASE a.states[k] # Untouched
            <7>1. a.states[k] = db[k]
              BY <2>5, <4>2, <6>2 DEF Tells, Misleads, KeysOf
            <7> HIDE DEF e
            <7> QED
              BY <4>1, <5>1, <6>2, <7>1 DEF Same
          <6> QED
            BY <6>1, <6>2
        <5> HIDE DEF e
        <5> QED
          BY <3>4, <5>1, <5>2 DEF Works
      <4> HIDE DEF e
      <4> QED
        BY <3>2, <3>4, <4>1, <4>2 DEF e
    <3> QED
      BY <3>2, <3>3, <3>4
  <2> QED
    BY <1>3, <2>2, <2>3, <2>4, <2>5 DEF HandleAction
<1>6. CASE ~Live
  BY <1>6 DEF Tracked
<1> QED
  BY <1>5, <1>6


\* an action that tells what is stored under k settles the queue it is put behind
LEMMA AppendSettles ==
  ASSUME queue \in Seq(Actions), NEW a \in Actions, queue' = Append(queue, a),
         UNCHANGED <<db, job>>, client'.hasError = client.hasError,
         NEW d, NEW k \in Key, ~Misleads(a, k), Tells(a, k) \/ Settles(d, k)
  PROVE  Settles(d, k)'
<1>0. PICK n \in Nat :
         /\ DOMAIN queue = 1 .. n /\ DOMAIN queue' = 1 .. (n + 1)
         /\ queue'[n + 1] = a /\ \A i \in 1 .. n : queue'[i] = queue[i]
  <2>1. Len(queue) \in Nat
    OBVIOUS
  <2>2. /\ DOMAIN queue = 1 .. Len(queue) /\ DOMAIN queue' = 1 .. (Len(queue) + 1)
        /\ queue'[Len(queue) + 1] = a /\ \A i \in 1 .. Len(queue) : queue'[i] = queue[i]
    OBVIOUS
  <2> QED
    BY <2>1, <2>2
<1>1. /\ Tells(queue[n + 1], k)' <=> Tells(a, k)
      /\ \A i \in 1 .. n : Tells(queue[i], k)' <=> Tells(queue[i], k)
      /\ \A i \in 1 .. n : Misleads(queue[i], k)' <=> Misleads(queue[i], k)
      /\ ~Misleads(queue[n + 1], k)'
  BY <1>0 DEF Tells, Misleads
<1>2. CASE Tells(a, k)
  <2>1. n + 1 \in DOMAIN queue' /\ \A j \in DOMAIN queue' : ~(j > n + 1)
    BY <1>0
  <2>2. Tells(queue[n + 1], k)'
    BY <1>1, <1>2
  <2> QED
    BY <2>1, <2>2 DEF Settles
<1>3. ASSUME NEW i \in DOMAIN queue, Tells(queue[i], k),
             \A j \in DOMAIN queue : j > i => ~Misleads(queue[j], k)
      PROVE  Settles(d, k)'
  <2>1. i \in DOMAIN queue' /\ Tells(queue[i], k)'
    BY <1>0, <1>1, <1>3
  <2>2. ASSUME NEW j \in DOMAIN queue', j > i PROVE ~Misleads(queue[j], k)'
    <3>1. j \in 1 .. n \/ j = n + 1
      BY <1>0, <2>2
    <3> QED
      BY <1>0, <1>1, <1>3, <2>2, <3>1
  <2> QED
    BY <2>1, <2>2 DEF Settles
<1>4. CASE Works(d, k) /\ \A j \in DOMAIN queue : ~Misleads(queue[j], k)
  <2>1. Works(d, k)'
    BY <1>4 DEF Works, Same
  <2>2. ASSUME NEW j \in DOMAIN queue' PROVE ~Misleads(queue[j], k)'
    <3>1. j \in 1 .. n \/ j = n + 1
      BY <1>0, <2>2
    <3> QED
      BY <1>0, <1>1, <1>4, <3>1
  <2> QED
    BY <2>1, <2>2 DEF Settles
<1> QED
  BY <1>2, <1>3, <1>4 DEF Settles

\* when the head of the queue was handled, the rest settles what it settled
LEMMA TailSettles ==
  ASSUME queue \in Seq(Actions), queue # <<>>, queue' = Tail(queue), UNCHANGED db,
         NEW d, NEW e, NEW k \in Key, Settles(d, k),
         Tells(Head(queue), k) \/ (Works(d, k) /\ ~Misleads(Head(queue), k)) => Works(e, k)'
  PROVE  Settles(e, k)'
<1>0. PICK n \in Nat :
         /\ DOMAIN queue = 1 .. (n + 1) /\ DOMAIN queue' = 1 .. n
         /\ Head(queue) = queue[1] /\ \A i \in 1 .. n : queue'[i] = queue[i + 1]
  <2>1. Len(queue) - 1 \in Nat
    OBVIOUS
  <2>2. /\ DOMAIN queue = 1 .. Len(queue) /\ DOMAIN queue' = 1 .. (Len(queue) - 1)
        /\ Head(queue) = queue[1]
        /\ \A i \in 1 .. (Len(queue) - 1) : queue'[i] = queue[i + 1]
    OBVIOUS
  <2>3. (Len(queue) - 1) + 1 = Len(queue)
    BY <2>1
  <2> QED
    BY <2>1, <2>2, <2>3
<1>2. ASSUME NEW i \in DOMAIN queue, Tells(queue[i], k),
             \A j \in DOMAIN queue : j > i => ~Misleads(queue[j], k)
      PROVE  Settles(e, k)'
  <2>1. ASSUME NEW j \in DOMAIN queue', j + 1 > i PROVE ~Misleads(queue[j], k)'
    <3>1. j \in 1 .. n /\ j + 1 \in DOMAIN queue
      BY <1>0, <2>1
    <3>2. ~Misleads(queue[j + 1], k)
      BY <1>2, <2>1, <3>1
    <3>3. Misleads(queue[j], k)' <=> Misleads(queue[j + 1], k)
      BY <1>0, <3>1 DEF Misleads
    <3> QED
      BY <3>2, <3>3
  <2>2. CASE i = 1
    <3>1. \A j \in DOMAIN queue' : j + 1 > i
      BY <1>0, <2>2
    <3>2. Works(e, k)'
      BY <1>0, <1>2, <2>2
    <3> QED
      BY <2>1, <3>1, <3>2 DEF Settles
  <2>3. CASE i # 1
    <3>1. PICK m \in 1 .. n : m + 1 = i
      <4>1. i - 1 \in 1 .. n /\ (i - 1) + 1 = i
        BY <1>0, <2>3
      <4> QED
        BY <4>1
    <3>2. Tells(queue[m], k)'
      <4>1. queue'[m] = queue[i]
        BY <1>0, <3>1
      <4> QED
        BY <1>2, <4>1 DEF Tells
    <3>3. m \in DOMAIN queue' /\ \A j \in DOMAIN queue' : j > m => j + 1 > i
      BY <1>0, <3>1
    <3> QED
      BY <2>1, <3>2, <3>3 DEF Settles
  <2> QED
    BY <2>2, <2>3
<1>3. CASE Works(d, k) /\ \A j \in DOMAIN queue : ~Misleads(queue[j], k)
  <2>1. ASSUME NEW j \in DOMAIN queue' PROVE ~Misleads(queue[j], k)'
    <3>1. j \in 1 .. n /\ j + 1 \in DOMAIN queue
      BY <1>0, <2>1
    <3>2. ~Misleads(queue[j + 1], k)
      BY <1>3, <3>1
    <3>3. Misleads(queue[j], k)' <=> Misleads(queue[j + 1], k)
      BY <1>0, <3>1 DEF Misleads
    <3> QED
      BY <3>2, <3>3
  <2>2. Works(e, k)'
    BY <1>0, <1>3
  <2> QED
    BY <2>1, <2>2 DEF Settles
<1> QED
  BY <1>2, <1>3 DEF Settles

\* the queue is the same and the pending work still works
LEMMA SameQueueSettles ==
  ASSUME UNCHANGED <<db, queue>>, NEW d, NEW e, NEW k \in Key, Settles(d, k),
         Works(d, k) => Works(e, k)'
  PROVE  Settles(e, k)'
  BY DEF Settles, Tells, Misleads

\* what the store tells reaches the queue, or what is shown
LEMMA ReceiveFollows ==
  ASSUME TypeOK, ListensInv, NEW a \in Actions, Receive(a), UNCHANGED <<db, gaps, listeners>>,
         NEW d \in [Key -> State], Follows(d),
         \A k \in Key : Tracked(k) =>
            /\ ~Misleads(a, k)
            /\ k \in owed \/ Underway(k) => k \in owed' \/ Underway(k)' \/ Tells(a, k)
  PROVE  FollowInv'
<1>0. /\ options \in QueryOptions /\ sub \in Closure /\ client \in Client /\ db \in [Key -> State]
      /\ queue \in Seq(Actions)
  BY DEF TypeOK, StoreTypeOK
<1>1. CASE Sub \notin listeners
  <2>1. ~Live /\ ~Live'
    BY <1>1 DEF Receive, ListensInv, Live
  <2> QED
    BY <2>1 DEF FollowInv, Follows, Tracked
<1>2. CASE Sub \in listeners
  <2>1. PICK s \in Closure :
            /\ Alike(s) /\ options' = options
            /\ \/ job.kind = "idle" /\ HandleAction(s, a, NoJob) /\ queue' = queue
               \/ job.kind # "idle" /\ queue' = Append(queue, a) /\ sub' = s /\ UNCHANGED <<job, client>>
    BY <1>2, ReceiveHandles
  <2>2. ASSUME NEW k \in Key, Tracked(k)
        PROVE  HeldAt(k) /\ ShownFrom(d, k) /\ ~Misleads(a, k)
               /\ (k \in owed' \/ Underway(k)' \/ Tells(a, k) \/ Settles(d, k))
    BY <2>2 DEF Follows, ToldOf
  <2>3. CASE job.kind = "idle" /\ HandleAction(s, a, NoJob) /\ queue' = queue
    <3>1. PICK e \in [Key -> State] : \A k \in Key : Tracked(k) =>
            /\ HeldAt(k)' /\ ShownFrom(e, k)'
            /\ Tells(a, k) \/ (Works(d, k) /\ ~Misleads(a, k)) => Works(e, k)'
      <4>1. NoJob \in {NoJob, Settled} /\ job.kind \in {"idle", "settled"}
        BY <2>3
      <4> QED
        BY <1>0, <2>1, <2>2, <2>3, <4>1, ActionFollows
    <3>2. sub'.isOpen = sub.isOpen /\ sub'.isStopped = sub.isStopped
      BY <2>1, <2>3, HandleActionKeeps DEF Alike
    <3>3. ASSUME NEW k \in Key, Tracked(k)' PROVE (HeldAt(k) /\ ShownFrom(e, k) /\ ToldOf(e, k))'
      <4>1. Tracked(k)
        BY <2>1, <3>2, <3>3, TrackedBefore DEF Live
      <4>2. queue = <<>> /\ DOMAIN queue = {} /\ DOMAIN queue' = {}
        BY <2>3 DEF ListensInv
      <4>3. Settles(d, k) \/ Tells(a, k) => Works(e, k)'
        BY <2>2, <3>1, <4>1, <4>2 DEF Settles
      <4>4. Works(e, k)' => Settles(e, k)'
        BY <4>2 DEF Settles
      <4> QED
        BY <2>2, <3>1, <4>1, <4>3, <4>4 DEF ToldOf
    <3> QED
      BY <3>3 DEF FollowInv, Follows
  <2>4. CASE queue' = Append(queue, a) /\ sub' = s /\ UNCHANGED <<job, client>>
    <3>1. ASSUME NEW k \in Key, Tracked(k)' PROVE (HeldAt(k) /\ ShownFrom(d, k) /\ ToldOf(d, k))'
      <4>1. Tracked(k)
        BY <2>1, <2>4, <3>1, TrackedBefore DEF Live, Alike
      <4>2. HeldAt(k)' /\ ShownFrom(d, k)'
        <5>1. Found(d)' = Found(d)
          BY <2>1 DEF Found, InWindow, Before, Matches
        <5> QED
          BY <2>1, <2>2, <2>4, <4>1, <5>1 DEF HeldAt, ShownFrom, Alike
      <4>3. Tells(a, k) \/ Settles(d, k) => Settles(d, k)'
        BY <1>0, <2>2, <2>4, <4>1, AppendSettles
      <4> QED
        BY <2>2, <4>1, <4>2, <4>3 DEF ToldOf
    <3> QED
      BY <3>1 DEF FollowInv, Follows
  <2> QED
    BY <2>1, <2>3, <2>4
<1> QED
  BY <1>1, <1>2


\* a step of the subscription that leaves the store alone, with the collection e it
\* then follows
LEMMA StepFollows ==
  ASSUME UNCHANGED <<db, owed, writer, notifier, options>>, gaps \subseteq gaps', Live' => Live,
         NEW d \in [Key -> State], Follows(d), NEW e \in [Key -> State],
         \A k \in Key : Tracked(k) /\ Tracked(k)' /\ HeldAt(k) /\ ShownFrom(d, k) =>
            /\ HeldAt(k)' /\ ShownFrom(e, k)'
            /\ Settles(d, k) => Settles(e, k)'
  PROVE  FollowInv'
<1>1. \A k \in Key : Underway(k)' <=> Underway(k)
  BY DEF Underway, AskedBy, HeldByCall
<1>2. ASSUME NEW k \in Key, Tracked(k)' PROVE (HeldAt(k) /\ ShownFrom(e, k) /\ ToldOf(e, k))'
  <2>1. Tracked(k)
    BY <1>2, TrackedBefore
  <2> QED
    BY <1>1, <1>2, <2>1 DEF Follows, ToldOf
<1> QED
  BY <1>2 DEF FollowInv, Follows

\* the steps of the pending work
LEMMA QueueFollows ==
  ASSUME TypeOK, ListensInv, NEW d \in [Key -> State], Follows(d), QueueStep
  PROVE  FollowInv'
<1>0. /\ options \in QueryOptions /\ sub \in Closure /\ client \in Client /\ db \in [Key -> State]
      /\ queue \in Seq(Actions) /\ job \in Job /\ Kept
      /\ NoJob.kind = "idle" /\ Settled.kind = "settled"
      /\ Fetching(FALSE).kind = "fetch" /\ Fetching(FALSE).findDone = FALSE
      /\ Settled \in {NoJob, Settled}
  BY QueueKeeps DEF TypeOK, StoreTypeOK, NoJob, Settled, Fetching
<1>1. UNCHANGED <<db, owed, writer, notifier, options>> /\ gaps \subseteq gaps' /\ (Live' => Live)
  BY <1>0 DEF Kept, Live, QueueStep, FindAnswers, CountAnswers, FetchDone, FetchFails, RereadAnswers,
     RereadDone, RereadFails, RunNext, ClearTail, storeVars
<1>2. \A e \in [Key -> State] : Found(e)' = Found(e)
  BY <1>1 DEF Found, InWindow, Before, Matches
<1>3. ASSUME NEW e \in [Key -> State],
             \A k \in Key : Tracked(k) /\ Tracked(k)' /\ HeldAt(k) /\ ShownFrom(d, k) =>
                /\ HeldAt(k)' /\ ShownFrom(e, k)'
                /\ Settles(d, k) => Settles(e, k)'
      PROVE  FollowInv'
  BY <1>1, <1>3, StepFollows
<1>4. CASE FindAnswers
  <2>1. /\ UNCHANGED <<sub, client, queue>> /\ job'.kind = "fetch" /\ job'.rows = Found(db)
    BY <1>0, <1>4 DEF FindAnswers, Job
  <2>2. PICK e \in [Key -> State] : e = db
    BY <1>0
  <2>3. \A k \in Key : (HeldAt(k) => HeldAt(k)') /\ ShownFrom(e, k)' /\ Works(e, k)'
    <3>1. job'.rows = Found(e)
      BY <2>1, <2>2
    <3> QED
      BY <1>1, <1>2, <2>1, <2>2, <3>1 DEF HeldAt, ShownFrom, Works, Same
  <2>4. \A k \in Key : Settles(d, k) => Settles(e, k)'
    BY <1>1, <2>1, <2>3, SameQueueSettles
  <2> QED
    BY <1>3, <2>3, <2>4
<1>5. CASE CountAnswers \/ ClearTail
  <2>1. UNCHANGED <<sub, client, queue>>
    BY <1>5 DEF CountAnswers, ClearTail
  <2>2. \/ /\ job'.kind = job.kind /\ job'.findDone = job.findDone /\ job'.rows = job.rows
           /\ job'.keys = job.keys
        \/ job.kind = "settled" /\ job'.kind = "idle"
    BY <1>0, <1>5 DEF CountAnswers, ClearTail, Job
  <2>3. \A k \in Key : /\ HeldAt(k) => HeldAt(k)'
                       /\ ShownFrom(d, k) => ShownFrom(d, k)'
                       /\ Works(d, k) => Works(d, k)'
    BY <1>1, <1>2, <2>1, <2>2 DEF HeldAt, ShownFrom, Works, Same
  <2>4. \A k \in Key : Settles(d, k) => Settles(d, k)'
    BY <1>1, <2>1, <2>3, SameQueueSettles
  <2> QED
    BY <1>3, <2>3, <2>4
<1>6. CASE FetchDone
  <2>1. /\ job.kind = "fetch" /\ job.findDone /\ job'.kind = "settled" /\ queue' = queue
        /\ sub'.sentKeys = Held(job.rows) /\ sub'.isStopped = sub.isStopped
        /\ gaps' = gaps \cup Missed
    BY <1>0, <1>6 DEF FetchDone, Closure
  <2>2. ASSUME NEW k \in Key, Tracked(k)' PROVE client'.rows[k] = job.rows[k]
    <3>1. CASE SendsInitial
      BY <1>6, <3>1 DEF FetchDone, ApplyInitial
    <3>2. CASE ~SendsInitial
      <4>1. client' = client
        BY <1>6, <3>2 DEF FetchDone
      <4>2. Tracked(k)' => ~sub.isStopped
        BY <1>0 DEF Tracked, Live, Kept
      <4>3. <<k, "missed">> \notin gaps'
        BY <2>2, TrackedTogether DEF Tracked, Excused, GapKeys, Why
      <4> QED
        BY <2>1, <2>2, <3>2, <4>1, <4>2, <4>3 DEF Missed
    <3> QED
      BY <3>1, <3>2
  <2>3. ASSUME NEW k \in Key, Tracked(k)', ShownFrom(d, k) PROVE HeldAt(k)' /\ ShownFrom(d, k)'
    BY <1>1, <1>2, <2>1, <2>2, <2>3 DEF HeldAt, ShownFrom, Held
  <2>4. \A k \in Key : Works(d, k) => Works(d, k)'
    BY <1>1, <2>1 DEF Works, Same
  <2>5. \A k \in Key : Settles(d, k) => Settles(d, k)'
    BY <1>1, <2>1, <2>4, SameQueueSettles
  <2> QED
    BY <1>3, <2>3, <2>5
<1>7. CASE FetchFails \/ RereadFails
  <2>1. /\ UNCHANGED <<sub, queue>> /\ job'.kind = "settled" /\ client'.rows = client.rows
        /\ Live => client'.hasError
    BY <1>0, <1>7 DEF FetchFails, RereadFails, Report, Client, Live
  <2>2. \A k \in Key : Tracked(k) => /\ HeldAt(k) => HeldAt(k)'
                                     /\ ShownFrom(d, k)' /\ Works(d, k)'
    BY <2>1 DEF Tracked, HeldAt, ShownFrom, Works
  <2>3. \A k \in Key : Tracked(k) /\ Settles(d, k) => Settles(d, k)'
    BY <1>1, <2>1, <2>2, SameQueueSettles
  <2> QED
    BY <1>3, <2>2, <2>3
<1>8. CASE RereadAnswers
  <2>1. /\ UNCHANGED <<sub, client, queue>> /\ job.kind = "reread" /\ job'.kind = "reread"
        /\ job'.keys = job.keys /\ \A k \in job.keys : job'.rows[k] = db[k]
    BY <1>0, <1>8 DEF RereadAnswers, Job
  <2>2. \A k \in Key : /\ HeldAt(k) => HeldAt(k)'
                       /\ ShownFrom(d, k) => ShownFrom(d, k)'
                       /\ Works(d, k) => Works(d, k)'
    BY <1>1, <1>2, <2>1 DEF HeldAt, ShownFrom, Works, Same
  <2>3. \A k \in Key : Settles(d, k) => Settles(d, k)'
    BY <1>1, <2>1, <2>2, SameQueueSettles
  <2> QED
    BY <1>3, <2>2, <2>3
<1>9. CASE RereadDone
  <2>0. /\ job.kind = "reread" /\ job.findDone /\ queue' = queue /\ sub.isReady
        /\ options.skip > 0 => job.keys \subseteq sub.sentKeys
    BY <1>9 DEF RereadDone, ListensInv
  <2>1. CASE sub.isStopped
    <3>1. \A k \in Key : ~Tracked(k)
      BY <2>1 DEF Tracked, Live
    <3> QED
      BY <1>3, <3>1
  <2>2. CASE ~sub.isStopped
    <3>1. /\ RereadStates \in Emitted /\ KeysOf(RereadStates) \subseteq job.keys
          /\ \A k \in Key : RereadStates[k] = IF k \in job.keys THEN job.rows[k] ELSE Untouched
          /\ \A k \in job.keys : RereadStates[k] # Untouched
      BY <1>0, SubscribeStoreAssumption DEF RereadStates, Emitted, Job, KeysOf, State
    <3>2. PICK states \in Emitted : states = RereadStates
      BY <3>1
    <3>3. /\ \A k \in Key : Tracked(k) => HeldAt(k)'
          /\ \/ job' = Fetching(FALSE)
             \/ /\ job' = Settled /\ client'.hasError = client.hasError
                /\ \A k \in Key : Tracked(k) => ShownFrom(After(d, states), k)'
      <4>1. ApplyStates(sub, states, Settled) /\ UNCHANGED <<db, gaps, options>>
        BY <1>9, <2>2, <3>2 DEF RereadDone, storeVars
      <4>2. Alike(sub) /\ job.kind # "fetch"
        BY <2>0 DEF Alike
      <4>3. options.skip > 0 => KeysOf(states) \subseteq sub.sentKeys
        BY <2>0, <3>1, <3>2
      <4>4. \A k \in Key : Tracked(k) => HeldAt(k) /\ ShownFrom(d, k)
        BY DEF Follows
      <4> QED
        BY <1>0, <2>0, <2>2, <4>1, <4>2, <4>3, <4>4, ApplyFollows
    <3>4. CASE job' = Fetching(FALSE)
      <4>1. \A k \in Key : ShownFrom(d, k)' /\ Works(d, k)'
        BY <1>0, <3>4 DEF ShownFrom, Works
      <4>2. \A k \in Key : Settles(d, k) => Settles(d, k)'
        BY <1>1, <2>0, <4>1, SameQueueSettles
      <4> QED
        BY <1>3, <3>3, <4>1, <4>2
    <3>5. CASE /\ job' = Settled /\ client'.hasError = client.hasError
               /\ \A k \in Key : Tracked(k) => ShownFrom(After(d, states), k)'
      <4>1. PICK e \in [Key -> State] : e = After(d, states)
        BY AfterType
      <4>2. \A k \in Key : e[k] = IF k \in job.keys THEN job.rows[k] ELSE d[k]
        BY <3>1, <3>2, <4>1 DEF After
      <4>3. ASSUME NEW k \in Key, Works(d, k) PROVE Works(e, k)'
        <5>1. Same(e, k) \/ client.hasError
          BY <2>0, <4>2, <4>3 DEF Works, Same
        <5> QED
          BY <1>0, <1>1, <3>5, <5>1 DEF Works, Same
      <4>4. \A k \in Key : Settles(d, k) => Settles(e, k)'
        BY <1>1, <2>0, <4>3, SameQueueSettles
      <4>5. \A k \in Key : Tracked(k) => ShownFrom(e, k)'
        BY <3>5, <4>1
      <4> QED
        BY <1>3, <3>3, <4>4, <4>5
    <3> QED
      BY <3>3, <3>4, <3>5
  <2> QED
    BY <2>1, <2>2
<1>10. CASE RunNext
  <2>1. /\ HandleAction(sub, Head(queue), Settled) /\ job.kind = "settled" /\ queue # <<>>
        /\ queue' = Tail(queue) /\ UNCHANGED <<db, gaps, options>> /\ Alike(sub)
        /\ Head(queue) \in Actions
    BY <1>0, <1>10 DEF RunNext, storeVars, Alike
  <2>2. PICK e \in [Key -> State] : \A k \in Key : Tracked(k) =>
          /\ HeldAt(k)' /\ ShownFrom(e, k)'
          /\ Tells(Head(queue), k) \/ (Works(d, k) /\ ~Misleads(Head(queue), k)) => Works(e, k)'
    <3>1. \A k \in Key : Tracked(k) => HeldAt(k) /\ ShownFrom(d, k)
      BY DEF Follows
    <3> QED
      BY <1>0, <2>1, <3>1, ActionFollows
  <2>3. ASSUME NEW k \in Key, Tracked(k), Settles(d, k) PROVE Settles(e, k)'
    BY <1>0, <2>1, <2>2, <2>3, TailSettles
  <2> QED
    BY <1>3, <2>2, <2>3
<1> QED
  BY <1>4, <1>5, <1>6, <1>7, <1>8, <1>9, <1>10 DEF QueueStep


\* the store's steps that call the listeners
LEMMA EmitFollows ==
  ASSUME TypeOK, StoreInv, ListensInv, NEW d \in [Key -> State], Follows(d),
         \/ \E w \in Writer : EmitWritten(w) \/ ReturnSilently(w)
         \/ \E n \in Notifier : EmitNotified(n)
         \/ EmitResync
  PROVE  FollowInv'
<1>0. /\ \A k \in Key : db[k] # Untouched
      /\ \A w \in Writer : WrittenAction(w) \in Actions
      /\ \A n \in Notifier : ChangedAction(n) \in Actions
      /\ ResyncAction \in Actions
  BY StatesTyped, ActionTypes DEF StoreInv
<1>1. ASSUME NEW w \in Writer, EmitWritten(w) PROVE FollowInv'
  <2> DEFINE a == WrittenAction(w)
  <2>1. a \in Actions /\ a.states = writer[w].states /\ a.type = writer[w].type
    BY <1>0 DEF WrittenAction
  <2>2. Return(w) /\ Receive(a)
    BY <1>1 DEF EmitWritten
  <2>3. UNCHANGED <<db, gaps, owed, listeners>>
    BY <2>2 DEF Return
  <2>4. ASSUME NEW k \in Key, Tracked(k)
        PROVE  ~Misleads(a, k) /\ (Underway(k) => Underway(k)' \/ Tells(a, k))
    <3>1. Underway(k) => Underway(k)' \/ writer[w].states[k] = db[k]
      BY <2>2, ReturnTold
    <3>2. writer[w].states[k] # Untouched => writer[w].states[k] = db[k]
      BY <2>4, TrackedTogether DEF StoreInv, FreshInv, FreshFor, NoGap, Why
    <3> HIDE DEF a
    <3> QED
      BY <1>0, <2>1, <3>1, <3>2 DEF Misleads, Tells, KeysOf
  <2> HIDE DEF a
  <2> QED
    BY <2>1, <2>2, <2>3, <2>4, ReceiveFollows
<1>2. ASSUME NEW w \in Writer, ReturnSilently(w) PROVE FollowInv'
  <2>1. Return(w) /\ UNCHANGED subVars /\ \A k \in Key : writer[w].states[k] = Untouched
    BY <1>2 DEF ReturnSilently, Emits, KeysOf
  <2>2. ASSUME NEW k \in Key PROVE Underway(k) => Underway(k)'
    BY <1>0, <2>1, ReturnTold
  <2>3. UNCHANGED <<db, gaps, owed>>
    BY <2>1 DEF Return
  <2>4. Follows(d)'
    BY <2>1, <2>2, <2>3, IdleFollows DEF ToldOf
  <2> QED
    BY <2>4 DEF FollowInv
<1>3. ASSUME NEW n \in Notifier, EmitNotified(n) PROVE FollowInv'
  <2> DEFINE a == ChangedAction(n)
  <2>1. a \in Actions /\ a.states = notifier[n].states /\ a.type = "changed"
    BY <1>0 DEF ChangedAction
  <2>2. EmitChanged(n) /\ Receive(a)
    BY <1>3 DEF EmitNotified
  <2>3. UNCHANGED <<db, gaps, owed, listeners>>
    BY <2>2 DEF EmitChanged
  <2>4. ASSUME NEW k \in Key
        PROVE  ~Misleads(a, k) /\ (Underway(k) => Underway(k)' \/ Tells(a, k))
    <3>1. Underway(k) => \/ Underway(k)'
                         \/ k \in KeysOf(notifier[n].states) /\ notifier[n].states[k] = db[k]
      BY <2>2, ChangedTold
    <3> HIDE DEF a
    <3> QED
      BY <2>1, <3>1 DEF Misleads, Tells
  <2> HIDE DEF a
  <2> QED
    BY <2>1, <2>2, <2>3, <2>4, ReceiveFollows
<1>4. CASE EmitResync
  <2>1. Receive(ResyncAction) /\ UNCHANGED <<db, gaps, listeners>>
    BY <1>4 DEF EmitResync, Resync
  <2>2. \A k : ~Misleads(ResyncAction, k) /\ Tells(ResyncAction, k)
    BY DEF Misleads, Tells, ResyncAction
  <2> QED
    BY <1>0, <2>1, <2>2, ReceiveFollows
<1> QED
  BY <1>1, <1>2, <1>3, <1>4

\* a subscription that is opened is to fetch
LEMMA OpenFollows ==
  ASSUME TypeOK, OpenInv, ListensInv, Open
  PROVE  FollowInv'
<1>1. PICK e \in [Key -> State] : e = db
  BY DEF TypeOK, StoreTypeOK
<1>2. /\ sub'.isReady = sub.isReady /\ ~sub.isReady /\ queue' = <<>>
      /\ job'.kind = "fetch" /\ ~job'.findDone
  BY DEF Open, Fetching, NoJob, OpenInv, ListensInv, TypeOK, Closure
<1>3. \A k \in Key : HeldAt(k)' /\ ShownFrom(e, k)' /\ Works(e, k)'
  BY <1>2 DEF HeldAt, ShownFrom, Works
<1>4. \A k \in Key : Settles(e, k)'
  BY <1>2, <1>3 DEF Settles
<1> QED
  BY <1>3, <1>4 DEF FollowInv, Follows, ToldOf

\* the calls of the store stay what they are, whatever its listener does
LEMMA StoreHolds == Spec => []StoreInv
<1>1. Init => StoreInv
  BY StoreInvInit DEF Init
<1>2. TypeOK /\ TypeOK' /\ StoreInv /\ [Next]_vars => StoreInv'
  <2> SUFFICES ASSUME TypeOK', StoreInv, [Next]_vars PROVE StoreInv'
    OBVIOUS
  <2>1. CASE \/ StoreStep \/ Resync
             \/ \E w \in Writer : Return(w)
             \/ \E n \in Notifier : EmitChanged(n)
    BY <2>1, StoreInvStep
  <2>2. CASE UNCHANGED <<db, writer, notifier>> /\ gaps \subseteq gaps'
    <3>1. FreshInv'
      BY <2>2, FreshFrame DEF StoreInv
    <3> QED
      BY <2>2, <3>1 DEF StoreInv, TypeOK, CallsInv, NoticesInv
  <2>3. CASE Open \/ Stop \/ OtherListens
    BY <2>2, <2>3 DEF Open, Stop, OtherListens, Subscribe, Unsubscribe
  <2>4. CASE QueueStep
    <3>1. UNCHANGED <<db, writer, notifier>> /\ gaps \subseteq gaps'
      BY <2>4 DEF QueueStep, FindAnswers, CountAnswers, FetchDone, FetchFails, RereadAnswers,
         RereadDone, RereadFails, RunNext, ClearTail, storeVars
    <3> QED
      BY <2>2, <3>1
  <2>5. CASE UNCHANGED vars
    BY <2>2, <2>5 DEF vars, storeVars
  <2> QED
    BY <2>1, <2>3, <2>4, <2>5 DEF Next, EmitWritten, ReturnSilently, EmitNotified, EmitResync
<1> QED
  BY <1>1, <1>2, TypeCorrect, PTL DEF Spec

LEMMA Followed == Spec => []FollowInv
<1>1. Init => FollowInv
  <2> SUFFICES ASSUME Init PROVE FollowInv
    OBVIOUS
  <2>1. db \in [Key -> State] /\ ~Live
    BY DEF Init, StoreInit, Live
  <2> QED
    BY <2>1 DEF FollowInv, Follows, Tracked
<1>2. TypeOK /\ OpenInv /\ ListensInv /\ StoreInv /\ FollowInv /\ [Next]_vars => FollowInv'
  <2> SUFFICES ASSUME TypeOK, OpenInv, ListensInv, StoreInv, FollowInv, [Next]_vars PROVE FollowInv'
    OBVIOUS
  <2>1. PICK d \in [Key -> State] : Follows(d)
    BY DEF FollowInv
  <2>2. ASSUME Follows(d)' PROVE FollowInv'
    BY <2>2 DEF FollowInv
  <2>3. CASE StoreStep /\ UNCHANGED subVars
    BY <2>1, <2>2, <2>3, StoreFollows
  <2>4. CASE \/ \E w \in Writer : EmitWritten(w) \/ ReturnSilently(w)
             \/ \E n \in Notifier : EmitNotified(n)
             \/ EmitResync
    BY <2>1, <2>4, EmitFollows
  <2>5. CASE Open
    BY <2>5, OpenFollows
  <2>6. CASE Stop
    <3>1. ~Live'
      BY <2>6 DEF Stop, Live, TypeOK, Closure
    <3> QED
      BY <2>1, <3>1 DEF FollowInv, Follows, Tracked
  <2>7. CASE OtherListens \/ UNCHANGED vars
    <3>1. UNCHANGED <<subVars, db, gaps, owed, writer, notifier>>
      BY <2>7 DEF OtherListens, Subscribe, vars, storeVars
    <3>2. \A k \in Key : Underway(k)' <=> Underway(k)
      BY <3>1 DEF Underway, AskedBy, HeldByCall
    <3>3. Follows(d)'
      BY <2>1, <3>1, <3>2, IdleFollows DEF ToldOf
    <3> QED
      BY <2>2, <3>3
  <2>8. CASE QueueStep
    BY <2>1, <2>8, QueueFollows
  <2> QED
    BY <2>3, <2>4, <2>5, <2>6, <2>7, <2>8 DEF Next
<1> QED
  BY <1>1, <1>2, TypeCorrect, OpenFirst, LiveListens, StoreHolds, PTL DEF Spec

(***************************************************************************)
(* A client shows what a fresh fetch returns once everything is emitted    *)
(* and handled, for every key without a gap and any number of keys,        *)
(* writers and notifications, with a window or without: Converged, of the  *)
(* queue of _subscribe.  Whatever is shown can be found in some collection *)
(* that differs from the stored one only in keys of which the subscription *)
(* is still to be told.                                                    *)
(***************************************************************************)
THEOREM ClientConverges == Spec => []Converged
<1>1. TypeOK /\ StoreInv /\ FollowInv => Converged
  <2> SUFFICES ASSUME TypeOK, StoreInv, FollowInv, Live, Quiet, options.isTestable, ~client.hasError,
                      NEW k \in Key \ Excused(Why)
               PROVE  client.rows[k] = Found(db)[k]
    BY DEF Converged, EqualsFreshFetch, Agrees
  <2>0. options \in QueryOptions /\ db \in [Key -> State] /\ k \in Key /\ Tracked(k)
    BY DEF TypeOK, StoreTypeOK, Tracked
  <2>1. PICK d \in [Key -> State] : Follows(d)
    BY DEF FollowInv
  <2>2. ASSUME NEW j \in Key PROVE ~Underway(j) /\ j \notin owed
    <3>1. ASSUME NEW n \in Notifier PROVE ~AskedBy(n, j)
      BY DEF Quiet, StoreQuiet, StoreInv, NoticesInv, AskedBy, KeysOf, IdleNotifier, Nothing
    <3>2. ASSUME NEW w \in Writer PROVE ~HeldByCall(w, j)
      <4>1. writer[w].states[j] = Untouched /\ writer[w].reading = {}
        BY DEF Quiet, StoreQuiet, StoreInv, CallsInv, IdleWriter, Nothing
      <4> QED
        BY <4>1, StatesTyped DEF StoreInv, HeldByCall
    <3> QED
      BY <3>1, <3>2 DEF Underway, Quiet, StoreQuiet
  <2>3. ASSUME NEW j \in Key, Tracked(j) PROVE client.rows[j] = Found(d)[j] /\ Same(d, j)
    <3>1. ShownFrom(d, j) /\ Settles(d, j)
      BY <2>1, <2>2, <2>3 DEF Follows, ToldOf
    <3>2. job.kind = "idle" /\ DOMAIN queue = {}
      BY DEF Quiet
    <3> QED
      BY <3>1, <3>2 DEF ShownFrom, Settles, Works
  <2>4. Found(d)[k] = Found(db)[k]
    <3>1. CASE ~Windowed
      <4>1. /\ Found(d)[k] = IF d[k] \in Matching THEN d[k] ELSE NoDoc
            /\ Found(db)[k] = IF db[k] \in Matching THEN db[k] ELSE NoDoc
        BY <2>0, <3>1, FoundUnwindowed
      <4> QED
        BY <2>0, <2>3, <4>1 DEF Same
    <3>2. CASE Windowed
      <4>1. \A j \in Key : Same(d, j)
        BY <2>0, <2>3, <3>2, TrackedTogether
      <4>2. Matches(d) = Matches(db)
        BY <4>1 DEF Matches, Same
      <4>3. d[k] = db[k] \/ k \notin Matches(d)
        BY <2>0, <4>1 DEF Matches, Same
      <4> QED
        BY <2>0, <4>2, <4>3 DEF Found, InWindow, Before
    <3> QED
      BY <3>1, <3>2
  <2> QED
    BY <2>0, <2>3, <2>4
<1> QED
  BY <1>1, TypeCorrect, Followed, StoreHolds, PTL


(***************************************************************************)
(* While a fetch or a re-read is pending only its result changes the rows  *)
(* of the client: NotOvertaken, of createActionQueue.                      *)
(***************************************************************************)
THEOREM ResultsInOrder == Spec => NotOvertaken
<1>1. ASSUME TypeOK, OpenInv, [Next]_vars, job.kind \in {"fetch", "reread"}, client'.rows # client.rows
      PROVE  job'.kind = "settled"
  <2>0. client \in Client /\ Settled.kind = "settled"
    BY <1>1 DEF TypeOK, Settled, NoJob
  <2>1. ~(\E a \in Actions : Receive(a))
    BY <1>1 DEF Receive, Pending
  <2>2. ~\/ \E w \in Writer : EmitWritten(w) \/ ReturnSilently(w)
         \/ \E n \in Notifier : EmitNotified(n)
         \/ EmitResync
    BY <1>1, <2>1, ActionTypes DEF EmitWritten, ReturnSilently, EmitNotified, EmitResync, subVars, TypeOK
  <2>3. ~Open /\ ~UNCHANGED subVars
    BY <1>1 DEF Open, OpenInv, subVars
  <2>4. ~FetchFails /\ ~RereadFails
    BY <1>1, <2>0 DEF FetchFails, RereadFails, Report, Client
  <2>5. CASE RereadDone
    BY <1>1, <2>0, <2>5 DEF RereadDone, ApplyStates, Refetch
  <2>6. CASE FetchDone
    BY <2>0, <2>6 DEF FetchDone
  <2> QED
    BY <1>1, <2>2, <2>3, <2>4, <2>5, <2>6
    DEF Next, vars, OtherListens, Stop, QueueStep, FindAnswers, CountAnswers, RereadAnswers, RunNext, ClearTail
<1> QED
  BY <1>1, TypeCorrect, OpenFirst, PTL DEF Spec, NotOvertaken

-----------------------------------------------------------------------------
(***************************************************************************)
(* The store relay.                                                        *)
(***************************************************************************)
(* Types *)

ProducerType == [phase : {"idle", "writing", "written"}, key : SUBSET Key, doc : State, emits : BOOLEAN]
ServedType == [isListening : BOOLEAN, isLingering : BOOLEAN, pendingKeys : SUBSET Key]
Message == [type : {"initial", "inserted"}, keys : SUBSET Key]

\* the relay's own variables
ChannelTypeOK ==
    /\ producer \in ProducerType
    /\ served \in ServedType
    /\ link \in {"disconnected", "connected", "closed"}
    /\ channel \in Seq(Message)
    /\ relay \in [isLive : BOOLEAN, isClosed : BOOLEAN]
    /\ unrelayed \in SUBSET Key

LEMMA RelayInitType == RelayInit => ChannelTypeOK
<1> SUFFICES ASSUME RelayInit PROVE ChannelTypeOK
  OBVIOUS
<1>1. NoCall \in ProducerType /\ NotServed \in ServedType
  BY DEF NoCall, NotServed, ProducerType, ServedType, State
<1> QED
  BY <1>1 DEF RelayInit, ChannelTypeOK

LEMMA RelayStepType ==
  ASSUME ChannelTypeOK, [RelayNext]_allVars
  PROVE  ChannelTypeOK'
<1> USE DEF ChannelTypeOK
<1>0. NoCall \in ProducerType /\ Initial \in Message /\ \A ks \in SUBSET Key : Batch(ks) \in Message
  BY DEF NoCall, ProducerType, State, Initial, Batch, Message
<1>1. ASSUME NEW k \in Key, NEW d \in State, ProducerBegins(k, d) PROVE ChannelTypeOK'
  <2>1. ProducerHasListeners \in BOOLEAN
    BY DEF ProducerHasListeners, ServedType
  <2> QED
    BY <1>1, <2>1 DEF ProducerBegins, ProducerType
<1>2. CASE ProducerCommits
  <2>1. producer' \in ProducerType
    BY <1>0, <1>2 DEF ProducerCommits, ProducerType
  <2>2. unrelayed' \in SUBSET Key
    BY <1>2 DEF ProducerCommits, ProducerType
  <2> QED
    BY <1>2, <2>1, <2>2 DEF ProducerCommits
<1>3. CASE ProducerFails
  BY <1>0, <1>3 DEF ProducerFails
<1>4. CASE ProducerEmits
  <2>1. PendingWith(served, producer.key) \in SUBSET Key
    BY DEF PendingWith, ServedType, ProducerType
  <2>2. served' \in ServedType
    BY <1>4, <2>1 DEF ProducerEmits, ServedType
  <2> QED
    BY <1>0, <1>4, <2>2 DEF ProducerEmits
<1>5. CASE Serve
  <2>1. served' \in ServedType
    BY <1>5 DEF Serve, ServedType
  <2> QED
    BY <1>0, <1>5, <2>1 DEF Serve
<1>6. CASE Flush
  <2>1. served' \in ServedType /\ Batch(served.pendingKeys) \in Message
    BY <1>0, <1>6 DEF Flush, ServedType
  <2> QED
    BY <1>6, <2>1 DEF Flush
<1>7. CASE StopServing
  <2>1. served' \in ServedType
    BY <1>7 DEF StopServing, ServedType
  <2> QED
    BY <1>7, <2>1 DEF StopServing
<1>8. CASE Connect
  BY <1>8 DEF Connect
<1>9. ASSUME Abandon PROVE served' \in ServedType /\ channel' \in Seq(Message)
  BY <1>9 DEF Abandon, ServedType
<1>10. CASE CloseRelay
  BY <1>9, <1>10 DEF CloseRelay
<1>11. ASSUME NEW state \in {"disconnected", "closed"}, Leave(state) PROVE ChannelTypeOK'
  <2>1. LiveAfter(state) \in BOOLEAN
    BY DEF LiveAfter
  <2>2. relay' \in [isLive : BOOLEAN, isClosed : BOOLEAN]
    BY <1>11, <2>1 DEF Leave
  <2> QED
    BY <1>9, <1>11, <2>2 DEF Leave
<1>12. CASE ReceiveInitial
  <2>1. relay' \in [isLive : BOOLEAN, isClosed : BOOLEAN]
    BY <1>12 DEF ReceiveInitial
  <2>2. channel' \in Seq(Message) /\ UNCHANGED <<producer, served, link, unrelayed>>
    BY <1>12 DEF ReceiveInitial
  <2> QED
    BY <2>1, <2>2
<1>13. CASE ReceiveBatch
  BY <1>13 DEF ReceiveBatch
<1>14. CASE UNCHANGED relayVars
  BY <1>14 DEF relayVars
<1> QED
  BY <1>1, <1>2, <1>3, <1>4, <1>5, <1>6, <1>7, <1>8, <1>10, <1>11, <1>12, <1>13, <1>14
     DEF RelayNext, ProducerStep, allVars

-----------------------------------------------------------------------------
(* The consumer is a live query *)

\* what the relay does is, for the consumer, a write of another process, a
\* notification, a resync, or nothing
LEMMA RelayStep ==
  ASSUME ChannelTypeOK, [RelayNext]_allVars
  PROVE  [Next]_vars
<1>1. CASE UNCHANGED vars
  BY <1>1
<1>2. CASE ProducerCommits
  <2>1. PICK k \in producer.key : Foreign(k, producer.doc) /\ UNCHANGED subVars
    BY <1>2 DEF ProducerCommits
  <2>2. k \in Key /\ producer.doc \in State
    BY DEF ChannelTypeOK, ProducerType
  <2>3. StoreStep
    BY <2>1, <2>2 DEF StoreStep, ForeignStep
  <2> QED
    BY <2>1, <2>3 DEF Next
<1>3. CASE ReceiveInitial
  BY <1>3 DEF ReceiveInitial, Next
<1>4. CASE ReceiveBatch
  <2>1. PICK n \in Notifier : NotifyChanged(n, Head(channel).keys)
    BY <1>4 DEF ReceiveBatch
  <2>2. Head(channel) \in Message
    BY <1>4 DEF ReceiveBatch, ChannelTypeOK
  <2>3. StoreStep /\ UNCHANGED subVars
    BY <1>4, <2>1, <2>2 DEF StoreStep, ForeignStep, ReceiveBatch, Message
  <2> QED
    BY <2>3 DEF Next
<1>5. CASE Open \/ ConsumerStep
  BY <1>5 DEF ConsumerStep, NotificationStep, Next, StoreStep
<1> QED
  BY <1>1, <1>2, <1>3, <1>4, <1>5
     DEF RelayNext, ProducerStep, ProducerBegins, ProducerFails, ProducerEmits, Serve, Flush,
         StopServing, Connect, CloseRelay, Leave, allVars

(***************************************************************************)
(* The consumer of a relay is the live query of CollectionSubscription:    *)
(* the producer's store, the relay and its connection are one of the other *)
(* processes that module allows for, whatever is cut and when.             *)
(***************************************************************************)
THEOREM RelayImplementsQuery == RelaySpec => Spec
<1>1. RelayInit => Init
  BY DEF RelayInit
<1>2. RelayInit => ChannelTypeOK
  BY RelayInitType
<1>3. ChannelTypeOK /\ [RelayNext]_allVars => ChannelTypeOK'
  BY RelayStepType
<1>4. ChannelTypeOK /\ [RelayNext]_allVars => [Next]_vars
  BY RelayStep
<1> QED
  BY <1>1, <1>2, <1>3, <1>4, PTL DEF RelaySpec, Spec

(***************************************************************************)
(* Every variable keeps its type, those of the live query included.        *)
(***************************************************************************)
THEOREM RelayTypeCorrect == RelaySpec => []RelayTypeOK
<1>1. TypeOK /\ ChannelTypeOK => RelayTypeOK
  BY DEF ChannelTypeOK, RelayTypeOK, ProducerType, ServedType, Message
<1> QED
  BY <1>1, RelayInitType, RelayStepType, RelayImplementsQuery, TypeCorrect, PTL DEF RelaySpec

(***************************************************************************)
(* So what is proved of the live query is true of the consumer: once every *)
(* key the producer wrote has been notified, or covered by the resync of a *)
(* reconnection since (a batch lost with a cut is), and no write,          *)
(* notification or action is under way, its client shows a fresh fetch;    *)
(* and the keys it decides by are those of its client.                     *)
(***************************************************************************)
THEOREM ConsumerConverges == RelaySpec => [](Converged /\ HeldKeys)
  BY RelayImplementsQuery, ClientConverges, HeldKeysAgree, PTL


-----------------------------------------------------------------------------
(* What the live query does with what it is told of one key *)

\* A query without skip and limit, that was sent its initial result and that mingo
\* tests: a row depends on its own document only.
Plain == options.includeInitial /\ options.isTestable /\ ~Windowed
PlainOptions == \A o \in Options : o.includeInitial /\ o.isTestable /\ o.skip = 0 /\ o.limit = 0

\* the row shown for k, or about to be
Right(k) ==
    CASE job.kind = "fetch" -> ~job.findDone \/ job.rows[k] = Found(db)[k]
      [] job.kind = "reread" /\ k \in job.keys ->
            client.hasError \/ ~job.findDone \/ job.rows[k] = db[k]
      [] OTHER -> client.hasError \/ client.rows[k] = Found(db)[k]
Queued(k) == \E i \in DOMAIN queue : Tells(queue[i], k)

\* what is known of the live query
Base == TypeOK /\ StoreInv /\ ListensInv /\ HeldKeys /\ Plain
RelayKinds == {"changed", "resync"}

\* what is found under k depends on what is stored under k
LEMMA FoundAlone ==
  ASSUME TypeOK, Plain, NEW k \in Key
  PROVE  /\ Found(db)[k] = IF db[k] \in Matching THEN db[k] ELSE NoDoc
         /\ (TypeOK' /\ options' = options /\ db'[k] = db[k]) => Found(db)'[k] = Found(db)[k]
<1>1. options \in QueryOptions /\ db \in [Key -> State] /\ ~Windowed
  BY DEF TypeOK, StoreTypeOK, Plain
<1>2. Found(db)[k] = IF db[k] \in Matching THEN db[k] ELSE NoDoc
  BY <1>1, FoundUnwindowed
<1>3. ASSUME TypeOK', options' = options, db'[k] = db[k] PROVE Found(db)'[k] = Found(db)[k]
  <2>1. PICK d \in [Key -> State] : d = db'
    BY <1>3 DEF TypeOK, StoreTypeOK
  <2>2. Found(d)[k] = IF d[k] \in Matching THEN d[k] ELSE NoDoc
    BY <1>1, FoundUnwindowed
  <2>3. Found(db)' = Found(d)
    BY <1>3, <2>1 DEF Found, InWindow, Before, Matches
  <2> QED
    BY <1>2, <1>3, <2>1, <2>2, <2>3
<1> QED
  BY <1>2, <1>3

\* a step that leaves the live query, and what is stored under k, alone
LEMMA RightStays ==
  ASSUME TypeOK, TypeOK', Plain, UNCHANGED subVars, NEW k \in Key, db'[k] = db[k]
  PROVE  /\ Right(k) => Right(k)'
         /\ Queued(k) => Queued(k)'
<1>1. Found(db)'[k] = Found(db)[k]
  BY FoundAlone DEF subVars
<1> QED
  BY <1>1 DEF Right, Queued, Tells, subVars

\* an action of a notification or a resync, handled
LEMMA HandleRights ==
  ASSUME Base, Live, db' = db, job.kind \notin {"fetch", "reread"},
         NEW s \in Closure, Alike(s), NEW a \in Actions, a.type \in RelayKinds,
         NEW done \in {NoJob, Settled}, HandleAction(s, a, done), UNCHANGED options,
         TypeOK', NEW k \in Key, Right(k) \/ Tells(a, k)
  PROVE  Right(k)'
<1>0. /\ \A ks : Rereading(ks).kind = "reread" /\ Rereading(ks).keys = ks /\ ~Rereading(ks).findDone
      /\ Fetching(FALSE).kind = "fetch" /\ ~Fetching(FALSE).findDone
      /\ done.kind \notin {"fetch", "reread"}
  BY DEF NoJob, Settled, Fetching, Rereading
<1>1. Found(db)'[k] = Found(db)[k] /\ Found(db)[k] = IF db[k] \in Matching THEN db[k] ELSE NoDoc
  BY FoundAlone DEF Base
<1>2. Right(k) => client.hasError \/ client.rows[k] = Found(db)[k]
  BY DEF Right
<1>3. ~MayShift(s, a)
  <2>1. options.skip = 0 /\ options.limit = 0
    BY DEF Base, Plain, Windowed, TypeOK, QueryOptions
  <2> QED
    BY <2>1 DEF MayShift
<1>4. CASE Refetch(s)
  BY <1>0, <1>4 DEF Refetch, Right
<1>5. ASSUME ~Ignored(s, a), a.type = "changed", k \notin Concerned(s, a), Tells(a, k)
      PROVE  client.rows[k] = Found(db)[k]
  <2>1. k \notin s.sentKeys /\ db[k] \notin Matching
    BY <1>5 DEF Tells, Concerned
  <2>2. s.sentKeys = Held(client.rows)
    BY <1>5 DEF Base, HeldKeys, Plain, Ignored, Alike
  <2> QED
    BY <1>1, <2>1, <2>2 DEF Held
<1>6. CASE UNCHANGED client /\ job' = done /\ Ignored(s, a)
  <2>1. client.hasError
    BY <1>6 DEF Ignored, Alike, Live, Base, Plain, ListensInv
  <2> QED
    BY <1>0, <1>6, <2>1 DEF Right
<1>7. CASE /\ ~Ignored(s, a) /\ UNCHANGED client /\ job' = done
           /\ a.type = "changed" /\ Concerned(s, a) = {}
  BY <1>0, <1>1, <1>2, <1>5, <1>7 DEF Right
<1>8. CASE ~Ignored(s, a) /\ UNCHANGED client /\ a.type = "changed" /\ job' = Rereading(Concerned(s, a))
  BY <1>0, <1>1, <1>2, <1>5, <1>8 DEF Right
<1> QED
  BY <1>3, <1>4, <1>6, <1>7, <1>8 DEF HandleAction, RelayKinds

\* an action received: handled at once, or put behind the pending work
LEMMA ReceiveRights ==
  ASSUME Base, Live, db' = db, TypeOK', NEW a \in Actions, a.type \in RelayKinds, Receive(a),
         NEW k \in Key, Right(k) \/ Queued(k) \/ Tells(a, k)
  PROVE  Right(k)' \/ Queued(k)'
<1>0. TypeOK /\ Sub \in listeners /\ queue \in Seq(Actions)
  BY DEF Base, ListensInv, TypeOK
<1>1. PICK s \in Closure :
          /\ Alike(s) /\ options' = options
          /\ \/ job.kind = "idle" /\ HandleAction(s, a, NoJob) /\ queue' = queue
             \/ job.kind # "idle" /\ queue' = Append(queue, a) /\ sub' = s /\ UNCHANGED <<job, client>>
  BY <1>0, ReceiveHandles
<1>2. CASE job.kind = "idle" /\ HandleAction(s, a, NoJob)
  <2>1. ~Queued(k)
    BY <1>2 DEF Base, ListensInv, Queued
  <2> QED
    BY <1>1, <1>2, <2>1, HandleRights
<1>3. CASE queue' = Append(queue, a) /\ UNCHANGED <<job, client>>
  <2>1. Found(db)'[k] = Found(db)[k]
    BY <1>0, <1>1, FoundAlone DEF Base
  <2>2. Right(k) => Right(k)'
    BY <1>3, <2>1 DEF Right
  <2>3. /\ \A i \in DOMAIN queue : i \in DOMAIN queue' /\ queue'[i] = queue[i]
        /\ Len(queue) + 1 \in DOMAIN queue' /\ queue'[Len(queue) + 1] = a
    BY <1>0, <1>3
  <2>4. Queued(k) \/ Tells(a, k) => Queued(k)'
    <3>1. \A b : Tells(b, k)' = Tells(b, k)
      BY DEF Tells
    <3>2. ASSUME Queued(k) PROVE Queued(k)'
      <4>1. PICK i \in DOMAIN queue : Tells(queue[i], k)
        BY <3>2 DEF Queued
      <4> QED
        BY <2>3, <4>1 DEF Queued, Tells
    <3>3. ASSUME Tells(a, k) PROVE Queued(k)'
      BY <2>3, <3>3 DEF Queued, Tells
    <3> QED
      BY <3>2, <3>3
  <2> QED
    BY <2>2, <2>4
<1> QED
  BY <1>1, <1>2, <1>3


\* a step of the queue: a fetch or a re-read that goes on, an action that is run
LEMMA QueueRights ==
  ASSUME Base, Live, QueueStep, TypeOK', \A i \in DOMAIN queue : queue[i].type \in RelayKinds,
         NEW k \in Key, Right(k) \/ Queued(k)
  PROVE  Right(k)' \/ Queued(k)'
<1>0. /\ TypeOK /\ Plain /\ ~Windowed /\ UNCHANGED <<db, options>>
      /\ queue \in Seq(Actions) /\ job \in Job /\ client \in Client /\ sub \in Closure
      /\ sub.isOpen /\ ~sub.isStopped /\ Settled.kind = "settled"
  BY DEF Base, Plain, TypeOK, Live, QueueStep, FindAnswers, CountAnswers, FetchDone, FetchFails, RereadAnswers,
     RereadDone, RereadFails, RunNext, ClearTail, storeVars, Settled, NoJob
<1>1. Found(db)'[k] = Found(db)[k] /\ Found(db)[k] = IF db[k] \in Matching THEN db[k] ELSE NoDoc
  BY <1>0, FoundAlone
<1>2. ASSUME queue' = queue PROVE Queued(k) => Queued(k)'
  BY <1>0, <1>2 DEF Queued, Tells
<1>3. CASE FindAnswers
  <2>1. job'.kind = "fetch" /\ job'.rows = Found(db)
    BY <1>0, <1>3 DEF FindAnswers, Job
  <2> QED
    BY <1>1, <2>1 DEF Right
<1>4. CASE CountAnswers
  <2>1. job'.kind = job.kind /\ job'.findDone = job.findDone /\ job'.rows = job.rows /\ job.kind = "fetch"
    BY <1>0, <1>4 DEF CountAnswers, Job
  <2> QED
    BY <1>1, <1>2, <1>4, <2>1 DEF CountAnswers, Right
<1>5. CASE FetchDone
  <2>1. SendsInitial
    BY <1>0, <1>5 DEF Plain, SendsInitial
  <2>2. client'.rows = job.rows /\ job'.kind = "settled" /\ queue' = queue
    BY <1>0, <1>5, <2>1 DEF FetchDone, ApplyInitial
  <2>3. Right(k) => client'.rows[k] = Found(db)[k]
    BY <1>5, <2>2 DEF FetchDone, Right
  <2> QED
    BY <1>1, <1>2, <2>2, <2>3 DEF Right
<1>6. CASE FetchFails \/ RereadFails
  <2>1. client'.hasError /\ job'.kind = "settled"
    BY <1>0, <1>6 DEF FetchFails, RereadFails, Report, Client
  <2> QED
    BY <2>1 DEF Right
<1>7. CASE RereadAnswers
  <2>1. /\ job'.kind = job.kind /\ job'.keys = job.keys /\ job.kind = "reread"
        /\ k \in job.keys => job'.rows[k] = db[k]
    BY <1>0, <1>7 DEF RereadAnswers, Job
  <2>2. queue' = queue /\ client' = client
    BY <1>7 DEF RereadAnswers
  <2> QED
    BY <1>0, <1>1, <1>2, <2>1, <2>2 DEF Right
<1>8. CASE RereadDone
  <2> DEFINE m == Memberships(RereadStates, sub.sentKeys)
  <2>1. ApplyStates(sub, RereadStates, Settled) /\ queue' = queue /\ job.kind = "reread" /\ job.findDone
    BY <1>0, <1>8 DEF RereadDone
  <2>2. client' = ApplyChanges(client, m, RereadStates) /\ job' = Settled
    BY <1>0, <2>1 DEF ApplyStates
  <2>3. RereadStates \in Emitted /\ RereadStates[k] = IF k \in job.keys THEN job.rows[k] ELSE Untouched
    BY <1>0 DEF RereadStates, Emitted, Job
  <2>4. client.rows[k] # NoDoc <=> k \in sub.sentKeys
    <3>1. Held(client.rows) = sub.sentKeys
      BY <2>1 DEF Base, ListensInv, HeldKeys, Plain
    <3> QED
      BY <3>1 DEF Held
  <2>5. client'.rows[k] = IF RereadStates[k] = Untouched THEN client.rows[k]
                          ELSE IF RereadStates[k] \in Matching THEN RereadStates[k] ELSE NoDoc
    <3>1. sub.sentKeys \in SUBSET Key
      BY <1>0 DEF Closure
    <3> QED
      BY <1>0, <2>2, <2>3, <2>4, <3>1, RowAfter
  <2>6. client'.hasError = client.hasError
    BY <1>0, <2>2 DEF ApplyChanges, Client
  <2>7. job.rows[k] # Untouched
    BY <1>0, SubscribeStoreAssumption DEF Job, State
  <2>8. Right(k) => client'.hasError \/ client'.rows[k] = Found(db)[k]
    <3>1. CASE k \in job.keys
      BY <1>1, <2>1, <2>3, <2>5, <2>6, <2>7, <3>1 DEF Right
    <3>2. CASE k \notin job.keys
      BY <1>1, <2>1, <2>3, <2>5, <2>6, <3>2 DEF Right
    <3> QED
      BY <3>1, <3>2
  <2> HIDE DEF m
  <2> QED
    BY <1>0, <1>1, <1>2, <2>1, <2>2, <2>8 DEF Right
<1>9. CASE RunNext
  <2>1. /\ queue # <<>> /\ Head(queue) = queue[1] /\ queue[1] \in Actions /\ queue[1].type \in RelayKinds
        /\ HandleAction(sub, queue[1], Settled) /\ job.kind = "settled"
    BY <1>0, <1>9 DEF RunNext
  <2>2. Alike(sub)
    BY DEF Alike
  <2>3. ASSUME Right(k) \/ Tells(queue[1], k) PROVE Right(k)'
    BY <1>0, <2>1, <2>2, <2>3, HandleRights
  <2>4. ASSUME NEW i \in DOMAIN queue, i # 1, Tells(queue[i], k) PROVE Queued(k)'
    <3>1. i - 1 \in DOMAIN queue' /\ queue'[i - 1] = queue[i]
      BY <1>0, <1>9, <2>4 DEF RunNext
    <3> QED
      BY <1>0, <2>4, <3>1 DEF Queued, Tells
  <2> QED
    BY <2>3, <2>4 DEF Queued
<1>10. CASE ClearTail
  <2>1. /\ job'.kind = "idle" /\ job.kind = "settled" /\ UNCHANGED <<client, queue>>
    BY <1>10 DEF ClearTail, NoJob
  <2> QED
    BY <1>1, <1>2, <2>1 DEF Right
<1> QED
  BY <1>3, <1>4, <1>5, <1>6, <1>7, <1>8, <1>9, <1>10 DEF QueueStep


-----------------------------------------------------------------------------
(* What is on its way to a live relay *)

\* A key the producer wrote is in one of the places a batch goes through, is asked for
\* by a notification, or was reported; an initial asks for every key.
Relayed(k) ==
    \/ producer.phase = "written" /\ k \in producer.key
    \/ k \in served.pendingKeys
    \/ \E i \in DOMAIN channel : channel[i] = Initial \/ k \in channel[i].keys
    \/ \E n \in Notifier : AskedBy(n, k)
    \/ <<k, "lost">> \in gaps \/ k \in unrelayed

LinkInv ==
    /\ IsLive => served.isListening
    /\ channel # <<>> => served.isListening
    /\ served.isListening => ~relay.isClosed
    /\ \A i \in DOMAIN queue : queue[i].type \in RelayKinds

\* The inductive invariant: while the relay is live, a row that is not right has a key
\* in the queue or on its way.
WatchInv == IsLive /\ Live => \A k \in Key : Right(k) \/ Queued(k) \/ Relayed(k)

\* a relay that is live is served, and only on a connection that is served does anything arrive
LEMMA LinkStays ==
  ASSUME TypeOK, ChannelTypeOK, LinkInv, [RelayNext]_allVars
  PROVE  LinkInv'
<1>0. /\ served \in ServedType /\ relay \in [isLive : BOOLEAN, isClosed : BOOLEAN]
      /\ channel \in Seq(Message) /\ queue \in Seq(Actions)
  BY DEF ChannelTypeOK, TypeOK
<1> DEFINE Ends == /\ IsLive => served.isListening
                   /\ channel # <<>> => served.isListening
                   /\ served.isListening => ~relay.isClosed
           Kinds == \A i \in DOMAIN queue : queue[i].type \in RelayKinds
<1>1. Ends'
  <2>1. CASE UNCHANGED <<served, channel, relay>>
    BY <2>1 DEF LinkInv, IsLive
  <2>2. CASE ProducerEmits
    <3>1. served'.isListening = served.isListening
      BY <1>0, <2>2 DEF ProducerEmits, ServedType
    <3> QED
      BY <2>2, <3>1 DEF ProducerEmits, LinkInv, IsLive
  <2>3. CASE Serve
    <3>1. served'.isListening /\ ~relay'.isClosed
      BY <1>0, <2>3 DEF Serve, ServedType
    <3> QED
      BY <3>1
  <2>4. CASE Flush
    <3>1. served'.isListening /\ served.isListening /\ relay' = relay
      BY <1>0, <2>4 DEF Flush, ServedType
    <3> QED
      BY <3>1 DEF LinkInv
  <2>5. CASE StopServing
    <3>1. served'.isListening = served.isListening
      BY <1>0, <2>5 DEF StopServing, ServedType
    <3> QED
      BY <2>5, <3>1 DEF StopServing, LinkInv, IsLive
  <2>6. CASE CloseRelay
    <3>1. channel' = <<>> /\ relay'.isClosed /\ ~served'.isListening
      BY <1>0, <2>6 DEF CloseRelay, Abandon
    <3> QED
      BY <3>1 DEF IsLive
  <2>7. ASSUME NEW state \in {"disconnected", "closed"}, Leave(state) PROVE Ends'
    <3>1. channel' = <<>> /\ ~IsLive' /\ ~served'.isListening
      BY <1>0, <2>7 DEF Leave, Abandon, IsLive, LiveAfter
    <3> QED
      BY <3>1
  <2>8. CASE ReceiveInitial
    <3>1. served' = served /\ served.isListening /\ ~relay.isClosed /\ relay'.isClosed = relay.isClosed
      BY <1>0, <2>8 DEF ReceiveInitial, LinkInv
    <3> QED
      BY <3>1
  <2>9. CASE ReceiveBatch
    BY <2>9 DEF ReceiveBatch, LinkInv, IsLive
  <2> QED
    BY <2>1, <2>2, <2>3, <2>4, <2>5, <2>6, <2>7, <2>8, <2>9
    DEF RelayNext, ProducerStep, ProducerBegins, ProducerCommits, ProducerFails, Connect, relayVars, allVars
<1>2. Kinds'
  <2>1. CASE queue' = queue
    BY <2>1 DEF LinkInv
  <2>2. ASSUME NEW a \in Actions, a.type \in RelayKinds, queue' = Append(queue, a) PROVE Kinds'
    <3>1. \A i \in DOMAIN queue' : (i \in DOMAIN queue /\ queue'[i] = queue[i]) \/ queue'[i] = a
      BY <1>0, <2>2
    <3> QED
      BY <2>2, <3>1 DEF LinkInv
  <2>3. CASE ReceiveInitial
    <3>1. queue' = queue \/ queue' = Append(queue, ResyncAction)
      BY <2>3 DEF ReceiveInitial, EmitResync, Receive
    <3>2. ResyncAction \in Actions /\ ResyncAction.type \in RelayKinds
      BY ActionTypes DEF TypeOK, ResyncAction, RelayKinds
    <3> QED
      BY <2>1, <2>2, <3>1, <3>2
  <2>4. ASSUME NEW n \in Notifier, EmitNotified(n) PROVE Kinds'
    <3>1. queue' = queue \/ queue' = Append(queue, ChangedAction(n))
      BY <2>4 DEF EmitNotified, Receive
    <3>2. ChangedAction(n) \in Actions /\ ChangedAction(n).type \in RelayKinds
      BY ActionTypes DEF TypeOK, ChangedAction, RelayKinds
    <3> QED
      BY <2>1, <2>2, <3>1, <3>2
  <2>5. CASE RunNext
    <3>1. \A i \in DOMAIN queue' : i + 1 \in DOMAIN queue /\ queue'[i] = queue[i + 1]
      BY <1>0, <2>5 DEF RunNext
    <3> QED
      BY <3>1 DEF LinkInv
  <2>6. CASE Open \/ (QueueStep /\ ~RunNext)
    BY <2>1, <2>6 DEF Open, QueueStep, FindAnswers, CountAnswers, FetchDone, FetchFails, RereadAnswers,
       RereadDone, RereadFails, ClearTail
  <2>7. ASSUME RelayNext, ~ReceiveInitial, ~((Open \/ ConsumerStep) /\ UNCHANGED relayVars) PROVE queue' = queue
    BY <2>7 DEF RelayNext, ProducerStep, ProducerBegins, ProducerCommits, ProducerFails, ProducerEmits, Serve,
       Flush, StopServing, Connect, CloseRelay, Leave, ReceiveBatch, vars, subVars
  <2>8. CASE UNCHANGED allVars \/ (NotifierStep /\ UNCHANGED subVars)
    BY <2>1, <2>8 DEF allVars, vars, subVars
  <2> QED
    BY <2>1, <2>3, <2>4, <2>5, <2>6, <2>7, <2>8 DEF ConsumerStep, NotificationStep
<1> QED
  BY <1>1, <1>2 DEF LinkInv


\* a key on its way is found again one place further, while the relay is live
LEMMA RelayMoves ==
  ASSUME ChannelTypeOK, UNCHANGED vars, IsLive', IsLive => served.isListening,
         \/ \E k \in Key, d \in State : ProducerBegins(k, d)
         \/ ProducerFails \/ ProducerEmits \/ Serve \/ Flush \/ StopServing \/ Connect \/ CloseRelay
         \/ \E state \in {"disconnected", "closed"} : Leave(state)
  PROVE  IsLive /\ \A k \in Key : Relayed(k) => Relayed(k)'
<1>0. /\ served \in ServedType /\ channel \in Seq(Message) /\ producer \in ProducerType
      /\ relay \in [isLive : BOOLEAN, isClosed : BOOLEAN] /\ UNCHANGED <<notifier, db, gaps>>
  BY DEF ChannelTypeOK, vars, storeVars
<1>1. ~CloseRelay
  BY <1>0 DEF CloseRelay, IsLive
<1>2. ASSUME NEW state \in {"disconnected", "closed"} PROVE ~Leave(state)
  BY <1>0, <1>2 DEF Leave, LiveAfter, IsLive
<1>3. relay' = relay /\ unrelayed' = unrelayed
  BY <1>1, <1>2 DEF ProducerBegins, ProducerFails, ProducerEmits, Serve, Flush, StopServing, Connect
<1>4. \A n \in Notifier, k \in Key : AskedBy(n, k) => AskedBy(n, k)'
  BY <1>0 DEF AskedBy
<1>5. IsLive /\ served.isListening
  BY <1>3 DEF IsLive
<1>6. ASSUME UNCHANGED <<served, channel>>, producer' = producer \/ producer.phase # "written", NEW k \in Key, Relayed(k)
      PROVE  Relayed(k)'
  BY <1>0, <1>3, <1>4, <1>6 DEF Relayed
<1>7. ASSUME ProducerEmits, NEW k \in Key, Relayed(k) PROVE Relayed(k)'
  <2>1. served'.pendingKeys = served.pendingKeys \cup producer.key /\ channel' = channel
    BY <1>0, <1>5, <1>7 DEF ProducerEmits, PendingWith, ServedType
  <2> QED
    BY <1>0, <1>3, <1>4, <1>7, <2>1 DEF Relayed
<1>8. ASSUME Flush, NEW k \in Key, Relayed(k) PROVE Relayed(k)'
  <2>1. producer' = producer /\ channel' = Append(channel, Batch(served.pendingKeys))
    BY <1>8 DEF Flush
  <2>2. /\ \A i \in DOMAIN channel : i \in DOMAIN channel' /\ channel'[i] = channel[i]
        /\ Len(channel) + 1 \in DOMAIN channel' /\ channel'[Len(channel) + 1] = Batch(served.pendingKeys)
    BY <1>0, <2>1
  <2>3. Batch(served.pendingKeys).keys = served.pendingKeys
    BY DEF Batch
  <2>4. CASE k \in served.pendingKeys
    BY <2>2, <2>3, <2>4 DEF Relayed
  <2>5. CASE \E i \in DOMAIN channel : channel[i] = Initial \/ k \in channel[i].keys
    <3>1. Initial' = Initial
      BY DEF Initial
    <3> QED
      BY <2>2, <2>5, <3>1 DEF Relayed
  <2> QED
    BY <1>0, <1>3, <1>4, <1>8, <2>1, <2>4, <2>5 DEF Relayed
<1>9. ASSUME StopServing, NEW k \in Key, Relayed(k) PROVE Relayed(k)'
  <2>1. served'.pendingKeys = served.pendingKeys
    BY <1>0, <1>9 DEF StopServing, ServedType
  <2>2. UNCHANGED <<channel, producer>>
    BY <1>9 DEF StopServing
  <2>3. CASE \E n \in Notifier : AskedBy(n, k)
    BY <1>4, <2>3 DEF Relayed
  <2>4. CASE ~\E n \in Notifier : AskedBy(n, k)
    BY <1>0, <1>3, <1>9, <2>1, <2>2, <2>4 DEF Relayed
  <2> QED
    BY <2>3, <2>4
<1>10. ~Serve
  BY <1>5 DEF Serve
<1>11. CASE \/ \E k \in Key, d \in State : ProducerBegins(k, d)
            \/ ProducerFails \/ Connect
  <2>1. UNCHANGED <<served, channel>> /\ (producer' = producer \/ producer.phase # "written")
    BY <1>11 DEF ProducerBegins, ProducerFails, Connect
  <2> QED
    BY <1>5, <1>6, <2>1
<1> QED
  BY <1>1, <1>2, <1>5, <1>7, <1>8, <1>9, <1>10, <1>11

\* the producer writes: it emits the key, or it began before it had listeners
LEMMA CommitRelays ==
  ASSUME Base, TypeOK', ChannelTypeOK, LinkInv, ProducerCommits, IsLive',
         NEW k \in Key, Right(k) \/ Queued(k) \/ Relayed(k)
  PROVE  Right(k)' \/ Queued(k)' \/ Relayed(k)'
<1>0. /\ producer \in ProducerType /\ UNCHANGED <<served, channel, relay, subVars>>
      /\ producer.phase = "writing" /\ db \in [Key -> State] /\ TypeOK /\ Plain
  BY DEF ProducerCommits, ChannelTypeOK, Base, TypeOK, StoreTypeOK
<1>1. PICK j \in producer.key : Foreign(j, producer.doc)
  BY DEF ProducerCommits
<1>2. /\ db' = [db EXCEPT ![j] = producer.doc] /\ gaps \subseteq gaps' /\ notifier' = notifier
      /\ unrelayed \subseteq unrelayed'
  BY <1>1 DEF Foreign, ProducerCommits
<1>3. CASE k \in producer.key
  <2>1. served.isListening
    BY <1>0 DEF LinkInv, IsLive
  <2>2. CASE producer.emits
    <3>1. producer'.phase = "written" /\ producer'.key = producer.key
      BY <1>0, <2>2 DEF ProducerCommits, ProducerType
    <3> QED
      BY <1>3, <3>1 DEF Relayed
  <2>3. CASE ~producer.emits
    BY <1>3, <2>1, <2>3 DEF ProducerCommits, Relayed
  <2> QED
    BY <2>2, <2>3
<1>4. CASE k \notin producer.key
  <2>1. db'[k] = db[k]
    BY <1>0, <1>1, <1>2, <1>4
  <2>2. Relayed(k) => Relayed(k)'
    <3>1. \A n \in Notifier : AskedBy(n, k) => AskedBy(n, k)'
      BY <1>2, <2>1 DEF AskedBy
    <3> QED
      BY <1>0, <1>2, <3>1 DEF Relayed
  <2> QED
    BY <1>0, <2>1, <2>2, RightStays
<1> QED
  BY <1>3, <1>4


\* a key that is notified is asked for, read, and told; or the error is reported
LEMMA NotificationRelays ==
  ASSUME Base, TypeOK', ChannelTypeOK, LinkInv, Live', IsLive',
         \/ ReceiveInitial \/ ReceiveBatch
         \/ NotifierStep /\ UNCHANGED <<subVars, relayVars>>
         \/ UNCHANGED relayVars /\ \E n \in Notifier : EmitNotified(n),
         NEW k \in Key, IsLive /\ Live => Right(k) \/ Queued(k) \/ Relayed(k)
  PROVE  Right(k)' \/ Queued(k)' \/ Relayed(k)'
<1>0. /\ TypeOK /\ Plain /\ channel \in Seq(Message) /\ notifier \in [Notifier -> NotifierRecord]
      /\ sub \in Closure /\ client \in Client
      /\ \A n \in Notifier : notifier[n].phase = "idle" => notifier[n].states = Nothing
  BY DEF Base, ChannelTypeOK, TypeOK, StoreTypeOK, StoreInv, NoticesInv, IdleNotifier
<1>1. ASSUME UNCHANGED subVars, UNCHANGED db, Right(k) \/ Queued(k) PROVE Right(k)' \/ Queued(k)'
  BY <1>0, <1>1, RightStays
<1>2. CASE ReceiveInitial
  <2>1. Receive(ResyncAction) /\ db' = db
    BY <1>2 DEF ReceiveInitial, EmitResync, Resync
  <2>2. ResyncAction \in Actions /\ ResyncAction.type \in RelayKinds /\ Tells(ResyncAction, k)
    BY <1>0, ActionTypes DEF TypeOK, ResyncAction, RelayKinds, Tells
  <2>3. Live
    BY <1>0, <2>1, <2>2, ReceiveKeeps DEF Kept, Live, TypeOK
  <2> QED
    BY <2>1, <2>2, <2>3, ReceiveRights
<1>3. CASE ReceiveBatch
  <2>0. PICK n \in Notifier : NotifyChanged(n, Head(channel).keys)
    BY <1>3 DEF ReceiveBatch
  <2>1. UNCHANGED <<db, listeners, gaps, subVars, producer, served, relay, unrelayed>>
    BY <1>3, <2>0 DEF ReceiveBatch, NotifyChanged
  <2>2. Live /\ IsLive
    BY <2>1 DEF subVars, Live, IsLive
  <2>3. HasListeners
    BY <2>2 DEF Base, ListensInv, HasListeners
  <2> DEFINE ks == channel[1].keys
             states == [j \in Key |-> IF j \in ks THEN NoDoc ELSE Untouched]
  <2>4. /\ Head(channel) = channel[1] /\ channel[1] \in Message /\ channel[1].type = "inserted" /\ channel[1] # Initial
        /\ \A i \in DOMAIN channel : i # 1 => i - 1 \in DOMAIN channel' /\ channel'[i - 1] = channel[i]
    BY <1>0, <1>3 DEF ReceiveBatch, Initial
  <2>5. /\ notifier' = [notifier EXCEPT ![n] = [phase |-> "asked", states |-> states]]
        /\ notifier[n].phase = "idle"
    BY <2>0, <2>3, <2>4 DEF NotifyChanged
  <2>6. /\ \A m \in Notifier : m # n => notifier'[m] = notifier[m]
        /\ notifier'[n].phase = "asked" /\ notifier'[n].states = states
    BY <1>0, <2>5
  <2>7. k \in ks => AskedBy(n, k)'
    <3>1. NoDoc # Untouched
      BY SubscribeStoreAssumption
    <3> QED
      BY <2>6, <3>1 DEF AskedBy, KeysOf
  <2>8. ~AskedBy(n, k)
    BY <1>0, <2>5 DEF AskedBy, KeysOf, Nothing
  <2>9. \A m \in Notifier : AskedBy(m, k) => AskedBy(m, k)'
    BY <2>1, <2>6, <2>8 DEF AskedBy
  <2> HIDE DEF states
  <2>10. ASSUME NEW i \in DOMAIN channel, channel[i] = Initial \/ k \in channel[i].keys
         PROVE  Relayed(k)'
    <3>1. CASE i = 1
      BY <2>4, <2>7, <2>10, <3>1 DEF Relayed
    <3>2. CASE i # 1
      <4>1. i - 1 \in DOMAIN channel' /\ (channel'[i - 1] = Initial \/ k \in channel'[i - 1].keys)
        BY <2>4, <2>10, <3>2
      <4> QED
        BY <4>1 DEF Relayed, Initial
    <3> QED
      BY <3>1, <3>2
  <2>11. Relayed(k) => Relayed(k)'
    <3>1. CASE \E m \in Notifier : AskedBy(m, k)
      BY <2>9, <3>1 DEF Relayed
    <3>2. CASE \E i \in DOMAIN channel : channel[i] = Initial \/ k \in channel[i].keys
      BY <2>10, <3>2
    <3> QED
      BY <2>1, <3>1, <3>2 DEF Relayed
  <2> QED
    BY <1>1, <2>1, <2>2, <2>11
<1>4. ASSUME UNCHANGED relayVars, \A m \in Notifier : AskedBy(m, k) => AskedBy(m, k)' \/ <<k, "lost">> \in gaps',
             gaps \subseteq gaps', Relayed(k)
      PROVE  Relayed(k)'
  <2>1. UNCHANGED <<producer, served, channel, unrelayed>>
    BY <1>4 DEF relayVars
  <2>2. CASE \E m \in Notifier : AskedBy(m, k)
    BY <1>4, <2>2 DEF Relayed
  <2>3. CASE ~\E m \in Notifier : AskedBy(m, k)
    BY <1>4, <2>1, <2>3 DEF Relayed
  <2> QED
    BY <2>2, <2>3
<1>5. CASE NotifierStep /\ UNCHANGED <<subVars, relayVars>>
  <2>0. PICK n \in Notifier : NotifyFinds(n) \/ NotifyFails(n)
    BY <1>5 DEF NotifierStep
  <2>1. db' = db /\ gaps \subseteq gaps' /\ Live /\ IsLive
    BY <1>5, <2>0 DEF NotifyFinds, NotifyFails, subVars, relayVars, Live, IsLive
  <2>2. ASSUME NEW m \in Notifier, m # n, AskedBy(m, k) PROVE AskedBy(m, k)'
    <3>1. notifier'[m] = notifier[m]
      BY <1>0, <2>0, <2>2 DEF NotifyFinds, NotifyFails
    <3> QED
      BY <2>1, <2>2, <3>1 DEF AskedBy
  <2>3. ASSUME AskedBy(n, k) PROVE AskedBy(n, k)' \/ <<k, "lost">> \in gaps'
    <3>1. CASE NotifyFinds(n)
      <4>1. notifier'[n].states = [j \in Key |-> IF j \in KeysOf(notifier[n].states) THEN db[j] ELSE Untouched]
        BY <1>0, <3>1 DEF NotifyFinds
      <4>2. notifier'[n].states[k] = db[k] /\ db[k] # Untouched
        BY <1>0, <2>3, <4>1, StatesTyped DEF AskedBy, TypeOK
      <4> QED
        BY <2>1, <4>2 DEF AskedBy, KeysOf
    <3>2. CASE NotifyFails(n)
      BY <2>3, <3>2 DEF NotifyFails, AskedBy
    <3> QED
      BY <2>0, <3>1, <3>2
  <2>4. Relayed(k) => Relayed(k)'
    BY <1>4, <1>5, <2>1, <2>2, <2>3
  <2> QED
    BY <1>1, <1>5, <2>1, <2>4
<1>6. ASSUME UNCHANGED relayVars, NEW n \in Notifier, EmitNotified(n) PROVE Right(k)' \/ Queued(k)' \/ Relayed(k)'
  <2>1. EmitChanged(n) /\ Receive(ChangedAction(n)) /\ UNCHANGED <<db, gaps>>
    BY <1>6 DEF EmitNotified, EmitChanged
  <2>2. ChangedAction(n) \in Actions /\ ChangedAction(n).type \in RelayKinds
    BY <1>0, ActionTypes DEF TypeOK, ChangedAction, RelayKinds
  <2>3. Live /\ IsLive
    BY <1>0, <1>6, <2>1, <2>2, ReceiveKeeps DEF Kept, Live, TypeOK, IsLive, relayVars
  <2>4. AskedBy(n, k) => Tells(ChangedAction(n), k)
    BY <2>1 DEF EmitChanged, AskedBy, Tells, ChangedAction
  <2>5. \A m \in Notifier : m # n /\ AskedBy(m, k) => AskedBy(m, k)'
    <3>1. \A m \in Notifier : m # n => notifier'[m] = notifier[m]
      BY <1>0, <2>1 DEF EmitChanged
    <3> QED
      BY <2>1, <3>1 DEF AskedBy
  <2>6. CASE Right(k) \/ Queued(k) \/ AskedBy(n, k)
    BY <2>1, <2>2, <2>3, <2>4, <2>6, ReceiveRights
  <2>7. CASE Relayed(k) /\ ~AskedBy(n, k)
    BY <1>4, <1>6, <2>1, <2>5, <2>7
  <2> QED
    BY <2>3, <2>6, <2>7
<1> QED
  BY <1>2, <1>3, <1>5, <1>6


LEMMA WatchStays ==
  ASSUME Base, TypeOK', ChannelTypeOK, LinkInv, WatchInv, [RelayNext]_allVars
  PROVE  WatchInv'
<1> SUFFICES ASSUME IsLive', Live', NEW k \in Key PROVE Right(k)' \/ Queued(k)' \/ Relayed(k)'
  BY DEF WatchInv
<1>0. TypeOK /\ Plain /\ (IsLive => served.isListening) /\ (IsLive /\ Live => Right(k) \/ Queued(k) \/ Relayed(k))
  BY DEF Base, LinkInv, WatchInv
<1>1. CASE UNCHANGED allVars
  <2>1. UNCHANGED <<db, gaps, notifier, subVars, relay, served, producer, channel, unrelayed>>
    BY <1>1 DEF allVars, vars, storeVars, relayVars
  <2>2. Live /\ IsLive
    BY <2>1 DEF Live, IsLive, subVars
  <2>3. \A n \in Notifier : AskedBy(n, k) => AskedBy(n, k)'
    BY <2>1 DEF AskedBy
  <2>4. Relayed(k) => Relayed(k)'
    <3>1. CASE \E n \in Notifier : AskedBy(n, k)
      BY <2>3, <3>1 DEF Relayed
    <3>2. CASE ~\E n \in Notifier : AskedBy(n, k)
      BY <2>1, <3>2 DEF Relayed
    <3> QED
      BY <3>1, <3>2
  <2> QED
    BY <1>0, <2>1, <2>2, <2>4, RightStays
<1>2. CASE \/ \E j \in Key, d \in State : ProducerBegins(j, d)
           \/ ProducerFails \/ ProducerEmits \/ Serve \/ Flush \/ StopServing \/ Connect \/ CloseRelay
           \/ \E state \in {"disconnected", "closed"} : Leave(state)
  <2>1. UNCHANGED vars
    BY <1>2 DEF ProducerBegins, ProducerFails, ProducerEmits, Serve, Flush, StopServing, Connect, CloseRelay, Leave
  <2>2. IsLive /\ (Relayed(k) => Relayed(k)')
    BY <1>0, <1>2, <2>1, RelayMoves
  <2>3. UNCHANGED <<db, subVars>> /\ Live
    BY <2>1 DEF vars, storeVars, subVars, Live
  <2> QED
    BY <1>0, <2>2, <2>3, RightStays
<1>3. CASE ProducerCommits
  <2>1. IsLive /\ Live
    BY <1>3 DEF ProducerCommits, subVars, IsLive, Live
  <2> QED
    BY <1>0, <1>3, <2>1, CommitRelays
<1>4. CASE \/ ReceiveInitial \/ ReceiveBatch
           \/ NotifierStep /\ UNCHANGED <<subVars, relayVars>>
           \/ UNCHANGED relayVars /\ \E n \in Notifier : EmitNotified(n)
  BY <1>0, <1>4, NotificationRelays
<1>5. CASE Open
  <2>1. job'.kind = "fetch" /\ ~job'.findDone
    BY <1>5 DEF Open, Fetching, NoJob
  <2> QED
    BY <2>1 DEF Right
<1>6. CASE QueueStep /\ UNCHANGED relayVars
  <2>1. UNCHANGED <<db, notifier, producer, served, channel, relay, unrelayed>> /\ gaps \subseteq gaps'
    BY <1>6 DEF relayVars, QueueStep, FindAnswers, CountAnswers, FetchDone, FetchFails, RereadAnswers,
       RereadDone, RereadFails, RunNext, ClearTail, storeVars
  <2>2. Live /\ IsLive
    BY <1>0, <1>6, <2>1, QueueKeeps DEF Kept, Live, IsLive
  <2>3. \A n \in Notifier : AskedBy(n, k) => AskedBy(n, k)'
    BY <2>1 DEF AskedBy
  <2>4. Relayed(k) => Relayed(k)'
    <3>1. CASE \E n \in Notifier : AskedBy(n, k)
      BY <2>3, <3>1 DEF Relayed
    <3>2. CASE ~\E n \in Notifier : AskedBy(n, k)
      BY <2>1, <3>2 DEF Relayed
    <3> QED
      BY <3>1, <3>2
  <2> QED
    BY <1>0, <1>6, <2>2, <2>4, QueueRights DEF LinkInv
<1> QED
  BY <1>1, <1>2, <1>3, <1>4, <1>5, <1>6 DEF RelayNext, ProducerStep, ConsumerStep, NotificationStep

\* what a query is given does not change
LEMMA OptionsGiven == Spec => [](options \in Options)
<1>1. Init => options \in Options
  BY DEF Init
<1>2. options \in Options /\ [Next]_vars => (options \in Options)'
  BY DEF Next, vars, subVars, EmitWritten, ReturnSilently, EmitNotified, EmitResync, Receive, Open, Stop,
     OtherListens, QueueStep, FindAnswers, CountAnswers, FetchDone, FetchFails, RereadAnswers, RereadDone,
     RereadFails, RunNext, ClearTail
<1> QED
  BY <1>1, <1>2, PTL DEF Spec

(***************************************************************************)
(* isLive keeps its word, whatever connections were cut, however many keys *)
(* and notifications are on their way: RelayInv, of StoreRelayState.  It   *)
(* is proved of the queries whose rows are announced by their own keys:    *)
(* with a window, a row moves because of another document; a criterion     *)
(* that mingo cannot test ignores what it is told; and a client that was   *)
(* not sent the initial result may hold rows of an earlier fetch.          *)
(***************************************************************************)
THEOREM LiveRelayMissesNothing ==
  ASSUME PlainOptions
  PROVE  RelaySpec => []RelayInv
<1>1. RelayInit => LinkInv /\ WatchInv
  BY DEF RelayInit, Init, LinkInv, WatchInv, IsLive, NotServed
<1>2. TypeOK /\ options \in Options => Plain
  BY DEF PlainOptions, Plain, Windowed
<1>3. TypeOK /\ StoreInv /\ ListensInv /\ HeldKeys /\ options \in Options => Base
  BY <1>2 DEF Base
<1>4. TypeOK /\ ChannelTypeOK /\ LinkInv /\ [RelayNext]_allVars => LinkInv'
  BY LinkStays
<1>5. Base /\ TypeOK' /\ ChannelTypeOK /\ LinkInv /\ WatchInv /\ [RelayNext]_allVars => WatchInv'
  BY WatchStays
<1>6. Base /\ WatchInv => LiveMissesNothing
  <2> SUFFICES ASSUME Base, WatchInv, IsLive, Watches, NEW k \in Key
               PROVE  Agrees(k) \/ Announced(k) \/ Reported(k) \/ k \in unrelayed
    BY DEF LiveMissesNothing
  <2>1. Live /\ ~client.hasError /\ ~Windowed
    BY DEF Watches, Base, Plain
  <2>2. CASE Right(k)
    BY <2>1, <2>2 DEF Right, Agrees, Announced
  <2>3. CASE Queued(k)
    BY <2>3 DEF Queued, Tells, Announced
  <2>4. CASE Relayed(k)
    <3>1. <<k, "lost">> \in gaps => Reported(k)
      BY <2>1 DEF Reported, Excused, GapKeys
    <3> QED
      BY <2>4, <3>1 DEF Relayed, AskedBy, Announced
  <2> QED
    BY <2>1, <2>2, <2>3, <2>4 DEF WatchInv
<1> QED
  BY <1>1, <1>3, <1>4, <1>5, <1>6, RelayInitType, RelayStepType, RelayImplementsQuery, RelayTypeCorrect,
     TypeCorrect, StoreHolds, LiveListens, HeldKeysAgree, OptionsGiven, PTL DEF RelaySpec, RelayInv
=============================================================================
