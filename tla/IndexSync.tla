------------------------------- MODULE IndexSync -------------------------------
(***************************************************************************)
(* MongoRegistry.syncIndexes: each sync visits the stores of the registry  *)
(* one after the other, plans from what the collection lists and applies   *)
(* the plan.  Every command is awaited, so between two commands of a sync  *)
(* another sync, or writes of documents, can run; the server is the memory *)
(* client, whose commands have the results and codes mongod has.           *)
(***************************************************************************)
EXTENDS MemoryCollection

CONSTANTS
    Collections,    \* the collection names
    Stores,         \* the registered stores, [collection, indexes], sorted by collection
    Syncs,          \* the calls of syncIndexes
    Keeping,        \* those called with dropUndeclaredIndexes off
    DryRuns,        \* those called with dryRun
    Preexisting,    \* what may be there before: functions from Collections to descriptions
    Stored,         \* the documents there before, a function on Collections
    Inserts, Updates, Deletes,  \* the arguments of the writes
    MaxWrites       \* bounds the writes

VARIABLES
    collection,     \* every collection
    sync,           \* every sync, as a record
    writes,         \* how many writes were made
    overlapped,     \* history: the syncs that ran while another did
    dropped         \* history: the collections that were dropped

vars == <<collection, sync, writes, overlapped, dropped>>

idIndexName == <<"_id_">>

-----------------------------------------------------------------------------
(* What is declared and what exists, in one shape. *)

NameOf(index) == IF index.name = <<>> THEN BuildIndexName(index.key) ELSE index.name

BuildDescription(index) == [index EXCEPT !.name = NameOf(index)]

NormalizeDeclaredIndex(index) ==
    Over([isText |-> IsTextKey(index.key)],
         [index EXCEPT
            !.name    = NameOf(index),
            !.key     = At(@, {i \in DOMAIN @ : @[i][2] # "text"}),
            !.weights = [f \in TextFields(index.key) |-> IF f \in DOMAIN @ THEN @[f] ELSE 1]])

NormalizeExistingIndex(info) ==
    Over([isText |-> \E i \in DOMAIN info.key : info.key[i][1] = "_fts"],
         [info EXCEPT !.key = At(@, {i \in DOMAIN @ : @[i][1] \notin {"_fts", "_ftsx"}})])

\* The languages and the projection are compared as the filter expression is.
ComparedFields ==
    {"unique", "sparse", "hidden", "expireAfterSeconds", "partialFilterExpression", "collation", "weights"}

\* The constructor of a store throws on any other declaration.
ValidDeclaration(indexes) ==
    /\ \A i \in DOMAIN indexes : indexes[i].key # <<>> /\ NameOf(indexes[i]) # idIndexName
    /\ \A i, j \in DOMAIN indexes :
          /\ NameOf(indexes[i]) = NameOf(indexes[j]) => i = j
          /\ IsTextKey(indexes[i].key) /\ IsTextKey(indexes[j].key) => i = j

\* A name is the sequence of its parts; a key gives each field a direction.
IsDescription(index) ==
    /\ DOMAIN index = ComparedFields \cup {"name", "key"}
    /\ index.name \in Seq(STRING)
    /\ index.key \in Seq(Fields \X {"asc", "desc", "text"})
    /\ \A f \in {"unique", "sparse", "hidden", "partialFilterExpression", "collation"} : index[f] \in BOOLEAN
    /\ index.expireAfterSeconds \in Nat \cup {NoTtl}
    /\ DOMAIN index.weights \subseteq Fields

IsDeclaration(indexes) ==
    /\ indexes \in Seq({indexes[i] : i \in DOMAIN indexes})
    /\ \A i \in DOMAIN indexes : IsDescription(indexes[i])
    /\ ValidDeclaration(indexes)

ASSUME StoresAssumption ==
    /\ Stores \in Seq({Stores[i] : i \in DOMAIN Stores})
    /\ \A i \in DOMAIN Stores :
          Stores[i].collection \in Collections /\ IsDeclaration(Stores[i].indexes)

\* What is there before was made by such declarations and by inserts.
ASSUME PreexistingAssumption ==
    \A c \in Collections :
        /\ \A there \in Preexisting : IsDeclaration(there[c])
        /\ Stored[c] \in Seq(StoredDocument)

\* A filter or an update names an id or none, and without one an upsert generates
\* an id no document has: there must always be one left.
ASSUME WritesAssumption ==
    /\ Inserts \subseteq Seq(StoredDocument)
    /\ \A write \in Updates \cup Deletes : write.limit \in Nat
    /\ \A write \in Updates :
          /\ {write.filter.id, write.update.id} \subseteq Ids \cup {NoId}
          /\ write.upsert => write.filter.id # NoId \/ write.update.id # NoId \/ ~IsFiniteSet(Ids)

-----------------------------------------------------------------------------
(* The plan. *)

IsSameKey(declared, existing) == declared.isText = existing.isText /\ declared.key = existing.key

DiffOptions(declared, existing) == {f \in ComparedFields : declared[f] # existing[f]}

IsCollModApplicable(declared, existing) ==
    LET differences == DiffOptions(declared, existing)
    IN  /\ differences # {}
        /\ differences \subseteq {"hidden", "expireAfterSeconds"}
        /\ "expireAfterSeconds" \in differences =>
              NoTtl \notin {declared.expireAfterSeconds, existing.expireAfterSeconds}

BuildCollModChanges(declared, existing) ==
    [f \in DiffOptions(declared, existing) |-> declared[f]]

\* Variant: a declared index is known by the name it was given, not by the one it has.
UndeclaredByGivenName(indexes, infos) ==
    At(infos, {i \in DOMAIN infos :
                  infos[i].name \notin {indexes[j].name : j \in DOMAIN indexes} \cup {idIndexName}})

Undeclared(indexes, infos) ==
    At(infos, {i \in DOMAIN infos :
                  infos[i].name \notin {NameOf(indexes[j]) : j \in DOMAIN indexes} \cup {idIndexName}})

DiffIndexes(indexes, infos, dropUndeclaredIndexes) ==
    LET existing   == {NormalizeExistingIndex(i) : i \in ToSet(infos)}
        Declared(x) == NormalizeDeclaredIndex(x)
        Existing(x) == CHOOSE e \in existing : e.name = NameOf(x)
        IsMissing(x) == \A e \in existing : e.name # NameOf(x)
        IsSame(x)  == ~IsMissing(x) /\ IsSameKey(Declared(x), Existing(x))
        IsKept(x)  == IsSame(x) /\ DiffOptions(Declared(x), Existing(x)) = {}
        IsMod(x)   == IsSame(x) /\ IsCollModApplicable(Declared(x), Existing(x))
        IsRemade(x) == ~IsMissing(x) /\ ~IsKept(x) /\ ~IsMod(x)
        Described(s) == [i \in DOMAIN s |-> BuildDescription(s[i])]
        Those(Are(_)) == At(indexes, {i \in DOMAIN indexes : Are(indexes[i])})
        modified   == Those(IsMod)
        undeclared == Undeclared(indexes, infos)
    IN  [toCreate   |-> Described(Those(IsMissing)),
         toRecreate |-> Described(Those(IsRemade)),
         toCollMod  |-> [i \in DOMAIN modified |->
                            [name    |-> NameOf(modified[i]),
                             changes |-> BuildCollModChanges(Declared(modified[i]), Existing(modified[i]))]],
         toDrop     |-> IF dropUndeclaredIndexes THEN [i \in DOMAIN undeclared |-> undeclared[i].name] ELSE <<>>]

NoPlan == [toCreate |-> <<>>, toRecreate |-> <<>>, toCollMod |-> <<>>, toDrop |-> <<>>]

IsMongoIndexPlanEmpty(plan) == plan = NoPlan

-----------------------------------------------------------------------------
(* A sync. *)

Idle == [phase |-> "idle", at |-> 0, plan |-> NoPlan, pending |-> <<>>, conflict |-> Succeeded, failed |-> {}]

StoreOf(s) == Stores[s.at]

UnderWay(p) == sync[p].phase \notin {"idle", "over"}

\* runSequentially: the next store, whatever became of this one
NextStore(s) ==
    LET quiet == [s EXCEPT !.plan = NoPlan, !.pending = <<>>, !.conflict = Succeeded]
    IN  IF s.at < Len(Stores) THEN [quiet EXCEPT !.phase = "listing", !.at = @ + 1]
        ELSE [quiet EXCEPT !.phase = "over"]

\* Variant: the first store that fails ends the sync.
FailedAll(s, code) == [s EXCEPT !.phase = "over", !.plan = NoPlan, !.pending = <<>>, !.conflict = Succeeded,
                                !.failed = @ \cup {<<StoreOf(s).collection, code>>}]

Failed(s, code) == NextStore([s EXCEPT !.failed = @ \cup {<<StoreOf(s).collection, code>>}])

\* The parts of applyIndexPlan, each skipped when it has nothing to do.
BeginCreating(s) ==
    LET descriptions == s.plan.toCreate \o s.plan.toRecreate
    IN  IF descriptions = <<>> THEN NextStore(s)
        ELSE [s EXCEPT !.phase = "creating", !.pending = descriptions]

BeginModifying(s) ==
    IF s.plan.toCollMod = <<>> THEN BeginCreating(s)
    ELSE [s EXCEPT !.phase = "modifying", !.pending = s.plan.toCollMod]

BeginDropping(s) ==
    LET remade      == [i \in DOMAIN s.plan.toRecreate |-> s.plan.toRecreate[i].name]
        namesToDrop == s.plan.toDrop \o remade
    IN  IF namesToDrop = <<>> THEN BeginModifying(s)
        ELSE [s EXCEPT !.phase = "dropping", !.pending = namesToDrop]

\* The rest of a loop, then the part that follows it.
Rest(s, Part(_)) == IF Len(s.pending) = 1 THEN Part(s) ELSE [s EXCEPT !.pending = Tail(@)]

Becomes(p, s) == sync' = [sync EXCEPT ![p] = s]

Holds(p, result) == collection' = [collection EXCEPT ![StoreOf(sync[p]).collection] = result.collection]

Begin(p) ==
    LET others == {q \in Syncs : UnderWay(q)}
    IN  /\ sync[p].phase = "idle"
        /\ Becomes(p, NextStore(sync[p]))
        /\ overlapped' = overlapped \cup others \cup (IF others = {} THEN {} ELSE {p})
        /\ UNCHANGED <<collection, writes, dropped>>

\* planIndexes: a collection that does not exist has no index.
List(p) ==
    LET s     == sync[p]
        c     == collection[StoreOf(s).collection]
        infos == IF c.exists THEN ListInfos(c) ELSE <<>>
        plan  == DiffIndexes(StoreOf(s).indexes, infos, p \notin Keeping)
    IN  /\ s.phase = "listing"
        /\ Becomes(p, IF p \in DryRuns THEN NextStore(s) ELSE BeginDropping([s EXCEPT !.plan = plan]))
        /\ UNCHANGED <<collection, writes, overlapped, dropped>>

DropIndex(p) ==
    LET s      == sync[p]
        result == DropIndexFrom(collection[StoreOf(s).collection], Head(s.pending))
    IN  /\ s.phase = "dropping"
        /\ Holds(p, result)
        /\ Becomes(p, IF result.error \in {Succeeded, IndexNotFound}
                      THEN Rest(s, BeginModifying) ELSE Failed(s, result.error))
        /\ UNCHANGED <<writes, overlapped, dropped>>

CollMod(p) ==
    LET s      == sync[p]
        result == ModifyIndexOf(collection[StoreOf(s).collection], Head(s.pending).name, Head(s.pending).changes)
    IN  /\ s.phase = "modifying"
        /\ Holds(p, result)
        /\ Becomes(p, IF result.error = Succeeded THEN Rest(s, BeginCreating) ELSE Failed(s, result.error))
        /\ UNCHANGED <<writes, overlapped, dropped>>

CreateIndexes(p) ==
    LET s      == sync[p]
        result == CreateIndexesIn(collection[StoreOf(s).collection], s.pending)
    IN  /\ s.phase = "creating"
        /\ Holds(p, result)
        /\ Becomes(p, IF result.error = Succeeded THEN NextStore(s) ELSE [s EXCEPT !.phase = "retrying"])
        /\ UNCHANGED <<writes, overlapped, dropped>>

IsIndexConflictError(code) == code \in {OptionsConflict, KeySpecsConflict}

CreateOneByOne(p) ==
    LET s      == sync[p]
        result == CreateIndexesIn(collection[StoreOf(s).collection], <<Head(s.pending)>>)
    IN  /\ s.phase = "retrying"
        /\ Holds(p, result)
        /\ Becomes(p, CASE result.error = Succeeded            -> Rest(s, NextStore)
                        [] IsIndexConflictError(result.error)  ->
                              [s EXCEPT !.phase = "recovering", !.conflict = result.error]
                        [] OTHER                               -> Failed(s, result.error))
        /\ UNCHANGED <<writes, overlapped, dropped>>

\* Variant: the index that has the key under another name is not looked for.
FindSameName(infos, description) ==
    IF \E i \in ToSet(infos) : i.name = description.name THEN <<description.name>> ELSE <<>>

\* The names of the first index found, none or one: by name, then by key.
FindConflictingIndex(infos, description) ==
    LET byName == {i \in DOMAIN infos : infos[i].name = description.name}
        byKey  == {i \in DOMAIN infos : infos[i].name # idIndexName /\ infos[i].key = description.key}
        found  == IF byName # {} THEN byName ELSE byKey
    IN  IF found = {} THEN <<>> ELSE <<infos[Nth(found, 1)].name>>

ListConflicting(p) ==
    LET s     == sync[p]
        c     == collection[StoreOf(s).collection]
        found == FindConflictingIndex(ListInfos(c), Head(s.pending))
    IN  /\ s.phase = "recovering"
        /\ Becomes(p, CASE ~c.exists                  -> Failed(s, NamespaceNotFound)
                        [] c.exists /\ found = <<>>   -> Failed(s, s.conflict)
                        [] OTHER -> [s EXCEPT !.phase = "clearing", !.pending = found \o @])
        /\ UNCHANGED <<collection, writes, overlapped, dropped>>

\* Here an index that is gone already is an error.
DropConflicting(p) ==
    LET s      == sync[p]
        result == DropIndexFrom(collection[StoreOf(s).collection], Head(s.pending))
    IN  /\ s.phase = "clearing"
        /\ Holds(p, result)
        /\ Becomes(p, IF result.error = Succeeded
                      THEN [s EXCEPT !.phase = "recreating", !.pending = Tail(@)] ELSE Failed(s, result.error))
        /\ UNCHANGED <<writes, overlapped, dropped>>

CreateAgain(p) ==
    LET s      == sync[p]
        result == CreateIndexesIn(collection[StoreOf(s).collection], <<Head(s.pending)>>)
    IN  /\ s.phase = "recreating"
        /\ Holds(p, result)
        /\ Becomes(p, IF result.error = Succeeded
                      THEN Rest([s EXCEPT !.phase = "retrying", !.conflict = Succeeded], NextStore)
                      ELSE Failed(s, result.error))
        /\ UNCHANGED <<writes, overlapped, dropped>>

SyncStep(p) ==
    \/ Begin(p) \/ List(p) \/ DropIndex(p) \/ CollMod(p)
    \/ CreateIndexes(p) \/ CreateOneByOne(p)
    \/ ListConflicting(p) \/ DropConflicting(p) \/ CreateAgain(p)

-----------------------------------------------------------------------------
(* The writes of the application, and the two commands that empty. *)

Writing ==
    /\ writes < MaxWrites
    /\ writes' = writes + 1
    /\ UNCHANGED <<sync, overlapped>>

Write(c, result) == Writing /\ collection' = [collection EXCEPT ![c] = result.collection] /\ UNCHANGED dropped

Insert(c) == \E documents \in Inserts : Write(c, InsertManyInto(collection[c], documents))

Update(c) == \E write \in Updates : Write(c, UpdateMatching(collection[c], write))

Delete(c) == \E write \in Deletes : Write(c, DeleteMatching(collection[c], write))

\* clear of the memory client: every collection
Clear == Writing /\ collection' = [c \in Collections |-> Cleared(collection[c])] /\ UNCHANGED dropped

\* drop of a collection, and dropDatabase
Drop(gone) ==
    /\ Writing
    /\ collection' = [c \in Collections |-> IF c \in gone THEN Empty ELSE collection[c]]
    /\ dropped' = dropped \cup gone

-----------------------------------------------------------------------------

\* What createIndexes and insertMany made of an empty collection.
Before(descriptions, documents) ==
    LET indexed == IF descriptions = <<>> THEN Empty ELSE CreateIndexesIn(Empty, descriptions).collection
    IN  InsertManyInto(indexed, documents).collection

Init ==
    /\ collection \in {[c \in Collections |-> Before(there[c], Stored[c])] : there \in Preexisting}
    /\ sync = [p \in Syncs |-> Idle]
    /\ writes = 0
    /\ overlapped = {}
    /\ dropped = {}

Next ==
    \/ \E p \in Syncs : SyncStep(p)
    \/ \E c \in Collections : Insert(c) \/ Update(c) \/ Delete(c) \/ Drop({c})
    \/ Clear
    \/ Drop(Collections)

Spec == Init /\ [][Next]_vars

-----------------------------------------------------------------------------

(* Documents have one id each, a loop under way has something left to do,  *)
(* and only a sync under way holds a plan.                                 *)
SyncTypeOK ==
    /\ \A c \in Collections :
          /\ collection[c].exists \in BOOLEAN
          /\ collection[c].documents # <<>> => collection[c].exists
          /\ {collection[c].documents[i].id : i \in DOMAIN collection[c].documents} \subseteq Ids
          /\ \A i, j \in DOMAIN collection[c].documents :
                collection[c].documents[i].id = collection[c].documents[j].id => i = j
          /\ \A i, j \in DOMAIN collection[c].indexes :
                collection[c].indexes[i].info.name = collection[c].indexes[j].info.name => i = j
    /\ \A p \in Syncs :
          /\ sync[p].phase \in {"dropping", "modifying", "creating", "retrying", "recovering",
                                "clearing", "recreating"} <=> sync[p].pending # <<>>
          /\ sync[p].plan # NoPlan => UnderWay(p)

(* A unique index holds exactly the keys of the documents there are, each  *)
(* owned by the one document that has it: through every write, also one    *)
(* refused half way, and every index built while documents exist, no two   *)
(* documents share a key and no key of a document gone is still refused.   *)
UniqueKeysOwned ==
    \A c \in Collections : \A i \in DOMAIN collection[c].indexes :
        LET index     == collection[c].indexes[i]
            documents == ToSet(collection[c].documents)
        IN  index.info.unique =>
              /\ DOMAIN index.owners = UNION {ListEntries(index.info, d) : d \in documents}
              /\ \A d \in documents : \A e \in ListEntries(index.info, d) : index.owners[e] = d.id

(***************************************************************************)
(* The invariants of every state: types, and unique keys.                  *)
(***************************************************************************)
SyncInv == SyncTypeOK /\ UniqueKeysOwned

PlanOf(store) ==
    LET c == collection[store.collection]
    IN  DiffIndexes(store.indexes, IF c.exists THEN ListInfos(c) ELSE <<>>, FALSE)

(* When every sync is over and none failed on a collection, also when they *)
(* ran at the same time, each with a plan made before the other's drops    *)
(* and creations, and whatever the other stores of the registry became,    *)
(* the collection has all its declared indexes as declared.                *)
SyncConverges ==
    \A i \in DOMAIN Stores :
        LET c == Stores[i].collection
        IN  /\ \A p \in Syncs : ~UnderWay(p) /\ \A f \in sync[p].failed : f[1] # c
            /\ \E p \in Syncs \ DryRuns : sync[p].phase = "over"
            /\ c \notin dropped
            => IsMongoIndexPlanEmpty(PlanOf(Stores[i]))

(* A sync that no other overlaps fails on a collection only for documents  *)
(* that break a declared unique index: no order of its drops, changes and  *)
(* creations makes it trip over the indexes it found.  This holds of       *)
(* registries as that of the run, not of every one: a sync that keeps what *)
(* is undeclared fails on a second text index, and on a key that two       *)
(* undeclared indexes have with different collations.                      *)
FailsOnDuplicates ==
    \A p \in Syncs \ overlapped : \A f \in sync[p].failed :
        f[1] \notin dropped => f[2] = DuplicateKey

Healthy(c, index) ==
    \E i \in ToSet(ListInfos(c)) :
        /\ i.name = NameOf(index)
        /\ IsSameKey(NormalizeDeclaredIndex(index), NormalizeExistingIndex(i))
        /\ DiffOptions(NormalizeDeclaredIndex(index), NormalizeExistingIndex(i)) = {}

(* A sync that no other overlaps never takes away, not even to make it     *)
(* again, an index that is as declared.                                    *)
HealthyStays ==
    [][\A p \in Syncs \ overlapped : \A i \in DOMAIN Stores :
        (sync'[p] # sync[p] /\ p \notin overlapped') =>
            \A j \in DOMAIN Stores[i].indexes :
                Healthy(collection[Stores[i].collection], Stores[i].indexes[j]) =>
                    Healthy(collection'[Stores[i].collection], Stores[i].indexes[j])]_vars

(* The usage of runIndexesCli: "--keep-undeclared  do not drop indexes     *)
(* that are not declared".                                                 *)
KeepsUndeclared ==
    [][\A p \in Keeping : \A i \in DOMAIN Stores :
        sync'[p] # sync[p] =>
            ToSet(Undeclared(Stores[i].indexes, ListInfos(collection[Stores[i].collection])))
              \subseteq ToSet(ListInfos(collection'[Stores[i].collection]))]_vars
=============================================================================
