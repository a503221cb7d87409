--------------------------- MODULE MemoryCollection ---------------------------
(***************************************************************************)
(* A collection of the in-memory mongo client: its documents, its indexes, *)
(* the keys a unique index keeps, and every command that changes them      *)
(* (liwi-mongo/src/memory).  A command runs to its end before the next one *)
(* starts, so it is an operator: it takes a result, the collection so far  *)
(* and the error raised so far, and gives the next result.                 *)
(*                                                                         *)
(* A document has an id, a partial filter it meets or not (`active`), and  *)
(* at each field the set of values an index sees there: the items of an    *)
(* array, one value, {} for an empty array, {"undefined"} for no field.    *)
(* An index key is a sequence of <<field, direction>>.  What mingo does of *)
(* an update (operators, pipelines, positions) is the assignment of some   *)
(* fields; a filter asks for an id or for the values of some fields.       *)
(***************************************************************************)
EXTENDS Integers, Sequences, FiniteSets, SequencesExt

CONSTANTS
    Ids,        \* the document ids, numbers: a sort by _id orders them
    Fields      \* the fields of a document

ASSUME IdsAssumption == Ids \subseteq Nat

StoredDocument == [id : Ids, active : BOOLEAN, at : [Fields -> SUBSET STRING]]

NoId  == -1
NoTtl == -1

\* The codes of errors.ts, and none.
Succeeded         == 0
NamespaceNotFound == 26
IndexNotFound     == 27
ImmutableField    == 66
OptionsConflict   == 85
KeySpecsConflict  == 86
DuplicateKey      == 11000

Empty == [documents |-> <<>>, indexes |-> <<>>, exists |-> FALSE]

Begun(collection) == [collection |-> collection, error |-> Succeeded]

Refused(collection, code) == [collection |-> collection, error |-> code]

-----------------------------------------------------------------------------
(* SelectSeq, SortSeq and @@, as functions: the provers expand these.      *)

Nth(S, n) == CHOOSE x \in S : Cardinality({y \in S : y < x}) = n - 1

\* what stands at some positions of a sequence
At(s, positions) == [n \in 1 .. Cardinality(positions) |-> s[Nth(positions, n)]]

Over(f, g) == [x \in DOMAIN f \cup DOMAIN g |-> IF x \in DOMAIN f THEN f[x] ELSE g[x]]

-----------------------------------------------------------------------------
(* The keys of a unique index. *)

FoldString(value) == IF value = "X" THEN "x" ELSE value

SerializeValue(info, value) ==
    IF value = "undefined" THEN "null"
    ELSE IF info.collation THEN FoldString(value) ELSE value

ValuesAtPath(document, field) ==
    IF document.at[field] = {} THEN {"[]"} ELSE document.at[field]

\* The constraint is built from the description, of which the text fields are left
\* out: they are what the listed key has as _fts, _ftsx.
ListEntries(info, document) ==
    LET paths == {info.key[i][1] : i \in DOMAIN info.key} \ {"_fts", "_ftsx"}
        seen  == [p \in paths |-> ValuesAtPath(document, p)]
        all   == {e \in [paths -> UNION {seen[p] : p \in paths}] : \A p \in paths : e[p] \in seen[p]}
    IN  IF \/ info.partialFilterExpression /\ ~document.active
           \/ info.sparse /\ \A p \in paths : seen[p] = {"undefined"}
        THEN {}
        ELSE {[p \in paths |-> SerializeValue(info, e[p])] : e \in all}

AssertCanWrite(index, document) ==
    index.info.unique =>
        \A e \in ListEntries(index.info, document) \cap DOMAIN index.owners :
            index.owners[e] = document.id

\* Variant: the keys the document had stay with it.
WriteNewEntries(index, previous, next) ==
    LET taken == UNION {ListEntries(index.info, d) : d \in next}
    IN  IF index.info.unique /\ next # {}
        THEN [index EXCEPT !.owners =
                [e \in DOMAIN @ \cup taken |-> IF e \in taken THEN (CHOOSE d \in next : TRUE).id ELSE @[e]]]
        ELSE index

\* previous and next are sets of at most one document: none for an insert, a delete.
WriteEntries(index, previous, next) ==
    LET freed == UNION {{e \in ListEntries(index.info, d) \cap DOMAIN index.owners :
                            index.owners[e] = d.id} : d \in previous}
        taken == UNION {ListEntries(index.info, d) : d \in next}
        owner == CHOOSE i \in {d.id : d \in previous \cup next} : TRUE
    IN  IF index.info.unique
        THEN [index EXCEPT !.owners =
                [e \in (DOMAIN @ \ freed) \cup taken |-> IF e \in taken THEN owner ELSE @[e]]]
        ELSE index

MoveKeys(indexes, previous, next) ==
    [i \in DOMAIN indexes |-> WriteEntries(indexes[i], previous, next)]

CanWriteAll(collection, document) ==
    \A i \in DOMAIN collection.indexes : AssertCanWrite(collection.indexes[i], document)

-----------------------------------------------------------------------------
(* The documents. *)

Matches(filter, document) ==
    /\ filter.id \in {NoId, document.id}
    /\ \A f \in DOMAIN filter.at : filter.at[f] \in document.at[f]

PositionOf(documents, id) == CHOOSE i \in DOMAIN documents : documents[i].id = id

NormalizeSort(documents, sort) ==
    LET ids   == {documents[i].id : i \in DOMAIN documents}
        ByRank(n) == documents[PositionOf(documents, Nth(ids, n))]
        last  == Len(documents)
    IN  CASE sort = "asc"  -> [n \in 1 .. last |-> ByRank(n)]
          [] sort = "desc" -> [n \in 1 .. last |-> ByRank(last + 1 - n)]
          [] OTHER         -> documents

\* limit 0 is no limit, as for the driver
FindStored(collection, filter, sort, limit) ==
    LET documents == collection.documents
        matching  == {i \in DOMAIN documents : Matches(filter, documents[i])}
        found     == NormalizeSort(At(documents, matching), sort)
    IN  IF limit = 0 \/ Len(found) <= limit THEN found ELSE SubSeq(found, 1, limit)

\* Variant: only the unique indexes are asked.
InsertUnlessKeyTaken(result, document) ==
    IF result.error # Succeeded \/ ~CanWriteAll(result.collection, document) THEN result
    ELSE Begun([documents |-> Append(result.collection.documents, document),
                indexes   |-> MoveKeys(result.collection.indexes, {}, {document}),
                exists    |-> TRUE])

InsertStored(result, document) ==
    LET collection == result.collection
    IN  IF result.error # Succeeded THEN result
        ELSE IF \/ \E i \in DOMAIN collection.documents : collection.documents[i].id = document.id
                \/ ~CanWriteAll(collection, document)
        THEN Refused(collection, DuplicateKey)
        ELSE Begun([documents |-> Append(collection.documents, document),
                    indexes   |-> MoveKeys(collection.indexes, {}, {document}),
                    exists    |-> TRUE])

ReplaceStored(collection, previous, next) ==
    IF next.id # previous.id THEN Refused(collection, ImmutableField)
    ELSE IF ~CanWriteAll(collection, next) THEN Refused(collection, DuplicateKey)
    ELSE Begun([collection EXCEPT
            !.documents = [@ EXCEPT ![PositionOf(@, next.id)] = next],
            !.indexes   = MoveKeys(@, {previous}, {next})])

RemoveStored(result, document) ==
    Begun([result.collection EXCEPT
        !.documents = At(@, {i \in DOMAIN @ : @[i].id # document.id}),
        !.indexes   = MoveKeys(@, {document}, {})])

\* $set of the fields of update.set, and of _id; an insert adds $setOnInsert.  The
\* fields the partial filter asks for may be set too: update.active is then what it
\* makes of the filter, and empty when it leaves them.
ApplyUpdate(document, update, isInsert) ==
    LET set == IF isInsert THEN Over(update.setOnInsert, update.set) ELSE update.set
    IN  [document EXCEPT
            !.id = IF update.id # NoId THEN update.id ELSE @,
            !.active = IF update.active = {} THEN @ ELSE TRUE \in update.active,
            !.at = [f \in Fields |-> IF f \in DOMAIN set THEN set[f] ELSE @[f]]]

CreateUpsertBase(filter) ==
    [id |-> filter.id, active |-> FALSE,
     at |-> [f \in Fields |-> IF f \in DOMAIN filter.at THEN {filter.at[f]} ELSE {"undefined"}]]

UpdateStored(result, previous, update) ==
    LET next == ApplyUpdate(previous, update, FALSE)
    IN  IF result.error # Succeeded \/ next = previous THEN result
        ELSE ReplaceStored(result.collection, previous, next)

\* A generated id is one no document has.
AssignId(document, collection) ==
    IF document.id # NoId THEN document
    ELSE [document EXCEPT !.id =
            CHOOSE i \in Ids : \A j \in DOMAIN collection.documents : collection.documents[j].id # i]

UpsertStored(result, filter, update) ==
    InsertStored(result,
        AssignId(ApplyUpdate(CreateUpsertBase(filter), update, TRUE), result.collection))

-----------------------------------------------------------------------------
(* The commands on documents. *)

InsertManyInto(collection, documents) == FoldLeft(InsertStored, Begun(collection), documents)

\* updateOne, updateMany and findOneAndUpdate
UpdateMatching(collection, write) ==
    LET matched == FindStored(collection, write.filter, write.sort, write.limit)
    IN  IF matched = <<>>
        THEN IF write.upsert THEN UpsertStored(Begun(collection), write.filter, write.update)
             ELSE Begun(collection)
        ELSE FoldLeft(LAMBDA result, d : UpdateStored(result, d, write.update),
                      Begun(collection), matched)

\* deleteOne, deleteMany and findOneAndDelete
DeleteMatching(collection, write) ==
    FoldLeft(RemoveStored, Begun(collection),
             FindStored(collection, write.filter, write.sort, write.limit))

Cleared(collection) ==
    [collection EXCEPT
        !.documents = <<>>,
        !.indexes   = [i \in DOMAIN @ |-> [@[i] EXCEPT !.owners = <<>>]]]

-----------------------------------------------------------------------------
(* The indexes. *)

TextFields(key) == {key[i][1] : i \in {j \in DOMAIN key : key[j][2] = "text"}}

IsTextKey(key) == \E i \in DOMAIN key : key[i][2] = "text"

BuildIndexName(key) == FlattenSeq(key)

\* mongod lists the text fields as _fts, _ftsx, where the first one was.
ToStoredKey(key) ==
    LET first == Nth({i \in DOMAIN key : key[i][2] = "text"}, 1)
        after == {i \in first .. Len(key) : key[i][2] # "text"}
    IN  IF IsTextKey(key)
        THEN SubSeq(key, 1, first - 1) \o <<<<"_fts", "text">>, <<"_ftsx", "asc">>>> \o At(key, after)
        ELSE key

CreateIndexInfo(description) ==
    [description EXCEPT
        !.key     = ToStoredKey(@),
        !.name    = IF @ = <<>> THEN BuildIndexName(description.key) ELSE @,
        !.weights = [f \in TextFields(description.key) |-> IF f \in DOMAIN @ THEN @[f] ELSE 1]]

IdIndexInfo ==
    [name |-> <<"_id_">>, key |-> <<<<"_id", "asc">>>>, unique |-> FALSE, sparse |-> FALSE,
     hidden |-> FALSE, expireAfterSeconds |-> NoTtl, partialFilterExpression |-> FALSE,
     collation |-> FALSE, weights |-> <<>>]

ListInfos(collection) ==
    <<IdIndexInfo>> \o [i \in DOMAIN collection.indexes |-> collection.indexes[i].info]

IsSameKeySpace(a, b) ==
    \A f \in {"key", "partialFilterExpression", "collation"} : a[f] = b[f]

\* Succeeded when the index is to be built, AlreadyCreated when it is there as asked.
AlreadyCreated == -1

IsAlreadyCreated(collection, info) ==
    LET infos    == ToSet(ListInfos(collection))
        sameName == {i \in infos : i.name = info.name}
    IN  CASE info \in sameName                        -> AlreadyCreated
          [] sameName # {} /\ info \notin sameName    -> KeySpecsConflict
          [] sameName = {} /\ \E i \in infos : IsSameKeySpace(i, info) \/ (IsTextKey(info.key) /\ IsTextKey(i.key))
                                                      -> OptionsConflict
          [] OTHER                                    -> Succeeded

\* Adds the stored documents one by one to the keys of a new unique index.
EnterDocument(built, document) ==
    IF built.error # Succeeded THEN built
    ELSE IF ~AssertCanWrite(built.index, document) THEN [index |-> built.index, error |-> DuplicateKey]
    ELSE [index |-> WriteEntries(built.index, {}, {document}), error |-> Succeeded]

BuildIndex(result, info, documents) ==
    LET new   == [index |-> [info |-> info, owners |-> <<>>], error |-> Succeeded]
        built == FoldLeft(EnterDocument, new, documents)
    IN  IF result.error # Succeeded THEN result
        ELSE IF built.error # Succeeded THEN Refused(result.collection, built.error)
        ELSE Begun([result.collection EXCEPT !.indexes = Append(@, built.index)])

\* createIndexes: every description is checked against the indexes there are, then
\* all are built; one that fails leaves none.
CreateIndexesIn(collection, descriptions) ==
    LET checks    == [i \in DOMAIN descriptions |->
                        IsAlreadyCreated(collection, CreateIndexInfo(descriptions[i]))]
        conflicts == {i \in DOMAIN checks : checks[i] \in {OptionsConflict, KeySpecsConflict}}
        missing   == At(descriptions, {i \in DOMAIN checks : checks[i] = Succeeded})
        built     == FoldLeft(LAMBDA r, d : BuildIndex(r, CreateIndexInfo(d), collection.documents),
                        Begun(collection), missing)
    IN  IF conflicts # {} THEN Refused(collection, checks[Nth(conflicts, 1)])
        ELSE IF built.error # Succeeded THEN Refused(collection, built.error)
        ELSE Begun([built.collection EXCEPT !.exists = TRUE])

DropIndexFrom(collection, name) ==
    IF ~collection.exists THEN Refused(collection, NamespaceNotFound)
    ELSE IF \A i \in DOMAIN collection.indexes : collection.indexes[i].info.name # name
    THEN Refused(collection, IndexNotFound)
    ELSE Begun([collection EXCEPT !.indexes = At(@, {i \in DOMAIN @ : @[i].info.name # name})])

\* The command collMod: changes says which options it sets.
ModifyIndexOf(collection, name, changes) ==
    LET at == {i \in DOMAIN collection.indexes : collection.indexes[i].info.name = name}
        Modified(index) == [index EXCEPT !.info = Over(changes, @)]
    IN  IF ~collection.exists THEN Refused(collection, NamespaceNotFound)
        ELSE IF at = {} THEN Refused(collection, IndexNotFound)
        ELSE Begun([collection EXCEPT !.indexes =
                [i \in DOMAIN @ |-> IF i \in at THEN Modified(@[i]) ELSE @[i]]])
=============================================================================
