------------------------- MODULE IndexSyncInvariants -------------------------
(***************************************************************************)
(* What is true of the collections and of the syncs of their indexes       *)
(* between any two steps: the inductive invariants that IndexSync_proofs   *)
(* proves, and the parts they are made of.                                 *)
(***************************************************************************)
EXTENDS IndexSync

-----------------------------------------------------------------------------
(* Collections *)

\* a sequence, of anything
IsList(s) == \E T : s \in Seq(T)

\* a unique index holds the keys of these documents, and no other
Exact(index, documents) ==
    index.info.unique =>
        /\ DOMAIN index.owners = UNION {ListEntries(index.info, d) : d \in documents}
        /\ \A d \in documents : \A e \in ListEntries(index.info, d) : index.owners[e] = d.id

\* an index is what is listed of it and the owner of each of its keys
IsIndex(index) == index = [info |-> index.info, owners |-> index.owners]

\* documents of a collection, each with an id of its own
GoodDocuments(documents) ==
    /\ IsList(documents)
    /\ \A i \in DOMAIN documents : documents[i].id \in Ids
    /\ \A i, j \in DOMAIN documents : documents[i].id = documents[j].id => i = j

\* an index of a collection that holds these documents
GoodIndex(index, documents) ==
    /\ IsIndex(index)
    /\ ComparedFields \cup {"name", "key"} \subseteq DOMAIN index.info
    /\ Exact(index, documents)

\* the indexes of a collection, each with a name of its own
GoodIndexes(indexes, documents) ==
    /\ IsList(indexes)
    /\ \A i \in DOMAIN indexes : GoodIndex(indexes[i], documents)
    /\ \A i, j \in DOMAIN indexes : indexes[i].info.name = indexes[j].info.name => i = j

\* what holds of a collection between two commands, and between two steps of one
GoodCollection(c) ==
    /\ c = [documents |-> c.documents, indexes |-> c.indexes, exists |-> c.exists]
    /\ c.exists \in BOOLEAN
    /\ c.documents # <<>> => c.exists
    /\ GoodDocuments(c.documents)
    /\ GoodIndexes(c.indexes, ToSet(c.documents))

-----------------------------------------------------------------------------
(* The plan of a sync, and what it has left to do *)

\* what diffIndexes compares is there
HasOptions(info) == ComparedFields \cup {"name", "key"} \subseteq DOMAIN info

\* descriptions, each with a name of its own
DistinctNames(descriptions) ==
    \A i, j \in DOMAIN descriptions : NameOf(descriptions[i]) = NameOf(descriptions[j]) => i = j

\* a collMod changes no other option
IsChange(mod) == DOMAIN mod.changes \subseteq {"hidden", "expireAfterSeconds"}

\* what a sync relies on of its plan until it is over
GoodPlan(plan) ==
    /\ IsList(plan.toCreate) /\ DistinctNames(plan.toCreate)
    /\ IsList(plan.toRecreate) /\ DistinctNames(plan.toRecreate)
    /\ \A i \in DOMAIN plan.toCreate : HasOptions(plan.toCreate[i])
    /\ \A i \in DOMAIN plan.toRecreate : HasOptions(plan.toRecreate[i])
    /\ \A i \in DOMAIN plan.toCreate : \A j \in DOMAIN plan.toRecreate :
          NameOf(plan.toCreate[i]) # NameOf(plan.toRecreate[j])
    /\ IsList(plan.toCollMod) /\ \A i \in DOMAIN plan.toCollMod : IsChange(plan.toCollMod[i])
    /\ IsList(plan.toDrop)

\* the phases that go through a list
Looping == {"dropping", "modifying", "creating", "retrying", "recovering", "clearing", "recreating"}

\* a sync that is at one of the stores, or at none yet
IsSync(s) ==
    /\ s = [phase |-> s.phase, at |-> s.at, plan |-> s.plan, pending |-> s.pending,
            conflict |-> s.conflict, failed |-> s.failed]
    /\ s.at \in 0 .. Len(Stores)

\* what is left to do in each phase
GoodPending(phase, pending) ==
    /\ IsList(pending)
    /\ phase \in Looping <=> pending # <<>>
    /\ phase = "modifying" => \A i \in DOMAIN pending : IsChange(pending[i])
    /\ phase = "creating" => DistinctNames(pending)
    /\ phase \in {"creating", "retrying", "recovering", "recreating"} =>
          \A i \in DOMAIN pending : HasOptions(pending[i])
    /\ phase = "clearing" => Len(pending) > 1 /\ \A i \in DOMAIN pending \ {1} : HasOptions(pending[i])

\* what holds of a sync between two of its commands
GoodSync(s) ==
    /\ IsSync(s)
    /\ s.phase \in Looping \cup {"idle", "listing", "over"}
    /\ s.phase \notin {"idle", "over"} => s.at > 0
    /\ s.phase \in {"idle", "listing", "over"} => s.plan = NoPlan
    /\ GoodPlan(s.plan)
    /\ GoodPending(s.phase, s.pending)

-----------------------------------------------------------------------------
(* Every collection and every sync *)

\* every collection is well formed
CollectionsGood ==
    /\ DOMAIN collection = Collections
    /\ \A c \in Collections : GoodCollection(collection[c])

\* every sync is well formed
SyncsGood ==
    /\ DOMAIN sync = Syncs
    /\ \A p \in Syncs : GoodSync(sync[p])

(***************************************************************************)
(* The inductive invariant.  A collection keeps the keys of its documents  *)
(* in every unique index, and one id and one name each; a sync under way   *)
(* is at a store and holds descriptions with distinct names, and changes   *)
(* that touch neither the name nor the keys of an index.                   *)
(***************************************************************************)
IndexInv == CollectionsGood /\ SyncsGood

-----------------------------------------------------------------------------
(* What a sync that no other overlaps knows of the indexes of its store *)

\* what is listed of the indexes of a collection
Infos(c) == {c.indexes[i].info : i \in DOMAIN c.indexes}

\* an index is as it is declared
Meets(info, index) ==
    /\ info.name = NameOf(index)
    /\ IsSameKey(NormalizeDeclaredIndex(index), NormalizeExistingIndex(info))
    /\ DiffOptions(NormalizeDeclaredIndex(index), NormalizeExistingIndex(info)) = {}

\* what is declared under that name, if anything, is not there as declared
Amiss(infos, indexes, name) ==
    \A j \in DOMAIN indexes : NameOf(indexes[j]) = name => \A i \in infos : ~Meets(i, indexes[j])

\* a description of a declared index that is not there as declared
ToMake(d, infos, indexes) ==
    /\ \E j \in DOMAIN indexes : d = BuildDescription(indexes[j])
    /\ Amiss(infos, indexes, d.name)

\* a change of the plan only sets what is declared, of an index that is not to be made
ToChange(mod, plan, indexes) ==
    /\ \E j \in DOMAIN indexes :
          /\ mod.name = NameOf(indexes[j])
          /\ \A f \in DOMAIN mod.changes : mod.changes[f] = NormalizeDeclaredIndex(indexes[j])[f]
    /\ \A i \in DOMAIN plan.toCreate : plan.toCreate[i].name # mod.name
    /\ \A i \in DOMAIN plan.toRecreate : plan.toRecreate[i].name # mod.name

\* what a plan says is still so
Planned(plan, infos, indexes) ==
    /\ \A i \in DOMAIN plan.toCreate : ToMake(plan.toCreate[i], infos, indexes)
    /\ \A i \in DOMAIN plan.toRecreate : ToMake(plan.toRecreate[i], infos, indexes)
    /\ \A i \in DOMAIN plan.toCollMod : ToChange(plan.toCollMod[i], plan, indexes)

\* what is left to do in each phase, before the indexes there are now
LeftToDo(phase, plan, pending, infos, indexes) ==
    /\ phase \in {"dropping", "modifying"} => Planned(plan, infos, indexes)
    /\ phase = "dropping" => \A i \in DOMAIN pending : Amiss(infos, indexes, pending[i])
    /\ phase = "modifying" => \A i \in DOMAIN pending : ToChange(pending[i], plan, indexes)
    /\ phase \in {"creating", "retrying", "recovering", "recreating"} =>
          /\ \A i \in DOMAIN pending : ToMake(pending[i], infos, indexes)
          /\ \A i, j \in DOMAIN pending : pending[i].name = pending[j].name => i = j
    /\ phase = "clearing" =>
          /\ Amiss(infos, indexes, pending[1])
          /\ \A i \in DOMAIN pending \ {1} : ToMake(pending[i], infos, indexes)
          /\ \A i, j \in DOMAIN pending \ {1} : pending[i].name = pending[j].name => i = j

\* a sync knows what it has left to do on the store it is at
Left(p) ==
    LET s == sync[p]
    IN  LeftToDo(s.phase, s.plan, s.pending, Infos(collection[StoreOf(s).collection]), StoreOf(s).indexes)

\* a collection that does not exist has no index
HasNoneUnlessThere(c) == c.exists \/ Infos(c) = {}

\* so of every collection
ExistsInv == \A c \in Collections : HasNoneUnlessThere(collection[c])

-----------------------------------------------------------------------------
(* The registries, and the syncs under way *)

\* The registries whose healthy indexes are safe, and whose overlapping syncs converge: one
\* store for each collection (the registry warns of a second), and no two indexes of a store
\* on the same key, since the recovery of a conflict looks for the index it drops by key
\* alone.  No field has a name mongod reserves.
DistinctDeclarations ==
    /\ \A i, j \in DOMAIN Stores : Stores[i].collection = Stores[j].collection => i = j
    /\ \A i \in DOMAIN Stores : \A j, k \in DOMAIN Stores[i].indexes :
          Stores[i].indexes[j].key = Stores[i].indexes[k].key => j = k
    /\ {"_fts", "_ftsx"} \cap Fields = {}

\* two syncs under way at once are in the history
AloneInv == \A p, q \in Syncs : UnderWay(p) /\ UnderWay(q) /\ p # q => p \in overlapped

\* A sync that no other overlaps knows what is left to do.
PlanInv == \A p \in Syncs \ overlapped : UnderWay(p) => Left(p)

(***************************************************************************)
(* The inductive invariant of HealthyStays: until a sync that no other     *)
(* overlaps is over with a store, whatever the application writes between  *)
(* two of its commands, what it has left to drop is not as declared, what  *)
(* it has left to make is not there, and what it changes it sets to what   *)
(* is declared.                                                            *)
(***************************************************************************)
HealthInv == IndexInv /\ ExistsInv /\ AloneInv /\ PlanInv

-----------------------------------------------------------------------------
(* What syncs that overlap owe each other *)

\* an index is there as declared
Met(infos, index) == \E i \in infos : Meets(i, index)

\* something of a list
Has(s, x) == \E i \in DOMAIN s : s[i] = x

\* one of some changes makes the index as declared, once it is applied
Mends(mods, infos, index) ==
    \E i \in DOMAIN mods :
        /\ mods[i].name = NameOf(index)
        /\ \A x \in infos : x.name = NameOf(index) => Meets(Over(mods[i].changes, x), index)

\* what a plan will make of an index
Plans(plan, infos, index) ==
    \/ Has(plan.toCreate, BuildDescription(index))
    \/ Has(plan.toRecreate, BuildDescription(index))
    \/ Mends(plan.toCollMod, infos, index)

\* a sync will make the index as declared, or fail
Owes(phase, plan, pending, infos, index) ==
    \/ phase = "dropping" /\ Plans(plan, infos, index)
    \/ /\ phase = "modifying"
       /\ \/ Has(plan.toCreate \o plan.toRecreate, BuildDescription(index))
          \/ Mends(pending, infos, index)
    \/ phase \in {"creating", "retrying", "recovering", "recreating"} /\ Has(pending, BuildDescription(index))
    \/ phase = "clearing" /\ Has(Tail(pending), BuildDescription(index))

\* an index with the name of a declared one has its key
Keyed(info, indexes) ==
    \A j \in DOMAIN indexes : info.name = NameOf(indexes[j]) =>
        IsSameKey(NormalizeDeclaredIndex(indexes[j]), NormalizeExistingIndex(info))

\* a change of the plan only sets what is declared
Sets(mod, indexes) ==
    \E j \in DOMAIN indexes :
        /\ mod.name = NameOf(indexes[j])
        /\ \A f \in DOMAIN mod.changes : mod.changes[f] = NormalizeDeclaredIndex(indexes[j])[f]

\* descriptions of declared indexes
AreDeclared(descriptions, indexes) ==
    \A i \in DOMAIN descriptions : \E j \in DOMAIN indexes : descriptions[i] = BuildDescription(indexes[j])

\* changes that only set what is declared
AreSet(mods, indexes) == \A i \in DOMAIN mods : Sets(mods[i], indexes)

\* a declared index is dropped to be made again
Remakes(name, descriptions, indexes) ==
    \A j \in DOMAIN indexes : NameOf(indexes[j]) = name => Has(descriptions, BuildDescription(indexes[j]))

\* a plan only makes and sets what is declared
Outlined(plan, indexes) ==
    /\ AreDeclared(plan.toCreate \o plan.toRecreate, indexes)
    /\ AreSet(plan.toCollMod, indexes)

\* what every sync knows of what it has left to do, whatever the others do
Outline(phase, plan, pending, infos, indexes) ==
    /\ phase \in {"dropping", "modifying"} => Outlined(plan, indexes)
    /\ phase = "dropping" =>
          /\ \A i \in DOMAIN pending : Remakes(pending[i], plan.toRecreate, indexes)
          /\ \A x \in infos : Keyed(x, indexes) \/ Has(pending, x.name)
    /\ phase \in {"modifying", "creating", "retrying", "recovering", "recreating", "clearing"} =>
          \A x \in infos : Keyed(x, indexes)
    /\ phase = "modifying" => AreSet(pending, indexes)
    /\ phase \in {"creating", "retrying", "recovering", "recreating"} => AreDeclared(pending, indexes)
    /\ phase = "clearing" =>
          /\ Remakes(pending[1], Tail(pending), indexes)
          /\ AreDeclared(Tail(pending), indexes)

\* the sync has failed on a store of the collection
FailedOn(s, c) == \E f \in s.failed : f[1] = c

\* a sync knows that much on the store it is at
Follows(p) ==
    LET s == sync[p]
    IN  Outline(s.phase, s.plan, s.pending, Infos(collection[StoreOf(s).collection]), StoreOf(s).indexes)

\* a sync that is at a store and will make the index as declared, or fail
Promises(s, i, infos, index) == s.at = i /\ Owes(s.phase, s.plan, s.pending, infos, index)

\* a sync that has not listed the indexes of a store yet
IsBefore(s, i) ==
    \/ s.phase = "idle"
    \/ s.phase # "over" /\ s.at < i
    \/ s.phase = "listing" /\ s.at = i

\* a declared index is as declared, or a sync will make it so
Settled(infos, i, index) ==
    \/ Met(infos, index)
    \/ \E p \in Syncs : Promises(sync[p], i, infos, index)

\* a sync that has not begun is at no store
FreshInv == \A p \in Syncs : sync[p].phase = "idle" => sync[p].at = 0

\* Every sync, whatever overlaps it, knows the outline of what is left to do.
OutlineInv == \A p \in Syncs : UnderWay(p) => Follows(p)

\* Once a sync has listed a store, each index it declares is as declared or some sync
\* will make it so: until one fails there, or the collection is dropped.
SettledAt(i) ==
    LET c == Stores[i].collection
    IN  \/ c \in dropped
        \/ \E p \in Syncs : FailedOn(sync[p], c)
        \/ \A p \in Syncs \ DryRuns : IsBefore(sync[p], i)
        \/ \A j \in DOMAIN Stores[i].indexes : Settled(Infos(collection[c]), i, Stores[i].indexes[j])

\* Every store is settled.
PromiseInv == \A i \in DOMAIN Stores : SettledAt(i)

(***************************************************************************)
(* The inductive invariant of SyncConverges.  What a sync knows of what it *)
(* has left to do survives every step of the others: they make indexes     *)
(* only as declared, set options only to what is declared, and drop a      *)
(* declared one only with its description among what they have left to     *)
(* make.                                                                   *)
(***************************************************************************)
ConvergeInv == IndexInv /\ ExistsInv /\ FreshInv /\ OutlineInv /\ PromiseInv
=============================================================================
