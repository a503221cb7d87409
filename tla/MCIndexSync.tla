------------------------------ MODULE MCIndexSync ------------------------------
(***************************************************************************)
(* A small registry: two stores, declarations that meet what was there     *)
(* before in every way a plan can, and writes that break and mend a unique *)
(* index.                                                                  *)
(***************************************************************************)
EXTENDS IndexSync

Plain(key) ==
    [name |-> <<>>, key |-> key, unique |-> FALSE, sparse |-> FALSE, hidden |-> FALSE,
     expireAfterSeconds |-> NoTtl, partialFilterExpression |-> FALSE, collation |-> FALSE,
     weights |-> <<>>]

ByA == <<<<"a", "asc">>>>
ByB == <<<<"b", "asc">>>>

UniqueA == [Plain(ByA) EXCEPT !.unique = TRUE, !.collation = TRUE, !.sparse = TRUE]
TtlB    == [Plain(ByB) EXCEPT !.expireAfterSeconds = 60]
TextA   == [Plain(<<<<"a", "text">>, <<"b", "asc">>>>) EXCEPT !.name = <<"search">>, !.unique = TRUE]
UniqueB == [Plain(ByB) EXCEPT !.unique = TRUE, !.partialFilterExpression = TRUE]

Named(index, name) == [index EXCEPT !.name = <<name>>]

MCStores ==
    <<[collection |-> "tasks", indexes |-> <<UniqueA, TtlB, TextA>>],
      [collection |-> "users", indexes |-> <<UniqueB>>]>>

MCPreexisting ==
    {[tasks |-> t, users |-> u] :
        t \in {<<>>,
               <<Plain(ByA), [TtlB EXCEPT !.expireAfterSeconds = 30, !.hidden = TRUE]>>,
               <<[UniqueA EXCEPT !.collation = FALSE], Named(TtlB, "ttl"), [TextA EXCEPT !.weights = [a |-> 2]]>>,
               <<UniqueA, Named(Plain(ByB), "legacy")>>},
        u \in {<<>>, <<Named(Plain(ByB), "legacy")>>}}

Document(id, a, b) == [id |-> id, active |-> TRUE, at |-> [a |-> a, b |-> b]]
Inactive(document) == [document EXCEPT !.active = FALSE]

MCStored ==
    [tasks |-> <<Document(1, {"x"}, {"y"})>>,
     users |-> <<Document(1, {"undefined"}, {"x", "y"}), Inactive(Document(2, {"y"}, {"y"}))>>]

MCInserts == {<<Document(2, {"y"}, {"x"}), Document(3, {"X"}, {"undefined"})>>}

To(set, active) == [set |-> set, setOnInsert |-> <<>>, id |-> NoId, active |-> active]

Every  == [id |-> NoId, at |-> <<>>]
Of(id) == [Every EXCEPT !.id = id]

\* all leave the partial index; one enters it, with new keys or with those it has
MCUpdates ==
    {[filter |-> Every, update |-> To([a |-> {"x", "y"}], {FALSE}), upsert |-> FALSE, sort |-> "none", limit |-> 0],
     [filter |-> Of(2), update |-> To([b |-> {}], {TRUE}), upsert |-> TRUE, sort |-> "none", limit |-> 1],
     [filter |-> Of(2), update |-> To(<<>>, {TRUE}), upsert |-> FALSE, sort |-> "none", limit |-> 1]}

MCDeletes == {[filter |-> [Every EXCEPT !.at = [b |-> "y"]], sort |-> "desc", limit |-> 1]}

\* The declaration and what it meets when an undeclared index has a declared key.
OneStore == <<[collection |-> "tasks", indexes |-> <<TtlB>>]>>

LegacyOnly == {[tasks |-> <<Named(Plain(ByB), "legacy")>>]}
=============================================================================
