----------------------- MODULE MCCollectionSubscription -----------------------
(* Small instances of CollectionSubscription for TLC. *)
EXTENDS CollectionSubscription, TLC

CONSTANTS
    k1, k2, k3,      \* keys, in the order of the rows
    inA, inB, out    \* two documents matching the criteria, one that does not

MCRank == [k \in Key |-> CASE k = k1 -> 1 [] k = k2 -> 2 [] OTHER -> 3]
MCMatching == {inA, inB} \cap Doc
MCSelections == {MCMatching}
MCLoad(writes, foreign, notices, resyncs, kinds) ==
    [writes |-> writes, foreign |-> foreign, notices |-> notices, resyncs |-> resyncs, kinds |-> kinds]
\* two local writes; or one crossing a write of the other process; or such a write and a resync
MCLocal ==
    {MCLoad(2, 0, 0, 0, OfOneKey), MCLoad(1, 1, 1, 0, {"partialUpdateByKey"}), MCLoad(0, 1, 0, 1, {})}
\* a local write crossing one of the other process; or two local writes, of several
\* documents, which may fail part of the way, or deleting one
MCWindowLoads ==
    {MCLoad(1, 1, 1, 0, {"replaceOne"}),
     MCLoad(2, 0, 0, 0, {"deleteByKey", "replaceSeveral"} \cup Many)}
MCCrossing == {MCLoad(1, 1, 1, 0, {"partialUpdateByKey"})}
MCUpdateMany == {MCLoad(1, 0, 0, 0, {"partialUpdateMany"})}
MCOption(initial, skip, limit, testable) ==
    [includeInitial |-> initial, skip |-> skip, limit |-> limit, isTestable |-> testable]
MCFetchAndSubscribe == {MCOption(TRUE, 0, 0, TRUE)}
MCUnwindowed == {MCOption(TRUE, 0, 0, TRUE), MCOption(FALSE, 0, 0, TRUE), MCOption(TRUE, 0, 0, FALSE)}
MCWindows == {MCOption(TRUE, 0, 1, TRUE), MCOption(TRUE, 1, 0, TRUE)}
\* documents matching alike, callers and calls are interchangeable
MCSymmetry == Permutations({inA, inB}) \cup Permutations(Writer) \cup Permutations(Notifier)
\* without limit or skip, so are the keys
MCKeySymmetry == MCSymmetry \cup Permutations(Key)
=============================================================================
