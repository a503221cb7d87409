----------------------- MODULE MCSingleItemSubscription -----------------------
(* Small instances of SingleItemSubscription for TLC. *)
EXTENDS SingleItemSubscription, TLC

CONSTANTS first, second, out   \* two documents that match, in the order of the sort, and one that does not

MCMatching == {first, second}
MCPosition == [d \in Doc |-> IF d = first THEN 1 ELSE 2]
MCSelections == {MCMatching}
MCQuery(initial, sorted) == [includeInitial |-> initial, isSorted |-> sorted]
MCQueries == {MCQuery(TRUE, TRUE), MCQuery(TRUE, FALSE), MCQuery(FALSE, TRUE)}
MCSorted == {MCQuery(TRUE, TRUE)}
MCLoad(writes, foreign, notices, resyncs, kinds) ==
    [writes |-> writes, foreign |-> foreign, notices |-> notices, resyncs |-> resyncs, kinds |-> kinds]
\* two writes that may move the first document; the other process and a resync;
\* several documents at a time
MCWorkloads ==
    {MCLoad(2, 0, 0, 0, {"insertOne", "replaceOne"}),
     MCLoad(0, 1, 1, 1, {}),
     MCLoad(1, 0, 0, 0, {"replaceSeveral", "deleteMany"})}
MCInsert == {MCLoad(1, 0, 0, 0, {"insertOne"})}
\* keys and writers are interchangeable
MCSymmetry == Permutations(Key) \cup Permutations(Writer)
=============================================================================
