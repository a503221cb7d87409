----------------------------- MODULE MCStoreRelay -----------------------------
(* Small instances of StoreRelay for TLC. *)
EXTENDS StoreRelay

CONSTANT shown   \* a document that matches the criteria, which are deleted and inserted again

MCRank == [k \in Key |-> 1]
MCMatching == {shown}
MCSelections == {{shown}}
MCOptions == {[includeInitial |-> TRUE, skip |-> 0, limit |-> 0, isTestable |-> TRUE]}
\* as many notifications as the writes call for
MCLoad(foreign, resyncs) ==
    [writes |-> 0, foreign |-> foreign, notices |-> foreign, resyncs |-> resyncs, kinds |-> {}]
MCWorkloads == {MCLoad(2, 1), MCLoad(1, 2)}
=============================================================================
