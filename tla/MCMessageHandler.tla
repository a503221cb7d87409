--------------------------- MODULE MCMessageHandler ---------------------------
(* Small instances of MessageHandler for TLC. *)
EXTENDS MessageHandler, TLC

MCSymmetry == Permutations(Call) \cup Permutations(SubId) \cup Permutations(Connection)
=============================================================================
