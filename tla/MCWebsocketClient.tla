-------------------------- MODULE MCWebsocketClient --------------------------
(* Small instances of WebsocketClient for TLC. *)
EXTENDS WebsocketClient, TLC

MCSymmetry == Permutations(Socket)
=============================================================================
