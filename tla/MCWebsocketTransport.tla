------------------------ MODULE MCWebsocketTransport ------------------------
(***************************************************************************)
(* A small instance of WebsocketTransport for TLC.                         *)
(***************************************************************************)
EXTENDS WebsocketTransport, TLC

MCConnection == 1..Connections
MCSubId == 1..Subscriptions
MCCall == (MCConnection \X MCSubId) \cup Op
=============================================================================
