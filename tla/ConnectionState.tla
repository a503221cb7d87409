---------------------------- MODULE ConnectionState ----------------------------
(***************************************************************************)
(* What a transport tells its listeners of its connection                  *)
(* (ConnectionStates of liwi-resources-client): a connection is announced  *)
(* only after an attempt, and what was lost is attempted again or closed.  *)
(* A reconnection that is scheduled or waits for the page to be visible is *)
(* a lost connection to those who only send over it.                       *)
(***************************************************************************)
VARIABLE state

ConnectionTypeOK == state \in {"closed", "connecting", "connected", "lost"}

ConnectionInit == state = "closed"

Attempt == state \in {"closed", "lost"} /\ state' = "connecting"
Establish == state = "connecting" /\ state' = "connected"
Lose == state \in {"connecting", "connected"} /\ state' = "lost"
GiveUp == state # "closed" /\ state' = "closed"

ConnectionNext == Attempt \/ Establish \/ Lose \/ GiveUp

ConnectionSpec == ConnectionInit /\ [][ConnectionNext]_state
=============================================================================
