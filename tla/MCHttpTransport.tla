---------------------------- MODULE MCHttpTransport ----------------------------
(* Small instances of HttpTransport for TLC. *)
EXTENDS HttpTransport, TLC
=============================================================================
