---------------------------- MODULE MCReactResource ----------------------------
(* A small instance of ReactResource for TLC. *)
EXTENDS ReactResource, TLC

CONSTANTS p1, p2, d1, d2   \* parameters, results

\* the two parameters have different results, or one finds nothing
MCServers == {p1 :> d1 @@ p2 :> d2, p1 :> d1 @@ p2 :> Null, p1 :> Null @@ p2 :> d2}
=============================================================================
