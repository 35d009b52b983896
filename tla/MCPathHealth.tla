----------------------------- MODULE MCPathHealth -----------------------------
(* Instances of PathHealth for TLC. *)
EXTENDS PathHealth, TLC

CONSTANTS p1, p2, n1, n2, n3

FirstTwo == p1 :> n1 @@ p2 :> n2

\* Errors are recorded for one artery only.
OneError == p1 :> 1 @@ p2 :> 0

\* Pebble always lists all nodes, or sometimes none.
AlwaysAll == {Nodes}
SometimesNone == {Nodes, {}}

=============================================================================
