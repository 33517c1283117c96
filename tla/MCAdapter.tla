------------------------------ MODULE MCAdapter ------------------------------
(* Instances of the adapter for TLC: two clients, the second of which       *)
(* outranks the first or, under MCEqual, does not.                          *)
EXTENDS Adapter, TLC

CONSTANTS c1, c2

MCConn == {c1, c2}
MCClient == {"batch", "shell"}
MCClientOf == c1 :> "batch" @@ c2 :> "shell"
MCAbove == c1 :> 1 @@ c2 :> 2
MCEqual == c1 :> 1 @@ c2 :> 1
MCAsked21 == c1 :> 2 @@ c2 :> 1
=============================================================================
