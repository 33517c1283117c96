--------------------------- MODULE MCSchedulerTurns ---------------------------
(* Two clients that ask at one level, one of them at a higher one too.      *)
EXTENDS SchedulerTurns, TLC

CONSTANTS c1, c2, c3

MCConn == {c1, c2, c3}
MCClient == {"batch", "shell"}
MCClientOf == c1 :> "batch" @@ c2 :> "batch" @@ c3 :> "shell"
MCLevelOf == c1 :> 1 @@ c2 :> 2 @@ c3 :> 1
=============================================================================
