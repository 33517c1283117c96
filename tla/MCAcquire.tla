------------------------------ MODULE MCAcquire ------------------------------
(***************************************************************************)
(* Two processes of mechcore for TLC.                                      *)
(***************************************************************************)
EXTENDS Acquire

CONSTANTS a, b  (* the claimants *)

Plays(headless, offline, adapter) ==
  [headless |-> headless, offline |-> offline, adapter |-> adapter]
Batch == Plays(TRUE, TRUE, "mine")
Online == Plays(TRUE, FALSE, "mine")
Rebuilt == Plays(TRUE, TRUE, "older")

(* a launches and joins, with and without the network; b, of an older      *)
(* build, takes what there is.                                             *)
OneLauncher ==
  [c \in {a, b} |->
     IF c = a THEN [verb : {"launch"}, how : {Batch, Online}]
                   \cup [verb : {"join"}, how : {Batch}]
              ELSE [verb : {"attach"}, how : {Rebuilt}]]
=============================================================================
