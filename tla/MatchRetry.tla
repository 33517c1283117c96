------------------------------ MODULE MatchRetry ------------------------------
(***************************************************************************)
(* A match with one history more: the round in progress when each          *)
(* operation was run, which is the one its caller knows of.                *)
(***************************************************************************)
EXTENDS MatchPlay

VARIABLE began  (* history: the round each operation was run in            *)

RetryInit == MatchInit /\ began = [c \in Caller |-> -1]

RetryNext ==
  /\ MatchNext
  /\ began' = [c \in Caller |->
                IF op[c] = NoOp /\ op'[c] # NoOp THEN Round(doc) ELSE began[c]]

RetrySpec == RetryInit /\ [][RetryNext]_<<matchVars, began>>

(* commit seals a side's decisions, then settles (match.rs:552): what it   *)
(* seals is the round it was run in.  The code settles first, and seals    *)
(* whatever round that leaves in progress.                                 *)
SealsItsRound ==
  \A c \in Caller : answer[c].kind = "sealed" => answer[c].round = began[c]
=============================================================================
