----------------------------- MODULE MCMatchPlay -----------------------------
(* Two players and their processes, one match: each decides and commits,   *)
(* one waits for the other, who looks on and changes its mind.             *)
EXTENDS MatchPlay

CONSTANTS p, q

TwoPlayers ==
  [c \in {p, q} |-> {"new", "act", "commit"}
                      \cup (IF c = p THEN {"wait"} ELSE {"show", "undo"})]
=============================================================================
