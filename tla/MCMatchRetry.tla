----------------------------- MODULE MCMatchRetry ----------------------------
(* Two players who decide and commit.                                      *)
EXTENDS MatchRetry

CONSTANTS p, q

Committing == [c \in {p, q} |-> {"new", "act", "commit"}]
=============================================================================
