----------------------------- MODULE MCMcfrWriter ----------------------------
(* Two writers race for one target, the second of which appends one tick   *)
(* over and over, and a third keeps hashes alone.                          *)
EXTENDS McfrWriter

CONSTANTS a, b, h

In(units, events) == [units |-> units, events |-> events]

Several ==
  {In({1}, <<>>), In({2}, <<"good">>), In({}, <<"good", "good">>),
   In({1}, <<"good", "bad">>)}

MCInputs ==
  [w \in {a, b, h} |->
     CASE w = a -> Several
       [] w = b -> {In({1}, <<"good">>)}
       [] OTHER -> {In({1}, <<"bad">>)}]
MCTicks == [w \in {a, b, h} |-> IF w = a THEN 3 ELSE 1]
=============================================================================
