----------------------------- MODULE MCFightEnd ------------------------------
(* A side of a unit that rises and an important one that surfaces, against *)
(* two pilots that follow each other; a summon to be made on the first.     *)
EXTENDS FightEnd

MCTeam ==
  [rhino |-> 0, worm |-> 0, larva |-> 0, phoenix |-> 1, ember |-> 1]
MCUnit == DOMAIN MCTeam
=============================================================================
