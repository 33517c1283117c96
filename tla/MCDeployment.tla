----------------------------- MODULE MCDeployment ----------------------------
(* A few rows of the build's tables, prices in fifties of supply.          *)
EXTENDS Deployment

MCUnitRow ==
  [marksman |-> [price |-> 2, unlock |-> 1, upgrade |-> 1],
   wasp |-> [price |-> 4, unlock |-> 1, upgrade |-> 2]]

Plain ==
  [buy |-> 0, unlock |-> 0, upgrade |-> 0, tech |-> 0, level |-> 1,
   round |-> 0, first |-> 0, granted |-> 0, slots |-> 0, extra |-> FALSE,
   skills |-> <<>>, items |-> <<>>, draws |-> FALSE, rounds |-> {},
   unit |-> "none", unlocks |-> 0, unitLevel |-> 1]

(* An extra deployment slot that cuts a price, a specialist that delivers  *)
(* a squad, one that draws an item, and a card that is used at once.       *)
MCOfficerRow ==
  <<[Plain EXCEPT !.extra = TRUE, !.buy = -1, !.granted = 1],
    [Plain EXCEPT !.unit = "wasp", !.unlocks = 1, !.rounds = {2, 3}],
    [Plain EXCEPT !.items = <<"module", "chip">>, !.draws = TRUE,
                  !.rounds = {1, 2}, !.skills = <<"train">>],
    [Plain EXCEPT !.items = <<"chip", "chip">>, !.slots = 1]>>

MCItemRow ==
  [module |-> [frees |-> TRUE, upgrade |-> 0, round |-> 0],
   chip |-> [frees |-> FALSE, upgrade |-> -2, round |-> 1]]

MCSkillRow ==
  [train |-> [kind |-> "training", spent |-> 2],
   redeploy |-> [kind |-> "redeploy", spent |-> 1],
   recover |-> [kind |-> "recovery", spent |-> 2],
   shield |-> [kind |-> "shield", spent |-> 2]]

MCBlueprintRow ==
  [recovery |-> [price |-> 2, skill |-> "recover", then |-> "none"],
   attack |-> [price |-> 2, skill |-> "none", then |-> "attack2"],
   attack2 |-> [price |-> 3, skill |-> "none", then |-> "none"]]

MCTowerRow ==
  <<[price |-> 0, granted |-> 4, owed |-> 6, level |-> 0, buys |-> 0],
    [price |-> 1, granted |-> 0, owed |-> 0, level |-> 1, buys |-> 1]>>
MCTowerPrice == <<2>>
MCTechRow == [drive |-> [unit |-> "wasp", price |-> 2, jump |-> TRUE]]
MCDeviceRow == [interceptor |-> [price |-> 2, collides |-> TRUE]]

MCOpenings ==
  {[units |-> <<"marksman">>, officer |-> 2, price |-> 0, core |-> 1],
   [units |-> <<"wasp">>, officer |-> 3, price |-> 0, core |-> 1]}
MCCards ==
  {[kind |-> "officer", id |-> 1, price |-> 2],
   [kind |-> "officer", id |-> 4, price |-> 2],
   [kind |-> "skill", id |-> "shield", price |-> 1],
   [kind |-> "skill", id |-> "redeploy", price |-> 1],
   [kind |-> "item", id |-> "module", price |-> 1],
   [kind |-> "units", id |-> "marksman", squads |-> 2, price |-> 3]}

MCIncome == <<4, 8, 12>>
MCMaxTaken == <<2, 1, 0>>
MCStanding == <<2>>

(* Every formation of the side earns alike.                                *)
MCEarned(indices) == {[i \in indices |-> e] : e \in {"part", "full"}}
=============================================================================
