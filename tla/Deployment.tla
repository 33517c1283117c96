----------------------------- MODULE Deployment ------------------------------
(***************************************************************************)
(* One side's position from one decision, and one round, to the next:      *)
(* document/transition.rs, with the purse of ledger.rs, the board of       *)
(* landing.rs and the mobility rule.                                       *)
(*                                                                         *)
(* A decision is an action whose guards are the code's refusals; a refused *)
(* decision leaves the position as it was and is no step.  A round ends in *)
(* a fight, whose outcome is chosen, and the next one opens on the result. *)
(*                                                                         *)
(* The board is abstracted to spots of one size, the main region's in the  *)
(* order a landing prefers them; the build's tables are constants.         *)
(***************************************************************************)
EXTENDS Integers, SequencesExt

CONSTANTS
  UnitRow,      (* per unit type: its price, unlock price, upgrade price   *)
  OfficerRow,   (* per officer: its prices, income, slots and deliveries   *)
  ItemRow,      (* per item: the upgrade correction and the income it pays *)
  SkillRow,     (* per commander skill: what it is and how long it cools   *)
  BlueprintRow, (* per blueprint: price, skill, the one it is followed by  *)
  TowerRow,     (* per energy tower skill: price, grant, debt, level, buys *)
  TowerPrice,   (* the price of each level of a tower                      *)
  TechRow,      (* per technology: unit, price, whether it is a Jump Drive *)
  DeviceRow,    (* per contraption: price, whether it collides             *)
  Openings,     (* the openings the side was dealt                         *)
  Cards,        (* the cards its rounds offer                              *)
  Declined,     (* what declining pays                                     *)
  Salvage,      (* what recovering a construction pays back                *)
  Income,       (* the map's income by round                               *)
  RepeatStep,   (* what each technology of a unit adds to the next         *)
  MainSpots, FlankSpots, Standing, (* the board, and what is dealt on it   *)
  Earned(_),    (* bound: the experience a fight may leave the formations  *)
  Damage,       (* bound: what a fight may take off the core               *)
  MaxTaken,     (* bound: the decisions of each round                      *)
  MaxRound      (* bound: the last round that opens                        *)

Unit == DOMAIN UnitRow
Officer == DOMAIN OfficerRow
Item == DOMAIN ItemRow
Skill == DOMAIN SkillRow

Main == 1..MainSpots
Spot == 1..(MainSpots + FlankSpots)
Flank(s) == s \notin Main

(* What the build's tables hold.  An officer or an item never takes from   *)
(* an income, and the tower skills together never owe all of one.          *)
UnitRows == [price : Nat, unlock : Int, upgrade : Int]
OfficerRows ==
  [buy : Int, unlock : Int, upgrade : Int, tech : Int, level : Nat,
   round : Nat, first : Nat, granted : Int, slots : Nat, extra : BOOLEAN,
   skills : Seq(Skill), items : Seq(Item), draws : BOOLEAN,
   rounds : SUBSET Nat, unit : Unit \cup {"none"}, unlocks : Nat,
   unitLevel : Nat \ {0}]
ItemRows == [frees : BOOLEAN, upgrade : Int, round : Nat]
TowerRows == [price : Int, granted : Int, owed : Nat, level : Nat, buys : Nat]
DealtOpenings ==
  [units : Seq(Unit), officer : Officer, price : Int, core : Int]

CardOK(c) ==
  /\ c.price \in Int
  /\ c.kind = "officer" => c.id \in Officer
  /\ c.kind = "skill" => c.id \in Skill
  /\ c.kind = "item" => c.id \in Item
  /\ c.kind = "units" => c.id \in Unit /\ c.squads \in Nat

ASSUME TablesAssumption ==
  /\ \A u \in Unit : UnitRow[u] \in UnitRows
  /\ Officer \subseteq Int
  /\ \A o \in Officer :
       /\ OfficerRow[o] \in OfficerRows
       /\ OfficerRow[o].unlocks > 0 => OfficerRow[o].unit \in Unit
  /\ \A x \in Item : ItemRow[x] \in ItemRows
  /\ \A k \in Skill : SkillRow[k].spent \in Nat
  /\ \A b \in DOMAIN BlueprintRow : BlueprintRow[b].price \in Int
  /\ TowerRow \in [DOMAIN TowerRow -> TowerRows]
  /\ TowerPrice \in Seq(Int)
  /\ \A t \in DOMAIN TechRow : TechRow[t].price \in Int
  /\ \A d \in DOMAIN DeviceRow : DeviceRow[d].price \in Int
  /\ Openings \subseteq DealtOpenings
  /\ \A c \in Cards : CardOK(c)

ASSUME DeploymentAssumption ==
  /\ MainSpots \in Nat /\ FlankSpots \in Nat
  /\ Standing \in [DOMAIN Standing -> Main]
  /\ MaxRound \in Nat \ {0}
  /\ MaxTaken \in [1..MaxRound -> Nat]
  /\ Damage \subseteq Nat
  /\ {Declined, Salvage, RepeatStep} \subseteq Nat
  /\ Income \in [1..MaxRound -> Nat]
  /\ IsFiniteSet(DOMAIN TowerRow) /\ IsFiniteSet(DOMAIN TechRow)
  /\ \A r \in 2..MaxRound :
       SumFunction([k \in DOMAIN TowerRow |-> TowerRow[k].owed]) <= Income[r]

VARIABLES
  pos,      (* the position                                                *)
  round,    (* the round in progress                                       *)
  taken,    (* the decisions taken in it                                   *)
  answered, (* whether its offer is answered                               *)
  team      (* the units of the opening that was chosen                    *)

deployVars == <<pos, round, taken, answered, team>>

-----------------------------------------------------------------------------
(* The purse: prices as the side's officers change them.                   *)

Floored(n) == IF n < 0 THEN 0 ELSE n

(* What every copy of every officer adds to a field.                       *)
Modifier(p, field) ==
  SumFunction([k \in DOMAIN p.officers |-> OfficerRow[p.officers[k]][field]])

(* What the round's tower skills add to the level of the shop.             *)
Raised(p) == SumFunction([k \in p.active |-> TowerRow[k].level])

ShopLevel(p) ==
  Max({1} \cup {OfficerRow[o].level : o \in Range(p.officers)}) + Raised(p)

BuyPrice(p, u) == Floored(UnitRow[u].price + Modifier(p, "buy"))
BuyAtLevel(p, u) ==
  Floored(UnitRow[u].price + (ShopLevel(p) - 1) * UnitRow[u].upgrade
            + Modifier(p, "buy"))
UnlockPrice(p, u) == Floored(UnitRow[u].unlock + Modifier(p, "unlock"))
UpgradePrice(p, u, worn) ==
  Floored(UnitRow[u].upgrade + Modifier(p, "upgrade") + worn)
TechPrice(p, t) ==
  Floored(TechRow[t].price + Modifier(p, "tech")
    + RepeatStep * Cardinality({h \in p.techs : TechRow[h].unit = TechRow[t].unit}))

RoundIncome(p, r) ==
  Income[r] + Modifier(p, "round") + (IF r = 1 THEN Modifier(p, "first") ELSE 0)

(* What the items on the board come to.                                    *)
Worn(f, field) ==
  SumFunction([k \in DOMAIN f.worn |-> ItemRow[f.worn[k]][field]])
PaidByItems(p) ==
  SumFunction([i \in DOMAIN p.units |-> Worn(p.units[i], "round")])

-----------------------------------------------------------------------------
(* The board.                                                              *)

OccupiedByUnits(p, i) ==  (* slip: the board forgets its contraptions *)
  {p.units[k].spot : k \in DOMAIN p.units \ {i}} \cup Range(p.constructions)

(* Everything a formation i cannot be put on.                              *)
Occupied(p, i) ==
  {p.units[k].spot : k \in DOMAIN p.units \ {i}}
    \cup Range(p.constructions)
    \cup {p.devices[k].spot :
            k \in {d \in DOMAIN p.devices : DeviceRow[p.devices[d].type].collides}}

(* The main region's free spots; a formation lands on the first of them.   *)
Room(p) == Main \ Occupied(p, -1)

Formation(u, s, level, value, source) ==
  [type |-> u, spot |-> s, level |-> level, exp |-> "none", worn |-> <<>>,
   travelling |-> FALSE, source |-> source, value |-> value,
   redeployed |-> FALSE]

FirstUnused(p) ==  (* slip: the index is counted from what is there *)
  Cardinality(DOMAIN p.units)

NextUnit(p) == p.next.unit

With(f, i, x) ==
  [k \in DOMAIN f \cup {i} |-> IF k = i THEN x ELSE f[k]]

(* place(): the next index is the formation's for the match.               *)
Place(p, f) ==
  [p EXCEPT !.units = With(@, NextUnit(p), f), !.next.unit = @ + 1]

(* Where the board puts one formation; nowhere when it has no room.        *)
Land(p, u, level, source) ==
  IF Room(p) = {} THEN {}
  ELSE {Place(p, Formation(u, Min(Room(p)), level, UnitRow[u].price, source))}

(* hand_out(): one after another, each clear of the ones before it.        *)
HandOut(p, u, squads, level, source) ==
  FoldLeft(LAMBDA ps, k : UNION {Land(q, u, level, source) : q \in ps},
           {p}, [k \in 1..squads |-> k])

(* A formation that arrived this round or that something frees may move.   *)
Movable(p, i) ==
  LET f == p.units[i]
  IN  \/ f.source # "legacy"
      \/ f.redeployed
      \/ \E k \in DOMAIN f.worn : ItemRow[f.worn[k]].frees
      \/ \E t \in p.techs : TechRow[t].jump /\ TechRow[t].unit = f.type

-----------------------------------------------------------------------------
(* The panel and the officers' deliveries.                                 *)

Slot(id) ==
  [id |-> id, cooldown |-> 0, used |-> FALSE, order |-> -1, standing |-> 0]
Released(p) == {i \in DOMAIN p.panel : p.panel[i].order # -1}

(* panel_add(): the first index nothing holds.                             *)
FreeSlot(p) ==
  Min((0..Cardinality(DOMAIN p.panel)) \ DOMAIN p.panel)

PanelAdd(p, id) == [p EXCEPT !.panel = With(@, FreeSlot(p), Slot(id))]

Unlock(p, u) == [p EXCEPT !.shop = @ \cup {u}]
Stocked(p, items) == [p EXCEPT !.stock = @ (+) ToBag(items)]

PanelAddAll(p, ids) == FoldLeft(PanelAdd, p, ids)

(* hand_out_round(): an officer's skills and items, or one item it draws.  *)
HandOutRound(p, o) ==
  LET row == OfficerRow[o]
      skilled == PanelAddAll(p, row.skills)
  IN  IF row.draws /\ row.items # <<>>
      THEN {Stocked(skilled, <<row.items[k]>>) : k \in DOMAIN row.items}
      ELSE {Stocked(skilled, row.items)}

(* What an officer hands out as round r opens.                             *)
Deliver(p, o, r) ==
  LET row == OfficerRow[o]
      open == IF row.unlocks = r THEN Unlock(p, row.unit) ELSE p
  IN  IF r \notin row.rounds THEN {open}
      ELSE UNION {IF row.unit \in Unit
                  THEN HandOut(q, row.unit, 1, row.unitLevel, "delivered")
                  ELSE {q} : q \in HandOutRound(open, o)}

-----------------------------------------------------------------------------
(* The opening of a round.                                                 *)

(* A slot that was spent cools from the start, any other a round further.  *)
Rested(s) ==
  [s EXCEPT !.cooldown = IF s.used \/ s.order # -1
                         THEN SkillRow[s.id].spent ELSE Floored(@ - 1),
            !.used = FALSE, !.order = -1]

(* open_allowances(): they follow from the officers alone.                 *)
Allowances(p) ==
  [buys |-> 2 + Cardinality({k \in DOMAIN p.officers :
                               OfficerRow[p.officers[k]].extra}),
   unlocks |-> 1, devices |-> 8]

Owed(p) == SumFunction([k \in p.active |-> TowerRow[k].owed])

(* reset(): what lasts one round ends, and the income is paid.             *)
Reset(p, r) ==
  [p EXCEPT
     !.panel = [i \in DOMAIN @ |-> Rested(@[i])],
     !.left = Allowances(p),
     !.supply = @ + RoundIncome(p, r) + PaidByItems(p) - Owed(p),
     !.active = {},
     !.units = [i \in DOMAIN @ |->
                  [@[i] EXCEPT !.source = IF r <= 1 THEN "joined" ELSE "legacy",
                               !.redeployed = FALSE]]]

(* open_round(): the reset, then each officer's delivery in turn.          *)
DeliverAll(p, officers, r) ==
  FoldLeft(LAMBDA ps, o : UNION {Deliver(q, o, r) : q \in ps}, {p}, officers)
OpenRound(p, r) == DeliverAll(Reset(p, r), p.officers, r)

Arrived(p) ==
  [p EXCEPT !.units = [i \in DOMAIN @ |-> [@[i] EXCEPT !.travelling = FALSE]]]

(* deliver_team(): the opening's units join the shop and land.             *)
DeliverTeam(p, units) ==
  FoldLeft(LAMBDA ps, u :
             UNION {HandOut(Unlock(q, u), u, 1, 1, "joined") : q \in ps},
           {p}, units)

(* predict(): the next round, the fight left out.                          *)
Predict(p, r, units) ==
  UNION {OpenRound(q, r + 1) :
           q \in IF r = 0 THEN DeliverTeam(Arrived(p), units) ELSE {Arrived(p)}}

-----------------------------------------------------------------------------
(* The fight: what it decides of a side, and that written onto it.         *)

Recovery(s) == SkillRow[s.id].kind = "recovery"
Leaves(s) == SkillRow[s.id].kind \in {"shield", "oil"}

Experience == {"none", "part", "full"}

(* What a fight may come to: damage, experience, the contraptions it       *)
(* leaves, the standing shields it destroys, the releases it leaves.       *)
Outcomes(p) ==
  {[damage |-> d, exp |-> e, kept |-> k, lost |-> l, left |-> f] :
     d \in Damage,
     e \in Earned(DOMAIN p.units) \cap [DOMAIN p.units -> Experience],
     k \in SUBSET DOMAIN p.devices,
     l \in {x \in [DOMAIN p.panel -> {0, 1}] :
              \A i \in DOMAIN p.panel :
                x[i] = 1 => /\ SkillRow[p.panel[i].id].kind = "shield"
                            /\ p.panel[i].standing > 0},
     f \in SUBSET {i \in Released(p) : Leaves(p.panel[i])}}

(* What stands on a slot afterwards: its shields that were not destroyed,  *)
(* none of its oil, which was in its last round, and what it released.     *)
StandsOn(s, lost, kept) ==
  (IF SkillRow[s.id].kind = "shield" THEN s.standing - lost ELSE 0)
    + (IF kept THEN 1 ELSE 0)

(* fought()                                                                *)
Fought(p, w) ==
  [p EXCEPT
     !.core = @ - w.damage,
     !.units = [i \in DOMAIN @ |-> [@[i] EXCEPT !.exp = w.exp[i]]],
     !.devices = Restrict(@, w.kept),
     !.panel = [i \in DOMAIN @ |->
                  [@[i] EXCEPT
                     !.standing = StandsOn(p.panel[i], w.lost[i], i \in w.left)]]]

SettleTravelling(p, r, w) ==  (* slip: a crossing outlasts the fight *)
  OpenRound(Fought(p, w), r + 1)

(* settle(): the next round, opened on what the fight left.                *)
Settle(p, r, w) == OpenRound(Arrived(Fought(p, w)), r + 1)

-----------------------------------------------------------------------------
(* The rounds.                                                             *)

BeforeOpening ==
  [supply |-> 0, core |-> 0, officers |-> <<>>, shop |-> {}, plans |-> {},
   active |-> {}, towers |-> <<0, 0>>, stock |-> EmptyBag, panel |-> <<>>,
   techs |-> {}, units |-> <<>>, devices |-> <<>>, constructions |-> Standing,
   next |-> [unit |-> 0, device |-> 0],
   left |-> [buys |-> 0, unlocks |-> 0, devices |-> 0]]

DeploymentInit ==
  /\ pos = BeforeOpening
  /\ round = 0
  /\ taken = 0
  /\ answered = FALSE
  /\ team = <<>>

Offered == round >= 2

(* afford(): what a position can answer on its own.                        *)
Affordable(p) ==
  /\ p.supply >= 0
  /\ p.left.buys >= 0
  /\ p.left.unlocks >= 0
  /\ p.left.devices >= 0

Bounded == round \in 1..MaxRound - 1 /\ taken < MaxTaken[round]

(* A decision is taken where the round's offer was answered first.         *)
Takes(p) ==
  /\ Bounded
  /\ Offered => answered
  /\ Affordable(p)
  /\ pos' = p
  /\ taken' = taken + 1
  /\ UNCHANGED <<round, answered, team>>

(* An officer taken goes to its place in the order of their numbers.       *)
Sorted(list, x) ==
  InsertAt(list, Cardinality({k \in DOMAIN list : list[k] <= x}) + 1, x)

ChooseAdvanceTeam ==
  /\ round = 0 /\ taken = 0
  /\ \E o \in Openings :
       /\ pos' = [pos EXCEPT !.supply = @ - o.price,
                             !.core = @ + o.core,
                             !.officers = Sorted(@, o.officer)]
       /\ Affordable(pos')
       /\ team' = o.units
  /\ taken' = 1
  /\ UNCHANGED <<round, answered>>

OpenFirstRound ==
  /\ round = 0 /\ taken = 1
  /\ pos' \in Predict(pos, 0, team)
  /\ round' = 1
  /\ taken' = 0
  /\ UNCHANGED <<answered, team>>

FightRound ==
  /\ round \in 1..MaxRound - 1
  /\ Offered => answered
  /\ \E w \in Outcomes(pos) : pos' \in Settle(pos, round, w)
  /\ round' = round + 1
  /\ taken' = 0
  /\ answered' = FALSE
  /\ UNCHANGED team

-----------------------------------------------------------------------------
(* The answer to a round's offer: the refund, or one of its cards.         *)

Answers(p) ==
  /\ Bounded /\ Offered
  /\ ~ answered
  /\ Affordable(p)
  /\ pos' = p
  /\ answered' = TRUE
  /\ UNCHANGED <<round, taken, team>>

Refund == Answers([pos EXCEPT !.supply = @ + Declined])

Paid(c) == [pos EXCEPT !.supply = @ - c.price]

(* An officer without rounds of its own hands out as it is taken.          *)
TakeOfficer(c) ==
  /\ c.kind = "officer"
  /\ \E q \in IF OfficerRow[c.id].rounds = {} THEN HandOutRound(Paid(c), c.id)
                                               ELSE {Paid(c)} :
       Answers([q EXCEPT
                  !.supply = @ + OfficerRow[c.id].granted,
                  !.left.buys = @ + (IF OfficerRow[c.id].extra THEN 1 ELSE 0),
                  !.officers = Sorted(@, c.id)])

TakeSkill(c) == c.kind = "skill" /\ Answers(PanelAdd(Paid(c), c.id))

TakeItem(c) == c.kind = "item" /\ Answers(Stocked(Paid(c), <<c.id>>))

TakeUnits(c) ==
  /\ c.kind = "units"
  /\ \E q \in HandOut(Unlock(Paid(c), c.id), c.id, c.squads, 1, "joined") :
       Answers(q)

ChooseReinforceItem ==
  \/ Refund
  \/ \E c \in Cards : TakeOfficer(c) \/ TakeSkill(c) \/ TakeItem(c) \/ TakeUnits(c)

-----------------------------------------------------------------------------
(* The shop.                                                               *)

(* A purchase ends where its moves end; without a place it lands.          *)
BuyUnit(u) ==
  /\ u \in pos.shop
  /\ \E s \in (Spot \ Occupied(pos, -1)) :
       LET bought == [Formation(u, s, ShopLevel(pos), BuyPrice(pos, u), "joined")
                        EXCEPT !.travelling = Flank(s)]
       IN  Takes([Place(pos, bought) EXCEPT
                    !.supply = @ - BuyAtLevel(pos, u),
                    !.left.buys = @ - 1])

UnlockUnit(u) ==
  /\ u \notin pos.shop
  /\ Takes([Unlock(pos, u) EXCEPT !.supply = @ - UnlockPrice(pos, u),
                                  !.left.unlocks = @ - 1])

(* A bar that is begun has to be full first.                               *)
UpgradeUnit(i) ==
  /\ pos.units[i].exp # "part"
  /\ Takes([pos EXCEPT
              !.units[i].level = @ + 1,
              !.units[i].exp = "none",
              !.supply = @ - UpgradePrice(pos, pos.units[i].type,
                                          Worn(pos.units[i], "upgrade"))])

UpgradeTechnology(t) ==
  /\ t \notin pos.techs
  /\ \E i \in DOMAIN pos.units : pos.units[i].type = TechRow[t].unit
  /\ Takes([pos EXCEPT !.supply = @ - TechPrice(pos, t),
                       !.techs = @ \cup {t}])

(* The level a blueprint replaces leaves.                                  *)
Replaced(b) == {h \in pos.plans : BlueprintRow[h].then # b}

ActiveBlueprint(b) ==
  /\ b \notin pos.plans
  /\ \A first \in DOMAIN BlueprintRow :
       BlueprintRow[first].then = b => first \in pos.plans
  /\ BlueprintRow[b].then \notin pos.plans
  /\ LET bought == [pos EXCEPT !.supply = @ - BlueprintRow[b].price,
                               !.plans = Replaced(b) \cup {b}]
     IN  Takes(IF BlueprintRow[b].skill \in Skill
               THEN PanelAdd(bought, BlueprintRow[b].skill) ELSE bought)

ActiveEnergyTowerSkill(k) ==
  /\ k \notin pos.active
  /\ Takes([pos EXCEPT
              !.supply = @ - (TowerRow[k].price - TowerRow[k].granted),
              !.left.buys = @ + TowerRow[k].buys,
              !.active = @ \cup {k}])

StrengthenTower(w) ==
  /\ pos.towers[w] + 1 \in DOMAIN TowerPrice
  /\ Takes([pos EXCEPT !.towers[w] = @ + 1,
                       !.supply = @ - TowerPrice[pos.towers[w] + 1]])

-----------------------------------------------------------------------------
(* The board's decisions.                                                  *)

EquipmentSlots ==
  1 + Modifier(pos, "slots")

UseEquipment(x, i) ==
  /\ BagIn(x, pos.stock)
  /\ Len(pos.units[i].worn) < EquipmentSlots
  /\ Takes([pos EXCEPT !.units[i].worn = Append(@, x),
                       !.stock = @ (-) SetToBag({x})])

(* A move that changes region begins a crossing, or ends one.              *)
MoveUnit(i) ==
  /\ Movable(pos, i)
  /\ \E s \in Spot \ Occupied(pos, i) :
       Takes([pos EXCEPT
                !.units[i].spot = s,
                !.units[i].travelling =
                  IF s \in Main <=> pos.units[i].spot \in Main THEN @
                                                               ELSE Flank(s)])

ReleaseContraption(d) ==
  \E s \in IF DeviceRow[d].collides THEN Spot \ Occupied(pos, -1) ELSE {1} :
    Takes([pos EXCEPT
             !.supply = @ - DeviceRow[d].price,
             !.left.devices = @ - 1,
             !.devices = With(@, pos.next.device, [type |-> d, spot |-> s]),
             !.next.device = @ + 1])

-----------------------------------------------------------------------------
(* The panel's decisions.                                                  *)

(* A release aimed at an object asks for a slot that is ready.             *)
Ready(i) ==
  /\ ~ pos.panel[i].used
  /\ pos.panel[i].order = -1
  /\ pos.panel[i].cooldown = 0

Kind(i) == SkillRow[pos.panel[i].id].kind

(* A slot's release takes the place after those already released.          *)
Releases(p, i) ==
  [p EXCEPT !.panel[i].order = Cardinality(Released(pos))]
Spends(p, i) == [p EXCEPT !.panel[i].used = TRUE]

(* One aimed at an area is not asked whether its slot is ready.            *)
ReleaseOnArea(i) ==
  /\ Kind(i) \notin {"redeploy", "training", "recovery"}
  /\ Takes(Releases(pos, i))

ReleaseOnUnit(i) ==
  /\ Kind(i) \notin {"redeploy", "training", "recovery"}
  /\ Ready(i)
  /\ Takes(Releases(pos, i))

Redeploy(i, u) ==
  /\ Kind(i) = "redeploy"
  /\ Ready(i)
  /\ Takes(Spends([pos EXCEPT !.units[u].redeployed = TRUE], i))

MaxLevel == 9

Train(i, u) ==
  /\ Kind(i) = "training"
  /\ Ready(i)
  /\ pos.units[u].level < MaxLevel
  /\ pos.units[u].exp # "full"
  /\ Takes(Spends([pos EXCEPT !.units[u].exp = "full"], i))

(* A formation taken away pays back its value and its levels, and what it  *)
(* wore goes back into the stock.                                          *)
RecoverUnit(i, u) ==
  /\ Kind(i) = "recovery"
  /\ Ready(i)
  /\ LET f == pos.units[u]
     IN  Takes(Releases(
           [Stocked(pos, f.worn) EXCEPT
              !.supply = @ + f.value
                           + (f.level - 1) * UpgradePrice(pos, f.type, 0),
              !.units = Restrict(@, DOMAIN @ \ {u})], i))

(* So does a construction, at a price of its own.                          *)
RecoverConstruction(i, c) ==
  /\ Kind(i) = "recovery"
  /\ Ready(i)
  /\ Takes(Releases([pos EXCEPT !.supply = @ + Salvage,
                                !.constructions = Restrict(@, DOMAIN @ \ {c})], i))

ReleaseCommanderSkill(i) ==
  \/ ReleaseOnArea(i)
  \/ ReleaseOnUnit(i)
  \/ \E u \in DOMAIN pos.units :
       Redeploy(i, u) \/ Train(i, u) \/ RecoverUnit(i, u)
  \/ \E c \in DOMAIN pos.constructions : RecoverConstruction(i, c)

DeploymentNext ==
  \/ ChooseAdvanceTeam
  \/ OpenFirstRound
  \/ FightRound
  \/ ChooseReinforceItem
  \/ \E u \in Unit : BuyUnit(u) \/ UnlockUnit(u)
  \/ \E i \in DOMAIN pos.units :
       \/ UpgradeUnit(i)
       \/ MoveUnit(i)
       \/ \E x \in Item : UseEquipment(x, i)
  \/ \E t \in DOMAIN TechRow : UpgradeTechnology(t)
  \/ \E b \in DOMAIN BlueprintRow : ActiveBlueprint(b)
  \/ \E k \in DOMAIN TowerRow : ActiveEnergyTowerSkill(k)
  \/ \E w \in {1, 2} : StrengthenTower(w)
  \/ \E d \in DOMAIN DeviceRow : ReleaseContraption(d)
  \/ \E i \in DOMAIN pos.panel : ReleaseCommanderSkill(i)

DeploymentSpec == DeploymentInit /\ [][DeploymentNext]_deployVars

-----------------------------------------------------------------------------
(* Properties.                                                             *)

Formations ==
  [type : Unit, spot : Spot, level : Nat \ {0}, exp : Experience,
   worn : Seq(Item), travelling : BOOLEAN, value : Nat, redeployed : BOOLEAN,
   source : {"joined", "delivered", "legacy"}]
Slots == [id : Skill, cooldown : Nat, used : BOOLEAN, order : Nat \cup {-1},
          standing : Nat]

(* A formation overlaps nothing: no other, no construction, no contraption *)
(* that collides.                                                          *)
Alone(i) ==
  LET s == pos.units[i].spot
  IN  /\ \A k \in DOMAIN pos.units : pos.units[k].spot = s => k = i
      /\ s \notin Range(pos.constructions)
      /\ \A d \in DOMAIN pos.devices :
           pos.devices[d].spot = s => ~ DeviceRow[pos.devices[d].type].collides

(* The position keeps its type: what it holds lies below its allocators,   *)
(* no round opens in debt, nothing is worn beyond the slots, only what is  *)
(* on a flank travels, and nothing that was placed, moved or landed stands *)
(* where something else does (check_place and landing).                    *)
DeployTypeOK ==
  /\ pos.supply \in Nat
  /\ pos.left \in [buys : Nat, unlocks : Nat, devices : Nat]
  /\ pos.shop \subseteq Unit
  /\ DOMAIN pos.units \subseteq 0..pos.next.unit - 1
  /\ DOMAIN pos.devices \subseteq 0..pos.next.device - 1
  /\ \A i \in DOMAIN pos.units :
       /\ pos.units[i] \in Formations
       /\ Alone(i)
       /\ Len(pos.units[i].worn) <= EquipmentSlots
       /\ pos.units[i].travelling => Flank(pos.units[i].spot)
  /\ \A i \in DOMAIN pos.panel : pos.panel[i] \in Slots
  /\ IsABag(pos.stock)
  /\ round \in 0..MaxRound /\ taken \in Nat /\ answered \in BOOLEAN

(* What a round opens with, as a match document states it and is read      *)
(* again: without allowances or redeployments, which follow from the rest, *)
(* and with nothing released, used or travelling.                          *)
Read(p) ==
  [p EXCEPT
     !.left = Allowances(p), !.active = {},
     !.panel = [i \in DOMAIN @ |-> [@[i] EXCEPT !.used = FALSE, !.order = -1]],
     !.units = [i \in DOMAIN @ |-> [@[i] EXCEPT !.redeployed = FALSE,
                                               !.travelling = FALSE]]]

(* The cross-round invariants of docs/spec/document/match.md, of every     *)
(* step: allocators rise and no index is given twice; what is researched,  *)
(* unlocked or raised stays; the panel is extended and never reordered; a  *)
(* blueprint gives way to its own next level alone; constructions are      *)
(* never added; the core falls; and a round opens with a position that     *)
(* its document states whole.                                              *)
NeverReissued ==
  /\ pos'.next.unit >= pos.next.unit
  /\ pos'.next.device >= pos.next.device
  /\ \A i \in DOMAIN pos'.units :
       \/ i >= pos.next.unit
       \/ /\ i \in DOMAIN pos.units
          /\ pos'.units[i].type = pos.units[i].type
          /\ pos'.units[i].value = pos.units[i].value
          /\ pos'.units[i].level >= pos.units[i].level
Extended ==
  /\ pos.techs \subseteq pos'.techs
  /\ pos.shop \subseteq pos'.shop
  /\ \A w \in {1, 2} : pos'.towers[w] >= pos.towers[w]
  /\ DOMAIN pos.panel \subseteq DOMAIN pos'.panel
  /\ \A i \in DOMAIN pos.panel : pos'.panel[i].id = pos.panel[i].id
  /\ \A b \in pos.plans : b \in pos'.plans \/ BlueprintRow[b].then \in pos'.plans
  /\ IsRestriction(pos'.constructions, pos.constructions)
SeamsHold ==
  [][ /\ NeverReissued
      /\ Extended
      /\ round > 0 => pos'.core <= pos.core
      /\ round' # round => pos' = Read(pos') ]_deployVars

(* The prediction of the next round from the decisions alone agrees with   *)
(* the position the round settles on in everything the fight does not      *)
(* decide, whatever the fight comes to; where it destroyed a contraption,  *)
(* what was delivered may land elsewhere, or only then find room.          *)
Undecided(p, landings) ==
  [p EXCEPT
     !.core = 0, !.devices = <<>>,
     !.panel = [i \in DOMAIN @ |-> [@[i] EXCEPT !.standing = 0]],
     !.units = [i \in DOMAIN @ |->
                  [@[i] EXCEPT !.exp = "none",
                     !.spot = IF ~ landings /\ p.units[i].source = "delivered"
                              THEN 0 ELSE p.units[i].spot]]]
PredictedIsSettled ==
  round \in 1..MaxRound - 1 /\ (Offered => answered) =>
    LET predicted == Predict(pos, round, team)
    IN  \A w \in Outcomes(pos) :
          LET whole == w.kept = DOMAIN pos.devices
          IN  \/ ~ whole /\ predicted = {}
              \/ {Undecided(s, whole) : s \in Settle(pos, round, w)}
                   = {Undecided(p, whole) : p \in predicted}
=============================================================================
