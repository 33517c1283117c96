------------------------------ MODULE FightEnd -------------------------------
(***************************************************************************)
(* How a simulated fight comes to its end: one tick of fight/mod.rs as the *)
(* modules it runs in turn, and what of them decides that the fight is     *)
(* over.  A unit may stand, rise where it fell, wait as a pilot behind an  *)
(* ally, or still be appearing; shots, creators of summons and the deaths  *)
(* of the tick keep the fight going; a side that has lost its last unit    *)
(* loses its towers a tick before it ends.                                 *)
(*                                                                         *)
(* Who hits whom is left open: in each phase in which something can be     *)
(* hit, any living units may die and any tower may fall.                   *)
(***************************************************************************)
EXTENDS Naturals, FiniteSets, Sequences, SequencesExt

CONSTANTS
  Unit,         (* every unit the fight may see                            *)
  Team,         (* Team[u]: the side of u                                  *)
  Deployed,     (* the units that stand as the fight begins                *)
  Reassembled,  (* those that rise once where they fell                    *)
  Pilot,        (* those whose pilot follows an ally, and rises with it    *)
  Surfacer,     (* those that hand their side a creator as they surface    *)
  Maker,        (* those with a production line                            *)
  Important,    (* those whose side dies with the last of them             *)
  CostTicks,    (* the updates a rebirth takes                             *)
  AppearTicks,  (* the ticks a delayed summon takes to join                *)
  LifeTicks,    (* the updates of a battle skill's creator                 *)
  Shelled,      (* bound: the sides whose tower hits may fell              *)
  MaxShots,     (* bound on the shots in flight                            *)
  MaxCalls      (* bound on the skills, mines and fires still to strike    *)

Side == {0, 1}
Stages ==
  {"open", "blue", "red", "shots", "support", "dead", "close", "over"}
NoOwner == "none"

ASSUME FightAssumption ==
  /\ IsFiniteSet(Unit) /\ Team \in [Unit -> Side]
  /\ Deployed \subseteq Unit
  /\ \A s \in Side : \E u \in Deployed : Team[u] = s
  /\ Reassembled \subseteq Deployed /\ Pilot \subseteq Deployed
  /\ Reassembled \cap Pilot = {}
  /\ Surfacer \subseteq Deployed \ (Reassembled \cup Pilot)
  /\ Maker \subseteq Deployed /\ Important \subseteq Deployed
  /\ NoOwner \notin Unit
  /\ Shelled \subseteq Side
  /\ CostTicks \in Nat \ {0} /\ AppearTicks \in Nat \ {0}
  /\ LifeTicks \in Nat \ {0} /\ MaxShots \in Nat /\ MaxCalls \in Nat

VARIABLES
  stage,      (* the part of the tick that comes next                      *)
  alive,      (* the units that live and are in the fight                  *)
  rising,     (* the dead ones marked rising                               *)
  tasks,      (* the rebirths that run, in the order they started          *)
  left,       (* the units with a rebirth left                             *)
  appearing,  (* the summons made and not yet in: ticks until they join    *)
  unmade,     (* the units nobody has made yet                             *)
  exits,      (* the dead whose dead effect is still to come               *)
  registered, (* the important units registered with their side            *)
  creators,   (* the creators of summons that end                          *)
  shots,      (* the projectiles in flight                                 *)
  calls,      (* what may still strike from outside the teams              *)
  towers,     (* the sides whose tower stands                              *)
  ending,     (* what the end of the fight keeps from tick to tick         *)
  tick        (* what one tick remembers of its earlier parts              *)

fieldVars == <<alive, unmade, exits, shots, calls, towers>>
rebirthVars == <<rising, tasks, left, registered>>
supportVars == <<appearing, creators>>
fightVars == <<stage, fieldVars, rebirthVars, supportVars, ending, tick>>

Of(s, units) == {u \in units : Team[u] = s}

-----------------------------------------------------------------------------
(* Who is still in the fight.                                              *)

AppearingOn(s) == Of(s, DOMAIN appearing) # {}
RebirthingOn(s) ==
  \E i \in DOMAIN tasks : tasks[i].unit \in rising /\ Team[tasks[i].unit] = s
Standing(s) == Of(s, alive) # {} \/ AppearingOn(s) \/ RebirthingOn(s)
WinnerDecided == \E s \in Side : Standing(s) /\ ~ Standing(1 - s)

(* Slip: a unit that rises does not count.                                 *)
RisersForgotten == \E s \in Side : Of(s, alive) = {}

CoreStepFinished == \E s \in Side : Of(s, alive \cup rising) = {}
NaturallyFinished ==
  CoreStepFinished /\ shots = 0 /\ creators = {} /\ DOMAIN appearing = {}

(* A tick's memory between ticks.                                          *)
Unticked ==
  [settled |-> FALSE, core |-> FALSE, before |-> FALSE, died |-> FALSE,
   empty |-> {}]

FightInit ==
  /\ stage = "open"
  /\ alive = Deployed
  /\ rising = {} /\ tasks = <<>>
  /\ left = Reassembled \cup Pilot
  /\ appearing = [u \in {} |-> 0]
  /\ unmade = Unit \ Deployed
  /\ exits = {}
  /\ registered = Important
  /\ creators = {}
  /\ shots = 0
  /\ calls = MaxCalls
  /\ towers = Side
  /\ ending = [torn |-> {}, over |-> "no",
               told |-> [s \in Side |-> 0], score |-> [s \in Side |-> 0]]
  /\ tick = Unticked

-----------------------------------------------------------------------------
(* A phase that can hit: of those there, the units in K die and the towers *)
(* in T fall.  A death that has a dead effect waits for it; the order in   *)
(* which the dead of one tick are taken is left open.                      *)

(* Slip: what has no life left is destroyed once more.                     *)
StruckAgain == Shelled

Shells == towers \cap Shelled

Queued(K) == exits \cup (K \cap (Reassembled \cup Pilot))

Told(T) ==
  [ending EXCEPT !.told = [s \in Side |-> IF s \in T THEN @[s] + 1 ELSE @[s]]]

Hits(there, K, T) ==
  /\ alive' = there \ K
  /\ exits' = Queued(K)
  /\ towers' = towers \ T

(* A creator as it is handed to its side.                                  *)
Creator(s, owner) == [side |-> s, owner |-> owner, updates |-> 0]

(* The summons whose time is up as the tick opens.                         *)
Joined == {u \in DOMAIN appearing : appearing[u] = 1}

(* The tick opens.  The towers torn down on the tick before are told of,   *)
(* what this tick will ask of its beginning is read, the summons whose     *)
(* time is up join, and then skills, mines and terrains strike: each call  *)
(* kills, fires a shot, or lands a skill that summons.                     *)
Open ==
  /\ stage = "open"
  /\ \E K \in SUBSET (alive \cup Joined), T \in SUBSET Shells, n \in 0..1 :
        /\ n <= calls
        /\ n = 0 => K = {} /\ T = {}
        /\ calls' = calls - n
        /\ Hits(alive \cup Joined, K, T)
        /\ ending' = [Told(ending.torn \cup T) EXCEPT !.torn = {}]
        /\ tick' = [Unticked EXCEPT
                      !.settled = NaturallyFinished \/ WinnerDecided,
                      !.core = CoreStepFinished,
                      !.died = K # {}]
        /\ \/ UNCHANGED <<shots, creators>>
           \/ /\ n = 1 /\ K = {} /\ T = {}
              /\ \/ /\ shots < MaxShots /\ shots' = shots + 1
                    /\ UNCHANGED creators
                 \/ /\ \E s \in Side :
                          creators' = creators \cup {Creator(s, NoOwner)}
                    /\ UNCHANGED shots
  /\ appearing' =
       [u \in DOMAIN appearing \ Joined |-> appearing[u] - 1]
  /\ stage' = "blue"
  /\ UNCHANGED <<unmade, rebirthVars>>

(* A side updates: its living units are counted first.  With the fight off *)
(* no skill runs and no buff is due.  A unit that begins to surface hands  *)
(* its side a creator.                                                     *)
Update(s) ==
  /\ stage = IF s = 0 THEN "blue" ELSE "red"
  /\ stage' = IF s = 0 THEN "red" ELSE "shots"
  /\ \E K \in SUBSET alive, T \in SUBSET Shells :
        /\ tick.core => K = {} /\ T = {}
        /\ Hits(alive, K, T)
        /\ ending' = Told(T)
        /\ tick' = [tick EXCEPT !.died = @ \/ K # {},
                                !.empty = IF Of(s, alive) = {}
                                          THEN @ \cup {s} ELSE @]
  /\ shots' \in IF tick.core THEN {shots} ELSE {shots, shots + 1}
  /\ shots' <= MaxShots
  /\ \E up \in SUBSET Of(s, Surfacer \cap alive) :
        creators' = creators \cup
          {Creator(s, u) : u \in up}
  /\ UNCHANGED <<unmade, calls, rebirthVars, appearing>>

(* Some of the shots land or are gone.                                     *)
StepProjectiles ==
  /\ stage = "shots"
  /\ stage' = "support"
  /\ shots' \in 0..shots
  /\ \E K \in SUBSET alive, T \in SUBSET Shells :
        /\ shots' = shots => K = {} /\ T = {}
        /\ Hits(alive, K, T)
        /\ ending' = Told(T)
        /\ tick' = [tick EXCEPT !.died = @ \/ K # {},
                                !.before = NaturallyFinished]
  /\ UNCHANGED <<unmade, calls, rebirthVars, supportVars>>

-----------------------------------------------------------------------------
(* The creators update.  One whose owner is dead does nothing at all; a    *)
(* surfacing unit's ends after its first update, a skill's with its life.  *)

Available(c) == c.owner = NoOwner \/ c.owner \in alive
Ends(c) == c.owner # NoOwner \/ c.updates + 1 >= LifeTicks
(* Slip: a creator with nothing to make does not count its life.           *)
ClockStalls ==
  {c \in creators : ~ Available(c)} \cup
  {c \in creators : Available(c) /\ ~ Ends(c)}

Stepped ==
  {c \in creators : ~ Available(c)} \cup
  {[c EXCEPT !.updates = @ + 1] : c \in {d \in creators :
                                           Available(d) /\ ~ Ends(d)}}
Makes(s) ==
  \/ \E c \in creators : c.side = s /\ Available(c)
  \/ Of(s, Maker \cap alive) # {}

StepSupportUnits ==
  /\ stage = "support"
  /\ stage' = "dead"
  /\ creators' = Stepped
  /\ \E made \in SUBSET {u \in unmade : Makes(Team[u])} :
     \E now \in SUBSET made :
        /\ unmade' = unmade \ made
        /\ alive' = alive \cup now
        /\ appearing' =
             [u \in DOMAIN appearing \cup (made \ now) |->
                IF u \in made THEN AppearTicks ELSE appearing[u]]
  /\ UNCHANGED <<exits, shots, calls, towers, rebirthVars, ending, tick>>

-----------------------------------------------------------------------------
(* Rebirths.  A unit that died starts its task.                            *)

Starts(dead) == [i \in DOMAIN dead |-> [unit |-> dead[i], time |-> 0]]

(* Slip: a unit that rises where it fell needs an ally too.                *)
RisesBehindAlly(t, living) ==
  Of(Team[t.unit], (Reassembled \cup Pilot) \cap living) # {}

(* A unit that rises where it fell is always ready; a pilot needs an ally  *)
(* alive on its side to follow.                                            *)
ReadyRebirth(t, living) ==
  \/ t.unit \in Reassembled
  \/ Of(Team[t.unit], Pilot \cap living) # {}

(* One task updates: it counts, fails, or its unit stands again.  The task *)
(* behind one that is taken out waits for the next update.                 *)
StepTask(w, t) ==
  IF w.skip
  THEN [w EXCEPT !.skip = FALSE, !.kept = Append(@, t)]
  ELSE IF ~ ReadyRebirth(t, w.living)
  THEN [w EXCEPT !.skip = TRUE]
  ELSE IF t.time + 1 < CostTicks
  THEN [w EXCEPT !.kept = Append(@, [t EXCEPT !.time = @ + 1])]
  ELSE [w EXCEPT !.skip = TRUE, !.living = @ \cup {t.unit}]

StepRebirths(living, all) ==
  FoldLeft(StepTask, [living |-> living, kept |-> <<>>, skip |-> FALSE], all)

(* The important units whose death counts now, and the sides left with     *)
(* none.                                                                   *)
Gone(living, up) == {u \in registered : u \notin living \cup up}
Bereft(gone) ==
  {s \in Side : Of(s, gone) # {} /\ Of(s, registered \ gone) = {}}

(* The dead in their order: each death's summons join at once, those that  *)
(* have a rebirth left start it, the rebirths step, and each OnDead runs,  *)
(* which may destroy the rest of a side but what is born after it.  Those  *)
(* it destroys have their dead effects on the next update.                 *)
Dying(blast, born, order, spared) ==
  LET begun == Starts(order)
      units == {begun[i].unit : i \in DOMAIN begun}
      w == StepRebirths((alive \ blast) \cup born, tasks \o begun)
      up == (rising \cup (units \cap Reassembled)) \ w.living
      gone == Gone(w.living, up)
      doomed == {u \in w.living \ spared : Team[u] \in Bereft(gone)}
  IN  /\ tasks' = w.kept
      /\ rising' = up
      /\ left' = left \ units
      /\ unmade' = unmade \ born
      /\ registered' = registered \ gone
      /\ alive' = w.living \ doomed
      /\ exits' = doomed \cap (Reassembled \cup Pilot)

(* The dead of the tick, of whom explosions may make more first.           *)
StepDead ==
  /\ stage = "dead"
  /\ stage' = "close"
  /\ \E blast \in SUBSET alive, born \in SUBSET unmade :
     \E order \in SetToSeqs(Queued(blast) \cap left), spared \in SUBSET born :
        /\ ~ tick.died /\ exits = {} => blast = {} /\ born = {}
        /\ Dying(blast, born, order, spared)
        /\ tick' = [tick EXCEPT !.died = @ \/ blast # {}]
  /\ UNCHANGED <<shots, calls, towers, supportVars, ending>>

-----------------------------------------------------------------------------
(* The tick closes: TryDstroyTower.                                        *)

ProjectileFinishedFight ==
  ~ tick.before /\ NaturallyFinished /\ tick.core /\ ~ tick.died

Unmanned(s) == s \in tick.empty /\ ~ AppearingOn(s) /\ ~ RebirthingOn(s)
WipedOut == (\A s \in Side : Unmanned(s)) /\ shots = 0

TowersFall ==
  /\ ~ tick.settled
  /\ ~ ProjectileFinishedFight
  /\ WinnerDecided \/ WipedOut

TornDown == {s \in towers : TowersFall /\ Unmanned(s)}

(* Slip: the fight does not wait for the towers torn down.                 *)
LeftUntold == NaturallyFinished

ReadyToFinish == NaturallyFinished /\ TornDown = {}

TearDown == towers' = towers \ TornDown

Score == [s \in Side |-> Cardinality(Of(s, alive))]

(* What was torn down keeps the fight for one tick more, in which it is    *)
(* told of.                                                                *)
Close ==
  /\ stage = "close"
  /\ ~ ReadyToFinish
  /\ TearDown
  /\ ending' = [ending EXCEPT !.torn = TornDown]
  /\ stage' = "open"
  /\ tick' = Unticked
  /\ UNCHANGED <<alive, unmade, exits, shots, calls, rebirthVars, supportVars>>

(* The fight ends by itself: scored, and every rebirth that runs dropped.  *)
Finish ==
  /\ stage = "close"
  /\ ReadyToFinish
  /\ TearDown
  /\ ending' = [ending EXCEPT !.torn = TornDown, !.score = Score,
                              !.over = "natural_module_drain"]
  /\ tasks' = <<>>
  /\ stage' = "over"
  /\ tick' = Unticked
  /\ UNCHANGED <<alive, unmade, exits, shots, calls, rising, left, registered,
                 supportVars>>

(* The time limit, between two ticks.                                      *)
StopFight ==
  /\ stage = "open"
  /\ shots' = 0
  /\ tasks' = <<>>
  /\ ending' = [ending EXCEPT !.over = "forced_time_limit", !.score = Score]
  /\ stage' = "over"
  /\ UNCHANGED <<alive, unmade, exits, calls, towers, rising, left, registered,
                 supportVars, tick>>

Tick ==
  \/ Open
  \/ \E s \in Side : Update(s)
  \/ StepProjectiles
  \/ StepSupportUnits
  \/ StepDead
  \/ Close
  \/ Finish

(* A fight that is over is not stepped again.                              *)
Over == stage = "over" /\ UNCHANGED fightVars

FightNext == Tick \/ StopFight \/ Over

FightSpec == FightInit /\ [][FightNext]_fightVars

(* The loop of a fight goes on until it is over, and every shot lands or   *)
(* is gone in time.  Each part of a tick changes the stage and one of them *)
(* can always be taken (the run has no deadlock), so the loop's fairness   *)
(* is said of the stage alone, which TLC evaluates fast.                   *)
GoesOn == stage # "over" /\ stage' \in Stages
Lands == StepProjectiles /\ shots' < shots
FightFairSpec == FightSpec /\ WF_stage(GoesOn) /\ SF_fightVars(Lands)

-----------------------------------------------------------------------------
(* Properties.                                                             *)

FightTypeOK ==
  /\ stage \in Stages
  /\ alive \cup rising \cup unmade \cup DOMAIN appearing \subseteq Unit
  /\ \A A, B \in {alive, rising, unmade, DOMAIN appearing} :
        A = B \/ A \cap B = {}
  /\ \A u \in DOMAIN appearing : appearing[u] \in 1..AppearTicks
  /\ \A i \in DOMAIN tasks : tasks[i].time \in 0..(CostTicks - 1)
  /\ left \subseteq Reassembled \cup Pilot
  /\ registered \subseteq Important
  /\ shots \in 0..MaxShots /\ calls \in 0..MaxCalls
  /\ ending.told \in [Side -> 0..1]

(* Every tower that is down as a fight ends by itself has been told of     *)
(* exactly once, whether it was shot or torn down, none that stands has,   *)
(* and at most one side has anything to score (mod.rs:1244-1261,           *)
(* 1612-1618, 1795-1798, 2150-2155).                                       *)
EndIsSettled ==
  ending.over = "natural_module_drain" =>
    /\ \A s \in Side : ending.told[s] = IF s \in towers THEN 0 ELSE 1
    /\ \E s \in Side : ending.score[s] = 0

(* A fight never ends by itself while both sides stand: what winner() asks *)
(* of the rebirth tasks and the appearing summons agrees with what         *)
(* core_step_finished() asks of the units' own flags (mod.rs:1967-2005).   *)
NotWhileBothStand ==
  [][Finish => \E s \in Side : ~ Standing(s)]_fightVars

(* Every unit marked rising has the one task that will stand it up again,  *)
(* whatever dies, fails or is taken out before it in the list: a mark      *)
(* without a task would hold its side, and the fight, for good             *)
(* (rebirth.rs:139-170, 602-612).                                          *)
RisingIsTasked ==
  stage # "over" => \A u \in Reassembled :
    Cardinality({i \in DOMAIN tasks : tasks[i].unit = u}) =
      IF u \in rising THEN 1 ELSE 0

(* A fight that has come down to one side for good ends by itself, with    *)
(* no time limit: every shot, creator and summon it waits for goes, and    *)
(* the fall of the towers holds it no longer than a tick.  Excepted is a   *)
(* creator whose owner died before the creator's only update: nothing      *)
(* updates it again, and nothing takes it away (support_unit.rs:388-393).  *)
Orphaned == \E c \in creators : ~ Available(c)
FightEnds == []<>(CoreStepFinished /\ ~ Orphaned => stage = "over")

(* technology_effects.md:729 has a rising unit hold its side, "so the      *)
(* towers stand"; no side that stands as a tick ends has had its towers    *)
(* torn down in it (mod.rs:1555-1592).                                     *)
StandersKeepTowers ==
  stage = "open" => \A s \in ending.torn : ~ Standing(s)
=============================================================================
