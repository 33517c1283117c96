--------------------------- MODULE FightEndProofs ----------------------------
(***************************************************************************)
(* A fight that ends by itself is settled, and never while both sides      *)
(* stand; no unit is in two places, and every one that rises has the one   *)
(* task that will stand it up: whatever the units, rebirths and summons of *)
(* the instance.                                                           *)
(***************************************************************************)
EXTENDS FightEnd, FoldFacts

(* What the end of the fight keeps: nothing waits to be told of but as a   *)
(* tick begins, and told counts the falls of the towers that are down.     *)
Kept ==
  /\ ending = [torn |-> ending.torn, over |-> ending.over,
               told |-> ending.told, score |-> ending.score]
  /\ towers \subseteq Side
  /\ ending.torn \subseteq Side \ towers
  /\ stage \notin {"open", "over"} => ending.torn = {}
  /\ ending.over # "no" => stage = "over"
Count ==
  /\ ending.told \in [Side -> Nat]
  /\ \A s \in Side :
        ending.told[s] = IF s \in towers \cup ending.torn THEN 0 ELSE 1
FightInv == Kept /\ Count /\ EndIsSettled

(* With the core finished at most one side has anybody to score.           *)
LEMMA OneSideScores ==
  ASSUME CoreStepFinished
  PROVE  \E s \in Side : Score[s] = 0
<1>1. PICK s \in Side : Of(s, alive) = {}
  BY DEF CoreStepFinished, Of
<1> QED
  BY <1>1, FS_EmptySet DEF Score

(* Told(T) adds one to each side of T and leaves the rest of the record.   *)
LEMMA ToldAdds ==
  ASSUME Kept, ending.told \in [Side -> Nat], NEW T \in SUBSET Side
  PROVE  \E t \in [Side -> Nat] :
           /\ Told(T) = [torn |-> ending.torn, over |-> ending.over,
                         told |-> t, score |-> ending.score]
           /\ \A s \in Side :
                t[s] = IF s \in T THEN ending.told[s] + 1 ELSE ending.told[s]
<1> DEFINE f == [s \in Side |-> IF s \in T THEN ending.told[s] + 1
                                            ELSE ending.told[s]]
<1>1. Told(T) = [ending EXCEPT !.told = f]
  BY DEF Told
<1>2. f \in [Side -> Nat]
  OBVIOUS
<1>3. \A s \in Side :
        f[s] = IF s \in T THEN ending.told[s] + 1 ELSE ending.told[s]
  OBVIOUS
<1> HIDE DEF f
<1>4. [ending EXCEPT !.told = f] =
        [torn |-> ending.torn, over |-> ending.over, told |-> f,
         score |-> ending.score]
  BY DEF Kept
<1> QED
  BY <1>1, <1>2, <1>3, <1>4

(* The first state: every tower stands and nothing has been told of.       *)
LEMMA InitKept == FightInit => FightInv
<1> SUFFICES ASSUME FightInit
             PROVE  FightInv
  OBVIOUS
<1>1. Kept
  BY DEF FightInit, Kept
<1>2. Count
  BY DEF FightInit, Count, Side
<1>3. EndIsSettled
  BY DEF FightInit, EndIsSettled
<1> QED
  BY <1>1, <1>2, <1>3 DEF FightInv

(* A phase that fells the towers in T tells of each of them once.          *)
LEMMA PhaseKept ==
  ASSUME Kept, Count, NEW T \in SUBSET towers,
         stage \notin {"open", "over"}, stage' # "open",
         towers' = towers \ T, ending' = Told(T)
  PROVE  FightInv'
<1>1. PICK t \in [Side -> Nat] :
        /\ ending' = [torn |-> ending.torn, over |-> ending.over,
                      told |-> t, score |-> ending.score]
        /\ \A s \in Side :
             t[s] = IF s \in T THEN ending.told[s] + 1 ELSE ending.told[s]
  <2>1. T \in SUBSET Side /\ ending.told \in [Side -> Nat]
    BY DEF Kept, Count
  <2> QED
    BY <2>1, ToldAdds
<1>2. ending.torn = {} /\ ending.over = "no"
  BY DEF Kept
<1>3. ending'.torn = {} /\ ending'.over = "no" /\ ending'.told = t
      /\ ending'.score = ending.score
  BY <1>1, <1>2
<1>4. Kept'
  BY <1>1, <1>3 DEF Kept
<1>5. Count'
  BY <1>1, <1>2, <1>3 DEF Count, Kept
<1>6. EndIsSettled'
  BY <1>3 DEF EndIsSettled
<1> QED
  BY <1>4, <1>5, <1>6 DEF FightInv

(* A record of what the end keeps with another set of towers torn down.    *)
LEMMA Untorn ==
  ASSUME NEW r, NEW a, NEW b, NEW c, NEW d, NEW n,
         r = [torn |-> a, over |-> b, told |-> c, score |-> d]
  PROVE  [r EXCEPT !.torn = n] =
           [torn |-> n, over |-> b, told |-> c, score |-> d]
  OBVIOUS

LEMMA Fields ==
  ASSUME NEW r, NEW a, NEW b, NEW c, NEW d,
         r = [torn |-> a, over |-> b, told |-> c, score |-> d]
  PROVE  /\ r = [torn |-> r.torn, over |-> r.over, told |-> r.told,
                 score |-> r.score]
         /\ r.torn = a /\ r.over = b /\ r.told = c /\ r.score = d
  OBVIOUS

(* The tick opens: the towers torn down are told of too.                   *)
LEMMA OpenKept == Kept /\ Count /\ Open => FightInv'
<1> SUFFICES ASSUME Kept, Count, Open
             PROVE  FightInv'
  OBVIOUS
<1>1. PICK T \in SUBSET Shells :
        /\ towers' = towers \ T
        /\ ending' = [Told(ending.torn \cup T) EXCEPT !.torn = {}]
  BY DEF Open, Hits
<1> DEFINE D == ending.torn \cup T
<1>2. /\ stage = "open" /\ stage' = "blue" /\ T \subseteq towers
      /\ D \in SUBSET Side
  BY <1>1 DEF Open, Shells, Kept
<1>3. PICK t \in [Side -> Nat] :
        /\ Told(D) = [torn |-> ending.torn, over |-> ending.over,
                      told |-> t, score |-> ending.score]
        /\ \A s \in Side :
             t[s] = IF s \in D THEN ending.told[s] + 1 ELSE ending.told[s]
  <2>1. ending.told \in [Side -> Nat]
    BY DEF Count
  <2> HIDE DEF D
  <2> QED
    BY <1>2, <2>1, ToldAdds
<1>4. \A s \in Side : t[s] = IF s \in towers \ T THEN 0 ELSE 1
  BY <1>2, <1>3 DEF Count, Kept
<1>5. ending' = [torn |-> {}, over |-> ending.over, told |-> t,
                 score |-> ending.score]
  <2>1. ending' = [Told(D) EXCEPT !.torn = {}]
    BY <1>1
  <2> HIDE DEF D
  <2> QED
    BY <1>3, <2>1, Untorn
<1>6. /\ ending' = [torn |-> ending'.torn, over |-> ending'.over,
                    told |-> ending'.told, score |-> ending'.score]
      /\ ending'.torn = {} /\ ending'.over = ending.over /\ ending'.told = t
  BY <1>5, Fields
<1>7. ending.over = "no"
  BY <1>2 DEF Kept
<1> HIDE DEF D
<1>8. Kept'
  BY <1>1, <1>2, <1>6, <1>7 DEF Kept
<1>9. Count'
  BY <1>1, <1>4, <1>6 DEF Count
<1>10. EndIsSettled'
  BY <1>6, <1>7 DEF EndIsSettled
<1> QED
  BY <1>8, <1>9, <1>10 DEF FightInv

(* The parts of a tick that fell no tower.                                 *)
LEMMA QuietKept ==
  ASSUME Kept, Count, stage \notin {"open", "over"}, stage' # "open",
         UNCHANGED <<towers, ending>>
  PROVE  FightInv'
<1>1. Kept'
  BY DEF Kept
<1>2. Count'
  BY DEF Count
<1>3. EndIsSettled'
  BY DEF EndIsSettled, Kept
<1> QED
  BY <1>1, <1>2, <1>3 DEF FightInv

(* The tick closes: what is torn down waits to be told of.                 *)
LEMMA CloseKept == Kept /\ Count /\ Close => FightInv'
<1> SUFFICES ASSUME Kept, Count, Close
             PROVE  FightInv'
  OBVIOUS
<1>1. /\ stage' = "open" /\ ending.torn = {} /\ ending.over = "no"
      /\ TornDown \subseteq towers /\ towers' = towers \ TornDown
  BY DEF Close, Kept, TearDown, TornDown
<1>2. ending' = [torn |-> TornDown, over |-> ending.over,
                 told |-> ending.told, score |-> ending.score]
  BY DEF Close, Kept
<1> HIDE DEF TornDown
<1>3. Kept'
  BY <1>1, <1>2 DEF Kept
<1>4. Count'
  BY <1>1, <1>2 DEF Count, Kept
<1>5. EndIsSettled'
  BY <1>1, <1>2 DEF EndIsSettled
<1> QED
  BY <1>3, <1>4, <1>5 DEF FightInv

(* The fight ends by itself: nothing is torn down, one side scores none.   *)
LEMMA FinishKept == Kept /\ Count /\ Finish => FightInv'
<1> SUFFICES ASSUME Kept, Count, Finish
             PROVE  FightInv'
  OBVIOUS
<1>1. /\ stage' = "over" /\ ending.torn = {} /\ TornDown = {}
      /\ towers' = towers
  BY DEF Finish, Kept, TearDown, ReadyToFinish
<1>2. ending' = [torn |-> {}, over |-> "natural_module_drain",
                 told |-> ending.told, score |-> Score]
  BY <1>1 DEF Finish, Kept
<1>3. \E s \in Side : Score[s] = 0
  BY OneSideScores DEF Finish, ReadyToFinish, NaturallyFinished
<1>4. Kept'
  BY <1>1, <1>2 DEF Kept
<1>5. Count'
  BY <1>1, <1>2 DEF Count
<1>6. EndIsSettled'
  <2>1. \A s \in Side : ending'.told[s] = IF s \in towers' THEN 0 ELSE 1
    BY <1>1, <1>2 DEF Count
  <2>2. \E s \in Side : ending'.score[s] = 0
    BY <1>2, <1>3
  <2> QED
    BY <2>1, <2>2 DEF EndIsSettled
<1> QED
  BY <1>4, <1>5, <1>6 DEF FightInv

(* The time limit: what was torn down on its last tick is never told of.   *)
LEMMA StopKept == Kept /\ Count /\ StopFight => FightInv'
<1> SUFFICES ASSUME Kept, Count, StopFight
             PROVE  FightInv'
  OBVIOUS
<1>1. stage' = "over" /\ towers' = towers
  BY DEF StopFight
<1>2. ending' = [torn |-> ending.torn, over |-> "forced_time_limit",
                 told |-> ending.told, score |-> Score]
  BY DEF StopFight, Kept
<1> HIDE DEF Score
<1>3. Kept'
  BY <1>1, <1>2 DEF Kept
<1>4. Count'
  BY <1>1, <1>2 DEF Count
<1>5. EndIsSettled'
  BY <1>2 DEF EndIsSettled
<1> QED
  BY <1>3, <1>4, <1>5 DEF FightInv

(* Every step of the fight keeps what its end keeps.                       *)
LEMMA StepKept == FightInv /\ [FightNext]_fightVars => FightInv'
<1> SUFFICES ASSUME FightInv, [FightNext]_fightVars
             PROVE  FightInv'
  OBVIOUS
<1>0. Kept /\ Count
  BY DEF FightInv
<1>1. CASE Open
  BY <1>0, <1>1, OpenKept
<1>2. ASSUME NEW s \in Side, Update(s)
      PROVE  FightInv'
  <2>1. PICK T \in SUBSET Shells : towers' = towers \ T /\ ending' = Told(T)
    BY <1>2 DEF Update, Hits
  <2>2. /\ stage \notin {"open", "over"} /\ stage' # "open"
        /\ T \in SUBSET towers
    BY <1>2, <2>1 DEF Update, Shells
  <2> QED
    BY <1>0, <2>1, <2>2, PhaseKept
<1>3. CASE StepProjectiles
  <2>1. PICK T \in SUBSET Shells : towers' = towers \ T /\ ending' = Told(T)
    BY <1>3 DEF StepProjectiles, Hits
  <2>2. /\ stage \notin {"open", "over"} /\ stage' # "open"
        /\ T \in SUBSET towers
    BY <1>3, <2>1 DEF StepProjectiles, Shells
  <2> QED
    BY <1>0, <2>1, <2>2, PhaseKept
<1>4. CASE StepSupportUnits
  <2>1. /\ stage \notin {"open", "over"} /\ stage' # "open"
        /\ UNCHANGED <<towers, ending>>
    BY <1>4 DEF StepSupportUnits
  <2> QED
    BY <1>0, <2>1, QuietKept
<1>5. CASE StepDead
  <2>1. /\ stage \notin {"open", "over"} /\ stage' # "open"
        /\ UNCHANGED <<towers, ending>>
    BY <1>5 DEF StepDead
  <2> QED
    BY <1>0, <2>1, QuietKept
<1>6. CASE Close
  BY <1>0, <1>6, CloseKept
<1>7. CASE Finish
  BY <1>0, <1>7, FinishKept
<1>8. CASE StopFight
  BY <1>0, <1>8, StopKept
<1>9. CASE UNCHANGED fightVars
  <2>1. stage' = stage /\ towers' = towers /\ ending' = ending
    BY <1>9 DEF fightVars, fieldVars
  <2> QED
    BY <2>1 DEF FightInv, Kept, Count, EndIsSettled
<1> QED
  BY <1>1, <1>2, <1>3, <1>4, <1>5, <1>6, <1>7, <1>8, <1>9
     DEF FightNext, Tick, Over

(* A fight that ends by itself is settled: every tower that is down has    *)
(* been told of exactly once, and at most one side has anything to score.  *)
THEOREM Settled == FightSpec => []EndIsSettled
<1>1. FightInit => FightInv
  BY InitKept
<1>2. FightInv /\ [FightNext]_fightVars => FightInv'
  BY StepKept
<1>3. FightInv => EndIsSettled
  BY DEF FightInv
<1> QED
  BY <1>1, <1>2, <1>3, PTL DEF FightSpec

(* Neither rebirths nor summons let a fight end by itself while both sides *)
(* stand: what ReadyToFinish asks leaves a side nobody that Standing sees. *)
THEOREM OneSideLeft == FightSpec => NotWhileBothStand
<1>1. ASSUME [FightNext]_fightVars
      PROVE  [Finish => \E s \in Side : ~ Standing(s)]_fightVars
  <2> SUFFICES ASSUME Finish
               PROVE  \E s \in Side : ~ Standing(s)
    OBVIOUS
  <2>1. DOMAIN appearing = {}
    BY DEF Finish, ReadyToFinish, NaturallyFinished
  <2>2. PICK s \in Side : Of(s, alive \cup rising) = {}
    BY DEF Finish, ReadyToFinish, NaturallyFinished, CoreStepFinished
  <2>3. Of(s, alive) = {} /\ ~ AppearingOn(s)
    BY <2>1, <2>2 DEF Of, AppearingOn
  <2>4. ~ RebirthingOn(s)
    BY <2>2 DEF Of, RebirthingOn
  <2> QED
    BY <2>3, <2>4 DEF Standing
<1> QED
  BY <1>1, PTL DEF FightSpec, NotWhileBothStand

-----------------------------------------------------------------------------
(* The rebirths of a tick: a walk over the tasks.                          *)

Task == [unit : Unit, time : 0..(CostTicks - 1)]
Work == [living : SUBSET Unit, kept : Seq(Task), skip : BOOLEAN]

UnitsIn(list) == {list[i].unit : i \in DOMAIN list}
Distinct(list) ==
  \A i, j \in DOMAIN list : list[i].unit = list[j].unit => i = j

(* One update of a task keeps the types of what is worked on.              *)
LEMMA StepIsWork ==
  ASSUME NEW w \in Work, NEW t \in Task
  PROVE  StepTask(w, t) \in Work
PROOF
  <1>1. CostTicks \in Nat
    BY FightAssumption DEF FightAssumption
  <1>2. t.time + 1 < CostTicks => [t EXCEPT !.time = @ + 1] \in Task
    BY <1>1 DEF Task
  <1>3. t.unit \in Unit /\ \A u \in Task : Append(w.kept, u) \in Seq(Task)
    BY DEF Task, Work
  <1> QED
    BY <1>2, <1>3 DEF StepTask, Work

(* The tasks are stepped one after the other, from the first to the last.  *)
Steps(g, living, all) ==
  /\ g \in [0..Len(all) -> Work]
  /\ g[0] = [living |-> living, kept |-> <<>>, skip |-> FALSE]
  /\ \A n \in 1..Len(all) : g[n] = StepTask(g[n - 1], all[n])

LEMMA RebirthsAreSteps ==
  ASSUME NEW living \in SUBSET Unit, NEW all \in Seq(Task)
  PROVE  \E g : /\ Steps(g, living, all)
                /\ StepRebirths(living, all) = g[Len(all)]
PROOF
  <1> DEFINE N == Len(all)
             S == 1..N
             base == [living |-> living, kept |-> <<>>, skip |-> FALSE]
             next == [s \in SUBSET S |-> Max(s)]
             G == [p \in S \X Work |-> StepTask(p[2], all[p[1]])]
             Eq(h) == h = [s \in SUBSET S |->
                             IF s = {} THEN base
                             ELSE StepTask(h[s \ {Max(s)}], all[Max(s)])]
  <1>0. IsFiniteSet(S)
    BY FS_Interval
  <1>1. N \in Nat /\ S = DOMAIN all /\ \A i \in S : all[i] \in Task
    OBVIOUS
  <1>2. base \in Work
    BY DEF Work
  <1>3. \A s \in SUBSET S : s # {} =>
          Max(s) \in s /\ \A y \in s : Max(s) >= y
    <2> HIDE DEF N
    <2>1. S \in SUBSET Int
      OBVIOUS
    <2> HIDE DEF S
    <2> QED
      BY <1>0, <2>1, MaxExists DEF Max
  <1>4. G \in [S \X Work -> Work]
    BY <1>1, StepIsWork
  <1>5. \A s \in SUBSET S : s # {} => next[s] \in s
    BY <1>3
  <1>6. PICK h : Unfolds(h, S, Work, next, base, G)
    <2> HIDE DEF S, next, base, G
    <2> QED
      BY <1>0, <1>2, <1>4, <1>5, FoldExists
  <1>7. \A s \in SUBSET S : s # {} =>
          /\ h[s] = StepTask(h[s \ {Max(s)}], all[Max(s)])
          /\ h[s \ {Max(s)}] \in Work
    <2> SUFFICES ASSUME NEW s \in SUBSET S, s # {}
                 PROVE  /\ h[s] = StepTask(h[s \ {Max(s)}], all[Max(s)])
                        /\ h[s \ {Max(s)}] \in Work
      OBVIOUS
    <2>1. next[s] = Max(s) /\ Max(s) \in S /\ s \ {Max(s)} \in SUBSET S
      BY <1>3
    <2>2. h[s \ {Max(s)}] \in Work
      BY <1>6, <2>1 DEF Unfolds
    <2>3. h[s] = G[<<Max(s), h[s \ {Max(s)}]>>]
      BY <1>6, <2>1 DEF Unfolds
    <2>4. \A i \in S, w \in Work : G[<<i, w>>] = StepTask(w, all[i])
      OBVIOUS
    <2> HIDE DEF G, S
    <2> QED
      BY <2>1, <2>2, <2>3, <2>4
  <1>8. h \in [SUBSET S -> Work] /\ h[{}] = base
    BY <1>6 DEF Unfolds
  <1>9. Eq(h)
    BY <1>7, <1>8
  <1>10. ASSUME NEW g, Eq(g) PROVE g = h
    <2> DEFINE P == {s \in SUBSET S : g[s] = h[s]}
    <2>1. {} \in P
      BY <1>9, <1>10
    <2>2. ASSUME NEW s \in SUBSET S, s # {}, \A x \in s : s \ {x} \in P
          PROVE  s \in P
      <3>1. Max(s) \in s
        BY <1>3, <2>2
      <3>2. g[s \ {Max(s)}] = h[s \ {Max(s)}]
        BY <2>2, <3>1
      <3> HIDE DEF S, base
      <3> QED
        BY <1>9, <1>10, <2>2, <3>2
    <2>3. SUBSET S \subseteq P
      <3> HIDE DEF P, S
      <3> QED
        BY <1>0, <2>1, <2>2, SubsetInduction
    <2> HIDE DEF S, base
    <2> QED
      BY <1>9, <1>10, <2>3
  <1>11. StepRebirths(living, all) = h[S]
    <2>1. h = CHOOSE g : Eq(g)
      <3> HIDE DEF Eq
      <3> QED
        BY <1>9, <1>10
    <2> HIDE DEF Max, StepTask
    <2> QED
      BY <1>1, <2>1 DEF StepRebirths, FoldLeft, MapThenFoldSet
  <1> DEFINE g == [n \in 0..N |-> h[1..n]]
  <1>12. Steps(g, living, all)
    <2>1. \A n \in 0..N : 1..n \in SUBSET S
      BY <1>1
    <2>2. ASSUME NEW n \in 1..N PROVE g[n] = StepTask(g[n - 1], all[n])
      <3>1. n \in 1..n /\ 1..n \in SUBSET S /\ n - 1 \in 0..N
        BY <1>1, <2>1
      <3>2. Max(1..n) = n
        <4>1. Max(1..n) \in 1..n /\ Max(1..n) >= n
          BY <1>3, <3>1
        <4> QED
          BY <4>1
      <3>3. (1..n) \ {n} = 1..(n - 1)
        OBVIOUS
      <3>4. h[1..n] = StepTask(h[1..(n - 1)], all[n])
        BY <1>7, <3>1, <3>2, <3>3
      <3> QED
        BY <3>1, <3>4
    <2>3. g[0] = base
      <3>1. 1..0 = {}
        OBVIOUS
      <3> QED
        BY <1>1, <1>8, <3>1
    <2>4. g \in [0..N -> Work]
      BY <1>8, <2>1
    <2> HIDE DEF g, base
    <2> QED
      BY <2>2, <2>3, <2>4 DEF Steps, base
  <1> QED
    BY <1>1, <1>11, <1>12

(* Where the walk is after n tasks: what it has let stand, and what it     *)
(* keeps, are n different units', none both.                               *)
First(all, n) == {all[i].unit : i \in 1..n}
Walked(w, living, all, n) ==
  /\ w \in Work
  /\ living \subseteq w.living
  /\ w.living \subseteq living \cup First(all, n)
  /\ UnitsIn(w.kept) \subseteq First(all, n) \ w.living
  /\ Distinct(w.kept)
  /\ First(all, n) \cap Reassembled \subseteq w.living \cup UnitsIn(w.kept)

LEMMA AppendUnit ==
  ASSUME NEW list \in Seq(Task), NEW t \in Task
  PROVE  /\ UnitsIn(Append(list, t)) = UnitsIn(list) \cup {t.unit}
         /\ Distinct(list) /\ t.unit \notin UnitsIn(list)
              => Distinct(Append(list, t))
PROOF
  <1> DEFINE new == Append(list, t)
             N == Len(list)
  <1>1. /\ N \in Nat /\ DOMAIN list = 1..N /\ DOMAIN new = 1..(N + 1)
        /\ \A i \in 1..N : new[i] = list[i]
        /\ new[N + 1] = t
    OBVIOUS
  <1> HIDE DEF new, N
  <1>2. UnitsIn(new) = UnitsIn(list) \cup {t.unit}
    <2>1. 1..(N + 1) = 1..N \cup {N + 1}
      BY <1>1
    <2> QED
      BY <1>1, <2>1 DEF UnitsIn
  <1>3. ASSUME Distinct(list), t.unit \notin UnitsIn(list)
        PROVE  Distinct(new)
    <2>1. \A i \in 1..(N + 1) : i \in 1..N \/ i = N + 1
      BY <1>1
    <2> QED
      BY <1>1, <1>3, <2>1 DEF Distinct, UnitsIn
  <1> QED
    BY <1>2, <1>3 DEF new

LEMMA StepWalks ==
  ASSUME NEW living \in SUBSET Unit, NEW all \in Seq(Task), Distinct(all),
         UnitsIn(all) \cap living = {},
         NEW n \in 1..Len(all), NEW w, Walked(w, living, all, n - 1)
  PROVE  Walked(StepTask(w, all[n]), living, all, n)
PROOF
  <1> DEFINE t == all[n]
             v == StepTask(w, t)
  <1>1. t \in Task /\ w \in Work /\ v \in Work
    <2>1. t \in Task
      OBVIOUS
    <2> QED
      BY <2>1, StepIsWork DEF Walked
  <1>2. First(all, n) = First(all, n - 1) \cup {t.unit}
    <2>1. 1..n = 1..(n - 1) \cup {n}
      OBVIOUS
    <2> QED
      BY <2>1 DEF First
  <1>3. t.unit \notin First(all, n - 1) /\ t.unit \notin living
    <2>1. \A i \in 1..(n - 1) : i \in DOMAIN all /\ i # n
      OBVIOUS
    <2> QED
      BY <2>1 DEF First, Distinct, UnitsIn
  <1>4. t.unit \notin w.living /\ t.unit \notin UnitsIn(w.kept)
    BY <1>3 DEF Walked
  <1>5. ASSUME NEW k \in Task, k.unit = t.unit,
               v.living = w.living, v.kept = Append(w.kept, k)
        PROVE  Walked(v, living, all, n)
    <2>1. w.kept \in Seq(Task)
      BY <1>1 DEF Work
    <2>2. /\ UnitsIn(v.kept) = UnitsIn(w.kept) \cup {t.unit}
          /\ Distinct(v.kept)
      BY <1>4, <1>5, <2>1, AppendUnit DEF Walked
    <2> HIDE DEF t, v
    <2> QED
      BY <1>1, <1>2, <1>4, <1>5, <2>2 DEF Walked
  <1>6. ASSUME v.kept = w.kept,
               \/ v.living = w.living /\ t.unit \notin Reassembled
               \/ v.living = w.living \cup {t.unit}
        PROVE  Walked(v, living, all, n)
    <2> HIDE DEF t, v
    <2> QED
      BY <1>1, <1>2, <1>4, <1>6 DEF Walked
  <1>7. \/ \E k \in Task : /\ k.unit = t.unit /\ v.living = w.living
                           /\ v.kept = Append(w.kept, k)
        \/ /\ v.kept = w.kept
           /\ \/ v.living = w.living /\ t.unit \notin Reassembled
              \/ v.living = w.living \cup {t.unit}
    <2>1. CASE w.skip
      <3>1. v.living = w.living /\ v.kept = Append(w.kept, t)
        BY <1>1, <2>1 DEF StepTask, Work
      <3> QED
        BY <1>1, <3>1
    <2>2. CASE ~ w.skip /\ ~ ReadyRebirth(t, w.living)
      BY <1>1, <2>2 DEF StepTask, Work, ReadyRebirth
    <2>3. CASE /\ ~ w.skip /\ ReadyRebirth(t, w.living)
               /\ t.time + 1 < CostTicks
      <3> DEFINE k == [t EXCEPT !.time = @ + 1]
      <3>1. v.living = w.living /\ v.kept = Append(w.kept, k)
        BY <1>1, <2>3 DEF StepTask, Work
      <3>2. CostTicks \in Nat
        BY FightAssumption DEF FightAssumption
      <3>3. k \in Task /\ k.unit = t.unit
        BY <1>1, <2>3, <3>2 DEF Task
      <3> QED
        BY <3>1, <3>3
    <2>4. CASE /\ ~ w.skip /\ ReadyRebirth(t, w.living)
               /\ ~ (t.time + 1 < CostTicks)
      BY <1>1, <2>4 DEF StepTask, Work
    <2> QED
      BY <2>1, <2>2, <2>3, <2>4
  <1> QED
    BY <1>5, <1>6, <1>7

LEMMA RebirthsWalk ==
  ASSUME NEW living \in SUBSET Unit, NEW all \in Seq(Task), Distinct(all),
         UnitsIn(all) \cap living = {}
  PROVE  Walked(StepRebirths(living, all), living, all, Len(all))
PROOF
  <1>1. PICK g : /\ Steps(g, living, all)
                 /\ StepRebirths(living, all) = g[Len(all)]
    BY RebirthsAreSteps
  <1> DEFINE S == {n \in Nat : n <= Len(all) =>
                                 Walked(g[n], living, all, n)}
  <1>2. 0 \in S
    <2>1. g[0] = [living |-> living, kept |-> <<>>, skip |-> FALSE]
      BY <1>1 DEF Steps
    <2>2. g[0] \in Work /\ g[0].living = living /\ g[0].kept = <<>>
      BY <2>1 DEF Work
    <2>3. First(all, 0) = {} /\ UnitsIn(<<>>) = {} /\ Distinct(<<>>)
      BY DEF First, UnitsIn, Distinct
    <2> QED
      BY <2>2, <2>3 DEF Walked
  <1>3. ASSUME NEW n \in Nat, n \in S PROVE n + 1 \in S
    <2> SUFFICES ASSUME n + 1 <= Len(all)
                 PROVE  Walked(g[n + 1], living, all, n + 1)
      OBVIOUS
    <2>1. n + 1 \in 1..Len(all) /\ (n + 1) - 1 = n /\ n <= Len(all)
      OBVIOUS
    <2>2. Walked(g[n], living, all, n)
      BY <1>3, <2>1
    <2>3. g[n + 1] = StepTask(g[n], all[n + 1])
      BY <1>1, <2>1 DEF Steps
    <2> QED
      BY <2>1, <2>2, <2>3, StepWalks
  <1>4. Nat \subseteq S
    <2> HIDE DEF S
    <2> QED
      BY <1>2, <1>3, SetInduction
  <1> QED
    BY <1>1, <1>4

-----------------------------------------------------------------------------
(* Where every unit is: it lives, is still to be made or to join, or is    *)
(* dead; of the dead, those that wait for their dead effect, those with a  *)
(* rebirth left and those with a task.                                     *)
Bodies ==
  /\ alive \subseteq Unit
  /\ unmade \cup DOMAIN appearing \subseteq Unit \ Deployed
  /\ alive \cap (unmade \cup DOMAIN appearing) = {}
  /\ unmade \cap DOMAIN appearing = {}
  /\ exits \cup left \subseteq Reassembled \cup Pilot
  /\ exits \cap alive = {}
  /\ rising \subseteq Reassembled \ alive

Rebirths ==
  /\ tasks \in Seq(Task)
  /\ Distinct(tasks)
  /\ UnitsIn(tasks) \subseteq Reassembled \cup Pilot
  /\ UnitsIn(tasks) \cap (alive \cup exits \cup left) = {}
  /\ stage # "over" => rising = UnitsIn(tasks) \cap Reassembled

Counters ==
  /\ stage \in Stages
  /\ \A u \in DOMAIN appearing : appearing[u] \in 1..AppearTicks
  /\ registered \subseteq Important
  /\ shots \in 0..MaxShots /\ calls \in 0..MaxCalls

UnitInv == Bodies /\ Rebirths /\ Counters

LEMMA UnitInit == FightInit => UnitInv
PROOF
  <1> SUFFICES ASSUME FightInit PROVE UnitInv
    OBVIOUS
  <1> USE FightAssumption DEF FightAssumption
  <1>1. Bodies
    BY DEF FightInit, Bodies
  <1>2. Rebirths
    BY DEF FightInit, Rebirths, Distinct, UnitsIn
  <1>3. Counters
    BY DEF FightInit, Counters, Stages
  <1> QED
    BY <1>1, <1>2, <1>3 DEF UnitInv

(* Those that begin a rebirth: the dead of an order, each once.            *)
LEMMA StartsAreTasks ==
  ASSUME NEW D \in SUBSET Unit, NEW order \in SetToSeqs(D)
  PROVE  /\ Starts(order) \in Seq(Task)
         /\ Distinct(Starts(order))
         /\ UnitsIn(Starts(order)) \subseteq D
         /\ {Starts(order)[i].unit : i \in DOMAIN Starts(order)}
              = UnitsIn(Starts(order))
PROOF
  <1>1. Cardinality(D) \in Nat
    BY FightAssumption, FS_Subset, FS_CardinalityType DEF FightAssumption
  <1> DEFINE N == Cardinality(D)
  <1>2. /\ order \in [1..N -> D]
        /\ \A i, j \in 1..N : i # j => order[i] # order[j]
    BY DEF SetToSeqs
  <1>3. 0 \in 0..(CostTicks - 1)
    BY FightAssumption DEF FightAssumption
  <1>4. /\ DOMAIN Starts(order) = 1..N
        /\ \A i \in 1..N : /\ Starts(order)[i] \in Task
                           /\ Starts(order)[i].unit = order[i]
        /\ Starts(order) \in [1..N -> Task]
    BY <1>2, <1>3 DEF Starts, Task
  <1> HIDE DEF N
  <1>5. Starts(order) \in Seq(Task)
    BY <1>1, <1>4 DEF N
  <1> QED
    BY <1>2, <1>4, <1>5 DEF UnitsIn, Distinct

(* Two lists of tasks of different units, one behind the other.            *)
LEMMA TasksBehind ==
  ASSUME NEW a \in Seq(Task), NEW b \in Seq(Task), Distinct(a), Distinct(b),
         UnitsIn(a) \cap UnitsIn(b) = {}
  PROVE  /\ a \o b \in Seq(Task) /\ Distinct(a \o b)
         /\ UnitsIn(a \o b) = UnitsIn(a) \cup UnitsIn(b)
PROOF
  <1> DEFINE M == Len(a)
             N == Len(b)
             c == a \o b
  <1>1. /\ M \in Nat /\ N \in Nat /\ c \in Seq(Task)
        /\ DOMAIN a = 1..M /\ DOMAIN b = 1..N /\ DOMAIN c = 1..(M + N)
        /\ \A i \in 1..M : c[i] = a[i]
        /\ \A i \in 1..N : c[M + i] = b[i]
        /\ \A i \in 1..(M + N) : i > M => c[i] = b[i - M]
    OBVIOUS
  <1> HIDE DEF M, N, c
  <1>2. \A i \in 1..(M + N) : i \in 1..M \/ (i > M /\ i - M \in 1..N)
    BY <1>1
  <1>3. \A i \in 1..N : M + i \in 1..(M + N)
    BY <1>1
  <1>4. \A i \in 1..M : i \in 1..(M + N)
    BY <1>1
  <1>5. UnitsIn(c) = UnitsIn(a) \cup UnitsIn(b)
    <2>1. ASSUME NEW i \in 1..(M + N)
          PROVE  c[i].unit \in UnitsIn(a) \cup UnitsIn(b)
      BY <1>1, <1>2 DEF UnitsIn
    <2>2. UnitsIn(a) \subseteq UnitsIn(c)
      BY <1>1, <1>4 DEF UnitsIn
    <2>3. UnitsIn(b) \subseteq UnitsIn(c)
      <3>1. \A i \in 1..N : c[M + i].unit = b[i].unit
        BY <1>1
      <3>2. \A i \in 1..N : b[i].unit \in {c[j].unit : j \in 1..(M + N)}
        BY <1>3, <3>1
      <3> QED
        BY <1>1, <3>2 DEF UnitsIn
    <2>4. UnitsIn(c) = {c[i].unit : i \in 1..(M + N)}
      BY <1>1 DEF UnitsIn
    <2> QED
      BY <2>1, <2>2, <2>3, <2>4
  <1>6. Distinct(c)
    <2> SUFFICES ASSUME NEW i \in 1..(M + N), NEW j \in 1..(M + N),
                        c[i].unit = c[j].unit
                 PROVE  i = j
      BY <1>1 DEF Distinct
    <2>1. CASE i > M /\ j > M
      <3>1. i - M \in 1..N /\ j - M \in 1..N
        BY <1>1, <2>1
      <3>2. b[i - M].unit = b[j - M].unit
        BY <1>1, <2>1
      <3>3. i - M = j - M
        BY <1>1, <3>1, <3>2 DEF Distinct
      <3> QED
        BY <1>1, <3>3
    <2>2. CASE i \in 1..M /\ j \in 1..M
      BY <1>1, <2>2 DEF Distinct
    <2>3. ASSUME NEW k \in 1..M, NEW l \in 1..(M + N), l > M
          PROVE  c[k].unit # c[l].unit
      <3>1. l - M \in 1..N
        BY <1>1, <2>3
      <3>2. c[k].unit \in UnitsIn(a) /\ c[l].unit \in UnitsIn(b)
        BY <1>1, <2>3, <3>1 DEF UnitsIn
      <3> QED
        BY <3>2
    <2> QED
      BY <1>2, <2>1, <2>2, <2>3
  <1> QED
    BY <1>1, <1>5, <1>6 DEF c

-----------------------------------------------------------------------------
(* The deaths of a phase: those in K were there, and wait for their effect *)
(* where they have one.                                                    *)
LEMMA HitsKeep ==
  ASSUME UnitInv, stage # "over", stage' # "over",
         NEW there, there \subseteq alive \cup DOMAIN appearing,
         alive \subseteq there,
         NEW K \in SUBSET there, NEW T, Hits(there, K, T),
         unmade' = unmade, DOMAIN appearing' = DOMAIN appearing \ there,
         UNCHANGED rebirthVars
  PROVE  Bodies' /\ Rebirths'
PROOF
  <1> USE FightAssumption DEF FightAssumption, UnitInv, rebirthVars
  <1>1. /\ alive' = there \ K
        /\ exits' = exits \cup (K \cap (Reassembled \cup Pilot))
        /\ rising' = rising /\ tasks' = tasks /\ left' = left
    BY DEF Hits, Queued
  <1>2. Bodies'
    BY <1>1 DEF Bodies
  <1>3. Rebirths'
    BY <1>1 DEF Bodies, Rebirths
  <1> QED
    BY <1>2, <1>3

LEMMA OpenBodies ==
  ASSUME UnitInv, Open
  PROVE  UnitInv'
PROOF
  <1> USE FightAssumption DEF FightAssumption, UnitInv
  <1>1. PICK K \in SUBSET (alive \cup Joined), T \in SUBSET Shells :
          Hits(alive \cup Joined, K, T)
    BY DEF Open
  <1>2. /\ DOMAIN appearing' = DOMAIN appearing \ Joined
        /\ \A u \in DOMAIN appearing' : appearing'[u] = appearing[u] - 1
        /\ unmade' = unmade /\ UNCHANGED rebirthVars
        /\ stage = "open" /\ stage' = "blue"
    BY DEF Open
  <1>3. DOMAIN appearing' = DOMAIN appearing \ (alive \cup Joined)
    BY <1>2 DEF Bodies
  <1>4. Bodies' /\ Rebirths'
    <2>1. Joined \subseteq DOMAIN appearing
      BY DEF Joined
    <2> DEFINE there == alive \cup Joined
    <2>2. /\ there \subseteq alive \cup DOMAIN appearing
          /\ alive \subseteq there
          /\ K \in SUBSET there /\ Hits(there, K, T)
          /\ DOMAIN appearing' = DOMAIN appearing \ there
      BY <1>1, <1>3, <2>1
    <2>3. stage # "over" /\ stage' # "over"
      BY <1>2
    <2> HIDE DEF there
    <2> QED
      BY <1>2, <2>2, <2>3, HitsKeep
  <1>5. Counters'
    <2>1. ASSUME NEW u \in DOMAIN appearing'
          PROVE  appearing'[u] \in 1..AppearTicks
      <3>1. u \in DOMAIN appearing /\ appearing[u] # 1
        BY <1>2, <2>1 DEF Joined
      <3>2. appearing[u] \in 1..AppearTicks
        BY <3>1 DEF Counters
      <3> QED
        BY <1>2, <2>1, <3>1, <3>2
    <2>2. shots' \in 0..MaxShots /\ calls' \in 0..MaxCalls
      <3>1. PICK n \in 0..1 : n <= calls /\ calls' = calls - n
        BY DEF Open
      <3>2. shots' = shots \/ (shots < MaxShots /\ shots' = shots + 1)
        BY DEF Open
      <3> QED
        BY <3>1, <3>2 DEF Counters
    <2> QED
      BY <1>2, <2>1, <2>2 DEF Counters, rebirthVars, Stages
  <1> QED
    BY <1>4, <1>5

LEMMA UpdateBodies ==
  ASSUME UnitInv, NEW s \in Side, Update(s)
  PROVE  UnitInv'
PROOF
  <1> USE FightAssumption DEF FightAssumption, UnitInv
  <1>1. PICK K \in SUBSET alive, T \in SUBSET Shells : Hits(alive, K, T)
    BY DEF Update
  <1>2. /\ appearing' = appearing /\ unmade' = unmade
        /\ UNCHANGED rebirthVars /\ calls' = calls
        /\ stage \in {"blue", "red"} /\ stage' \in {"red", "shots"}
    BY DEF Update
  <1>3. DOMAIN appearing' = DOMAIN appearing \ alive
    BY <1>2 DEF Bodies
  <1>4. Bodies' /\ Rebirths'
    BY <1>1, <1>2, <1>3, HitsKeep
  <1>5. shots' \in 0..MaxShots
    BY DEF Update, Counters
  <1>6. Counters'
    BY <1>2, <1>5 DEF Counters, rebirthVars, Stages
  <1> QED
    BY <1>4, <1>6

LEMMA ShotsBodies ==
  ASSUME UnitInv, StepProjectiles
  PROVE  UnitInv'
PROOF
  <1> USE FightAssumption DEF FightAssumption, UnitInv
  <1>1. PICK K \in SUBSET alive, T \in SUBSET Shells : Hits(alive, K, T)
    BY DEF StepProjectiles
  <1>2. /\ appearing' = appearing /\ unmade' = unmade
        /\ UNCHANGED rebirthVars /\ calls' = calls
        /\ stage = "shots" /\ stage' = "support"
    BY DEF StepProjectiles, supportVars
  <1>3. DOMAIN appearing' = DOMAIN appearing \ alive
    BY <1>2 DEF Bodies
  <1>4. Bodies' /\ Rebirths'
    BY <1>1, <1>2, <1>3, HitsKeep
  <1>5. shots' \in 0..MaxShots
    BY DEF StepProjectiles, Counters
  <1>6. Counters'
    BY <1>2, <1>5 DEF Counters, rebirthVars, Stages
  <1> QED
    BY <1>4, <1>6

LEMMA SupportBodies ==
  ASSUME UnitInv, StepSupportUnits
  PROVE  UnitInv'
PROOF
  <1> USE FightAssumption DEF FightAssumption, UnitInv
  <1>1. PICK made \in SUBSET unmade, now \in SUBSET unmade :
          /\ now \subseteq made
          /\ unmade' = unmade \ made
          /\ alive' = alive \cup now
          /\ appearing' =
               [u \in DOMAIN appearing \cup (made \ now) |->
                  IF u \in made THEN AppearTicks ELSE appearing[u]]
    BY DEF StepSupportUnits
  <1>2. /\ exits' = exits /\ shots' = shots /\ calls' = calls
        /\ rising' = rising /\ tasks' = tasks /\ left' = left
        /\ registered' = registered
        /\ stage = "support" /\ stage' = "dead"
    BY DEF StepSupportUnits, rebirthVars
  <1>3. DOMAIN appearing' = DOMAIN appearing \cup (made \ now)
    BY <1>1
  <1>4. Bodies'
    BY <1>1, <1>2, <1>3 DEF Bodies
  <1>5. now \cap (exits \cup left) = {} /\ now \cap UnitsIn(tasks) = {}
    BY <1>1 DEF Bodies, Rebirths
  <1>6. Rebirths'
    BY <1>1, <1>2, <1>5 DEF Rebirths
  <1>7. \A u \in DOMAIN appearing' : appearing'[u] \in 1..AppearTicks
    BY <1>1, <1>3 DEF Counters
  <1>8. Counters'
    BY <1>2, <1>7 DEF Counters, Stages
  <1> QED
    BY <1>4, <1>6, <1>8

LEMMA DeadBodies ==
  ASSUME UnitInv, StepDead
  PROVE  UnitInv'
PROOF
  <1> USE FightAssumption DEF FightAssumption, UnitInv
  <1>0. PICK blast \in SUBSET alive, born \in SUBSET unmade :
          \E order \in SetToSeqs(Queued(blast) \cap left),
             spared \in SUBSET born :
            Dying(blast, born, order, spared)
    BY DEF StepDead
  <1>1. PICK order \in SetToSeqs(Queued(blast) \cap left),
             spared \in SUBSET born :
          Dying(blast, born, order, spared)
    BY <1>0
  <1> DEFINE begun == Starts(order)
             units == {begun[i].unit : i \in DOMAIN begun}
             living == (alive \ blast) \cup born
             all == tasks \o begun
             w == StepRebirths(living, all)
             up == (rising \cup (units \cap Reassembled)) \ w.living
             gone == Gone(w.living, up)
             doomed == {u \in w.living \ spared : Team[u] \in Bereft(gone)}
  <1>2. /\ tasks' = w.kept /\ rising' = up /\ left' = left \ units
        /\ unmade' = unmade \ born /\ registered' = registered \ gone
        /\ alive' = w.living \ doomed /\ doomed \subseteq w.living
        /\ exits' = doomed \cap (Reassembled \cup Pilot)
    BY <1>1 DEF Dying
  <1>3. /\ appearing' = appearing /\ shots' = shots /\ calls' = calls
        /\ stage = "dead" /\ stage' = "close"
    BY DEF StepDead, supportVars
  <1>4. /\ begun \in Seq(Task) /\ Distinct(begun)
        /\ UnitsIn(begun) \subseteq Queued(blast) \cap left
        /\ units = UnitsIn(begun)
    <2>1. Queued(blast) \cap left \in SUBSET Unit
      BY DEF Bodies
    <2> QED
      BY <2>1, StartsAreTasks
  <1> HIDE DEF begun, units, doomed, gone
  <1>5. /\ all \in Seq(Task) /\ Distinct(all)
        /\ UnitsIn(all) = UnitsIn(tasks) \cup units
    <2>1. UnitsIn(tasks) \cap UnitsIn(begun) = {}
      BY <1>4 DEF Rebirths
    <2> QED
      BY <1>4, <2>1, TasksBehind DEF Rebirths
  <1>6. living \in SUBSET Unit /\ UnitsIn(all) \cap living = {}
    BY <1>4, <1>5 DEF Bodies, Rebirths, Queued
  <1> HIDE DEF all, living
  <1>7. Walked(w, living, all, Len(all))
    BY <1>5, <1>6, RebirthsWalk
  <1>8. First(all, Len(all)) = UnitsIn(all)
    BY <1>5 DEF First, UnitsIn
  <1>9. /\ w.living \subseteq living \cup UnitsIn(all)
        /\ w.kept \in Seq(Task) /\ Distinct(w.kept)
        /\ UnitsIn(w.kept) \subseteq UnitsIn(all) \ w.living
        /\ UnitsIn(all) \cap Reassembled \subseteq
             w.living \cup UnitsIn(w.kept)
    BY <1>7, <1>8 DEF Walked, Work
  <1> HIDE DEF w
  <1>10. /\ units \subseteq (Reassembled \cup Pilot) \cap left
         /\ UnitsIn(all) \subseteq Reassembled \cup Pilot
    BY <1>4, <1>5 DEF Bodies, Rebirths
  <1>11. Bodies'
    BY <1>2, <1>3, <1>9, <1>10 DEF Bodies, living
  <1>12. Rebirths'
    BY <1>2, <1>3, <1>5, <1>9, <1>10 DEF Rebirths
  <1>13. Counters'
    BY <1>2, <1>3 DEF Counters, Stages
  <1> QED
    BY <1>11, <1>12, <1>13

(* Between the parts that hit, nobody comes or goes.                       *)
LEMMA CloseBodies ==
  ASSUME UnitInv, Close \/ Finish \/ StopFight
  PROVE  UnitInv'
PROOF
  <1> USE DEF UnitInv
  <1>1. /\ UNCHANGED <<alive, unmade, exits, calls, rising, left, registered,
                       appearing>>
        /\ stage' \in Stages
        /\ shots' \in {0, shots}
        /\ \/ tasks' = tasks /\ stage # "over"
           \/ tasks' = <<>> /\ stage' = "over"
    BY DEF Close, Finish, StopFight, rebirthVars, supportVars, Stages
  <1>2. Bodies'
    BY <1>1 DEF Bodies
  <1>3. Rebirths'
    <2>1. CASE tasks' = tasks /\ stage # "over"
      BY <1>1, <2>1 DEF Rebirths
    <2>2. CASE tasks' = <<>> /\ stage' = "over"
      BY <2>2 DEF Rebirths, Distinct, UnitsIn
    <2> QED
      BY <1>1, <2>1, <2>2
  <1>4. Counters'
    <2>1. shots' \in 0..MaxShots
      BY <1>1, FightAssumption DEF Counters, FightAssumption
    <2> QED
      BY <1>1, <2>1 DEF Counters
  <1> QED
    BY <1>2, <1>3, <1>4

LEMMA UnitStep == UnitInv /\ [FightNext]_fightVars => UnitInv'
PROOF
  <1> SUFFICES ASSUME UnitInv, [FightNext]_fightVars
               PROVE  UnitInv'
    OBVIOUS
  <1>1. CASE UNCHANGED fightVars
    BY <1>1 DEF fightVars, fieldVars, rebirthVars, supportVars, UnitInv,
                Bodies, Rebirths, Counters
  <1>2. CASE Tick \/ StopFight
    BY <1>2, OpenBodies, UpdateBodies, ShotsBodies, SupportBodies, DeadBodies,
       CloseBodies DEF Tick
  <1> QED
    BY <1>1, <1>2 DEF FightNext, Over

(* The types, and no unit is in two places: it lives, rises, is to join or *)
(* is still to be made, whatever dies and stands up again in one tick.     *)
THEOREM FightTypeCorrect == FightSpec => []FightTypeOK
PROOF
  <1>1. FightInit => UnitInv /\ FightInv
    BY UnitInit, InitKept
  <1>2. UnitInv /\ FightInv /\ [FightNext]_fightVars => UnitInv' /\ FightInv'
    BY UnitStep, StepKept
  <1>3. UnitInv /\ FightInv => FightTypeOK
    <2> SUFFICES ASSUME UnitInv, FightInv
                 PROVE  FightTypeOK
      OBVIOUS
    <2> USE FightAssumption DEF FightAssumption, UnitInv
    <2>1. alive \cup rising \cup unmade \cup DOMAIN appearing \subseteq Unit
      BY DEF Bodies
    <2>2. \A A, B \in {alive, rising, unmade, DOMAIN appearing} :
            A = B \/ A \cap B = {}
      <3>1. /\ alive \cap rising = {} /\ alive \cap unmade = {}
            /\ alive \cap DOMAIN appearing = {}
            /\ rising \cap unmade = {} /\ rising \cap DOMAIN appearing = {}
            /\ unmade \cap DOMAIN appearing = {}
        BY DEF Bodies
      <3> QED
        BY <3>1
    <2>3. \A i \in DOMAIN tasks : tasks[i].time \in 0..(CostTicks - 1)
      <3>1. \A i \in DOMAIN tasks : tasks[i] \in Task
        BY DEF Rebirths
      <3> QED
        BY <3>1 DEF Task
    <2>4. left \subseteq Reassembled \cup Pilot
      BY DEF Bodies
    <2>5. ending.told \in [Side -> 0..1]
      BY DEF FightInv, Count
    <2> QED
      BY <2>1, <2>2, <2>3, <2>4, <2>5 DEF FightTypeOK, Counters
  <1> QED
    BY <1>1, <1>2, <1>3, PTL DEF FightSpec

(* Every unit marked rising has the one task that will stand it up again,  *)
(* whatever dies, fails or is taken out before it in the list.             *)
THEOREM RisersAreTasked == FightSpec => []RisingIsTasked
PROOF
  <1>1. UnitInv => RisingIsTasked
    <2> SUFFICES ASSUME UnitInv, stage # "over", NEW u \in Reassembled
                 PROVE  Cardinality({i \in DOMAIN tasks : tasks[i].unit = u}) =
                          IF u \in rising THEN 1 ELSE 0
      BY DEF RisingIsTasked
    <2> DEFINE I == {i \in DOMAIN tasks : tasks[i].unit = u}
    <2>1. CASE u \in rising
      <3>1. PICK i \in DOMAIN tasks : tasks[i].unit = u
        BY <2>1 DEF UnitInv, Rebirths, UnitsIn
      <3>2. I = {i}
        BY <3>1 DEF UnitInv, Rebirths, Distinct
      <3> QED
        BY <2>1, <3>2, FS_Singleton
    <2>2. CASE u \notin rising
      <3>1. I = {}
        BY <2>2 DEF UnitInv, Rebirths, UnitsIn
      <3> QED
        BY <2>2, <3>1, FS_EmptySet
    <2> QED
      BY <2>1, <2>2
  <1> QED
    BY <1>1, UnitInit, UnitStep, PTL DEF FightSpec
=============================================================================
