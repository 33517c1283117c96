-------------------------- MODULE DeploymentProofs ---------------------------
(***************************************************************************)
(* A position keeps its type, the seams between rounds hold and the next   *)
(* round is the predicted one, whatever the tables, the board, the offers  *)
(* and the fights.                                                         *)
(***************************************************************************)
EXTENDS Deployment, FoldFacts, SequenceTheorems

-----------------------------------------------------------------------------
(* Sums.                                                                   *)

(* h adds up f over every subset of S, one element at a time.              *)
AddsUp(h, f, S) ==
  /\ h \in [SUBSET S -> Int]
  /\ h[{}] = 0
  /\ \A s \in SUBSET S : s # {} =>
       h[s] = f[CHOOSE x \in s : TRUE] + h[s \ {CHOOSE x \in s : TRUE}]

LEMMA SumUnfolds ==
  ASSUME NEW S, IsFiniteSet(S), NEW f \in [S -> Int]
  PROVE  \E h : AddsUp(h, f, S) /\ SumFunction(f) = h[S]
PROOF
  <1> DEFINE next == [s \in SUBSET S |-> CHOOSE x \in s : TRUE]
             G == [p \in S \X Int |-> f[p[1]] + p[2]]
             Eq(h) == h = [s \in SUBSET S |->
                             IF s = {} THEN 0
                             ELSE f[CHOOSE x \in s : TRUE]
                                  + h[s \ {CHOOSE x \in s : TRUE}]]
  <1>2. G \in [S \X Int -> Int]
    OBVIOUS
  <1>3. \A s \in SUBSET S : s # {} => next[s] \in s
    OBVIOUS
  <1>4. PICK h : Unfolds(h, S, Int, next, 0, G)
    <2> DEFINE T == Int
               base == 0
    <2>1. base \in T /\ G \in [S \X T -> T]
      BY <1>2
    <2>2. \E h : Unfolds(h, S, T, next, base, G)
      <3> HIDE DEF next, G, T, base
      <3> QED
        BY <1>3, <2>1, FoldExists
    <2> QED
      BY <2>2
  <1>5. AddsUp(h, f, S)
    <2>1. ASSUME NEW s \in SUBSET S, s # {}
          PROVE  h[s] = f[CHOOSE x \in s : TRUE]
                        + h[s \ {CHOOSE x \in s : TRUE}]
      <3>1. h[s] = G[<<next[s], h[s \ {next[s]}]>>]
        BY <1>4, <2>1 DEF Unfolds
      <3>2. next[s] \in S /\ h[s \ {next[s]}] \in Int
        BY <1>3, <1>4, <2>1 DEF Unfolds
      <3>3. next[s] = CHOOSE x \in s : TRUE
        OBVIOUS
      <3>4. \A k \in S, n \in Int : G[<<k, n>>] = f[k] + n
        OBVIOUS
      <3> HIDE DEF next, G
      <3> QED
        BY <3>1, <3>2, <3>3, <3>4
    <2> QED
      BY <1>4, <2>1 DEF Unfolds, AddsUp
  <1>6. Eq(h)
    BY <1>5 DEF AddsUp
  <1>7. ASSUME NEW g, Eq(g) PROVE g = h
    <2> DEFINE P == {s \in SUBSET S : g[s] = h[s]}
    <2>1. {} \in P
      BY <1>6, <1>7
    <2>2. ASSUME NEW s \in SUBSET S, s # {},
                 \A x \in s : s \ {x} \in P
          PROVE  s \in P
      BY <1>6, <1>7, <2>2
    <2>3. SUBSET S \subseteq P
      <3> HIDE DEF P
      <3> QED
        BY <2>1, <2>2, SubsetInduction
    <2> QED
      BY <1>6, <1>7, <2>3
  <1>8. SumFunction(f) = h[S]
    <2> HIDE DEF Eq
    <2>1. (CHOOSE g : Eq(g)) = h
      BY <1>6, <1>7
    <2>2. DOMAIN f = S
      OBVIOUS
    <2> QED
      BY <2>1, <2>2 DEF SumFunction, SumFunctionOnSet, FoldFunctionOnSet,
                        MapThenFoldSet, Eq
  <1> QED
    BY <1>5, <1>8

(* The order does not matter.                                              *)
LEMMA AnyOrder ==
  ASSUME NEW S, IsFiniteSet(S), NEW f \in [S -> Int], NEW h, AddsUp(h, f, S)
  PROVE  \A s \in SUBSET S : \A x \in s : h[s] = f[x] + h[s \ {x}]
PROOF
  <1> DEFINE P == {s \in SUBSET S : \A x \in s : h[s] = f[x] + h[s \ {x}]}
  <1>1. {} \in P
    OBVIOUS
  <1>2. ASSUME NEW s \in SUBSET S, s # {}, \A x \in s : s \ {x} \in P
        PROVE  s \in P
    <2> SUFFICES ASSUME NEW x \in s PROVE h[s] = f[x] + h[s \ {x}]
      OBVIOUS
    <2> DEFINE c == CHOOSE y \in s : TRUE
    <2>1. c \in s /\ h[s] = f[c] + h[s \ {c}]
      BY <1>2 DEF AddsUp
    <2> HIDE DEF c
    <2>2. CASE x = c
      BY <2>1, <2>2
    <2>3. CASE x # c
      <3>1. h[s \ {c}] = f[x] + h[(s \ {c}) \ {x}]
        BY <1>2, <2>1, <2>3
      <3>2. h[s \ {x}] = f[c] + h[(s \ {x}) \ {c}]
        BY <1>2, <2>1, <2>3
      <3>3. (s \ {c}) \ {x} = (s \ {x}) \ {c}
        OBVIOUS
      <3>4. f[x] \in Int /\ f[c] \in Int /\ h[(s \ {x}) \ {c}] \in Int
        BY <2>1 DEF AddsUp
      <3> DEFINE m == h[(s \ {x}) \ {c}]
      <3>5. /\ h[s] = f[c] + h[s \ {c}]
            /\ h[s \ {c}] = f[x] + m
            /\ h[s \ {x}] = f[c] + m
            /\ f[x] \in Int /\ f[c] \in Int /\ m \in Int
        BY <2>1, <3>1, <3>2, <3>3, <3>4
      <3> HIDE DEF m
      <3> QED
        BY <3>5
    <2> QED
      BY <2>2, <2>3
  <1>3. SUBSET S \subseteq P
    <2> HIDE DEF P
    <2> QED
      BY <1>1, <1>2, SubsetInduction
  <1> QED
    BY <1>3

LEMMA SumInt ==
  ASSUME NEW S, IsFiniteSet(S), NEW f \in [S -> Int]
  PROVE  SumFunction(f) \in Int
PROOF
  <1>1. PICK h : AddsUp(h, f, S) /\ SumFunction(f) = h[S]
    BY SumUnfolds
  <1>2. S \in SUBSET S /\ h \in [SUBSET S -> Int]
    BY <1>1 DEF AddsUp
  <1> QED
    BY <1>1, <1>2

(* A sum of naturals is no less than that of any part of them.             *)
LEMMA SumEmbeds ==
  ASSUME NEW S, IsFiniteSet(S), NEW f \in [S -> Nat],
         NEW R, IsFiniteSet(R), NEW g \in [R -> Nat],
         NEW b \in [R -> S], \A r, q \in R : b[r] = b[q] => r = q,
         \A r \in R : g[r] = f[b[r]]
  PROVE  0 <= SumFunction(g) /\ SumFunction(g) <= SumFunction(f)
PROOF
  <1>0. f \in [S -> Int] /\ g \in [R -> Int]
    OBVIOUS
  <1>1. PICK h : AddsUp(h, f, S) /\ SumFunction(f) = h[S]
    BY <1>0, SumUnfolds
  <1>2. PICK k : AddsUp(k, g, R) /\ SumFunction(g) = k[R]
    BY <1>0, SumUnfolds
  <1>3. ASSUME NEW s \in SUBSET S, NEW x \in s
        PROVE  h[s] = f[x] + h[s \ {x}]
    <2>1. AddsUp(h, f, S)
      BY <1>1
    <2> QED
      BY <1>0, <2>1, AnyOrder
  <1>4. ASSUME NEW s \in SUBSET R, NEW x \in s
        PROVE  k[s] = g[x] + k[s \ {x}]
    <2>1. AddsUp(k, g, R)
      BY <1>2
    <2> QED
      BY <1>0, <2>1, AnyOrder
  <1> DEFINE Image(s) == {b[x] : x \in s}
             P == {s \in SUBSET R : k[s] = h[Image(s)]}
             Q == {s \in SUBSET S :
                     \A t \in SUBSET s : 0 <= h[t] /\ h[t] <= h[s]}
  <1>5. {} \in P
    <2>1. k[{}] = 0 /\ h[{}] = 0
      BY <1>1, <1>2 DEF AddsUp
    <2>2. Image({}) = {} /\ {} \in SUBSET R
      OBVIOUS
    <2> HIDE DEF Image
    <2> QED
      BY <2>1, <2>2
  <1>6. ASSUME NEW s \in SUBSET R, s # {}, \A x \in s : s \ {x} \in P
        PROVE  s \in P
    <2>1. PICK x \in s : TRUE
      BY <1>6
    <2>2. Image(s \ {x}) = Image(s) \ {b[x]} /\ b[x] \in Image(s)
      OBVIOUS
    <2>3. Image(s) \in SUBSET S
      OBVIOUS
    <2>4. k[s \ {x}] = h[Image(s \ {x})]
      BY <1>6
    <2>5. k[s] = g[x] + k[s \ {x}] /\ g[x] = f[b[x]]
      BY <1>4, <2>1
    <2>6. k[s] = h[Image(s)]
      <3> HIDE DEF Image
      <3>1. h[Image(s)] = f[b[x]] + h[Image(s) \ {b[x]}]
        BY <1>3, <2>2, <2>3
      <3> QED
        BY <2>2, <2>4, <2>5, <3>1
    <2> QED
      BY <2>6
  <1>7. SUBSET R \subseteq P
    <2> HIDE DEF P
    <2> QED
      BY <1>5, <1>6, SubsetInduction
  <1>8. {} \in Q
    <2>1. h[{}] = 0 /\ SUBSET {} = {{}}
      BY <1>1 DEF AddsUp
    <2> QED
      BY <2>1
  <1>9. ASSUME NEW s \in SUBSET S, s # {}, \A x \in s : s \ {x} \in Q
        PROVE  s \in Q
    <2> SUFFICES ASSUME NEW t \in SUBSET s
                 PROVE  0 <= h[t] /\ h[t] <= h[s]
      OBVIOUS
    <2>0. h[s] \in Int /\ h[t] \in Int
      BY <1>1 DEF AddsUp
    <2>1. CASE t = s
      <3>1. PICK x \in s : TRUE
        BY <1>9
      <3>2. h[s] = f[x] + h[s \ {x}] /\ s \ {x} \in Q
        BY <1>3, <1>9
      <3>3. 0 <= h[s \ {x}] /\ h[s \ {x}] \in Int
        BY <1>1, <3>2 DEF AddsUp
      <3>4. f[x] \in Nat
        OBVIOUS
      <3> QED
        BY <2>0, <2>1, <3>2, <3>3, <3>4
    <2>2. CASE t # s
      <3>1. PICK x \in s : x \notin t
        BY <2>2
      <3>2. h[s] = f[x] + h[s \ {x}] /\ s \ {x} \in Q
        BY <1>3, <1>9
      <3>3. 0 <= h[t] /\ h[t] <= h[s \ {x}] /\ h[s \ {x}] \in Int
        BY <1>1, <3>1, <3>2 DEF AddsUp
      <3>4. f[x] \in Nat
        OBVIOUS
      <3> QED
        BY <2>0, <3>2, <3>3, <3>4
    <2> QED
      BY <2>1, <2>2
  <1>10. SUBSET S \subseteq Q
    <2> HIDE DEF Q
    <2> QED
      BY <1>8, <1>9, SubsetInduction
  <1>11. k[R] = h[Image(R)] /\ Image(R) \in SUBSET S
    BY <1>7
  <1> QED
    BY <1>1, <1>2, <1>10, <1>11

LEMMA SumNat ==
  ASSUME NEW S, IsFiniteSet(S), NEW f \in [S -> Nat]
  PROVE  SumFunction(f) \in Nat
PROOF
  <1> DEFINE b == [x \in S |-> x]
  <1>1. b \in [S -> S]
    OBVIOUS
  <1>2. 0 <= SumFunction(f)
    BY <1>1, SumEmbeds
  <1>3. SumFunction(f) \in Int
    BY SumInt
  <1> QED
    BY <1>2, <1>3

-----------------------------------------------------------------------------
(* Positions.                                                              *)

(* Functions on a part of D.                                               *)
Partial(D, R) == UNION {[d -> R] : d \in SUBSET D}

Device == DOMAIN DeviceRow
Contraptions == [type : Device, spot : Nat]

Positions ==
  [supply : Int, core : Int, officers : Seq(Officer), shop : SUBSET Unit,
   plans : SUBSET DOMAIN BlueprintRow, active : SUBSET DOMAIN TowerRow,
   towers : [{1, 2} -> Nat], stock : Partial(Item, Nat \ {0}),
   panel : Partial(Nat, Slots), techs : SUBSET DOMAIN TechRow,
   units : Partial(Nat, Formations), devices : Partial(Nat, Contraptions),
   constructions : Partial(DOMAIN Standing, Main),
   next : [unit : Nat, device : Nat],
   left : [buys : Int, unlocks : Int, devices : Int]]

(* Where the colliding contraptions of a position stand.                   *)
Blocked(p) ==
  {p.devices[k].spot :
     k \in {d \in DOMAIN p.devices : DeviceRow[p.devices[d].type].collides}}

(* A formation overlaps nothing, as Alone has it.                          *)
Clear(p, i) ==
  /\ \A k \in DOMAIN p.units : p.units[k].spot = p.units[i].spot => k = i
  /\ p.units[i].spot \notin Range(p.constructions) \cup Blocked(p)

SlotsOf(p) == 1 + Modifier(p, "slots")

(* What every position a decision or a round makes keeps, whether a side   *)
(* can afford it or not.                                                   *)
Good ==
  {p \in Positions :
     /\ DOMAIN p.units \subseteq 0..p.next.unit - 1
     /\ DOMAIN p.devices \subseteq 0..p.next.device - 1
     /\ IsFiniteSet(DOMAIN p.panel)
     /\ \A i \in DOMAIN p.units :
          /\ Clear(p, i)
          /\ Len(p.units[i].worn) <= SlotsOf(p)
          /\ p.units[i].travelling => Flank(p.units[i].spot)}

(* The inductive invariant.                                                *)
DeployInv ==
  /\ pos \in Good
  /\ Affordable(pos)
  /\ round \in 0..MaxRound /\ taken \in Nat /\ answered \in BOOLEAN
  /\ team \in Seq(Unit)
  /\ round = 0 => pos.active = {}

-----------------------------------------------------------------------------
(* How a position may become another.                                      *)

(* What arrives: nothing that was there is touched, a formation gets an    *)
(* index that was never given, and comes neither travelling nor moved.     *)
Arrives(f) == ~ f.travelling /\ ~ f.redeployed /\ f.exp = "none"
Fresh(s) == ~ s.used /\ s.order = -1

Adds(p, q) ==
  /\ q.supply = p.supply /\ q.core = p.core /\ q.officers = p.officers
  /\ q.plans = p.plans /\ q.active = p.active /\ q.towers = p.towers
  /\ q.techs = p.techs /\ q.devices = p.devices
  /\ q.constructions = p.constructions /\ q.left = p.left
  /\ q.next.device = p.next.device /\ p.next.unit <= q.next.unit
  /\ p.shop \subseteq q.shop
  /\ DOMAIN p.units \subseteq DOMAIN q.units
  /\ \A i \in DOMAIN p.units : q.units[i] = p.units[i]
  /\ \A i \in DOMAIN q.units \ DOMAIN p.units :
       i >= p.next.unit /\ Arrives(q.units[i])
  /\ DOMAIN p.panel \subseteq DOMAIN q.panel
  /\ \A i \in DOMAIN p.panel : q.panel[i] = p.panel[i]
  /\ \A i \in DOMAIN q.panel \ DOMAIN p.panel : Fresh(q.panel[i])

(* What no step may undo, blueprints apart: the parts of SeamsHold.        *)
Grows(p, q) ==
  /\ p.next.unit <= q.next.unit /\ p.next.device <= q.next.device
  /\ \A i \in DOMAIN q.units :
       \/ i >= p.next.unit
       \/ /\ i \in DOMAIN p.units
          /\ q.units[i].type = p.units[i].type
          /\ q.units[i].value = p.units[i].value
          /\ q.units[i].level >= p.units[i].level
  /\ p.techs \subseteq q.techs /\ p.shop \subseteq q.shop
  /\ \A w \in {1, 2} : q.towers[w] >= p.towers[w]
  /\ DOMAIN p.panel \subseteq DOMAIN q.panel
  /\ \A i \in DOMAIN p.panel : q.panel[i].id = p.panel[i].id
  /\ IsRestriction(q.constructions, p.constructions)

(* A position as a round opens with it.                                    *)
Opened(p) ==
  /\ p.left = Allowances(p) /\ p.active = {}
  /\ \A i \in DOMAIN p.panel : Fresh(p.panel[i])
  /\ \A i \in DOMAIN p.units :
       ~ p.units[i].redeployed /\ ~ p.units[i].travelling

-----------------------------------------------------------------------------
(* Partial functions.                                                      *)

LEMMA PartialElim ==
  ASSUME NEW D, NEW R, NEW f \in Partial(D, R)
  PROVE  /\ DOMAIN f \subseteq D
         /\ f \in [DOMAIN f -> R]
         /\ f = [x \in DOMAIN f |-> f[x]]
         /\ \A x \in DOMAIN f : f[x] \in R
PROOF
  <1>1. PICK d \in SUBSET D : f \in [d -> R]
    BY DEF Partial
  <1> QED
    BY <1>1

LEMMA PartialIntro ==
  ASSUME NEW D, NEW R, NEW d \in SUBSET D, NEW f \in [d -> R]
  PROVE  f \in Partial(D, R)
PROOF
  BY DEF Partial

LEMMA PartialEmpty ==
  ASSUME NEW D, NEW R
  PROVE  <<>> \in Partial(D, R) /\ DOMAIN <<>> = {}
PROOF
  <1>1. <<>> \in [{} -> R] /\ {} \in SUBSET D
    OBVIOUS
  <1> QED
    BY <1>1, PartialIntro

LEMMA PartialWith ==
  ASSUME NEW D, NEW R, NEW f \in Partial(D, R), NEW i \in D, NEW x \in R
  PROVE  /\ With(f, i, x) \in Partial(D, R)
         /\ DOMAIN With(f, i, x) = DOMAIN f \cup {i}
         /\ With(f, i, x)[i] = x
         /\ \A k \in DOMAIN f \ {i} : With(f, i, x)[k] = f[k]
PROOF
  <1>1. /\ DOMAIN f \subseteq D
        /\ \A k \in DOMAIN f : f[k] \in R
    BY PartialElim
  <1> DEFINE d == DOMAIN f \cup {i}
  <1>2. d \in SUBSET D /\ With(f, i, x) \in [d -> R]
    BY <1>1 DEF With
  <1>3. With(f, i, x) \in Partial(D, R)
    <2> HIDE DEF d
    <2> QED
      BY <1>2, PartialIntro
  <1> QED
    BY <1>3 DEF With

LEMMA PartialRestrict ==
  ASSUME NEW D, NEW R, NEW f \in Partial(D, R), NEW d \in SUBSET DOMAIN f
  PROVE  /\ Restrict(f, d) \in Partial(D, R)
         /\ DOMAIN Restrict(f, d) = d
         /\ \A k \in d : Restrict(f, d)[k] = f[k]
PROOF
  <1>1. /\ DOMAIN f \subseteq D
        /\ \A k \in DOMAIN f : f[k] \in R
    BY PartialElim
  <1>2. d \in SUBSET D /\ Restrict(f, d) \in [d -> R]
    BY <1>1 DEF Restrict
  <1>3. Restrict(f, d) \in Partial(D, R)
    BY <1>2, PartialIntro
  <1> QED
    BY <1>3 DEF Restrict

-----------------------------------------------------------------------------
(* What the pieces of a position keep.                                     *)

(* The slots officers give are no fewer than none.                         *)
LEMMA SlotsNat ==
  ASSUME NEW l \in Seq(Officer)
  PROVE  SumFunction([k \in DOMAIN l |-> OfficerRow[l[k]]["slots"]]) \in Nat
PROOF
  <1> DEFINE f == [k \in DOMAIN l |-> OfficerRow[l[k]]["slots"]]
             S == DOMAIN l
  <1>1. S = 1..Len(l) /\ IsFiniteSet(S)
    BY FS_Interval
  <1>2. f \in [S -> Nat]
    BY <1>1, TablesAssumption DEF TablesAssumption, OfficerRows, Officer
  <1> HIDE DEF f, S
  <1>3. SumFunction(f) \in Nat
    BY <1>1, <1>2, SumNat
  <1> QED
    BY <1>3 DEF f

LEMMA PlaceGood ==
  ASSUME NEW p \in Good, NEW f \in Formations, f.spot \notin Occupied(p, -1),
         f.worn = <<>>, f.travelling => Flank(f.spot)
  PROVE  /\ Place(p, f) \in Good
         /\ Arrives(f) => Adds(p, Place(p, f))
PROOF
  <1> DEFINE n == p.next.unit
             q == Place(p, f)
  <1>1. p \in Positions
    BY DEF Good
  <1>2. /\ n \in Nat /\ p.next \in [unit : Nat, device : Nat]
        /\ p.units \in Partial(Nat, Formations)
        /\ p.officers \in Seq(Officer)
    BY <1>1 DEF Positions
  <1>3. With(p.units, n, f) \in Partial(Nat, Formations)
    BY <1>2, PartialWith
  <1>4. /\ q \in Positions
        /\ q.units = With(p.units, n, f)
        /\ q.next = [unit |-> n + 1, device |-> p.next.device]
        /\ q.supply = p.supply /\ q.core = p.core
        /\ q.officers = p.officers
        /\ q.plans = p.plans /\ q.active = p.active /\ q.towers = p.towers
        /\ q.techs = p.techs /\ q.devices = p.devices
        /\ q.constructions = p.constructions /\ q.left = p.left
        /\ q.shop = p.shop /\ q.panel = p.panel
    <2> DEFINE W == With(p.units, n, f)
               nx == [unit |-> n + 1, device |-> p.next.device]
    <2>1. /\ [p.next EXCEPT !.unit = @ + 1] = nx
          /\ nx \in [unit : Nat, device : Nat]
      BY <1>2
    <2>2. q = [p EXCEPT !.units = W, !.next = nx]
      BY <1>1, <2>1 DEF Place, NextUnit, Positions
    <2>3. W \in Partial(Nat, Formations)
      BY <1>3
    <2> HIDE DEF q, W, nx
    <2>4. q \in Positions
      BY <1>1, <2>1, <2>2, <2>3 DEF Positions
    <2>5. q.units = W /\ q.next = nx
      BY <1>1, <2>2 DEF Positions
    <2> QED
      BY <1>1, <2>2, <2>4, <2>5 DEF Positions, W, nx
  <1>5. DOMAIN p.units \subseteq 0..n - 1
    BY DEF Good
  <1>6. /\ DOMAIN q.units = DOMAIN p.units \cup {n}
        /\ q.units[n] = f /\ n \notin DOMAIN p.units
        /\ \A k \in DOMAIN p.units : q.units[k] = p.units[k]
    <2>1. n \notin DOMAIN p.units
      BY <1>2, <1>5
    <2>2. q.units = With(p.units, n, f)
      BY <1>4
    <2> HIDE DEF q, n
    <2> QED
      BY <2>1, <2>2 DEF With
  <1>7. SlotsOf(q) = SlotsOf(p) /\ SlotsOf(p) \in Nat
    BY <1>2, <1>4, SlotsNat DEF SlotsOf, Modifier
  <1>8. Blocked(q) = Blocked(p)
    BY <1>4 DEF Blocked
  <1>9. /\ \A k \in DOMAIN p.units : p.units[k].spot # f.spot
        /\ f.spot \notin Range(p.constructions) \cup Blocked(p)
    BY <1>5 DEF Occupied, Blocked
  <1> HIDE DEF q
  <1>10. \A i \in DOMAIN q.units : Clear(q, i)
    BY <1>4, <1>6, <1>8, <1>9 DEF Clear, Good
  <1>11. q \in Good
    BY <1>2, <1>4, <1>5, <1>6, <1>7, <1>10 DEF Good
  <1>12. Arrives(f) => Adds(p, q)
    BY <1>2, <1>4, <1>5, <1>6 DEF Adds
  <1> QED
    BY <1>11, <1>12 DEF q

LEMMA AddsItself ==
  ASSUME NEW p \in Positions
  PROVE  Adds(p, p)
PROOF
  BY DEF Adds, Positions

LEMMA AddsThen ==
  ASSUME NEW p \in Positions, NEW q \in Positions, NEW r \in Positions,
         Adds(p, q), Adds(q, r)
  PROVE  Adds(p, r)
PROOF
  <1>0. \A x \in Positions : x.next \in [unit : Nat, device : Nat]
    BY DEF Positions
  <1>1. /\ p.next.unit \in Int /\ q.next.unit \in Int
        /\ r.next.unit \in Int
    BY <1>0
  <1>2. r.units \in Partial(Nat, Formations)
    BY DEF Positions
  <1>3. DOMAIN r.units \subseteq Nat
    BY <1>2, PartialElim
  <1>4. \A i \in DOMAIN r.units \ DOMAIN p.units :
          i >= p.next.unit /\ Arrives(r.units[i])
    <2> SUFFICES ASSUME NEW i \in DOMAIN r.units \ DOMAIN p.units
                 PROVE  i >= p.next.unit /\ Arrives(r.units[i])
      OBVIOUS
    <2>1. CASE i \in DOMAIN q.units
      BY <2>1 DEF Adds
    <2>2. CASE i \notin DOMAIN q.units
      BY <1>1, <1>3, <2>2 DEF Adds
    <2> QED
      BY <2>1, <2>2
  <1>5. \A i \in DOMAIN r.panel \ DOMAIN p.panel : Fresh(r.panel[i])
    BY DEF Adds
  <1>6. p.next.unit <= r.next.unit
    BY <1>1 DEF Adds
  <1> QED
    BY <1>4, <1>5, <1>6 DEF Adds

LEMMA MinIs ==
  ASSUME NEW S \in SUBSET Int, IsFiniteSet(S), S # {}
  PROVE  Min(S) \in S /\ \A y \in S : Min(S) <= y
PROOF
  <1> DEFINE N == {-x : x \in S}
  <1>1. IsFiniteSet(N)
    <2> DEFINE g == [x \in S |-> -x]
    <2>1. g \in Surjection(S, N)
      BY DEF Surjection
    <2> HIDE DEF g, N
    <2> QED
      BY <2>1, FS_Surjection
  <1>2. N \in SUBSET Int /\ N # {}
    OBVIOUS
  <1>3. \E x \in N : \A y \in N : x >= y
    <2> HIDE DEF N
    <2> QED
      BY <1>1, <1>2, MaxExists
  <1>4. \E x \in S : \A y \in S : x <= y
    <2>1. PICK x \in N : \A y \in N : x >= y
      BY <1>3
    <2>2. PICK z \in S : x = -z
      OBVIOUS
    <2>3. \A y \in S : -z >= -y
      BY <2>1, <2>2
    <2>4. \A y \in S : z <= y
      BY <2>3
    <2> QED
      BY <2>4
  <1> QED
    BY <1>4 DEF Min

Sources == {"joined", "delivered", "legacy"}
Levels == Nat \ {0}

(* The landing takes a spot that is free.                                  *)
LEMMA LandGood ==
  ASSUME NEW p \in Good, NEW u \in Unit, NEW level \in Levels,
         NEW source \in Sources,
         NEW q \in Land(p, u, level, source)
  PROVE  q \in Good /\ Adds(p, q)
PROOF
  <1> DEFINE f == Formation(u, Min(Room(p)), level, UnitRow[u].price, source)
  <1>1. Room(p) # {} /\ q = Place(p, f)
    BY DEF Land
  <1>2. Room(p) \in SUBSET Int /\ IsFiniteSet(Room(p))
    <2>0. MainSpots \in Nat
      BY DeploymentAssumption DEF DeploymentAssumption
    <2>1. IsFiniteSet(Main) /\ Main \in SUBSET Int
      BY <2>0, FS_Interval DEF Main
    <2> QED
      BY <2>1, FS_Subset DEF Room
  <1>3. Min(Room(p)) \in Room(p)
    BY <1>1, <1>2, MinIs
  <1>4. f.spot \in Main /\ f.spot \in Spot /\ f.spot \notin Occupied(p, -1)
    BY <1>3, DeploymentAssumption
    DEF Room, Formation, Main, Spot, DeploymentAssumption
  <1>5. UnitRow[u].price \in Nat
    BY TablesAssumption DEF TablesAssumption, UnitRows
  <1>6. f \in Formations /\ f.worn = <<>> /\ Arrives(f)
    BY <1>4, <1>5
    DEF Formations, Formation, Experience, Arrives, Sources, Levels
  <1> HIDE DEF f
  <1> QED
    BY <1>1, <1>4, <1>6, PlaceGood DEF Arrives

-----------------------------------------------------------------------------
(* Folds over lists.                                                       *)

(* h folds the first places of a list of N by G, from a base on.           *)
Folds(h, N, T, base, G) ==
  /\ h \in [SUBSET (1..N) -> T]
  /\ h[{}] = base
  /\ \A s \in SUBSET (1..N) : s # {} =>
       /\ Max(s) \in s
       /\ h[s] = G[<<Max(s), h[s \ {Max(s)}]>>]
  /\ \A n \in 1..N : h[1..n] = G[<<n, h[1..(n - 1)]>>]

LEMMA FoldsExist ==
  ASSUME NEW N \in Nat, NEW T, NEW base \in T,
         NEW G \in [(1..N) \X T -> T]
  PROVE  \E h : Folds(h, N, T, base, G)
PROOF
  <1> DEFINE S == 1..N
             next == [s \in SUBSET S |-> Max(s)]
  <1>1. IsFiniteSet(S)
    BY FS_Interval
  <1>2. \A s \in SUBSET S : s # {} =>
          Max(s) \in s /\ \A y \in s : Max(s) >= y
    <2>1. S \in SUBSET Int
      OBVIOUS
    <2> HIDE DEF S
    <2> QED
      BY <1>1, <2>1, MaxExists DEF Max
  <1>3. \A s \in SUBSET S : s # {} => next[s] \in s
    BY <1>2
  <1>4. PICK h : Unfolds(h, S, T, next, base, G)
    <2>1. G \in [S \X T -> T]
      OBVIOUS
    <2> HIDE DEF S, next
    <2> QED
      BY <1>1, <1>3, <2>1, FoldExists
  <1>5. /\ h \in [SUBSET S -> T] /\ h[{}] = base
        /\ \A s \in SUBSET S : s # {} =>
             h[s] = G[<<next[s], h[s \ {next[s]}]>>]
    BY <1>4 DEF Unfolds
  <1>6. \A s \in SUBSET S : s # {} => h[s] = G[<<Max(s), h[s \ {Max(s)}]>>]
    BY <1>5
  <1>7. ASSUME NEW n \in 1..N PROVE h[1..n] = G[<<n, h[1..(n - 1)]>>]
    <2>1. 1..n \in SUBSET S /\ 1..n # {} /\ n \in 1..n
      OBVIOUS
    <2>2. Max(1..n) \in 1..n /\ Max(1..n) >= n
      BY <1>2, <2>1
    <2>3. Max(1..n) = n
      BY <2>2
    <2>4. (1..n) \ {n} = 1..(n - 1)
      OBVIOUS
    <2> HIDE DEF S
    <2> QED
      BY <1>6, <2>1, <2>3, <2>4
  <1> QED
    BY <1>2, <1>5, <1>6, <1>7 DEF Folds

(* What hands out adds to each position, clear of what was there.          *)
Added(p) == {q \in Good : Adds(p, q)}

LEMMA AddedThen ==
  ASSUME NEW p \in Good, NEW q \in Added(p), NEW r \in Added(q)
  PROVE  r \in Added(p)
PROOF
  <1>1. p \in Positions /\ q \in Positions /\ r \in Positions
    BY DEF Added, Good
  <1> QED
    BY <1>1, AddsThen DEF Added

LEMMA AddedItself ==
  ASSUME NEW p \in Good
  PROVE  p \in Added(p)
PROOF
  <1>1. p \in Positions
    BY DEF Good
  <1> QED
    BY <1>1, AddsItself DEF Added

(* g follows the positions a hand-out comes to, one squad at a time.       *)
Landings(g, p, u, squads, level, source) ==
  /\ g \in [0..squads -> SUBSET Added(p)]
  /\ g[0] = {p}
  /\ \A n \in 1..squads : \A x :
       x \in g[n] <=> \E q \in g[n - 1] : x \in Land(q, u, level, source)
  /\ HandOut(p, u, squads, level, source) = g[squads]

LEMMA HandOutFolds ==
  ASSUME NEW p \in Good, NEW u \in Unit, NEW squads \in Nat,
         NEW level \in Levels, NEW source \in Sources
  PROVE  /\ HandOut(p, u, squads, level, source) \subseteq Added(p)
         /\ \E g : Landings(g, p, u, squads, level, source)
PROOF
  <1> DEFINE S == 1..squads
             T == SUBSET Added(p)
             base == {p}
             Step(ps) == UNION {Land(q, u, level, source) : q \in ps}
             G == [x \in S \X T |-> Step(x[2])]
             list == [k \in 1..squads |-> k]
             Eq(h) == h = [s \in SUBSET S |->
                             IF s = {} THEN base ELSE Step(h[s \ {Max(s)}])]
  <1>1. \A ps \in T : Step(ps) \in T
    BY LandGood, AddedThen DEF Added
  <1>2. base \in T
    BY AddedItself
  <1>3. G \in [S \X T -> T]
    <2> HIDE DEF S, T, Step
    <2> QED
      BY <1>1
  <1>4. PICK h : Folds(h, squads, T, base, G)
    <2> HIDE DEF T, base, G
    <2> QED
      BY <1>2, <1>3, FoldsExist
  <1>5. \A i \in S, ps \in T : G[<<i, ps>>] = Step(ps)
    <2> HIDE DEF S, T, Step
    <2> QED
      OBVIOUS
  <1>6. /\ h \in [SUBSET S -> T] /\ h[{}] = base
        /\ \A s \in SUBSET S : s # {} =>
             /\ Max(s) \in s
             /\ h[s] = G[<<Max(s), h[s \ {Max(s)}]>>]
        /\ \A n \in S : h[1..n] = G[<<n, h[1..(n - 1)]>>]
    BY <1>4 DEF Folds
  <1> HIDE DEF T, base, G, Step
  <1>7. Eq(h)
    <2> HIDE DEF S
    <2>1. \A s \in SUBSET S : s # {} => h[s] = Step(h[s \ {Max(s)}])
      BY <1>5, <1>6
    <2> QED
      BY <1>6, <2>1
  <1>8. ASSUME NEW g, Eq(g) PROVE g = h
    <2> DEFINE P == {s \in SUBSET S : g[s] = h[s]}
    <2>1. {} \in P
      BY <1>7, <1>8
    <2>2. ASSUME NEW s \in SUBSET S, s # {}, \A x \in s : s \ {x} \in P
          PROVE  s \in P
      <3>1. Max(s) \in s
        BY <1>6, <2>2
      <3>2. g[s \ {Max(s)}] = h[s \ {Max(s)}]
        BY <2>2, <3>1
      <3> HIDE DEF S
      <3> QED
        BY <1>7, <1>8, <2>2, <3>2
    <2>3. SUBSET S \subseteq P
      <3>1. IsFiniteSet(S)
        BY FS_Interval
      <3> HIDE DEF P, S
      <3> QED
        BY <2>1, <2>2, <3>1, SubsetInduction
    <2> HIDE DEF S
    <2> QED
      BY <1>7, <1>8, <2>3
  <1>9. HandOut(p, u, squads, level, source) = h[S]
    <2>1. h = CHOOSE g : Eq(g)
      <3> HIDE DEF Eq
      <3> QED
        BY <1>7, <1>8
    <2>2. DOMAIN list = S /\ \A i \in S : list[i] = i
      OBVIOUS
    <2> HIDE DEF Max
    <2> QED
      BY <2>1, <2>2 DEF HandOut, FoldLeft, MapThenFoldSet, Step, base
  <1> DEFINE g == [n \in 0..squads |-> h[1..n]]
  <1>10. \A n \in 0..squads : 1..n \in SUBSET S
    OBVIOUS
  <1>11. g \in [0..squads -> T]
    BY <1>6, <1>10
  <1>12. g[0] = base /\ g[squads] = h[S]
    <2>1. 1..0 = {}
      OBVIOUS
    <2> QED
      BY <1>6, <2>1
  <1>13. ASSUME NEW n \in 1..squads PROVE g[n] = Step(g[n - 1])
    <2>1. n - 1 \in 0..squads /\ h[1..(n - 1)] \in T
      BY <1>6, <1>10
    <2>2. h[1..n] = Step(h[1..(n - 1)])
      BY <1>5, <1>6, <2>1
    <2> QED
      BY <2>1, <2>2
  <1>14. g[squads] \in T
    BY <1>11
  <1> HIDE DEF g
  <1>15. \A n \in 1..squads : \A x :
           x \in g[n] <=> \E q \in g[n - 1] : x \in Land(q, u, level, source)
    BY <1>13 DEF Step
  <1> QED
    BY <1>9, <1>11, <1>12, <1>14, <1>15 DEF T, base, Landings

LEMMA SlotsOfNat ==
  ASSUME NEW p \in Positions
  PROVE  SlotsOf(p) \in Nat
PROOF
  <1>1. p.officers \in Seq(Officer)
    BY DEF Positions
  <1> QED
    BY <1>1, SlotsNat DEF SlotsOf, Modifier

(* A change that puts nothing on the board and takes no slot away.         *)
LEMMA StaysGood ==
  ASSUME NEW p \in Good, NEW q \in Positions, q.next = p.next,
         DOMAIN q.units \subseteq DOMAIN p.units,
         DOMAIN q.devices \subseteq DOMAIN p.devices,
         IsFiniteSet(DOMAIN q.panel),
         Blocked(q) \subseteq Blocked(p),
         Range(q.constructions) \subseteq Range(p.constructions),
         SlotsOf(p) <= SlotsOf(q),
         \A i \in DOMAIN q.units :
           /\ q.units[i].spot = p.units[i].spot
           /\ q.units[i].worn = p.units[i].worn
           /\ q.units[i].travelling => p.units[i].travelling
  PROVE  q \in Good
PROOF
  <1>1. /\ p \in Positions /\ SlotsOf(p) \in Nat /\ SlotsOf(q) \in Nat
        /\ p.units \in Partial(Nat, Formations)
    BY SlotsOfNat DEF Good, Positions
  <1>2. \A i \in DOMAIN p.units : p.units[i] \in Formations
    BY <1>1, PartialElim
  <1>3. \A i \in DOMAIN p.units : Len(p.units[i].worn) \in Nat
    BY <1>2 DEF Formations
  <1>4. ASSUME NEW i \in DOMAIN q.units
        PROVE  /\ Clear(q, i)
               /\ Len(q.units[i].worn) <= SlotsOf(q)
               /\ q.units[i].travelling => Flank(q.units[i].spot)
    <2>1. /\ Clear(p, i) /\ i \in DOMAIN p.units
          /\ Len(p.units[i].worn) <= SlotsOf(p)
          /\ p.units[i].travelling => Flank(p.units[i].spot)
      BY DEF Good
    <2>2. Clear(q, i)
      BY <2>1 DEF Clear
    <2>3. Len(q.units[i].worn) <= SlotsOf(q)
      BY <1>1, <1>3, <2>1
    <2> QED
      BY <2>1, <2>2, <2>3
  <1> QED
    BY <1>4 DEF Good

LEMMA SameBoard ==
  ASSUME NEW p \in Good, NEW q \in Positions, q.next = p.next,
         q.units = p.units, q.devices = p.devices,
         q.constructions = p.constructions, q.officers = p.officers,
         IsFiniteSet(DOMAIN q.panel)
  PROVE  q \in Good
PROOF
  <1>1. Blocked(q) = Blocked(p)
    BY DEF Blocked
  <1>2. SlotsOf(q) = SlotsOf(p) /\ SlotsOf(p) \in Nat /\ p \in Positions
    BY SlotsOfNat DEF SlotsOf, Modifier, Good
  <1>3. SlotsOf(p) <= SlotsOf(q)
    BY <1>2
  <1> QED
    BY <1>1, <1>3, StaysGood

-----------------------------------------------------------------------------
(* The panel, the shop and the stock.                                      *)

(* A finite panel has a free index.                                        *)
LEMMA SlotIsFree ==
  ASSUME NEW p, DOMAIN p.panel \subseteq Nat, IsFiniteSet(DOMAIN p.panel)
  PROVE  FreeSlot(p) \in Nat /\ FreeSlot(p) \notin DOMAIN p.panel
PROOF
  <1> DEFINE D == DOMAIN p.panel
             c == Cardinality(D)
             S == (0..c) \ D
  <1>1. c \in Nat
    BY FS_CardinalityType
  <1>2. IsFiniteSet(0..c) /\ Cardinality(0..c) = c + 1
    <2> HIDE DEF c
    <2> QED
      BY <1>1, FS_Interval
  <1>3. S # {}
    <2> SUFFICES ASSUME S = {} PROVE FALSE
      OBVIOUS
    <2>1. 0..c \subseteq D
      OBVIOUS
    <2>2. Cardinality(0..c) <= Cardinality(D)
      <3> HIDE DEF c, D
      <3> QED
        BY <2>1, FS_Subset DEF D
    <2> HIDE DEF D
    <2> QED
      BY <1>1, <1>2, <2>2
  <1>4. S \in SUBSET Int /\ IsFiniteSet(S)
    BY <1>1, <1>2, FS_Subset
  <1>5. Min(S) \in S
    <2> HIDE DEF S
    <2> QED
      BY <1>3, <1>4, MinIs
  <1> QED
    BY <1>1, <1>5 DEF FreeSlot

LEMMA PanelAddGood ==
  ASSUME NEW p \in Good, NEW id \in Skill
  PROVE  PanelAdd(p, id) \in Added(p)
PROOF
  <1> DEFINE i == FreeSlot(p)
             W == With(p.panel, i, Slot(id))
             q == PanelAdd(p, id)
  <1>1. /\ p \in Positions /\ IsFiniteSet(DOMAIN p.panel)
        /\ p.panel \in Partial(Nat, Slots) /\ p.officers \in Seq(Officer)
        /\ p.next.unit \in Nat
    BY DEF Good, Positions
  <1>2. DOMAIN p.panel \subseteq Nat
    BY <1>1, PartialElim
  <1>3. i \in Nat /\ i \notin DOMAIN p.panel
    BY <1>1, <1>2, SlotIsFree
  <1>4. Slot(id) \in Slots /\ Fresh(Slot(id))
    BY DEF Slot, Slots, Fresh
  <1>5. /\ W \in Partial(Nat, Slots)
        /\ DOMAIN W = DOMAIN p.panel \cup {i}
        /\ W[i] = Slot(id)
        /\ \A k \in DOMAIN p.panel : W[k] = p.panel[k]
    <2> HIDE DEF i
    <2> DEFINE v == Slot(id)
               f == p.panel
    <2>1. /\ f \in Partial(Nat, Slots) /\ v \in Slots
          /\ i \in Nat /\ i \notin DOMAIN f
      BY <1>1, <1>3, <1>4
    <2>2. W = With(f, i, v)
      OBVIOUS
    <2> DEFINE D == Nat
    <2>4. i \in D /\ f \in Partial(D, Slots)
      BY <2>1
    <2> HIDE DEF W, v, f, D
    <2>3. /\ W \in Partial(D, Slots) /\ DOMAIN W = DOMAIN f \cup {i}
          /\ W[i] = v /\ \A k \in DOMAIN f \ {i} : W[k] = f[k]
      BY <2>1, <2>2, <2>4, PartialWith
    <2> QED
      BY <2>1, <2>3 DEF v, f, D
  <1>6. q = [p EXCEPT !.panel = W]
    BY DEF PanelAdd, i
  <1>7. IsFiniteSet(DOMAIN W)
    BY <1>1, <1>5, FS_AddElement
  <1> HIDE DEF W, q
  <1>8. /\ q \in Positions /\ q.panel = W
        /\ q.supply = p.supply /\ q.core = p.core
        /\ q.officers = p.officers
        /\ q.plans = p.plans /\ q.active = p.active /\ q.towers = p.towers
        /\ q.techs = p.techs /\ q.devices = p.devices
        /\ q.constructions = p.constructions /\ q.left = p.left
        /\ q.shop = p.shop /\ q.units = p.units /\ q.next = p.next
    BY <1>1, <1>5, <1>6 DEF Positions
  <1>9. q \in Good
    BY <1>7, <1>8, SameBoard
  <1>10. Adds(p, q)
    BY <1>1, <1>4, <1>5, <1>8 DEF Adds
  <1> QED
    BY <1>9, <1>10 DEF Added, q

LEMMA UnlockGood ==
  ASSUME NEW p \in Good, NEW u \in Unit
  PROVE  Unlock(p, u) \in Added(p)
PROOF
  <1> DEFINE q == Unlock(p, u)
  <1>1. /\ p \in Positions /\ p.next.unit \in Nat
        /\ IsFiniteSet(DOMAIN p.panel)
    BY DEF Good, Positions
  <1>2. /\ q \in Positions /\ q.shop = p.shop \cup {u}
        /\ q.supply = p.supply /\ q.core = p.core
        /\ q.officers = p.officers
        /\ q.plans = p.plans /\ q.active = p.active /\ q.towers = p.towers
        /\ q.techs = p.techs /\ q.devices = p.devices
        /\ q.constructions = p.constructions /\ q.left = p.left
        /\ q.panel = p.panel /\ q.units = p.units /\ q.next = p.next
    BY <1>1 DEF Positions, Unlock
  <1> HIDE DEF q
  <1>3. q \in Good
    BY <1>1, <1>2, SameBoard
  <1>4. Adds(p, q)
    BY <1>1, <1>2 DEF Adds
  <1> QED
    BY <1>3, <1>4 DEF Added, q

(* Each item is counted once for every place it has in the list.           *)
LEMMA ToBagPartial ==
  ASSUME NEW items \in Seq(Item)
  PROVE  ToBag(items) \in Partial(Item, Nat \ {0})
PROOF
  <1>1. ASSUME NEW x \in Range(items)
        PROVE  Cardinality({i \in DOMAIN items : items[i] = x}) \in Nat \ {0}
    <2> DEFINE W == {i \in DOMAIN items : items[i] = x}
    <2>1. IsFiniteSet(W)
      BY FS_Interval, FS_Subset
    <2>2. W # {}
      BY DEF Range
    <2> HIDE DEF W
    <2>3. Cardinality(W) \in Nat \ {0}
      BY <2>1, <2>2, FS_EmptySet, FS_CardinalityType
    <2> QED
      BY <2>3 DEF W
  <1>2. Range(items) \in SUBSET Item
    BY DEF Range
  <1>3. ToBag(items) \in [Range(items) -> Nat \ {0}]
    BY <1>1 DEF ToBag
  <1> QED
    BY <1>2, <1>3, PartialIntro

LEMMA BagSum ==
  ASSUME NEW a \in Partial(Item, Nat \ {0}), NEW b \in Partial(Item, Nat \ {0})
  PROVE  a (+) b \in Partial(Item, Nat \ {0})
PROOF
  <1>1. /\ DOMAIN a \subseteq Item /\ DOMAIN b \subseteq Item
        /\ \A x \in DOMAIN a : a[x] \in Nat \ {0}
        /\ \A x \in DOMAIN b : b[x] \in Nat \ {0}
    BY PartialElim
  <1> DEFINE d == DOMAIN a \cup DOMAIN b
  <1>2. d \in SUBSET Item /\ a (+) b \in [d -> Nat \ {0}]
    BY <1>1 DEF (+)
  <1> HIDE DEF d
  <1> QED
    BY <1>2, PartialIntro

LEMMA StockedGood ==
  ASSUME NEW p \in Good, NEW items \in Seq(Item)
  PROVE  Stocked(p, items) \in Added(p)
PROOF
  <1> DEFINE q == Stocked(p, items)
             W == p.stock (+) ToBag(items)
  <1>1. /\ p \in Positions /\ p.next.unit \in Nat
        /\ IsFiniteSet(DOMAIN p.panel)
        /\ p.stock \in Partial(Item, Nat \ {0})
    BY DEF Good, Positions
  <1>2. W \in Partial(Item, Nat \ {0})
    BY <1>1, ToBagPartial, BagSum
  <1>3. q = [p EXCEPT !.stock = W]
    BY DEF Stocked
  <1> HIDE DEF q, W
  <1>4. /\ q \in Positions
        /\ q.supply = p.supply /\ q.core = p.core
        /\ q.officers = p.officers /\ q.shop = p.shop
        /\ q.plans = p.plans /\ q.active = p.active /\ q.towers = p.towers
        /\ q.techs = p.techs /\ q.devices = p.devices
        /\ q.constructions = p.constructions /\ q.left = p.left
        /\ q.panel = p.panel /\ q.units = p.units /\ q.next = p.next
    BY <1>1, <1>2, <1>3 DEF Positions
  <1>5. q \in Good
    BY <1>1, <1>4, SameBoard
  <1>6. Adds(p, q)
    BY <1>1, <1>4 DEF Adds
  <1> QED
    BY <1>5, <1>6 DEF Added, q

LEMMA PanelAddFolds ==
  ASSUME NEW p \in Good, NEW ids \in Seq(Skill)
  PROVE  \E g :
           /\ g \in [0..Len(ids) -> Added(p)]
           /\ g[0] = p
           /\ \A n \in 1..Len(ids) : g[n] = PanelAdd(g[n - 1], ids[n])
           /\ PanelAddAll(p, ids) = g[Len(ids)]
PROOF
  <1> DEFINE N == Len(ids)
             S == 1..N
             T == Added(p)
             base == p
             Step(q, i) == PanelAdd(q, ids[i])
             G == [x \in S \X T |-> Step(x[2], x[1])]
             Eq(h) == h = [s \in SUBSET S |->
                             IF s = {} THEN base
                             ELSE Step(h[s \ {Max(s)}], Max(s))]
  <1>0. N \in Nat /\ DOMAIN ids = S /\ \A i \in S : ids[i] \in Skill
    OBVIOUS
  <1>1. \A q \in T, i \in S : Step(q, i) \in T
    BY <1>0, PanelAddGood, AddedThen DEF Added
  <1>2. base \in T
    BY AddedItself
  <1>3. G \in [S \X T -> T]
    <2> HIDE DEF S, T, Step
    <2> QED
      BY <1>1
  <1>4. PICK h : Folds(h, N, T, base, G)
    <2> HIDE DEF T, base, G, N
    <2> QED
      BY <1>0, <1>2, <1>3, FoldsExist
  <1>5. \A i \in S, q \in T : G[<<i, q>>] = Step(q, i)
    <2> HIDE DEF S, T, Step
    <2> QED
      OBVIOUS
  <1>6. /\ h \in [SUBSET S -> T] /\ h[{}] = base
        /\ \A s \in SUBSET S : s # {} =>
             /\ Max(s) \in s
             /\ h[s] = G[<<Max(s), h[s \ {Max(s)}]>>]
        /\ \A n \in S : h[1..n] = G[<<n, h[1..(n - 1)]>>]
    BY <1>4 DEF Folds
  <1> HIDE DEF T, base, G, Step
  <1>7. Eq(h)
    <2> HIDE DEF S
    <2>1. \A s \in SUBSET S : s # {} => h[s] = Step(h[s \ {Max(s)}], Max(s))
      BY <1>5, <1>6
    <2> QED
      BY <1>6, <2>1
  <1>8. ASSUME NEW g, Eq(g) PROVE g = h
    <2> DEFINE P == {s \in SUBSET S : g[s] = h[s]}
    <2>1. {} \in P
      BY <1>7, <1>8
    <2>2. ASSUME NEW s \in SUBSET S, s # {}, \A x \in s : s \ {x} \in P
          PROVE  s \in P
      <3>1. Max(s) \in s
        BY <1>6, <2>2
      <3>2. g[s \ {Max(s)}] = h[s \ {Max(s)}]
        BY <2>2, <3>1
      <3> HIDE DEF S
      <3> QED
        BY <1>7, <1>8, <2>2, <3>2
    <2>3. SUBSET S \subseteq P
      <3>1. IsFiniteSet(S)
        BY FS_Interval
      <3> HIDE DEF P, S
      <3> QED
        BY <2>1, <2>2, <3>1, SubsetInduction
    <2> HIDE DEF S
    <2> QED
      BY <1>7, <1>8, <2>3
  <1>9. PanelAddAll(p, ids) = h[S]
    <2>1. h = CHOOSE g : Eq(g)
      <3> HIDE DEF Eq
      <3> QED
        BY <1>7, <1>8
    <2> HIDE DEF Max
    <2> QED
      BY <1>0, <2>1 DEF PanelAddAll, FoldLeft, MapThenFoldSet, Step, base
  <1> DEFINE g == [n \in 0..N |-> h[1..n]]
  <1>10. \A n \in 0..N : 1..n \in SUBSET S
    BY <1>0
  <1>11. g \in [0..N -> T]
    BY <1>6, <1>10
  <1>12. g[0] = base /\ g[N] = h[S]
    <2>1. 1..0 = {}
      OBVIOUS
    <2> QED
      BY <1>6, <2>1
  <1>13. ASSUME NEW n \in 1..N PROVE g[n] = Step(g[n - 1], n)
    <2>1. n - 1 \in 0..N /\ h[1..(n - 1)] \in T
      BY <1>6, <1>10
    <2>2. h[1..n] = Step(h[1..(n - 1)], n)
      BY <1>5, <1>6, <2>1
    <2> QED
      BY <2>1, <2>2
  <1> HIDE DEF g
  <1> QED
    BY <1>9, <1>11, <1>12, <1>13 DEF T, base, Step

-----------------------------------------------------------------------------
(* Deliveries.                                                             *)

LEMMA PanelAddAllGood ==
  ASSUME NEW p \in Good, NEW ids \in Seq(Skill)
  PROVE  PanelAddAll(p, ids) \in Added(p)
PROOF
  <1>1. PICK g : /\ g \in [0..Len(ids) -> Added(p)]
                 /\ PanelAddAll(p, ids) = g[Len(ids)]
    BY PanelAddFolds
  <1>2. Len(ids) \in 0..Len(ids)
    OBVIOUS
  <1> QED
    BY <1>1, <1>2

LEMMA HandOutGood ==
  ASSUME NEW p \in Good, NEW u \in Unit, NEW squads \in Nat,
         NEW level \in Levels, NEW source \in Sources
  PROVE  HandOut(p, u, squads, level, source) \subseteq Added(p)
PROOF
  BY HandOutFolds

LEMMA HandOutRoundGood ==
  ASSUME NEW p \in Good, NEW o \in Officer, NEW q \in HandOutRound(p, o)
  PROVE  q \in Added(p)
PROOF
  <1> DEFINE row == OfficerRow[o]
             skilled == PanelAddAll(p, row.skills)
  <1>1. row.skills \in Seq(Skill) /\ row.items \in Seq(Item)
    BY TablesAssumption DEF TablesAssumption, OfficerRows
  <1>2. skilled \in Added(p) /\ skilled \in Good
    BY <1>1, PanelAddAllGood DEF Added
  <1>3. PICK items \in Seq(Item) : q = Stocked(skilled, items)
    <2>1. CASE row.draws /\ row.items # <<>>
      <3>1. PICK k \in DOMAIN row.items :
              q = Stocked(skilled, <<row.items[k]>>)
        BY <2>1 DEF HandOutRound
      <3>2. <<row.items[k]>> \in Seq(Item)
        BY <1>1
      <3> QED
        BY <3>1, <3>2
    <2>2. CASE ~ (row.draws /\ row.items # <<>>)
      BY <1>1, <2>2 DEF HandOutRound
    <2> QED
      BY <2>1, <2>2
  <1>4. q \in Added(skilled)
    BY <1>2, <1>3, StockedGood
  <1> QED
    BY <1>2, <1>4, AddedThen

LEMMA DeliverGood ==
  ASSUME NEW p \in Good, NEW o \in Officer, NEW r \in Nat \ {0},
         NEW q \in Deliver(p, o, r)
  PROVE  q \in Added(p)
PROOF
  <1> DEFINE row == OfficerRow[o]
             open == IF row.unlocks = r THEN Unlock(p, row.unit) ELSE p
  <1>1. /\ row.unlocks > 0 => row.unit \in Unit
        /\ row.unitLevel \in Nat \ {0}
    BY TablesAssumption DEF TablesAssumption, OfficerRows
  <1>2. open \in Added(p) /\ open \in Good
    BY <1>1, UnlockGood, AddedItself DEF Added
  <1>3. CASE r \notin row.rounds
    BY <1>2, <1>3 DEF Deliver
  <1>4. CASE r \in row.rounds
    <2>1. PICK h \in HandOutRound(open, o) :
            q \in IF row.unit \in Unit
                  THEN HandOut(h, row.unit, 1, row.unitLevel, "delivered")
                  ELSE {h}
      BY <1>4 DEF Deliver
    <2> HIDE DEF open
    <2>2. h \in Added(open)
      BY <1>2, HandOutRoundGood
    <2>3. h \in Added(p) /\ h \in Good
      BY <1>2, <2>2, AddedThen DEF Added
    <2>4. CASE row.unit \in Unit
      <3>1. HandOut(h, row.unit, 1, row.unitLevel, "delivered")
              \subseteq Added(h)
        BY <1>1, <2>3, <2>4, HandOutGood DEF Sources, Levels
      <3> QED
        BY <2>1, <2>3, <2>4, <3>1, AddedThen
    <2>5. CASE row.unit \notin Unit
      BY <2>1, <2>3, <2>5
    <2> QED
      BY <2>4, <2>5
  <1> QED
    BY <1>3, <1>4

(* g follows the positions a round may open with, one officer at a time.   *)
Deliveries(g, p, l, r) ==
  /\ g \in [0..Len(l) -> SUBSET Added(p)]
  /\ g[0] = {p}
  /\ \A n \in 1..Len(l) : \A x :
       x \in g[n] <=> \E q \in g[n - 1] : x \in Deliver(q, l[n], r)
  /\ DeliverAll(p, l, r) = g[Len(l)]

LEMMA DeliverAllFolds ==
  ASSUME NEW p \in Good, NEW l \in Seq(Officer), NEW r \in Nat \ {0}
  PROVE  \E g : Deliveries(g, p, l, r)
PROOF
  <1> DEFINE N == Len(l)
             S == 1..N
             T == SUBSET Added(p)
             base == {p}
             Step(ps, i) == UNION {Deliver(q, l[i], r) : q \in ps}
             G == [x \in S \X T |-> Step(x[2], x[1])]
             Eq(h) == h = [s \in SUBSET S |->
                             IF s = {} THEN base
                             ELSE Step(h[s \ {Max(s)}], Max(s))]
  <1>0. N \in Nat /\ DOMAIN l = S /\ \A i \in S : l[i] \in Officer
    OBVIOUS
  <1>1. \A ps \in T, i \in S : Step(ps, i) \in T
    BY <1>0, DeliverGood, AddedThen DEF Added
  <1>2. base \in T
    BY AddedItself
  <1>3. G \in [S \X T -> T]
    <2> HIDE DEF S, T, Step
    <2> QED
      BY <1>1
  <1>4. PICK h : Folds(h, N, T, base, G)
    <2> HIDE DEF T, base, G, N
    <2> QED
      BY <1>0, <1>2, <1>3, FoldsExist
  <1>5. \A i \in S, ps \in T : G[<<i, ps>>] = Step(ps, i)
    <2> HIDE DEF S, T, Step
    <2> QED
      OBVIOUS
  <1>6. /\ h \in [SUBSET S -> T] /\ h[{}] = base
        /\ \A s \in SUBSET S : s # {} =>
             /\ Max(s) \in s
             /\ h[s] = G[<<Max(s), h[s \ {Max(s)}]>>]
        /\ \A n \in S : h[1..n] = G[<<n, h[1..(n - 1)]>>]
    BY <1>4 DEF Folds
  <1> HIDE DEF T, base, G, Step
  <1>7. Eq(h)
    <2> HIDE DEF S
    <2>1. \A s \in SUBSET S : s # {} => h[s] = Step(h[s \ {Max(s)}], Max(s))
      BY <1>5, <1>6
    <2> QED
      BY <1>6, <2>1
  <1>8. ASSUME NEW g, Eq(g) PROVE g = h
    <2> DEFINE P == {s \in SUBSET S : g[s] = h[s]}
    <2>1. {} \in P
      BY <1>7, <1>8
    <2>2. ASSUME NEW s \in SUBSET S, s # {}, \A x \in s : s \ {x} \in P
          PROVE  s \in P
      <3>1. Max(s) \in s
        BY <1>6, <2>2
      <3>2. g[s \ {Max(s)}] = h[s \ {Max(s)}]
        BY <2>2, <3>1
      <3> HIDE DEF S
      <3> QED
        BY <1>7, <1>8, <2>2, <3>2
    <2>3. SUBSET S \subseteq P
      <3>1. IsFiniteSet(S)
        BY FS_Interval
      <3> HIDE DEF P, S
      <3> QED
        BY <2>1, <2>2, <3>1, SubsetInduction
    <2> HIDE DEF S
    <2> QED
      BY <1>7, <1>8, <2>3
  <1>9. DeliverAll(p, l, r) = h[S]
    <2>1. h = CHOOSE g : Eq(g)
      <3> HIDE DEF Eq
      <3> QED
        BY <1>7, <1>8
    <2> HIDE DEF Max
    <2> QED
      BY <1>0, <2>1 DEF DeliverAll, FoldLeft, MapThenFoldSet, Step, base
  <1> DEFINE g == [n \in 0..N |-> h[1..n]]
  <1>10. \A n \in 0..N : 1..n \in SUBSET S
    BY <1>0
  <1>11. g \in [0..N -> T]
    BY <1>6, <1>10
  <1>12. g[0] = base /\ g[N] = h[S]
    <2>1. 1..0 = {}
      OBVIOUS
    <2> QED
      BY <1>6, <2>1
  <1>13. ASSUME NEW n \in 1..N PROVE g[n] = Step(g[n - 1], n)
    <2>1. n - 1 \in 0..N /\ h[1..(n - 1)] \in T
      BY <1>6, <1>10
    <2>2. h[1..n] = Step(h[1..(n - 1)], n)
      BY <1>5, <1>6, <2>1
    <2> QED
      BY <2>1, <2>2
  <1> HIDE DEF g
  <1>14. \A n \in 1..N : \A x :
           x \in g[n] <=> \E q \in g[n - 1] : x \in Deliver(q, l[n], r)
    BY <1>13 DEF Step
  <1> QED
    BY <1>9, <1>11, <1>12, <1>14 DEF T, base, Deliveries

LEMMA DeliverTeamFolds ==
  ASSUME NEW p \in Good, NEW l \in Seq(Unit)
  PROVE  \E g :
           /\ g \in [0..Len(l) -> SUBSET Added(p)]
           /\ g[0] = {p}
           /\ \A n \in 1..Len(l) :
                g[n] = UNION {HandOut(Unlock(q, l[n]), l[n], 1, 1, "joined") :
                               q \in g[n - 1]}
           /\ DeliverTeam(p, l) = g[Len(l)]
PROOF
  <1> DEFINE N == Len(l)
             S == 1..N
             T == SUBSET Added(p)
             base == {p}
             Step(ps, i) ==
               UNION {HandOut(Unlock(q, l[i]), l[i], 1, 1, "joined") :
                        q \in ps}
             G == [x \in S \X T |-> Step(x[2], x[1])]
             Eq(h) == h = [s \in SUBSET S |->
                             IF s = {} THEN base
                             ELSE Step(h[s \ {Max(s)}], Max(s))]
  <1>0. N \in Nat /\ DOMAIN l = S /\ \A i \in S : l[i] \in Unit
    OBVIOUS
  <1>1. \A ps \in T, i \in S : Step(ps, i) \in T
    <2> SUFFICES ASSUME NEW ps \in T, NEW i \in S, NEW q \in ps,
                        NEW x \in HandOut(Unlock(q, l[i]), l[i], 1, 1,
                                          "joined")
                 PROVE  x \in Added(p)
      OBVIOUS
    <2>1. l[i] \in Unit /\ q \in Added(p) /\ q \in Good
      BY <1>0 DEF Added
    <2>2. Unlock(q, l[i]) \in Added(q) /\ Unlock(q, l[i]) \in Good
      BY <2>1, UnlockGood DEF Added
    <2>3. x \in Added(Unlock(q, l[i]))
      BY <2>1, <2>2, HandOutGood DEF Sources, Levels
    <2> QED
      BY <2>1, <2>2, <2>3, AddedThen
  <1>2. base \in T
    BY AddedItself
  <1>3. G \in [S \X T -> T]
    <2> HIDE DEF S, T, Step
    <2> QED
      BY <1>1
  <1>4. PICK h : Folds(h, N, T, base, G)
    <2> HIDE DEF T, base, G, N
    <2> QED
      BY <1>0, <1>2, <1>3, FoldsExist
  <1>5. \A i \in S, ps \in T : G[<<i, ps>>] = Step(ps, i)
    <2> HIDE DEF S, T, Step
    <2> QED
      OBVIOUS
  <1>6. /\ h \in [SUBSET S -> T] /\ h[{}] = base
        /\ \A s \in SUBSET S : s # {} =>
             /\ Max(s) \in s
             /\ h[s] = G[<<Max(s), h[s \ {Max(s)}]>>]
        /\ \A n \in S : h[1..n] = G[<<n, h[1..(n - 1)]>>]
    BY <1>4 DEF Folds
  <1> HIDE DEF T, base, G, Step
  <1>7. Eq(h)
    <2> HIDE DEF S
    <2>1. \A s \in SUBSET S : s # {} => h[s] = Step(h[s \ {Max(s)}], Max(s))
      BY <1>5, <1>6
    <2> QED
      BY <1>6, <2>1
  <1>8. ASSUME NEW g, Eq(g) PROVE g = h
    <2> DEFINE P == {s \in SUBSET S : g[s] = h[s]}
    <2>1. {} \in P
      BY <1>7, <1>8
    <2>2. ASSUME NEW s \in SUBSET S, s # {}, \A x \in s : s \ {x} \in P
          PROVE  s \in P
      <3>1. Max(s) \in s
        BY <1>6, <2>2
      <3>2. g[s \ {Max(s)}] = h[s \ {Max(s)}]
        BY <2>2, <3>1
      <3> HIDE DEF S
      <3> QED
        BY <1>7, <1>8, <2>2, <3>2
    <2>3. SUBSET S \subseteq P
      <3>1. IsFiniteSet(S)
        BY FS_Interval
      <3> HIDE DEF P, S
      <3> QED
        BY <2>1, <2>2, <3>1, SubsetInduction
    <2> HIDE DEF S
    <2> QED
      BY <1>7, <1>8, <2>3
  <1>9. DeliverTeam(p, l) = h[S]
    <2>1. h = CHOOSE g : Eq(g)
      <3> HIDE DEF Eq
      <3> QED
        BY <1>7, <1>8
    <2> HIDE DEF Max
    <2> QED
      BY <1>0, <2>1 DEF DeliverTeam, FoldLeft, MapThenFoldSet, Step, base
  <1> DEFINE g == [n \in 0..N |-> h[1..n]]
  <1>10. \A n \in 0..N : 1..n \in SUBSET S
    BY <1>0
  <1>11. g \in [0..N -> T]
    BY <1>6, <1>10
  <1>12. g[0] = base /\ g[N] = h[S]
    <2>1. 1..0 = {}
      OBVIOUS
    <2> QED
      BY <1>6, <2>1
  <1>13. ASSUME NEW n \in 1..N PROVE g[n] = Step(g[n - 1], n)
    <2>1. n - 1 \in 0..N /\ h[1..(n - 1)] \in T
      BY <1>6, <1>10
    <2>2. h[1..n] = Step(h[1..(n - 1)], n)
      BY <1>5, <1>6, <2>1
    <2> QED
      BY <2>1, <2>2
  <1> HIDE DEF g
  <1> QED
    BY <1>9, <1>11, <1>12, <1>13 DEF T, base, Step

-----------------------------------------------------------------------------
(* The purse.                                                              *)

Paying == {"round", "first", "slots"}
Priced == {"buy", "unlock", "upgrade", "tech"}

LEMMA ModifierTypes ==
  ASSUME NEW p \in Positions
  PROVE  /\ \A field \in Paying : Modifier(p, field) \in Nat
         /\ \A field \in Priced : Modifier(p, field) \in Int
PROOF
  <1> DEFINE l == p.officers
             S == DOMAIN l
             f(field) == [k \in S |-> OfficerRow[l[k]][field]]
  <1>1. l \in Seq(Officer)
    BY DEF Positions
  <1>2. IsFiniteSet(S) /\ \A k \in S : l[k] \in Officer
    <2>1. S = 1..Len(l)
      BY <1>1
    <2> QED
      BY <1>1, <2>1, FS_Interval
  <1>3. \A o \in Officer :
          /\ \A field \in Paying : OfficerRow[o][field] \in Nat
          /\ \A field \in Priced : OfficerRow[o][field] \in Int
    <2> SUFFICES ASSUME NEW o \in Officer
                 PROVE  /\ \A field \in Paying : OfficerRow[o][field] \in Nat
                        /\ \A field \in Priced : OfficerRow[o][field] \in Int
      OBVIOUS
    <2> DEFINE row == OfficerRow[o]
    <2>1. row \in OfficerRows
      BY TablesAssumption DEF TablesAssumption
    <2> HIDE DEF row
    <2>2. /\ row["round"] \in Nat /\ row["first"] \in Nat
          /\ row["slots"] \in Nat /\ row["buy"] \in Int
          /\ row["unlock"] \in Int /\ row["upgrade"] \in Int
          /\ row["tech"] \in Int
      BY <2>1 DEF OfficerRows
    <2> QED
      BY <2>2 DEF Paying, Priced, row
  <1>4. ASSUME NEW field \in Paying PROVE Modifier(p, field) \in Nat
    <2>1. f(field) \in [S -> Nat]
      BY <1>2, <1>3
    <2> HIDE DEF S, f
    <2>2. SumFunction(f(field)) \in Nat
      BY <1>2, <2>1, SumNat
    <2> QED
      BY <2>2 DEF Modifier, f, S
  <1>5. ASSUME NEW field \in Priced PROVE Modifier(p, field) \in Int
    <2>1. f(field) \in [S -> Int]
      BY <1>2, <1>3
    <2> HIDE DEF S, f
    <2>2. SumFunction(f(field)) \in Int
      BY <1>2, <2>1, SumInt
    <2> QED
      BY <2>2 DEF Modifier, f, S
  <1> QED
    BY <1>4, <1>5

LEMMA WornTypes ==
  ASSUME NEW f \in Formations
  PROVE  Worn(f, "round") \in Nat /\ Worn(f, "upgrade") \in Int
PROOF
  <1> DEFINE l == f.worn
             S == DOMAIN l
             g == [k \in S |-> ItemRow[l[k]]["round"]]
             h == [k \in S |-> ItemRow[l[k]]["upgrade"]]
  <1>1. l \in Seq(Item)
    BY DEF Formations
  <1>2. IsFiniteSet(S) /\ \A k \in S : l[k] \in Item
    <2>1. S = 1..Len(l)
      BY <1>1
    <2> QED
      BY <1>1, <2>1, FS_Interval
  <1>3. \A x \in Item :
          ItemRow[x]["round"] \in Nat /\ ItemRow[x]["upgrade"] \in Int
    BY TablesAssumption DEF TablesAssumption, ItemRows
  <1>4. g \in [S -> Nat] /\ h \in [S -> Int]
    BY <1>2, <1>3
  <1> HIDE DEF S, g, h
  <1>5. SumFunction(g) \in Nat /\ SumFunction(h) \in Int
    BY <1>2, <1>4, SumNat, SumInt
  <1> QED
    BY <1>5 DEF Worn, S, g, h

LEMMA PaidNat ==
  ASSUME NEW p \in Good
  PROVE  PaidByItems(p) \in Nat
PROOF
  <1> DEFINE S == DOMAIN p.units
             f == [i \in S |-> Worn(p.units[i], "round")]
  <1>1. /\ p.units \in Partial(Nat, Formations)
        /\ p.next \in [unit : Nat, device : Nat]
    BY DEF Good, Positions
  <1>2. IsFiniteSet(S)
    <2>1. S \subseteq 0..p.next.unit - 1
      BY DEF Good
    <2>2. IsFiniteSet(0..p.next.unit - 1)
      BY <1>1, FS_Interval
    <2> HIDE DEF S
    <2> QED
      BY <2>1, <2>2, FS_Subset
  <1>3. f \in [S -> Nat]
    BY <1>1, PartialElim, WornTypes
  <1> HIDE DEF S, f
  <1>4. SumFunction(f) \in Nat
    BY <1>2, <1>3, SumNat
  <1> QED
    BY <1>4 DEF PaidByItems, f, S

(* The round's tower skills never owe more than the next income.           *)
LEMMA OwedBound ==
  ASSUME NEW p \in Positions
  PROVE  /\ Owed(p) \in Nat /\ Raised(p) \in Nat
         /\ \A r \in 2..MaxRound : Owed(p) <= Income[r]
         /\ p.active = {} => Owed(p) = 0
PROOF
  <1> DEFINE S == DOMAIN TowerRow
             R == p.active
             f == [k \in S |-> TowerRow[k].owed]
             g == [k \in R |-> TowerRow[k].owed]
             h == [k \in R |-> TowerRow[k].level]
             b == [k \in R |-> k]
  <1>1. IsFiniteSet(S)
    BY DeploymentAssumption DEF DeploymentAssumption
  <1>2. R \in SUBSET S
    BY DEF Positions
  <1>3. IsFiniteSet(R)
    <2> HIDE DEF S, R
    <2> QED
      BY <1>1, <1>2, FS_Subset
  <1>4. /\ f \in [S -> Nat] /\ g \in [R -> Nat] /\ h \in [R -> Nat]
        /\ b \in [R -> S] /\ \A k \in R : g[k] = f[b[k]]
        /\ \A k, j \in R : b[k] = b[j] => k = j
    BY <1>2, TablesAssumption DEF TablesAssumption, TowerRows
  <1>5. SumFunction(g) \in Nat /\ SumFunction(h) \in Nat
    <2> HIDE DEF S, R, f, g, h, b
    <2> QED
      BY <1>3, <1>4, SumNat
  <1>6. SumFunction(g) <= SumFunction(f)
    <2> HIDE DEF S, R, f, g, h, b
    <2> QED
      BY <1>1, <1>3, <1>4, SumEmbeds
  <1>7. SumFunction(f) \in Nat
    <2> HIDE DEF S, R, f, g, h, b
    <2> QED
      BY <1>1, <1>4, SumNat
  <1>8. \A r \in 2..MaxRound :
          SumFunction(f) <= Income[r] /\ Income[r] \in Nat
    BY DeploymentAssumption DEF DeploymentAssumption
  <1>9. Owed(p) = SumFunction(g) /\ Raised(p) = SumFunction(h)
    BY DEF Owed, Raised
  <1>10. R = {} => SumFunction(g) = 0
    <2> SUFFICES ASSUME R = {} PROVE SumFunction(g) = 0
      OBVIOUS
    <2>1. g \in [R -> Int]
      BY <1>4
    <2> HIDE DEF S, R, f, g, h, b
    <2>2. PICK k : AddsUp(k, g, R) /\ SumFunction(g) = k[R]
      BY <1>3, <2>1, SumUnfolds
    <2> QED
      BY <2>2 DEF AddsUp
  <1> DEFINE total == SumFunction(f)
             owed == SumFunction(g)
  <1> HIDE DEF f, g, h
  <1>11. \A r \in 2..MaxRound : owed <= Income[r]
    <2>1. owed \in Nat /\ total \in Nat /\ owed <= total
      BY <1>5, <1>6, <1>7
    <2>2. \A r \in 2..MaxRound : total <= Income[r] /\ Income[r] \in Nat
      BY <1>8
    <2> HIDE DEF owed, total
    <2> QED
      BY <2>1, <2>2
  <1> DEFINE raised == SumFunction(h)
  <1>12. /\ owed \in Nat /\ raised \in Nat
         /\ Owed(p) = owed /\ Raised(p) = raised
         /\ p.active = {} => owed = 0
    BY <1>5, <1>9, <1>10
  <1> HIDE DEF owed, raised
  <1> QED
    BY <1>11, <1>12

LEMMA ShopLevelIs ==
  ASSUME NEW p \in Positions
  PROVE  ShopLevel(p) \in Nat \ {0}
PROOF
  <1> DEFINE L == {OfficerRow[o].level : o \in Range(p.officers)}
             M == {1} \cup L
  <1>1. p.officers \in Seq(Officer)
    BY DEF Positions
  <1>2. L \in SUBSET Nat
    <2>1. \A o \in Officer : OfficerRow[o].level \in Nat
      BY TablesAssumption DEF TablesAssumption, OfficerRows
    <2>2. \A o \in Range(p.officers) : o \in Officer
      BY <1>1 DEF Range
    <2> QED
      BY <2>1, <2>2
  <1>3. IsFiniteSet(L)
    <2> DEFINE S == DOMAIN p.officers
               g == [k \in S |-> OfficerRow[p.officers[k]].level]
    <2>1. IsFiniteSet(S)
      <3>1. S = 1..Len(p.officers) /\ Len(p.officers) \in Nat
        BY <1>1
      <3> QED
        BY <3>1, FS_Interval
    <2>2. g \in Surjection(S, L)
      BY DEF Surjection, Range
    <2> HIDE DEF S, g, L
    <2> QED
      BY <2>1, <2>2, FS_Surjection
  <1>4. IsFiniteSet(M) /\ M \in SUBSET Int /\ 1 \in M
    BY <1>2, <1>3, FS_AddElement
  <1> HIDE DEF L
  <1>5. \E x \in M : \A y \in M : x >= y
    <2> HIDE DEF M
    <2> QED
      BY <1>4, MaxExists
  <1>6. Max(M) \in M /\ Max(M) >= 1
    BY <1>4, <1>5 DEF Max
  <1>7. Raised(p) \in Nat
    BY OwedBound
  <1>8. Max(M) \in Int
    BY <1>4, <1>6
  <1> HIDE DEF M
  <1>9. ShopLevel(p) = Max(M) + Raised(p)
    BY DEF ShopLevel, M, L
  <1> QED
    BY <1>6, <1>7, <1>8, <1>9

LEMMA PricesInt ==
  ASSUME NEW p \in Positions
  PROVE  /\ \A u \in Unit : /\ BuyPrice(p, u) \in Nat
                            /\ BuyAtLevel(p, u) \in Nat
                            /\ UnlockPrice(p, u) \in Nat
                            /\ \A n \in Int : UpgradePrice(p, u, n) \in Nat
         /\ \A t \in DOMAIN TechRow : TechPrice(p, t) \in Nat
PROOF
  <1>1. \A n \in Int : Floored(n) \in Nat
    BY DEF Floored
  <1>2. \A field \in Priced : Modifier(p, field) \in Int
    BY ModifierTypes
  <1>3. /\ Modifier(p, "buy") \in Int /\ Modifier(p, "unlock") \in Int
        /\ Modifier(p, "upgrade") \in Int /\ Modifier(p, "tech") \in Int
    BY <1>2 DEF Priced
  <1>4. ShopLevel(p) \in Nat
    BY ShopLevelIs
  <1> HIDE DEF Modifier, ShopLevel
  <1>5. \A u \in Unit :
          /\ UnitRow[u].price \in Int /\ UnitRow[u].unlock \in Int
          /\ UnitRow[u].upgrade \in Int
    BY TablesAssumption DEF TablesAssumption, UnitRows
  <1>6. ASSUME NEW u \in Unit
        PROVE  /\ BuyPrice(p, u) \in Nat /\ UnlockPrice(p, u) \in Nat
               /\ \A n \in Int : UpgradePrice(p, u, n) \in Nat
    BY <1>1, <1>3, <1>5 DEF BuyPrice, UnlockPrice, UpgradePrice
  <1>7. ASSUME NEW u \in Unit PROVE BuyAtLevel(p, u) \in Nat
    <2> DEFINE a == ShopLevel(p) - 1
               c == UnitRow[u].upgrade
    <2>1. a \in Int /\ c \in Int
      BY <1>4, <1>5
    <2> HIDE DEF a, c
    <2>2. a * c \in Int
      BY <2>1
    <2>3. UnitRow[u].price + a * c + Modifier(p, "buy") \in Int
      BY <1>3, <1>5, <2>2
    <2> QED
      BY <1>1, <2>3 DEF BuyAtLevel, a, c
  <1>8. ASSUME NEW t \in DOMAIN TechRow PROVE TechPrice(p, t) \in Nat
    <2> DEFINE H == {h \in p.techs : TechRow[h].unit = TechRow[t].unit}
    <2>1. IsFiniteSet(H)
      <3>1. IsFiniteSet(DOMAIN TechRow)
        BY DeploymentAssumption DEF DeploymentAssumption
      <3>2. H \subseteq DOMAIN TechRow
        BY DEF Positions
      <3> HIDE DEF H
      <3> QED
        BY <3>1, <3>2, FS_Subset
    <2>2. Cardinality(H) \in Nat
      <3> HIDE DEF H
      <3> QED
        BY <2>1, FS_CardinalityType
    <2>3. RepeatStep \in Nat /\ TechRow[t].price \in Int
      BY DeploymentAssumption, TablesAssumption
      DEF DeploymentAssumption, TablesAssumption
    <2> DEFINE c == Cardinality(H)
    <2> HIDE DEF H
    <2>4. c \in Nat
      BY <2>2
    <2> HIDE DEF c
    <2>5. TechRow[t].price + Modifier(p, "tech") + RepeatStep * c \in Int
      BY <1>3, <2>3, <2>4
    <2> QED
      BY <1>1, <2>5 DEF TechPrice, c, H
  <1> QED
    BY <1>6, <1>7, <1>8

-----------------------------------------------------------------------------
(* The opening of a round.                                                 *)

LEMMA GrowsThen ==
  ASSUME NEW p \in Positions, NEW q \in Positions, NEW r \in Positions,
         Grows(p, q), Grows(q, r)
  PROVE  Grows(p, r)
PROOF
  <1>0. \A x \in Positions :
          /\ x.next \in [unit : Nat, device : Nat]
          /\ x.units \in Partial(Nat, Formations)
          /\ x.towers \in [{1, 2} -> Nat]
    BY DEF Positions
  <1>1. /\ p.next.unit \in Int /\ q.next.unit \in Int
        /\ r.next.unit \in Int /\ p.next.device \in Int
        /\ q.next.device \in Int /\ r.next.device \in Int
    BY <1>0
  <1>2. \A x \in Positions : \A i \in DOMAIN x.units :
          i \in Nat /\ x.units[i] \in Formations
    BY <1>0, PartialElim
  <1>3. \A x \in Positions : \A i \in DOMAIN x.units : x.units[i].level \in Int
    BY <1>2 DEF Formations
  <1>4. ASSUME NEW i \in DOMAIN r.units
        PROVE  \/ i >= p.next.unit
               \/ /\ i \in DOMAIN p.units
                  /\ r.units[i].type = p.units[i].type
                  /\ r.units[i].value = p.units[i].value
                  /\ r.units[i].level >= p.units[i].level
    <2>1. CASE i >= q.next.unit
      <3>1. i \in Int /\ p.next.unit <= q.next.unit
        BY <1>2 DEF Grows
      <3> QED
        BY <1>1, <2>1, <3>1
    <2>2. CASE /\ i \in DOMAIN q.units /\ i \in DOMAIN p.units
               /\ ~ i >= q.next.unit
                 /\ ~ i >= p.next.unit
      <3>1. /\ r.units[i].type = q.units[i].type
            /\ r.units[i].value = q.units[i].value
            /\ r.units[i].level >= q.units[i].level
            /\ q.units[i].type = p.units[i].type
            /\ q.units[i].value = p.units[i].value
            /\ q.units[i].level >= p.units[i].level
        BY <2>2 DEF Grows
      <3>2. /\ r.units[i].level \in Int /\ q.units[i].level \in Int
            /\ p.units[i].level \in Int
        BY <1>3, <2>2
      <3>3. r.units[i].level >= p.units[i].level
        BY <3>1, <3>2
      <3> QED
        BY <2>2, <3>1, <3>3
    <2> QED
      BY <2>1, <2>2 DEF Grows
  <1>5. \A w \in {1, 2} : r.towers[w] >= p.towers[w]
    <2> TAKE w \in {1, 2}
    <2>1. /\ r.towers[w] \in Nat /\ q.towers[w] \in Nat
          /\ p.towers[w] \in Nat
      BY <1>0
    <2> QED
      BY <2>1 DEF Grows
  <1>6. p.next.unit <= r.next.unit /\ p.next.device <= r.next.device
    BY <1>1 DEF Grows
  <1>7. IsRestriction(r.constructions, p.constructions)
    BY DEF Grows, IsRestriction
  <1> QED
    BY <1>4, <1>5, <1>6, <1>7 DEF Grows

LEMMA AddedGrows ==
  ASSUME NEW p \in Good, NEW q \in Added(p)
  PROVE  Grows(p, q) /\ q.plans = p.plans /\ q.core = p.core
PROOF
  <1>1. /\ p \in Positions /\ q \in Positions /\ Adds(p, q)
        /\ p.units \in Partial(Nat, Formations)
        /\ p.towers \in [{1, 2} -> Nat]
        /\ p.next \in [unit : Nat, device : Nat]
    BY DEF Added, Good, Positions
  <1>2. \A i \in DOMAIN p.units : p.units[i] \in Formations
    BY <1>1, PartialElim
  <1>3. \A i \in DOMAIN p.units : p.units[i].level \in Int
    BY <1>2 DEF Formations
  <1>4. \A w \in {1, 2} : q.towers[w] >= p.towers[w]
    BY <1>1 DEF Adds
  <1>5. p.next.device <= q.next.device
    BY <1>1 DEF Adds
  <1> QED
    BY <1>1, <1>3, <1>4, <1>5 DEF Adds, Grows, IsRestriction

(* What is handed out as a round opens comes rested.                       *)
LEMMA AddedOpened ==
  ASSUME NEW p \in Good, NEW q \in Added(p), Opened(p)
  PROVE  Opened(q)
PROOF
  <1>1. Adds(p, q)
    BY DEF Added
  <1>2. Allowances(q) = Allowances(p)
    BY <1>1 DEF Adds, Allowances
  <1> QED
    BY <1>1, <1>2 DEF Adds, Opened, Arrives

LEMMA AllowancesTypes ==
  ASSUME NEW p \in Positions
  PROVE  /\ Allowances(p) \in [buys : Int, unlocks : Int, devices : Int]
         /\ Allowances(p).buys >= 0 /\ Allowances(p).unlocks >= 0
         /\ Allowances(p).devices >= 0
PROOF
  <1> DEFINE X == {k \in DOMAIN p.officers : OfficerRow[p.officers[k]].extra}
  <1>1. IsFiniteSet(X)
    <2>1. p.officers \in Seq(Officer)
      BY DEF Positions
    <2>2. IsFiniteSet(DOMAIN p.officers)
      <3>1. DOMAIN p.officers = 1..Len(p.officers)
        BY <2>1
      <3> QED
        BY <2>1, <3>1, FS_Interval
    <2>3. X \subseteq DOMAIN p.officers
      OBVIOUS
    <2> HIDE DEF X
    <2> QED
      BY <2>2, <2>3, FS_Subset
  <1>2. Cardinality(X) \in Nat
    <2> HIDE DEF X
    <2> QED
      BY <1>1, FS_CardinalityType
  <1> DEFINE c == Cardinality(X)
  <1>3. Allowances(p) = [buys |-> 2 + c, unlocks |-> 1, devices |-> 8]
    BY DEF Allowances
  <1> HIDE DEF X
  <1>4. c \in Nat
    BY <1>2
  <1> HIDE DEF c
  <1> QED
    BY <1>3, <1>4

LEMMA RestedIs ==
  ASSUME NEW s \in Slots
  PROVE  Rested(s) \in Slots /\ Rested(s).id = s.id /\ Fresh(Rested(s))
PROOF
  <1>1. s.id \in Skill /\ SkillRow[s.id].spent \in Nat
    BY TablesAssumption DEF TablesAssumption, Slots
  <1>2. s.cooldown \in Nat /\ Floored(s.cooldown - 1) \in Nat
    BY DEF Slots, Floored
  <1> HIDE DEF Floored
  <1> QED
    BY <1>1, <1>2 DEF Rested, Slots, Fresh

(* reset(): every debt is covered by the income.                           *)
LEMMA ResetGood ==
  ASSUME NEW p \in Good, NEW r \in 1..MaxRound
  PROVE  /\ Reset(p, r) \in Good
         /\ Grows(p, Reset(p, r))
         /\ Reset(p, r).plans = p.plans /\ Reset(p, r).core = p.core
         /\ Reset(p, r).officers = p.officers
         /\ (\A i \in DOMAIN p.units : ~ p.units[i].travelling)
              => Opened(Reset(p, r))
         /\ p.supply >= 0 /\ (r = 1 => p.active = {})
              => Affordable(Reset(p, r))
PROOF
  <1> DEFINE q == Reset(p, r)
             P == [i \in DOMAIN p.panel |-> Rested(p.panel[i])]
             U == [i \in DOMAIN p.units |->
                     [p.units[i] EXCEPT
                        !.source = IF r <= 1 THEN "joined" ELSE "legacy",
                        !.redeployed = FALSE]]
             A == Allowances(p)
             n == p.supply + RoundIncome(p, r) + PaidByItems(p) - Owed(p)
  <1>1. /\ p \in Positions /\ p.panel \in Partial(Nat, Slots)
        /\ p.units \in Partial(Nat, Formations)
        /\ IsFiniteSet(DOMAIN p.panel)
        /\ p.supply \in Int /\ p.towers \in [{1, 2} -> Nat]
        /\ p.next \in [unit : Nat, device : Nat]
    BY DEF Good, Positions
  <1>2. /\ DOMAIN p.panel \in SUBSET Nat /\ DOMAIN p.units \in SUBSET Nat
        /\ \A i \in DOMAIN p.panel : p.panel[i] \in Slots
        /\ \A i \in DOMAIN p.units : p.units[i] \in Formations
    BY <1>1, PartialElim
  <1>3. /\ P \in [DOMAIN p.panel -> Slots]
        /\ \A i \in DOMAIN p.panel : P[i].id = p.panel[i].id /\ Fresh(P[i])
    <2>1. \A i \in DOMAIN p.panel :
            /\ Rested(p.panel[i]) \in Slots
            /\ Rested(p.panel[i]).id = p.panel[i].id
            /\ Fresh(Rested(p.panel[i]))
      BY <1>2, RestedIs
    <2> QED
      BY <2>1
  <1>4. P \in Partial(Nat, Slots) /\ DOMAIN P = DOMAIN p.panel
    BY <1>2, <1>3, PartialIntro
  <1>5. /\ U \in [DOMAIN p.units -> Formations]
        /\ \A i \in DOMAIN p.units :
             /\ U[i].type = p.units[i].type /\ U[i].value = p.units[i].value
             /\ U[i].level = p.units[i].level /\ U[i].spot = p.units[i].spot
             /\ U[i].worn = p.units[i].worn
             /\ U[i].travelling = p.units[i].travelling
             /\ U[i].redeployed = FALSE /\ U[i].level \in Nat
    BY <1>2 DEF Formations
  <1>6. U \in Partial(Nat, Formations) /\ DOMAIN U = DOMAIN p.units
    BY <1>2, <1>5, PartialIntro
  <1>7. A \in [buys : Int, unlocks : Int, devices : Int]
    BY <1>1, AllowancesTypes
  <1>8. /\ n \in Int
        /\ p.supply >= 0 /\ (r = 1 => p.active = {}) => n >= 0
    <2>1. /\ Modifier(p, "round") \in Nat /\ Modifier(p, "first") \in Nat
      BY <1>1, ModifierTypes DEF Paying
    <2>2. PaidByItems(p) \in Nat /\ Owed(p) \in Nat
      BY <1>1, PaidNat, OwedBound
    <2>3. Income[r] \in Nat /\ MaxRound \in Nat
      BY DeploymentAssumption DEF DeploymentAssumption
    <2>4. p.active = {} => Owed(p) = 0
      BY <1>1, OwedBound
    <2>5. r # 1 => Owed(p) <= Income[r]
      BY <1>1, <2>3, OwedBound
    <2> DEFINE e == IF r = 1 THEN Modifier(p, "first") ELSE 0
    <2>6. e \in Nat /\ RoundIncome(p, r) = Income[r] + Modifier(p, "round") + e
      BY <2>1 DEF RoundIncome
    <2> HIDE DEF e, Modifier, PaidByItems, Owed, RoundIncome
    <2> QED
      BY <1>1, <2>1, <2>2, <2>3, <2>4, <2>5, <2>6
  <1>9. q = [p EXCEPT !.panel = P, !.left = A, !.supply = n, !.active = {},
                      !.units = U]
    BY <1>1 DEF Reset, Positions
  <1> HIDE DEF q, P, U, A, n
  <1>10. /\ q \in Positions /\ q.panel = P /\ q.left = A /\ q.supply = n
         /\ q.active = {} /\ q.units = U
         /\ q.core = p.core /\ q.officers = p.officers /\ q.plans = p.plans
         /\ q.towers = p.towers /\ q.techs = p.techs
         /\ q.devices = p.devices /\ q.shop = p.shop /\ q.next = p.next
         /\ q.constructions = p.constructions
    BY <1>1, <1>4, <1>6, <1>7, <1>8, <1>9 DEF Positions
  <1>11. q \in Good
    <2>1. Blocked(q) = Blocked(p)
      BY <1>10 DEF Blocked
    <2>2. SlotsOf(q) = SlotsOf(p) /\ SlotsOf(p) \in Nat
      BY <1>1, <1>10, SlotsOfNat DEF SlotsOf, Modifier
    <2>3. SlotsOf(p) <= SlotsOf(q)
      BY <2>2
    <2> QED
      BY <1>1, <1>4, <1>5, <1>6, <1>10, <2>1, <2>3, StaysGood
  <1>12. Grows(p, q)
    <2>1. \A w \in {1, 2} : q.towers[w] >= p.towers[w]
      BY <1>1, <1>10
    <2> QED
      BY <1>1, <1>3, <1>4, <1>5, <1>6, <1>10, <2>1 DEF Grows, IsRestriction
  <1>13. (\A i \in DOMAIN p.units : ~ p.units[i].travelling) => Opened(q)
    <2>1. Allowances(q) = A
      BY <1>10 DEF Allowances, A
    <2> QED
      BY <1>3, <1>4, <1>5, <1>6, <1>10, <2>1 DEF Opened
  <1>14. n >= 0 => Affordable(q)
    <2>1. A.buys >= 0 /\ A.unlocks >= 0 /\ A.devices >= 0
      BY <1>1, AllowancesTypes DEF A
    <2> QED
      BY <1>10, <2>1 DEF Affordable
  <1> QED
    BY <1>8, <1>10, <1>11, <1>12, <1>13, <1>14 DEF q

LEMMA DeliverAllGood ==
  ASSUME NEW p \in Good, NEW l \in Seq(Officer), NEW r \in Nat \ {0}
  PROVE  DeliverAll(p, l, r) \subseteq Added(p)
PROOF
  <1>1. PICK g : Deliveries(g, p, l, r)
    BY DeliverAllFolds
  <1>2. Len(l) \in 0..Len(l)
    OBVIOUS
  <1> QED
    BY <1>1, <1>2 DEF Deliveries

LEMMA DeliverTeamGood ==
  ASSUME NEW p \in Good, NEW l \in Seq(Unit)
  PROVE  DeliverTeam(p, l) \subseteq Added(p)
PROOF
  <1>1. PICK g : /\ g \in [0..Len(l) -> SUBSET Added(p)]
                 /\ DeliverTeam(p, l) = g[Len(l)]
    BY DeliverTeamFolds
  <1>2. Len(l) \in 0..Len(l)
    OBVIOUS
  <1> QED
    BY <1>1, <1>2

(* open_round(): the reset, and what the officers add to it.               *)
LEMMA OpenRoundGood ==
  ASSUME NEW p \in Good, NEW r \in 1..MaxRound, NEW q \in OpenRound(p, r)
  PROVE  /\ q \in Good /\ Grows(p, q)
         /\ q.plans = p.plans /\ q.core = p.core
         /\ (\A i \in DOMAIN p.units : ~ p.units[i].travelling) => Opened(q)
         /\ p.supply >= 0 /\ (r = 1 => p.active = {}) => Affordable(q)
PROOF
  <1> DEFINE m == Reset(p, r)
  <1>1. /\ m \in Good /\ Grows(p, m)
        /\ m.plans = p.plans /\ m.core = p.core
        /\ (\A i \in DOMAIN p.units : ~ p.units[i].travelling) => Opened(m)
        /\ p.supply >= 0 /\ (r = 1 => p.active = {}) => Affordable(m)
    BY ResetGood
  <1>2. p.officers \in Seq(Officer) /\ r \in Nat \ {0}
    BY DeploymentAssumption DEF Good, Positions, DeploymentAssumption
  <1>3. q \in DeliverAll(m, p.officers, r)
    BY DEF OpenRound
  <1> HIDE DEF m
  <1>4. q \in Added(m)
    BY <1>1, <1>2, <1>3, DeliverAllGood
  <1>5. /\ q \in Good /\ Adds(m, q)
        /\ Grows(m, q) /\ q.plans = m.plans /\ q.core = m.core
    BY <1>1, <1>4, AddedGrows DEF Added
  <1>6. Grows(p, q)
    BY <1>1, <1>5, GrowsThen DEF Good
  <1>7. Opened(m) => Opened(q)
    BY <1>1, <1>4, AddedOpened
  <1>8. Affordable(m) => Affordable(q)
    BY <1>5 DEF Adds, Affordable
  <1> QED
    BY <1>1, <1>5, <1>6, <1>7, <1>8

LEMMA ArrivedGood ==
  ASSUME NEW p \in Good
  PROVE  /\ Arrived(p) \in Good /\ Grows(p, Arrived(p))
         /\ Arrived(p).plans = p.plans /\ Arrived(p).core = p.core
         /\ Arrived(p).supply = p.supply /\ Arrived(p).active = p.active
         /\ Arrived(p).officers = p.officers
         /\ \A i \in DOMAIN Arrived(p).units :
              ~ Arrived(p).units[i].travelling
PROOF
  <1> DEFINE q == Arrived(p)
             U == [i \in DOMAIN p.units |->
                     [p.units[i] EXCEPT !.travelling = FALSE]]
  <1>1. /\ p \in Positions /\ p.units \in Partial(Nat, Formations)
        /\ IsFiniteSet(DOMAIN p.panel)
        /\ p.towers \in [{1, 2} -> Nat]
        /\ p.next \in [unit : Nat, device : Nat]
    BY DEF Good, Positions
  <1>2. /\ DOMAIN p.units \in SUBSET Nat
        /\ \A i \in DOMAIN p.units : p.units[i] \in Formations
    BY <1>1, PartialElim
  <1>3. /\ U \in [DOMAIN p.units -> Formations]
        /\ \A i \in DOMAIN p.units :
             /\ U[i].type = p.units[i].type /\ U[i].value = p.units[i].value
             /\ U[i].level = p.units[i].level /\ U[i].spot = p.units[i].spot
             /\ U[i].worn = p.units[i].worn
             /\ U[i].travelling = FALSE /\ U[i].level \in Nat
    BY <1>2 DEF Formations
  <1>4. U \in Partial(Nat, Formations) /\ DOMAIN U = DOMAIN p.units
    BY <1>2, <1>3, PartialIntro
  <1>5. q = [p EXCEPT !.units = U]
    BY <1>1 DEF Arrived
  <1> HIDE DEF q, U
  <1>6. /\ q \in Positions /\ q.units = U
        /\ q.panel = p.panel /\ q.left = p.left /\ q.supply = p.supply
        /\ q.active = p.active /\ q.core = p.core
        /\ q.officers = p.officers /\ q.plans = p.plans
        /\ q.towers = p.towers /\ q.techs = p.techs
        /\ q.devices = p.devices /\ q.shop = p.shop /\ q.next = p.next
        /\ q.constructions = p.constructions
    BY <1>1, <1>4, <1>5 DEF Positions
  <1>7. q \in Good
    <2>1. Blocked(q) = Blocked(p)
      BY <1>6 DEF Blocked
    <2>2. SlotsOf(q) = SlotsOf(p) /\ SlotsOf(p) \in Nat
      BY <1>1, <1>6, SlotsOfNat DEF SlotsOf, Modifier
    <2>3. SlotsOf(p) <= SlotsOf(q)
      BY <2>2
    <2> QED
      BY <1>1, <1>3, <1>4, <1>6, <2>1, <2>3, StaysGood
  <1>8. Grows(p, q)
    <2>1. \A w \in {1, 2} : q.towers[w] >= p.towers[w]
      BY <1>1, <1>6
    <2> QED
      BY <1>1, <1>3, <1>4, <1>6, <2>1 DEF Grows, IsRestriction
  <1> QED
    BY <1>3, <1>4, <1>6, <1>7, <1>8 DEF q

(* fought(): the fight takes off the core, and leaves a part of the        *)
(* contraptions and of the shields.                                        *)
LEMMA FoughtGood ==
  ASSUME NEW p \in Good, NEW w \in Outcomes(p)
  PROVE  /\ Fought(p, w) \in Good /\ Grows(p, Fought(p, w))
         /\ Fought(p, w).plans = p.plans /\ Fought(p, w).core <= p.core
         /\ Fought(p, w).supply = p.supply
         /\ Fought(p, w).active = p.active
         /\ Fought(p, w).officers = p.officers
PROOF
  <1> DEFINE q == Fought(p, w)
             U == [i \in DOMAIN p.units |->
                     [p.units[i] EXCEPT !.exp = w.exp[i]]]
             P == [i \in DOMAIN p.panel |->
                     [p.panel[i] EXCEPT
                        !.standing =
                          StandsOn(p.panel[i], w.lost[i], i \in w.left)]]
             D == Restrict(p.devices, w.kept)
             c == p.core - w.damage
  <1>1. /\ p \in Positions /\ p.units \in Partial(Nat, Formations)
        /\ p.panel \in Partial(Nat, Slots)
        /\ p.devices \in Partial(Nat, Contraptions)
        /\ IsFiniteSet(DOMAIN p.panel)
        /\ p.core \in Int
        /\ p.towers \in [{1, 2} -> Nat]
        /\ p.next \in [unit : Nat, device : Nat]
    BY DEF Good, Positions
  <1>2. /\ DOMAIN p.units \in SUBSET Nat
        /\ \A i \in DOMAIN p.units : p.units[i] \in Formations
        /\ DOMAIN p.panel \in SUBSET Nat
        /\ \A i \in DOMAIN p.panel : p.panel[i] \in Slots
    BY <1>1, PartialElim
  <1>3. /\ w.damage \in Nat
        /\ w.exp \in [DOMAIN p.units -> Experience]
        /\ w.kept \in SUBSET DOMAIN p.devices
        /\ w.lost \in [DOMAIN p.panel -> {0, 1}]
        /\ \A i \in DOMAIN p.panel :
             w.lost[i] = 1 => p.panel[i].standing > 0
    BY DeploymentAssumption DEF Outcomes, DeploymentAssumption
  <1>4. /\ U \in [DOMAIN p.units -> Formations]
        /\ \A i \in DOMAIN p.units :
             /\ U[i].type = p.units[i].type /\ U[i].value = p.units[i].value
             /\ U[i].level = p.units[i].level /\ U[i].spot = p.units[i].spot
             /\ U[i].worn = p.units[i].worn
             /\ U[i].travelling = p.units[i].travelling
             /\ U[i].level \in Nat
    BY <1>2, <1>3 DEF Formations
  <1>5. U \in Partial(Nat, Formations) /\ DOMAIN U = DOMAIN p.units
    BY <1>2, <1>4, PartialIntro
  <1>6. /\ P \in [DOMAIN p.panel -> Slots]
        /\ \A i \in DOMAIN p.panel : P[i].id = p.panel[i].id
    <2>1. ASSUME NEW i \in DOMAIN p.panel
          PROVE  StandsOn(p.panel[i], w.lost[i], i \in w.left) \in Nat
      <3>1. /\ p.panel[i].standing \in Nat /\ w.lost[i] \in {0, 1}
            /\ w.lost[i] = 1 => p.panel[i].standing > 0
        BY <1>2, <1>3 DEF Slots
      <3>2. p.panel[i].standing - w.lost[i] \in Nat
        BY <3>1
      <3> QED
        BY <3>2 DEF StandsOn
    <2> HIDE DEF StandsOn
    <2> QED
      BY <1>2, <2>1 DEF Slots
  <1>7. P \in Partial(Nat, Slots) /\ DOMAIN P = DOMAIN p.panel
    BY <1>2, <1>6, PartialIntro
  <1>8. /\ D \in Partial(Nat, Contraptions) /\ DOMAIN D = w.kept
        /\ \A k \in w.kept : D[k] = p.devices[k]
    BY <1>1, <1>3, PartialRestrict
  <1>9. c \in Int /\ c <= p.core
    BY <1>1, <1>3
  <1>10. q = [p EXCEPT !.core = c, !.units = U, !.devices = D, !.panel = P]
    BY <1>1 DEF Fought, Positions
  <1> HIDE DEF q, U, P, D, c
  <1>11. /\ q \in Positions /\ q.units = U /\ q.panel = P /\ q.devices = D
         /\ q.core = c
         /\ q.left = p.left /\ q.supply = p.supply
         /\ q.active = p.active
         /\ q.officers = p.officers /\ q.plans = p.plans
         /\ q.towers = p.towers /\ q.techs = p.techs
         /\ q.shop = p.shop /\ q.next = p.next
         /\ q.constructions = p.constructions
    BY <1>1, <1>5, <1>7, <1>8, <1>9, <1>10 DEF Positions
  <1>12. q \in Good
    <2>1. Blocked(q) \subseteq Blocked(p)
      BY <1>3, <1>8, <1>11 DEF Blocked
    <2>2. SlotsOf(q) = SlotsOf(p) /\ SlotsOf(p) \in Nat
      BY <1>1, <1>11, SlotsOfNat DEF SlotsOf, Modifier
    <2>3. SlotsOf(p) <= SlotsOf(q)
      BY <2>2
    <2>4. /\ DOMAIN q.devices \subseteq DOMAIN p.devices
          /\ IsFiniteSet(DOMAIN q.panel)
          /\ DOMAIN q.units = DOMAIN p.units
      BY <1>1, <1>3, <1>5, <1>7, <1>8, <1>11
    <2> QED
      BY <1>1, <1>4, <1>5, <1>11, <2>1, <2>3, <2>4, StaysGood
  <1>13. Grows(p, q)
    <2>1. \A v \in {1, 2} : q.towers[v] >= p.towers[v]
      BY <1>1, <1>11
    <2> QED
      BY <1>1, <1>4, <1>5, <1>6, <1>7, <1>11, <2>1 DEF Grows, IsRestriction
  <1> QED
    BY <1>9, <1>11, <1>12, <1>13 DEF q

(* A position a round opens with is what its document states.              *)
LEMMA OpenedIsRead ==
  ASSUME NEW q \in Good, Opened(q)
  PROVE  q = Read(q)
PROOF
  <1> DEFINE P == [i \in DOMAIN q.panel |->
                     [q.panel[i] EXCEPT !.used = FALSE, !.order = -1]]
             U == [i \in DOMAIN q.units |->
                     [q.units[i] EXCEPT !.redeployed = FALSE,
                                        !.travelling = FALSE]]
  <1>1. /\ q \in Positions /\ q.units \in Partial(Nat, Formations)
        /\ q.panel \in Partial(Nat, Slots)
    BY DEF Good, Positions
  <1>2. /\ \A i \in DOMAIN q.units : q.units[i] \in Formations
        /\ q.units = [i \in DOMAIN q.units |-> q.units[i]]
    BY <1>1, PartialElim
  <1>3. /\ \A i \in DOMAIN q.panel : q.panel[i] \in Slots
        /\ q.panel = [i \in DOMAIN q.panel |-> q.panel[i]]
    BY <1>1, PartialElim
  <1>4. P = q.panel
    <2>1. ASSUME NEW s \in Slots, Fresh(s)
          PROVE  [s EXCEPT !.used = FALSE, !.order = -1] = s
      BY <2>1 DEF Slots, Fresh
    <2>2. \A i \in DOMAIN q.panel : P[i] = q.panel[i]
      BY <1>3, <2>1 DEF Opened
    <2> QED
      BY <1>3, <2>2
  <1>5. U = q.units
    <2>1. ASSUME NEW f \in Formations, ~ f.redeployed, ~ f.travelling
          PROVE  [f EXCEPT !.redeployed = FALSE, !.travelling = FALSE] = f
      BY <2>1 DEF Formations
    <2>2. \A i \in DOMAIN q.units : U[i] = q.units[i]
      BY <1>2, <2>1 DEF Opened
    <2> QED
      BY <1>2, <2>2
  <1>6. Read(q) = [q EXCEPT !.left = Allowances(q), !.active = {},
                            !.panel = P, !.units = U]
    BY <1>1 DEF Read, Positions
  <1> DEFINE A == Allowances(q)
             r == Read(q)
  <1>7. q.left = A /\ q.active = {}
    BY DEF Opened
  <1>8. r = [q EXCEPT !.left = A, !.active = {}, !.panel = P, !.units = U]
    BY <1>6
  <1> HIDE DEF P, U, A, r
  <1>9. r = [q EXCEPT !.left = q.left, !.active = q.active, !.panel = q.panel,
                      !.units = q.units]
    BY <1>4, <1>5, <1>7, <1>8
  <1>10. r = q
    BY <1>1, <1>9 DEF Positions
  <1> QED
    BY <1>10 DEF r

-----------------------------------------------------------------------------
(* The officers.                                                           *)

(* Every officer that was there keeps its place or moves up by one.        *)
LEMMA SortedIs ==
  ASSUME NEW l \in Seq(Officer), NEW x \in Officer
  PROVE  /\ Sorted(l, x) \in Seq(Officer)
         /\ Len(Sorted(l, x)) = Len(l) + 1
         /\ \E n \in 0..Len(l) :
              \A k \in 1..Len(l) :
                Sorted(l, x)[IF k <= n THEN k ELSE k + 1] = l[k]
PROOF
  <1> DEFINE X == {k \in DOMAIN l : l[k] <= x}
             n == Cardinality(X)
             N == Len(l)
  <1>1. N \in Nat /\ DOMAIN l = 1..N
    OBVIOUS
  <1>2. IsFiniteSet(1..N) /\ Cardinality(1..N) = N
    <2> HIDE DEF N
    <2> QED
      BY <1>1, FS_Interval
  <1>3. X \subseteq 1..N
    BY <1>1
  <1>4. n \in Nat /\ n <= N
    <2> DEFINE D == 1..N
    <2>1. IsFiniteSet(D) /\ X \subseteq D /\ Cardinality(D) = N
      BY <1>2, <1>3
    <2> HIDE DEF X, D, N
    <2>2. IsFiniteSet(X) /\ Cardinality(X) <= Cardinality(D)
      BY <2>1, FS_Subset
    <2> QED
      BY <2>1, <2>2, FS_CardinalityType
  <1> DEFINE j == n + 1
  <1>4a. j \in Int /\ j - 1 = n /\ j = n + 1
    <2> HIDE DEF n
    <2> QED
      BY <1>4
  <1> HIDE DEF X, n, j
  <1> DEFINE a == SubSeq(l, 1, n)
             b == SubSeq(l, j, N)
  <1>5. Sorted(l, x) = (a \o <<x>>) \o b
    <2>1. Sorted(l, x) = InsertAt(l, j, x)
      BY DEF Sorted, X, n, j
    <2>2. InsertAt(l, j, x) = (SubSeq(l, 1, j - 1) \o <<x>>) \o b
      BY Zenon DEF InsertAt
    <2>3. SubSeq(l, 1, j - 1) = a
      BY <1>4a, Zenon
    <2> HIDE DEF a, b
    <2> QED
      BY <2>1, <2>2, <2>3
  <1>6. a \in Seq(Officer) /\ Len(a) = n /\ \A k \in 1..n : a[k] = l[k]
    BY <1>1, <1>4
  <1>7. /\ b \in Seq(Officer) /\ Len(b) = N - n
        /\ \A k \in 1..(N - n) : b[k] = l[n + k]
    <2>1. \A k \in j..N : l[k] \in Officer
      BY <1>1, <1>4, <1>4a
    <2>2. /\ b \in Seq(Officer)
          /\ Len(b) = IF j <= N THEN N - j + 1 ELSE 0
          /\ \A k \in 1..N - j + 1 : b[k] = l[j + k - 1]
      BY <1>1, <1>4a, <2>1, SubSeqProperties
    <2> HIDE DEF b, N
    <2>3. Len(b) = N - n
      BY <1>1, <1>4, <1>4a, <2>2
    <2>4. ASSUME NEW k \in 1..(N - n) PROVE b[k] = l[n + k]
      <3>1. k \in 1..N - j + 1 /\ j + k - 1 = n + k
        BY <1>1, <1>4, <1>4a
      <3> QED
        BY <2>2, <3>1
    <2> QED
      BY <2>2, <2>3, <2>4
  <1> DEFINE c == a \o <<x>>
             s == c \o b
  <1> HIDE DEF a, b
  <1>8. /\ c \in Seq(Officer) /\ Len(c) = n + 1
        /\ \A k \in 1..n : c[k] = l[k]
    BY <1>4, <1>6
  <1> HIDE DEF c
  <1>9. /\ s \in Seq(Officer) /\ Len(s) = N + 1
        /\ \A k \in 1..n : s[k] = l[k]
        /\ \A k \in 1..N - n : s[n + 1 + k] = b[k]
    BY <1>1, <1>4, <1>7, <1>8
  <1>10. \A k \in 1..N : s[IF k <= n THEN k ELSE k + 1] = l[k]
    <2> SUFFICES ASSUME NEW k \in 1..N
                 PROVE  s[IF k <= n THEN k ELSE k + 1] = l[k]
      OBVIOUS
    <2> HIDE DEF s
    <2>1. CASE k <= n
      BY <1>4, <1>9, <2>1
    <2>2. CASE ~ k <= n
      <3>1. k - n \in 1..N - n
        BY <1>1, <1>4, <2>2
      <3>2. s[n + 1 + (k - n)] = b[k - n] /\ b[k - n] = l[n + (k - n)]
        BY <1>7, <1>9, <3>1
      <3>3. n + 1 + (k - n) = k + 1 /\ n + (k - n) = k
        BY <1>1, <1>4
      <3> QED
        BY <2>2, <3>2, <3>3
    <2> QED
      BY <2>1, <2>2
  <1>11. n \in 0..N
    BY <1>1, <1>4
  <1>12. Sorted(l, x) = s
    BY <1>5 DEF c
  <1> HIDE DEF s
  <1> QED
    BY <1>9, <1>10, <1>11, <1>12

(* Another officer takes no slot away.                                     *)
LEMMA SortedSlots ==
  ASSUME NEW p \in Positions, NEW q \in Positions, NEW o \in Officer,
         q.officers = Sorted(p.officers, o)
  PROVE  SlotsOf(p) <= SlotsOf(q)
PROOF
  <1> DEFINE l == p.officers
             m == q.officers
             R == 1..Len(l)
             S == 1..Len(m)
             g == [k \in R |-> OfficerRow[l[k]]["slots"]]
             f == [k \in S |-> OfficerRow[m[k]]["slots"]]
  <1>1. l \in Seq(Officer) /\ m \in Seq(Officer)
    BY DEF Positions
  <1>2. PICK n \in 0..Len(l) :
          \A k \in 1..Len(l) : m[IF k <= n THEN k ELSE k + 1] = l[k]
    <2>1. \E n \in 0..Len(l) :
            \A k \in 1..Len(l) :
              Sorted(l, o)[IF k <= n THEN k ELSE k + 1] = l[k]
      BY <1>1, SortedIs
    <2>2. m = Sorted(l, o)
      OBVIOUS
    <2> QED
      BY <2>1, <2>2
  <1>3. Len(m) = Len(l) + 1
    BY <1>1, SortedIs
  <1>4. IsFiniteSet(R) /\ IsFiniteSet(S)
    BY <1>1, FS_Interval
  <1>5. \A e \in Officer : OfficerRow[e]["slots"] \in Nat
    BY TablesAssumption DEF TablesAssumption, OfficerRows
  <1>6. f \in [S -> Nat] /\ g \in [R -> Nat]
    BY <1>1, <1>5
  <1> DEFINE b == [k \in R |-> IF k <= n THEN k ELSE k + 1]
  <1>7. b \in [R -> S] /\ \A k, j \in R : b[k] = b[j] => k = j
    BY <1>1, <1>3
  <1>8. \A k \in R : g[k] = f[b[k]]
    <2> SUFFICES ASSUME NEW k \in R PROVE g[k] = f[b[k]]
      OBVIOUS
    <2>1. m[b[k]] = l[k] /\ b[k] \in S
      BY <1>2, <1>7
    <2> HIDE DEF b, R, S
    <2> QED
      BY <2>1
  <1>9. /\ Modifier(p, "slots") = SumFunction(g)
        /\ Modifier(q, "slots") = SumFunction(f)
    <2>1. DOMAIN p.officers = R /\ DOMAIN q.officers = S
      BY <1>1
    <2>2. /\ g = [k \in DOMAIN p.officers |->
                     OfficerRow[p.officers[k]]["slots"]]
          /\ f = [k \in DOMAIN q.officers |->
                     OfficerRow[q.officers[k]]["slots"]]
      BY <2>1
    <2> HIDE DEF f, g
    <2> QED
      BY <2>2 DEF Modifier
  <1> HIDE DEF R, S, f, g, b
  <1>10. SumFunction(g) <= SumFunction(f)
    BY <1>4, <1>6, <1>7, <1>8, SumEmbeds
  <1>11. SumFunction(g) \in Nat /\ SumFunction(f) \in Nat
    BY <1>4, <1>6, SumNat
  <1> QED
    BY <1>9, <1>10, <1>11 DEF SlotsOf

-----------------------------------------------------------------------------
(* What a decision keeps.                                                  *)

(* A position that may follow p, the blueprints left alone.                *)
Keeps(p, q) ==
  /\ q \in Good /\ Grows(p, q)
  /\ q.plans = p.plans /\ q.core <= p.core

LEMMA KeepsItself ==
  ASSUME NEW p \in Good
  PROVE  Keeps(p, p)
PROOF
  <1>1. p \in Added(p)
    BY AddedItself
  <1>2. p.core \in Int
    BY DEF Good, Positions
  <1> QED
    BY <1>1, <1>2, AddedGrows DEF Keeps, Added

LEMMA KeepsThen ==
  ASSUME NEW p \in Good, NEW q, Keeps(p, q), NEW r, Keeps(q, r)
  PROVE  Keeps(p, r)
PROOF
  <1>1. /\ p \in Positions /\ q \in Positions /\ r \in Positions
        /\ p.core \in Int /\ q.core \in Int /\ r.core \in Int
    BY DEF Keeps, Good, Positions
  <1>2. Grows(p, r)
    BY <1>1, GrowsThen DEF Keeps
  <1> QED
    BY <1>1, <1>2 DEF Keeps

LEMMA AddedKeeps ==
  ASSUME NEW p \in Good, NEW q \in Added(p)
  PROVE  Keeps(p, q)
PROOF
  <1>1. p.core \in Int
    BY DEF Good, Positions
  <1> QED
    BY <1>1, AddedGrows DEF Keeps, Added

(* The purse, the allowances, the stock, the towers, the research and the  *)
(* shop are no part of the board.                                          *)
LEMMA AsideKeeps ==
  ASSUME NEW p \in Good, NEW q \in Positions, q.next = p.next,
         q.units = p.units, q.devices = p.devices, q.panel = p.panel,
         q.constructions = p.constructions, q.officers = p.officers,
         q.plans = p.plans, q.core = p.core,
         p.techs \subseteq q.techs, p.shop \subseteq q.shop,
         \A w \in {1, 2} : q.towers[w] >= p.towers[w]
  PROVE  Keeps(p, q)
PROOF
  <1>1. q \in Good
    BY SameBoard DEF Good
  <1>2. Keeps(p, p) /\ q.core <= p.core
    BY KeepsItself DEF Keeps
  <1>3. Grows(p, q)
    BY <1>2 DEF Keeps, Grows
  <1> QED
    BY <1>1, <1>2, <1>3 DEF Keeps

LEMMA LedgerKeeps ==
  ASSUME NEW p \in Good, NEW s \in Int,
         NEW l \in [buys : Int, unlocks : Int, devices : Int]
  PROVE  Keeps(p, [p EXCEPT !.supply = s, !.left = l])
PROOF
  <1> DEFINE q == [p EXCEPT !.supply = s, !.left = l]
  <1>1. p \in Positions /\ p.towers \in [{1, 2} -> Nat]
    BY DEF Good, Positions
  <1>2. /\ q \in Positions /\ q.next = p.next
        /\ q.units = p.units /\ q.devices = p.devices /\ q.panel = p.panel
        /\ q.constructions = p.constructions /\ q.officers = p.officers
        /\ q.plans = p.plans /\ q.core = p.core
        /\ q.techs = p.techs /\ q.shop = p.shop /\ q.towers = p.towers
    BY <1>1 DEF Positions
  <1>3. \A w \in {1, 2} : q.towers[w] >= p.towers[w]
    BY <1>1, <1>2
  <1> HIDE DEF q
  <1>4. Keeps(p, q)
    BY <1>2, <1>3, AsideKeeps
  <1> QED
    BY <1>4 DEF q

(* A slot that stays the skill's.                                          *)
LEMMA SlotKeeps ==
  ASSUME NEW p \in Good, NEW i \in DOMAIN p.panel, NEW s \in Slots,
         s.id = p.panel[i].id
  PROVE  Keeps(p, [p EXCEPT !.panel = [@ EXCEPT ![i] = s]])
PROOF
  <1> DEFINE P == [p.panel EXCEPT ![i] = s]
             q == [p EXCEPT !.panel = P]
  <1>1. /\ p \in Positions /\ p.panel \in Partial(Nat, Slots)
        /\ IsFiniteSet(DOMAIN p.panel)
    BY DEF Good, Positions
  <1>2. /\ DOMAIN p.panel \in SUBSET Nat
        /\ \A k \in DOMAIN p.panel : p.panel[k] \in Slots
        /\ p.panel \in [DOMAIN p.panel -> Slots]
    BY <1>1, PartialElim
  <1>3. /\ P \in [DOMAIN p.panel -> Slots] /\ DOMAIN P = DOMAIN p.panel
        /\ \A k \in DOMAIN p.panel : P[k].id = p.panel[k].id
    BY <1>2
  <1>4. P \in Partial(Nat, Slots)
    BY <1>2, <1>3, PartialIntro
  <1> HIDE DEF P
  <1>5. /\ q \in Positions /\ q.next = p.next /\ q.panel = P
        /\ q.units = p.units /\ q.devices = p.devices
        /\ q.constructions = p.constructions /\ q.officers = p.officers
        /\ q.plans = p.plans /\ q.core = p.core
        /\ q.techs = p.techs /\ q.shop = p.shop /\ q.towers = p.towers
    BY <1>1, <1>4 DEF Positions
  <1>6. [p EXCEPT !.panel = [@ EXCEPT ![i] = s]] = q
    BY <1>1 DEF P, Positions
  <1> HIDE DEF q
  <1>7. q \in Good
    BY <1>1, <1>3, <1>5, SameBoard
  <1>8. Keeps(p, p)
    BY KeepsItself
  <1>9. Grows(p, q)
    BY <1>3, <1>5, <1>8 DEF Keeps, Grows
  <1> QED
    BY <1>5, <1>6, <1>7, <1>8, <1>9 DEF Keeps

(* A formation that stays what it is and clear of everything else.         *)
LEMMA FormationKeeps ==
  ASSUME NEW p \in Good, NEW i \in DOMAIN p.units, NEW f \in Formations,
         f.type = p.units[i].type, f.value = p.units[i].value,
         f.level >= p.units[i].level, f.spot \notin Occupied(p, i),
         Len(f.worn) <= SlotsOf(p), f.travelling => Flank(f.spot)
  PROVE  Keeps(p, [p EXCEPT !.units = [@ EXCEPT ![i] = f]])
PROOF
  <1> DEFINE U == [p.units EXCEPT ![i] = f]
             q == [p EXCEPT !.units = U]
  <1>1. /\ p \in Positions /\ p.units \in Partial(Nat, Formations)
        /\ IsFiniteSet(DOMAIN p.panel)
    BY DEF Good, Positions
  <1>2. /\ DOMAIN p.units \in SUBSET Nat
        /\ \A k \in DOMAIN p.units : p.units[k] \in Formations
        /\ p.units \in [DOMAIN p.units -> Formations]
    BY <1>1, PartialElim
  <1>3. /\ U \in [DOMAIN p.units -> Formations] /\ DOMAIN U = DOMAIN p.units
        /\ U[i] = f /\ \A k \in DOMAIN p.units \ {i} : U[k] = p.units[k]
    BY <1>2
  <1>4. U \in Partial(Nat, Formations)
    BY <1>2, <1>3, PartialIntro
  <1> HIDE DEF U
  <1>5. /\ q \in Positions /\ q.next = p.next /\ q.panel = p.panel
        /\ q.units = U /\ q.devices = p.devices
        /\ q.constructions = p.constructions /\ q.officers = p.officers
        /\ q.plans = p.plans /\ q.core = p.core
        /\ q.techs = p.techs /\ q.shop = p.shop /\ q.towers = p.towers
    BY <1>1, <1>4 DEF Positions
  <1>6. [p EXCEPT !.units = [@ EXCEPT ![i] = f]] = q
    BY <1>1 DEF U, Positions
  <1> HIDE DEF q
  <1>7. q \in Good
    <2>1. Blocked(q) = Blocked(p) /\ SlotsOf(q) = SlotsOf(p)
      BY <1>5 DEF Blocked, SlotsOf, Modifier
    <2>2. /\ \A k \in DOMAIN p.units \ {i} : p.units[k].spot # f.spot
          /\ f.spot \notin Range(p.constructions) \cup Blocked(p)
      BY DEF Occupied, Blocked
    <2>3. \A k \in DOMAIN p.units : Clear(p, k)
      BY DEF Good
    <2>4. \A k \in DOMAIN q.units : Clear(q, k)
      BY <1>3, <1>5, <2>1, <2>2, <2>3 DEF Clear
    <2>5. \A k \in DOMAIN q.units :
            /\ Len(q.units[k].worn) <= SlotsOf(q)
            /\ q.units[k].travelling => Flank(q.units[k].spot)
      BY <1>3, <1>5, <2>1 DEF Good
    <2> QED
      BY <1>1, <1>3, <1>5, <2>4, <2>5 DEF Good
  <1>8. Keeps(p, p)
    BY KeepsItself
  <1>9. Grows(p, q)
    BY <1>3, <1>5, <1>8 DEF Keeps, Grows
  <1> QED
    BY <1>5, <1>6, <1>7, <1>8, <1>9 DEF Keeps

(* A formation is clear of everything else where it stands.                *)
LEMMA OwnSpot ==
  ASSUME NEW p \in Good, NEW i \in DOMAIN p.units
  PROVE  /\ p.units[i] \in Formations
         /\ p.units[i].spot \notin Occupied(p, i)
         /\ Len(p.units[i].worn) <= SlotsOf(p)
         /\ p.units[i].travelling => Flank(p.units[i].spot)
PROOF
  <1>1. p.units \in Partial(Nat, Formations)
    BY DEF Good, Positions
  <1>2. p.units[i] \in Formations
    BY <1>1, PartialElim
  <1>3. /\ Clear(p, i) /\ Len(p.units[i].worn) <= SlotsOf(p)
        /\ p.units[i].travelling => Flank(p.units[i].spot)
    BY DEF Good
  <1>4. p.units[i].spot \notin Occupied(p, i)
    BY <1>3 DEF Clear, Occupied, Blocked
  <1> QED
    BY <1>2, <1>3, <1>4

-----------------------------------------------------------------------------
(* Decisions.                                                              *)

(* What SeamsHold asks of every step.                                      *)
SeamStep ==
  /\ NeverReissued
  /\ Extended
  /\ round > 0 => pos'.core <= pos.core
  /\ round' # round => pos' = Read(pos')

(* A blueprint stays or gives way to its next level.                       *)
Plans(p, q) ==
  \A b \in p.plans : b \in q.plans \/ BlueprintRow[b].then \in q.plans

LEMMA GrowsExtends ==
  ASSUME NEW p \in Good, p = pos, pos' \in Good, Grows(pos, pos'),
         Plans(pos, pos')
  PROVE  NeverReissued /\ Extended
PROOF
  <1>1. /\ pos.next \in [unit : Nat, device : Nat]
        /\ pos'.next \in [unit : Nat, device : Nat]
    BY DEF Good, Positions
  <1>2. NeverReissued
    BY <1>1 DEF Grows, NeverReissued
  <1>3. Extended
    BY DEF Grows, Plans, Extended
  <1> QED
    BY <1>2, <1>3

LEMMA TakesKeeps ==
  ASSUME DeployInv, NEW p \in Good, Grows(pos, p), p.core <= pos.core,
         Plans(pos, p), Takes(p)
  PROVE  DeployInv' /\ SeamStep
PROOF
  <1>1. NeverReissued /\ Extended
    BY GrowsExtends DEF DeployInv, Takes
  <1>2. round' = round /\ round # 0 /\ taken' \in Nat
    BY DeploymentAssumption DEF Takes, Bounded, DeployInv, DeploymentAssumption
  <1>3. DeployInv'
    BY <1>2 DEF DeployInv, Takes, Affordable
  <1> QED
    BY <1>1, <1>2, <1>3 DEF SeamStep, Takes

LEMMA AnswersKeeps ==
  ASSUME DeployInv, NEW p \in Good, Keeps(pos, p), Answers(p)
  PROVE  DeployInv' /\ SeamStep
PROOF
  <1>0. Plans(pos, p)
    BY DEF Plans, Keeps
  <1>1. NeverReissued /\ Extended
    BY <1>0, GrowsExtends DEF DeployInv, Answers, Keeps
  <1>2. round' = round /\ round # 0
    BY DeploymentAssumption
    DEF Answers, Bounded, Offered, DeployInv, DeploymentAssumption
  <1>3. DeployInv'
    BY <1>2 DEF DeployInv, Answers, Affordable
  <1> QED
    BY <1>1, <1>2, <1>3 DEF SeamStep, Answers, Keeps

LEMMA DecisionKeeps ==
  ASSUME DeployInv, NEW p, Keeps(pos, p), Takes(p)
  PROVE  DeployInv' /\ SeamStep
PROOF
  <1>1. p \in Good /\ Plans(pos, p)
    BY DEF Plans, Keeps
  <1> QED
    BY <1>1, TakesKeeps DEF Keeps

(* What is known of the position before a decision.                        *)
LEMMA BeforeDecision ==
  ASSUME DeployInv
  PROVE  /\ pos \in Good /\ pos \in Positions /\ Keeps(pos, pos)
         /\ pos.supply \in Int /\ pos.core \in Int
         /\ pos.officers \in Seq(Officer)
         /\ pos.left \in [buys : Int, unlocks : Int, devices : Int]
         /\ pos.towers \in [{1, 2} -> Nat]
         /\ pos.next \in [unit : Nat, device : Nat]
PROOF
  BY KeepsItself DEF DeployInv, Good, Positions

LEMMA RefundKeeps ==
  ASSUME DeployInv, Refund
  PROVE  DeployInv' /\ SeamStep
PROOF
  <1> DEFINE s == pos.supply + Declined
             q == [pos EXCEPT !.supply = s, !.left = pos.left]
  <1>1. pos \in Good /\ pos \in Positions /\ s \in Int
    BY BeforeDecision, DeploymentAssumption DEF DeploymentAssumption
  <1>2. [pos EXCEPT !.supply = @ + Declined] = q
    BY <1>1 DEF Positions
  <1> HIDE DEF s
  <1>3. Keeps(pos, q)
    BY <1>1, BeforeDecision, LedgerKeeps
  <1>4. q \in Good /\ Answers(q)
    BY <1>2, <1>3 DEF Refund, Keeps
  <1> QED
    BY <1>3, <1>4, AnswersKeeps

LEMMA PaidKeeps ==
  ASSUME DeployInv, NEW c \in Cards
  PROVE  Keeps(pos, Paid(c)) /\ Paid(c) \in Good
PROOF
  <1> DEFINE s == pos.supply - c.price
             q == [pos EXCEPT !.supply = s, !.left = pos.left]
  <1>1. pos \in Good /\ pos \in Positions /\ s \in Int
    BY BeforeDecision, TablesAssumption DEF TablesAssumption, CardOK
  <1>2. Paid(c) = q
    BY <1>1 DEF Positions, Paid
  <1> HIDE DEF s
  <1>3. Keeps(pos, q)
    BY <1>1, BeforeDecision, LedgerKeeps
  <1> QED
    BY <1>2, <1>3 DEF Keeps

LEMMA AddedAnswer ==
  ASSUME DeployInv, NEW c \in Cards, NEW q \in Added(Paid(c)), Answers(q)
  PROVE  DeployInv' /\ SeamStep
PROOF
  <1>1. pos \in Good /\ Paid(c) \in Good /\ Keeps(pos, Paid(c))
    BY BeforeDecision, PaidKeeps
  <1>2. Keeps(Paid(c), q)
    BY <1>1, AddedKeeps
  <1>3. Keeps(pos, q)
    BY <1>1, <1>2, KeepsThen
  <1>4. q \in Good
    BY <1>3 DEF Keeps
  <1> QED
    BY <1>3, <1>4, AnswersKeeps

LEMMA TakeSkillKeeps ==
  ASSUME DeployInv, NEW c \in Cards, TakeSkill(c)
  PROVE  DeployInv' /\ SeamStep
PROOF
  <1>1. c.id \in Skill /\ Paid(c) \in Good
    BY PaidKeeps, TablesAssumption DEF TablesAssumption, CardOK, TakeSkill
  <1>2. PanelAdd(Paid(c), c.id) \in Added(Paid(c))
    BY <1>1, PanelAddGood
  <1> QED
    BY <1>2, AddedAnswer DEF TakeSkill

LEMMA TakeItemKeeps ==
  ASSUME DeployInv, NEW c \in Cards, TakeItem(c)
  PROVE  DeployInv' /\ SeamStep
PROOF
  <1>1. <<c.id>> \in Seq(Item) /\ Paid(c) \in Good
    BY PaidKeeps, TablesAssumption DEF TablesAssumption, CardOK, TakeItem
  <1>2. Stocked(Paid(c), <<c.id>>) \in Added(Paid(c))
    BY <1>1, StockedGood
  <1> QED
    BY <1>2, AddedAnswer DEF TakeItem

LEMMA TakeUnitsKeeps ==
  ASSUME DeployInv, NEW c \in Cards, TakeUnits(c)
  PROVE  DeployInv' /\ SeamStep
PROOF
  <1> DEFINE m == Unlock(Paid(c), c.id)
  <1>1. c.id \in Unit /\ c.squads \in Nat /\ Paid(c) \in Good
    BY PaidKeeps, TablesAssumption DEF TablesAssumption, CardOK, TakeUnits
  <1>2. m \in Added(Paid(c)) /\ m \in Good
    BY <1>1, UnlockGood DEF Added
  <1>3. PICK q \in HandOut(m, c.id, c.squads, 1, "joined") : Answers(q)
    BY DEF TakeUnits
  <1> HIDE DEF m
  <1>4. q \in Added(m)
    BY <1>1, <1>2, HandOutGood DEF Sources, Levels
  <1>5. q \in Added(Paid(c))
    BY <1>1, <1>2, <1>4, AddedThen
  <1> QED
    BY <1>3, <1>5, AddedAnswer

(* An officer joins: more slots, and what it grants.                       *)
LEMMA OfficerKeeps ==
  ASSUME NEW p \in Good, NEW o \in Officer, NEW s \in Int,
         NEW l \in [buys : Int, unlocks : Int, devices : Int]
  PROVE  Keeps(p, [p EXCEPT !.supply = s, !.left = l,
                            !.officers = Sorted(p.officers, o)])
PROOF
  <1> DEFINE m == Sorted(p.officers, o)
             q == [p EXCEPT !.supply = s, !.left = l, !.officers = m]
  <1>1. /\ p \in Positions /\ p.officers \in Seq(Officer)
        /\ p.core \in Int /\ IsFiniteSet(DOMAIN p.panel)
    BY DEF Good, Positions
  <1>2. m \in Seq(Officer)
    BY <1>1, SortedIs
  <1> HIDE DEF m
  <1>3. /\ q \in Positions /\ q.next = p.next /\ q.panel = p.panel
        /\ q.units = p.units /\ q.devices = p.devices
        /\ q.constructions = p.constructions /\ q.officers = m
        /\ q.plans = p.plans /\ q.core = p.core
        /\ q.techs = p.techs /\ q.shop = p.shop /\ q.towers = p.towers
    BY <1>1, <1>2 DEF Positions
  <1> HIDE DEF q
  <1>4. SlotsOf(p) <= SlotsOf(q)
    BY <1>1, <1>3, SortedSlots DEF m
  <1>5. Blocked(q) = Blocked(p)
    BY <1>3 DEF Blocked
  <1>6. q \in Good
    BY <1>1, <1>3, <1>4, <1>5, StaysGood
  <1>7. Keeps(p, p)
    BY KeepsItself
  <1>8. Grows(p, q)
    BY <1>3, <1>7 DEF Keeps, Grows
  <1>9. Keeps(p, q)
    BY <1>1, <1>3, <1>6, <1>7, <1>8 DEF Keeps
  <1> QED
    BY <1>9 DEF q, m

LEMMA TakeOfficerKeeps ==
  ASSUME DeployInv, NEW c \in Cards, TakeOfficer(c)
  PROVE  DeployInv' /\ SeamStep
PROOF
  <1> DEFINE row == OfficerRow[c.id]
  <1>1. c.id \in Officer /\ Paid(c) \in Good /\ Keeps(pos, Paid(c))
    BY PaidKeeps, TablesAssumption DEF TablesAssumption, CardOK, TakeOfficer
  <1>2. PICK q \in IF row.rounds = {} THEN HandOutRound(Paid(c), c.id)
                                      ELSE {Paid(c)} :
          Answers([q EXCEPT !.supply = @ + row.granted,
                            !.left.buys = @ + (IF row.extra THEN 1 ELSE 0),
                            !.officers = Sorted(@, c.id)])
    BY DEF TakeOfficer
  <1>3. q \in Added(Paid(c))
    BY <1>1, <1>2, HandOutRoundGood, AddedItself
  <1>4. Keeps(pos, q) /\ q \in Good
    BY <1>1, <1>3, AddedKeeps, KeepsThen, BeforeDecision DEF Keeps
  <1>5. row.granted \in Int
    BY <1>1, TablesAssumption DEF TablesAssumption, OfficerRows
  <1> DEFINE s == q.supply + row.granted
             b == IF row.extra THEN 1 ELSE 0
             l == [buys |-> q.left.buys + b, unlocks |-> q.left.unlocks,
                   devices |-> q.left.devices]
             x == [q EXCEPT !.supply = s, !.left = l,
                            !.officers = Sorted(q.officers, c.id)]
  <1>6. /\ q \in Positions /\ q.supply \in Int
        /\ q.left \in [buys : Int, unlocks : Int, devices : Int]
    BY <1>4 DEF Good, Positions
  <1>7. s \in Int /\ l \in [buys : Int, unlocks : Int, devices : Int]
    BY <1>5, <1>6
  <1>8. [q EXCEPT !.supply = @ + row.granted,
                  !.left.buys = @ + (IF row.extra THEN 1 ELSE 0),
                  !.officers = Sorted(@, c.id)] = x
    <2>1. [q.left EXCEPT !.buys = @ + b] = l
      BY <1>6
    <2> QED
      BY <1>6, <2>1 DEF Positions
  <1>9. Answers(x)
    BY <1>2, <1>8
  <1> HIDE DEF s, l
  <1>10. Keeps(q, x)
    BY <1>1, <1>4, <1>7, OfficerKeeps
  <1> HIDE DEF x
  <1>11. Keeps(pos, x) /\ x \in Good
    BY <1>4, <1>10, KeepsThen, BeforeDecision DEF Keeps
  <1> QED
    BY <1>9, <1>11, AnswersKeeps

(* place(), as a purchase makes it, travelling or not.                     *)
LEMMA PlaceKeeps ==
  ASSUME NEW p \in Good, NEW f \in Formations, f.spot \notin Occupied(p, -1),
         f.worn = <<>>, f.travelling => Flank(f.spot)
  PROVE  Keeps(p, Place(p, f))
PROOF
  <1> DEFINE n == p.next.unit
             W == With(p.units, n, f)
             nx == [unit |-> n + 1, device |-> p.next.device]
             q == [p EXCEPT !.units = W, !.next = nx]
  <1>1. /\ p \in Positions /\ n \in Nat
        /\ p.next \in [unit : Nat, device : Nat]
        /\ p.units \in Partial(Nat, Formations)
        /\ DOMAIN p.units \subseteq 0..n - 1
    BY DEF Good, Positions
  <1>2. /\ W \in Partial(Nat, Formations)
        /\ DOMAIN W = DOMAIN p.units \cup {n}
        /\ \A k \in DOMAIN p.units \ {n} : W[k] = p.units[k]
    <2>1. With(p.units, n, f) \in Partial(Nat, Formations)
      BY <1>1, PartialWith
    <2> HIDE DEF n
    <2> QED
      BY <2>1 DEF With
  <1>3. n \notin DOMAIN p.units
    BY <1>1
  <1>4. Place(p, f) = q
    <2>1. [p.next EXCEPT !.unit = @ + 1] = nx
      BY <1>1
    <2> HIDE DEF nx
    <2> QED
      BY <1>1, <2>1 DEF Place, NextUnit, Positions
  <1>5. nx \in [unit : Nat, device : Nat] /\ p.next.unit <= nx.unit
        /\ p.next.device <= nx.device
    BY <1>1
  <1> HIDE DEF W, nx
  <1>6. /\ q.next = nx /\ q.panel = p.panel
        /\ q.units = W /\ q.devices = p.devices
        /\ q.constructions = p.constructions /\ q.officers = p.officers
        /\ q.plans = p.plans /\ q.core = p.core
        /\ q.techs = p.techs /\ q.shop = p.shop /\ q.towers = p.towers
    BY <1>1 DEF Positions
  <1>7. q \in Good
    BY <1>4, PlaceGood
  <1>8. Keeps(p, p)
    BY KeepsItself
  <1> HIDE DEF q
  <1>9. \A i \in DOMAIN p.units :
          /\ W[i].type = p.units[i].type /\ W[i].value = p.units[i].value
          /\ W[i].level = p.units[i].level
    BY <1>2, <1>3
  <1>10. \A i \in DOMAIN p.units : p.units[i].level >= p.units[i].level
    <2>1. \A i \in DOMAIN p.units : p.units[i] \in Formations
      BY OwnSpot
    <2> QED
      BY <2>1 DEF Formations
  <1>11. Grows(p, q)
    <2>1. \A i \in DOMAIN q.units : i = n \/ i \in DOMAIN p.units
      BY <1>2, <1>6
    <2>2. n >= p.next.unit
      BY <1>1
    <2> QED
      BY <1>5, <1>6, <1>8, <1>9, <1>10, <2>1, <2>2 DEF Keeps, Grows
  <1> QED
    BY <1>4, <1>6, <1>7, <1>8, <1>11 DEF Keeps

LEMMA BuyUnitKeeps ==
  ASSUME DeployInv, NEW u \in Unit, BuyUnit(u)
  PROVE  DeployInv' /\ SeamStep
PROOF
  <1>1. PICK s \in Spot \ Occupied(pos, -1) :
          Takes([Place(pos, [Formation(u, s, ShopLevel(pos), BuyPrice(pos, u),
                                       "joined")
                               EXCEPT !.travelling = Flank(s)]) EXCEPT
                   !.supply = @ - BuyAtLevel(pos, u),
                   !.left.buys = @ - 1])
    BY DEF BuyUnit
  <1> DEFINE f == [Formation(u, s, ShopLevel(pos), BuyPrice(pos, u), "joined")
                     EXCEPT !.travelling = Flank(s)]
             m == Place(pos, f)
  <1>2. pos \in Good /\ pos \in Positions
    BY BeforeDecision
  <1>3. /\ ShopLevel(pos) \in Nat \ {0} /\ BuyPrice(pos, u) \in Nat
        /\ BuyAtLevel(pos, u) \in Nat
    BY <1>2, ShopLevelIs, PricesInt
  <1>4. /\ f \in Formations /\ f.spot = s /\ f.worn = <<>>
        /\ f.travelling = Flank(s)
    <2> DEFINE t == Flank(s)
               v == ShopLevel(pos)
               c == BuyPrice(pos, u)
    <2>1. t \in BOOLEAN /\ s \in Spot
      BY DEF Flank
    <2>a. f = [Formation(u, s, v, c, "joined") EXCEPT !.travelling = t]
      OBVIOUS
    <2> HIDE DEF t, v, c, f
    <2>2. f = [type |-> u, spot |-> s, level |-> v, exp |-> "none",
               worn |-> <<>>, travelling |-> t, source |-> "joined",
               value |-> c, redeployed |-> FALSE]
      BY <2>a DEF Formation
    <2>3. f.spot = s /\ f.worn = <<>> /\ f.travelling = t
      BY <2>2
    <2>4. v \in Nat \ {0} /\ c \in Nat /\ <<>> \in Seq(Item)
      BY <1>3 DEF v, c
    <2>5. f \in Formations
      BY <2>1, <2>2, <2>4 DEF Formations, Experience
    <2> QED
      BY <2>3, <2>5 DEF t
  <1> HIDE DEF f
  <1>5. Keeps(pos, m) /\ m \in Good
    BY <1>2, <1>4, PlaceKeeps DEF Keeps
  <1> HIDE DEF m
  <1> DEFINE e == m.supply - BuyAtLevel(pos, u)
             l == [buys |-> m.left.buys - 1, unlocks |-> m.left.unlocks,
                   devices |-> m.left.devices]
             x == [m EXCEPT !.supply = e, !.left = l]
  <1>6. /\ m \in Positions /\ m.supply \in Int
        /\ m.left \in [buys : Int, unlocks : Int, devices : Int]
    BY <1>5 DEF Good, Positions
  <1>7. e \in Int /\ l \in [buys : Int, unlocks : Int, devices : Int]
    <2> HIDE DEF BuyAtLevel
    <2> QED
      BY <1>3, <1>6
  <1>8. [m EXCEPT !.supply = @ - BuyAtLevel(pos, u), !.left.buys = @ - 1] = x
    <2>1. [m.left EXCEPT !.buys = @ - 1] = l
      BY <1>6
    <2> QED
      BY <1>6, <2>1 DEF Positions
  <1>9. Takes(x)
    BY <1>1, <1>8 DEF m, f
  <1> HIDE DEF e, l
  <1>10. Keeps(m, x)
    BY <1>5, <1>7, LedgerKeeps
  <1> HIDE DEF x
  <1>11. Keeps(pos, x)
    BY <1>2, <1>5, <1>10, KeepsThen
  <1> QED
    BY <1>9, <1>11, DecisionKeeps

LEMMA UnlockUnitKeeps ==
  ASSUME DeployInv, NEW u \in Unit, UnlockUnit(u)
  PROVE  DeployInv' /\ SeamStep
PROOF
  <1> DEFINE m == Unlock(pos, u)
             e == m.supply - UnlockPrice(pos, u)
             l == [buys |-> m.left.buys, unlocks |-> m.left.unlocks - 1,
                   devices |-> m.left.devices]
             x == [m EXCEPT !.supply = e, !.left = l]
  <1>1. pos \in Good /\ pos \in Positions
    BY BeforeDecision
  <1>2. m \in Added(pos)
    BY <1>1, UnlockGood
  <1>3. Keeps(pos, m) /\ m \in Good
    BY <1>1, <1>2, AddedKeeps DEF Keeps
  <1>4. UnlockPrice(pos, u) \in Nat
    BY <1>1, PricesInt
  <1> HIDE DEF m
  <1>5. /\ m \in Positions /\ m.supply \in Int
        /\ m.left \in [buys : Int, unlocks : Int, devices : Int]
    BY <1>3 DEF Good, Positions
  <1>6. e \in Int /\ l \in [buys : Int, unlocks : Int, devices : Int]
    <2> HIDE DEF UnlockPrice
    <2> QED
      BY <1>4, <1>5
  <1>7. [m EXCEPT !.supply = @ - UnlockPrice(pos, u), !.left.unlocks = @ - 1]
          = x
    <2>1. [m.left EXCEPT !.unlocks = @ - 1] = l
      BY <1>5
    <2> QED
      BY <1>5, <2>1 DEF Positions
  <1>8. Takes(x)
    BY <1>7 DEF m, UnlockUnit
  <1> HIDE DEF e, l
  <1>9. Keeps(m, x)
    BY <1>3, <1>6, LedgerKeeps
  <1> HIDE DEF x
  <1>10. Keeps(pos, x)
    BY <1>1, <1>3, <1>9, KeepsThen
  <1> QED
    BY <1>8, <1>10, DecisionKeeps

LEMMA UpgradeUnitKeeps ==
  ASSUME DeployInv, NEW i \in DOMAIN pos.units, UpgradeUnit(i)
  PROVE  DeployInv' /\ SeamStep
PROOF
  <1> DEFINE g == pos.units[i]
             n == UpgradePrice(pos, g.type, Worn(g, "upgrade"))
             f == [g EXCEPT !.level = @ + 1, !.exp = "none"]
             m == [pos EXCEPT !.units = [@ EXCEPT ![i] = f]]
             e == m.supply - n
             x == [m EXCEPT !.supply = e, !.left = m.left]
  <1>1. pos \in Good /\ pos \in Positions
    BY BeforeDecision
  <1>2. /\ g \in Formations /\ g.spot \notin Occupied(pos, i)
        /\ Len(g.worn) <= SlotsOf(pos)
        /\ g.travelling => Flank(g.spot)
    BY <1>1, OwnSpot
  <1>3. n \in Nat
    <2>1. Worn(g, "upgrade") \in Int /\ g.type \in Unit
      BY <1>2, WornTypes DEF Formations
    <2> QED
      BY <1>1, <2>1, PricesInt
  <1>4. Takes([pos EXCEPT !.units[i].level = @ + 1, !.units[i].exp = "none",
                          !.supply = @ - n])
    BY DEF UpgradeUnit
  <1> HIDE DEF n, g
  <1>5. /\ f \in Formations /\ f.spot = g.spot /\ f.worn = g.worn
        /\ f.travelling = g.travelling /\ f.type = g.type
        /\ f.value = g.value /\ f.level >= g.level
    <2>1. g.level \in Nat \ {0}
      BY <1>2 DEF Formations
    <2>2. g.level + 1 \in Nat \ {0} /\ g.level + 1 >= g.level
      BY <2>1
    <2> DEFINE v == g.level + 1
    <2>3. f = [g EXCEPT !.level = v, !.exp = "none"] /\ v \in Nat \ {0}
      BY <2>2
    <2>4. f.level >= g.level
      BY <1>2, <2>2, <2>3 DEF Formations
    <2> HIDE DEF v, f
    <2> QED
      BY <1>2, <2>3, <2>4 DEF Formations, Experience
  <1> HIDE DEF f
  <1>6. Keeps(pos, m) /\ m \in Good
    <2>1. /\ f.type = pos.units[i].type /\ f.value = pos.units[i].value
          /\ f.level >= pos.units[i].level
          /\ f.spot \notin Occupied(pos, i)
          /\ Len(f.worn) <= SlotsOf(pos)
          /\ f.travelling => Flank(f.spot)
      <3>1. pos.units[i] = g
        BY DEF g
      <3> QED
        BY <1>2, <1>5, <3>1
    <2>2. Keeps(pos, m)
      BY <1>1, <1>5, <2>1, FormationKeeps
    <2> QED
      BY <2>2 DEF Keeps
  <1>7. /\ m.supply \in Int /\ m.supply = pos.supply /\ m.left = pos.left
        /\ m.left \in [buys : Int, unlocks : Int, devices : Int]
    BY <1>1 DEF Positions
  <1>8. [pos EXCEPT !.units[i].level = @ + 1, !.units[i].exp = "none",
                    !.supply = @ - n] = x
    <2>1. i \in DOMAIN pos.units
      OBVIOUS
    <2> QED
      BY <1>1, <1>2 DEF Positions, Formations, f, g
  <1>9. Takes(x)
    BY <1>4, <1>8
  <1>10. e \in Int
    BY <1>3, <1>7
  <1> HIDE DEF e, m
  <1>11. Keeps(m, x)
    BY <1>6, <1>7, <1>10, LedgerKeeps
  <1> HIDE DEF x
  <1>12. Keeps(pos, x)
    BY <1>1, <1>6, <1>11, KeepsThen
  <1> QED
    BY <1>9, <1>12, DecisionKeeps

LEMMA UpgradeTechnologyKeeps ==
  ASSUME DeployInv, NEW t \in DOMAIN TechRow, UpgradeTechnology(t)
  PROVE  DeployInv' /\ SeamStep
PROOF
  <1> DEFINE s == pos.supply - TechPrice(pos, t)
             T == pos.techs \cup {t}
             q == [pos EXCEPT !.supply = s, !.techs = T]
  <1>1. /\ pos \in Good /\ pos \in Positions /\ pos.supply \in Int
        /\ pos.towers \in [{1, 2} -> Nat]
    BY BeforeDecision
  <1>2. TechPrice(pos, t) \in Nat
    BY <1>1, PricesInt
  <1>3. s \in Int
    <2> HIDE DEF TechPrice
    <2> QED
      BY <1>1, <1>2
  <1>4. T \in SUBSET DOMAIN TechRow /\ pos.techs \subseteq T
    BY <1>1 DEF Positions
  <1>5. Takes(q)
    <2>1. [pos EXCEPT !.supply = @ - TechPrice(pos, t),
                      !.techs = @ \cup {t}] = q
      BY <1>1 DEF Positions
    <2> QED
      BY <2>1 DEF UpgradeTechnology
  <1> HIDE DEF s, T
  <1>6. /\ q \in Positions /\ q.next = pos.next
        /\ q.units = pos.units /\ q.devices = pos.devices
        /\ q.panel = pos.panel
        /\ q.constructions = pos.constructions /\ q.officers = pos.officers
        /\ q.plans = pos.plans /\ q.core = pos.core
        /\ q.techs = T /\ q.shop = pos.shop /\ q.towers = pos.towers
    BY <1>1, <1>3, <1>4 DEF Positions
  <1>7. \A w \in {1, 2} : q.towers[w] >= pos.towers[w]
    BY <1>1, <1>6
  <1> HIDE DEF q
  <1>8. Keeps(pos, q)
    BY <1>1, <1>4, <1>6, <1>7, AsideKeeps
  <1> QED
    BY <1>5, <1>8, DecisionKeeps

LEMMA TowerSkillKeeps ==
  ASSUME DeployInv, NEW k \in DOMAIN TowerRow, ActiveEnergyTowerSkill(k)
  PROVE  DeployInv' /\ SeamStep
PROOF
  <1> DEFINE s == pos.supply - (TowerRow[k].price - TowerRow[k].granted)
             A == pos.active \cup {k}
             l == [buys |-> pos.left.buys + TowerRow[k].buys,
                   unlocks |-> pos.left.unlocks, devices |-> pos.left.devices]
             q == [pos EXCEPT !.supply = s, !.left = l, !.active = A]
  <1>1. /\ pos \in Good /\ pos \in Positions /\ pos.supply \in Int
        /\ pos.towers \in [{1, 2} -> Nat]
        /\ pos.left \in [buys : Int, unlocks : Int, devices : Int]
    BY BeforeDecision
  <1>2. /\ TowerRow[k].price \in Int /\ TowerRow[k].granted \in Int
        /\ TowerRow[k].buys \in Int
    BY TablesAssumption DEF TablesAssumption, TowerRows
  <1>3. s \in Int /\ l \in [buys : Int, unlocks : Int, devices : Int]
    BY <1>1, <1>2
  <1>4. A \in SUBSET DOMAIN TowerRow
    BY <1>1 DEF Positions
  <1>5. Takes(q)
    <2>1. [pos.left EXCEPT !.buys = @ + TowerRow[k].buys] = l
      BY <1>1
    <2>2. [pos EXCEPT
             !.supply = @ - (TowerRow[k].price - TowerRow[k].granted),
             !.left.buys = @ + TowerRow[k].buys,
             !.active = @ \cup {k}] = q
      BY <1>1, <2>1 DEF Positions
    <2> QED
      BY <2>2 DEF ActiveEnergyTowerSkill
  <1> HIDE DEF s, A, l
  <1>6. /\ q \in Positions /\ q.next = pos.next
        /\ q.units = pos.units /\ q.devices = pos.devices
        /\ q.panel = pos.panel
        /\ q.constructions = pos.constructions /\ q.officers = pos.officers
        /\ q.plans = pos.plans /\ q.core = pos.core
        /\ q.techs = pos.techs /\ q.shop = pos.shop /\ q.towers = pos.towers
    BY <1>1, <1>3, <1>4 DEF Positions
  <1>7. \A w \in {1, 2} : q.towers[w] >= pos.towers[w]
    BY <1>1, <1>6
  <1> HIDE DEF q
  <1>8. Keeps(pos, q)
    BY <1>1, <1>6, <1>7, AsideKeeps
  <1> QED
    BY <1>5, <1>8, DecisionKeeps

LEMMA StrengthenTowerKeeps ==
  ASSUME DeployInv, NEW w \in {1, 2}, StrengthenTower(w)
  PROVE  DeployInv' /\ SeamStep
PROOF
  <1> DEFINE s == pos.supply - TowerPrice[pos.towers[w] + 1]
             T == [pos.towers EXCEPT ![w] = @ + 1]
             q == [pos EXCEPT !.towers = T, !.supply = s]
  <1>1. /\ pos \in Good /\ pos \in Positions /\ pos.supply \in Int
        /\ pos.towers \in [{1, 2} -> Nat]
    BY BeforeDecision
  <1>2. TowerPrice[pos.towers[w] + 1] \in Int
    BY TablesAssumption DEF TablesAssumption, StrengthenTower
  <1>3. s \in Int
    BY <1>1, <1>2
  <1>4. /\ T \in [{1, 2} -> Nat]
        /\ \A v \in {1, 2} : T[v] >= pos.towers[v]
    BY <1>1
  <1>5. Takes(q)
    <2>1. [pos EXCEPT !.towers[w] = @ + 1,
                      !.supply = @ - TowerPrice[pos.towers[w] + 1]] = q
      BY <1>1 DEF Positions
    <2> QED
      BY <2>1 DEF StrengthenTower
  <1> HIDE DEF s, T
  <1>6. /\ q \in Positions /\ q.next = pos.next
        /\ q.units = pos.units /\ q.devices = pos.devices
        /\ q.panel = pos.panel
        /\ q.constructions = pos.constructions /\ q.officers = pos.officers
        /\ q.plans = pos.plans /\ q.core = pos.core
        /\ q.techs = pos.techs /\ q.shop = pos.shop /\ q.towers = T
    BY <1>1, <1>3, <1>4 DEF Positions
  <1> HIDE DEF q
  <1>7. Keeps(pos, q)
    BY <1>1, <1>4, <1>6, AsideKeeps
  <1> QED
    BY <1>5, <1>7, DecisionKeeps

(* The one decision that changes the blueprints.                           *)
LEMMA ActiveBlueprintKeeps ==
  ASSUME DeployInv, NEW b \in DOMAIN BlueprintRow, ActiveBlueprint(b)
  PROVE  DeployInv' /\ SeamStep
PROOF
  <1> DEFINE s == pos.supply - BlueprintRow[b].price
             B == Replaced(b) \cup {b}
             q == [pos EXCEPT !.supply = s, !.plans = B]
  <1>1. /\ pos \in Good /\ pos \in Positions /\ pos.supply \in Int
        /\ pos.core \in Int /\ IsFiniteSet(DOMAIN pos.panel)
    BY BeforeDecision DEF Good
  <1>2. s \in Int
    BY <1>1, TablesAssumption DEF TablesAssumption
  <1>3. /\ B \in SUBSET DOMAIN BlueprintRow
        /\ \A h \in pos.plans : h \in B \/ BlueprintRow[h].then \in B
    BY <1>1 DEF Positions, Replaced
  <1>4. Takes(IF BlueprintRow[b].skill \in Skill
              THEN PanelAdd(q, BlueprintRow[b].skill) ELSE q)
    <2>1. [pos EXCEPT !.supply = @ - BlueprintRow[b].price,
                      !.plans = Replaced(b) \cup {b}] = q
      BY <1>1 DEF Positions
    <2> QED
      BY <2>1 DEF ActiveBlueprint
  <1> HIDE DEF s, B
  <1>5. /\ q \in Positions /\ q.next = pos.next
        /\ q.units = pos.units /\ q.devices = pos.devices
        /\ q.panel = pos.panel
        /\ q.constructions = pos.constructions /\ q.officers = pos.officers
        /\ q.plans = B /\ q.core = pos.core
        /\ q.techs = pos.techs /\ q.shop = pos.shop /\ q.towers = pos.towers
    BY <1>1, <1>2, <1>3 DEF Positions
  <1> HIDE DEF q
  <1>6. q \in Good
    BY <1>1, <1>5, SameBoard
  <1>7. Grows(pos, q)
    <2>1. Grows(pos, pos)
      BY BeforeDecision DEF Keeps
    <2> QED
      BY <1>5, <2>1 DEF Grows
  <1>8. PICK x \in Added(q) : Takes(x)
    <2>1. BlueprintRow[b].skill \in Skill =>
            PanelAdd(q, BlueprintRow[b].skill) \in Added(q)
      BY <1>6, PanelAddGood
    <2> QED
      BY <1>4, <1>6, <2>1, AddedItself
  <1>9. Keeps(q, x)
    BY <1>6, <1>8, AddedKeeps
  <1>10. x \in Good /\ x.plans = B /\ Grows(q, x) /\ x.core <= pos.core
    BY <1>5, <1>9 DEF Keeps
  <1>11. Grows(pos, x)
    BY <1>1, <1>6, <1>7, <1>10, GrowsThen DEF Good
  <1>12. Plans(pos, x)
    BY <1>3, <1>10 DEF Plans
  <1> QED
    BY <1>8, <1>10, <1>11, <1>12, TakesKeeps

(* What is taken from a stock leaves a stock.                              *)
LEMMA BagLess ==
  ASSUME NEW a \in Partial(Item, Nat \ {0}), NEW x
  PROVE  a (-) SetToBag({x}) \in Partial(Item, Nat \ {0})
PROOF
  <1>1. /\ DOMAIN a \subseteq Item
        /\ \A e \in DOMAIN a : a[e] \in Nat \ {0}
    BY PartialElim
  <1> DEFINE o == SetToBag({x})
             B == [e \in DOMAIN a |-> IF e \in DOMAIN o THEN a[e] - o[e]
                                                        ELSE a[e]]
             d == {e \in DOMAIN B : B[e] > 0}
  <1>2. \A e \in DOMAIN o : o[e] = 1
    BY DEF SetToBag
  <1> HIDE DEF o
  <1>3. \A e \in DOMAIN a : B[e] \in Int
    BY <1>1, <1>2
  <1>4. a (-) o = [e \in d |-> B[e]]
    BY DEF (-)
  <1>5. d \in SUBSET Item /\ \A e \in d : B[e] \in Nat \ {0}
    BY <1>1, <1>3
  <1> HIDE DEF B, d
  <1>6. a (-) o \in [d -> Nat \ {0}]
    BY <1>4, <1>5
  <1>7. a (-) o \in Partial(Item, Nat \ {0})
    BY <1>5, <1>6, PartialIntro
  <1> QED
    BY <1>7 DEF o

LEMMA UseEquipmentKeeps ==
  ASSUME DeployInv, NEW x \in Item, NEW i \in DOMAIN pos.units,
         UseEquipment(x, i)
  PROVE  DeployInv' /\ SeamStep
PROOF
  <1> DEFINE g == pos.units[i]
             f == [g EXCEPT !.worn = Append(@, x)]
             m == [pos EXCEPT !.units = [@ EXCEPT ![i] = f]]
             S == pos.stock (-) SetToBag({x})
             q == [m EXCEPT !.stock = S]
  <1>1. /\ pos \in Good /\ pos \in Positions
        /\ pos.units \in Partial(Nat, Formations)
        /\ pos.stock \in Partial(Item, Nat \ {0})
    BY BeforeDecision DEF Positions
  <1>2. /\ g \in Formations /\ g.spot \notin Occupied(pos, i)
        /\ (g.travelling => Flank(g.spot))
    BY <1>1, OwnSpot
  <1>3. Len(g.worn) < SlotsOf(pos) /\ SlotsOf(pos) \in Nat
    BY <1>1, SlotsOfNat DEF UseEquipment, EquipmentSlots, SlotsOf
  <1>4. S \in Partial(Item, Nat \ {0})
    BY <1>1, BagLess
  <1>5. Takes(q)
    <2>1. [pos EXCEPT !.units[i].worn = Append(@, x),
                      !.stock = @ (-) SetToBag({x})] = q
      BY <1>1, <1>2 DEF Positions, Formations
    <2> QED
      BY <2>1 DEF UseEquipment
  <1> HIDE DEF g, S
  <1>6. /\ f \in Formations /\ f.spot = g.spot
        /\ f.travelling = g.travelling /\ f.type = g.type
        /\ f.value = g.value /\ f.level >= g.level
        /\ Len(f.worn) <= SlotsOf(pos)
    <2> DEFINE v == Append(g.worn, x)
    <2>1. g.worn \in Seq(Item) /\ g.level \in Nat
      BY <1>2 DEF Formations
    <2>2. v \in Seq(Item) /\ Len(v) = Len(g.worn) + 1
      BY <2>1
    <2>3. Len(v) <= SlotsOf(pos)
      BY <1>3, <2>1, <2>2
    <2>4. f = [g EXCEPT !.worn = v]
      OBVIOUS
    <2> HIDE DEF v, f
    <2> QED
      BY <1>2, <2>1, <2>2, <2>3, <2>4 DEF Formations
  <1> HIDE DEF f
  <1>7. Keeps(pos, m) /\ m \in Good
    <2>1. pos.units[i] = g
      BY DEF g
    <2>2. Keeps(pos, m)
      BY <1>1, <1>2, <1>6, <2>1, FormationKeeps
    <2> QED
      BY <2>2 DEF Keeps
  <1>8. m \in Positions /\ m.towers \in [{1, 2} -> Nat]
    BY <1>7 DEF Good, Positions
  <1> HIDE DEF m
  <1>9. /\ q \in Positions /\ q.next = m.next
        /\ q.units = m.units /\ q.devices = m.devices
        /\ q.panel = m.panel
        /\ q.constructions = m.constructions /\ q.officers = m.officers
        /\ q.plans = m.plans /\ q.core = m.core
        /\ q.techs = m.techs /\ q.shop = m.shop /\ q.towers = m.towers
    BY <1>4, <1>8 DEF Positions
  <1>10. \A w \in {1, 2} : q.towers[w] >= m.towers[w]
    BY <1>8, <1>9
  <1> HIDE DEF q
  <1>11. Keeps(m, q)
    BY <1>7, <1>9, <1>10, AsideKeeps
  <1>12. Keeps(pos, q)
    BY <1>1, <1>7, <1>11, KeepsThen
  <1> QED
    BY <1>5, <1>12, DecisionKeeps

LEMMA MoveUnitKeeps ==
  ASSUME DeployInv, NEW i \in DOMAIN pos.units, MoveUnit(i)
  PROVE  DeployInv' /\ SeamStep
PROOF
  <1>1. PICK s \in Spot \ Occupied(pos, i) :
          Takes([pos EXCEPT
                   !.units[i].spot = s,
                   !.units[i].travelling =
                     IF s \in Main <=> pos.units[i].spot \in Main
                     THEN @ ELSE Flank(s)])
    BY DEF MoveUnit
  <1> DEFINE g == pos.units[i]
             t == IF s \in Main <=> g.spot \in Main
                  THEN g.travelling ELSE Flank(s)
             f == [g EXCEPT !.spot = s, !.travelling = t]
             q == [pos EXCEPT !.units = [@ EXCEPT ![i] = f]]
  <1>2. pos \in Good /\ pos \in Positions
    BY BeforeDecision
  <1>3. /\ g \in Formations /\ Len(g.worn) <= SlotsOf(pos)
        /\ (g.travelling => Flank(g.spot))
    BY <1>2, OwnSpot
  <1>4. t \in BOOLEAN /\ (t => Flank(s))
    BY <1>3 DEF Flank, Formations
  <1>5. Takes(q)
    <2>1. [pos EXCEPT
                   !.units[i].spot = s,
                   !.units[i].travelling =
                     IF s \in Main <=> pos.units[i].spot \in Main
                     THEN @ ELSE Flank(s)] = q
      BY <1>2, <1>3 DEF Positions, Formations
    <2> QED
      BY <1>1, <2>1
  <1> HIDE DEF g, t
  <1>6. /\ f \in Formations /\ f.spot = s /\ f.worn = g.worn
        /\ f.travelling = t /\ f.type = g.type
        /\ f.value = g.value /\ f.level = g.level /\ g.level \in Nat
    BY <1>3, <1>4 DEF Formations
  <1> HIDE DEF f
  <1>7. Keeps(pos, q)
    <2>1. pos.units[i] = g /\ f.level >= g.level
      BY <1>6 DEF g
    <2>2. /\ f.spot \notin Occupied(pos, i) /\ Len(f.worn) <= SlotsOf(pos)
          /\ (f.travelling => Flank(f.spot))
      BY <1>3, <1>4, <1>6
    <2> QED
      BY <1>2, <1>6, <2>1, <2>2, FormationKeeps
  <1> QED
    BY <1>5, <1>7, DecisionKeeps

LEMMA ReleaseContraptionKeeps ==
  ASSUME DeployInv, NEW d \in Device, ReleaseContraption(d)
  PROVE  DeployInv' /\ SeamStep
PROOF
  <1>1. PICK s \in IF DeviceRow[d].collides THEN Spot \ Occupied(pos, -1)
                                            ELSE {1} :
          Takes([pos EXCEPT
                   !.supply = @ - DeviceRow[d].price,
                   !.left.devices = @ - 1,
                   !.devices = With(@, pos.next.device,
                                    [type |-> d, spot |-> s]),
                   !.next.device = @ + 1])
    BY DEF ReleaseContraption
  <1> DEFINE n == pos.next.device
             c == [type |-> d, spot |-> s]
             D == With(pos.devices, n, c)
             nx == [unit |-> pos.next.unit, device |-> n + 1]
             e == pos.supply - DeviceRow[d].price
             l == [buys |-> pos.left.buys, unlocks |-> pos.left.unlocks,
                   devices |-> pos.left.devices - 1]
             q == [pos EXCEPT !.supply = e, !.left = l, !.devices = D,
                              !.next = nx]
  <1>2. /\ pos \in Good /\ pos \in Positions /\ pos.supply \in Int
        /\ pos.left \in [buys : Int, unlocks : Int, devices : Int]
        /\ pos.next \in [unit : Nat, device : Nat] /\ n \in Nat
        /\ pos.devices \in Partial(Nat, Contraptions)
        /\ pos.units \in Partial(Nat, Formations)
        /\ pos.core \in Int
        /\ DOMAIN pos.devices \subseteq 0..n - 1
    BY BeforeDecision DEF Good, Positions
  <1>3. s \in Nat
    BY DeploymentAssumption DEF Spot, DeploymentAssumption
  <1>4. c \in Contraptions /\ c.type = d /\ c.spot = s
    BY <1>3 DEF Contraptions
  <1>5. D \in Partial(Nat, Contraptions)
    BY <1>2, <1>4, PartialWith
  <1>6. /\ DOMAIN D = DOMAIN pos.devices \cup {n} /\ D[n] = c
        /\ n \notin DOMAIN pos.devices
        /\ \A k \in DOMAIN pos.devices : D[k] = pos.devices[k]
    <2>1. n \notin DOMAIN pos.devices
      BY <1>2
    <2> HIDE DEF n, c
    <2> QED
      BY <2>1 DEF With
  <1>7. /\ e \in Int /\ l \in [buys : Int, unlocks : Int, devices : Int]
        /\ nx \in [unit : Nat, device : Nat]
    <2>1. DeviceRow[d].price \in Int
      BY TablesAssumption DEF TablesAssumption, Device
    <2> QED
      BY <1>2, <2>1
  <1>8. Takes(q)
    <2>1. /\ [pos.left EXCEPT !.devices = @ - 1] = l
          /\ [pos.next EXCEPT !.device = @ + 1] = nx
      BY <1>2
    <2>2. [pos EXCEPT !.supply = @ - DeviceRow[d].price,
                      !.left.devices = @ - 1,
                      !.devices = With(@, pos.next.device,
                                       [type |-> d, spot |-> s]),
                      !.next.device = @ + 1] = q
      BY <1>2, <2>1 DEF Positions
    <2> QED
      BY <1>1, <2>2
  <1>9. nx.unit = pos.next.unit /\ nx.device = n + 1
    OBVIOUS
  <1> HIDE DEF D, nx, e, l, c
  <1>10. /\ q \in Positions /\ q.next = nx
         /\ q.units = pos.units /\ q.devices = D
         /\ q.panel = pos.panel
         /\ q.constructions = pos.constructions /\ q.officers = pos.officers
         /\ q.plans = pos.plans /\ q.core = pos.core
         /\ q.techs = pos.techs /\ q.shop = pos.shop /\ q.towers = pos.towers
    BY <1>2, <1>5, <1>7, <1>8 DEF Positions
  <1> HIDE DEF q
  <1>11. q \in Good
    <2>1. SlotsOf(q) = SlotsOf(pos)
      BY <1>10 DEF SlotsOf, Modifier
    <2>2. \A x \in Blocked(q) : x \in Blocked(pos) \/
            (x = s /\ DeviceRow[d].collides)
      BY <1>4, <1>6, <1>10 DEF Blocked
    <2>3. DeviceRow[d].collides =>
            \A i \in DOMAIN pos.units : pos.units[i].spot # s
      <3>1. DOMAIN pos.units \subseteq Nat
        BY <1>2, PartialElim
      <3>2. -1 \notin DOMAIN pos.units
        BY <3>1
      <3> QED
        BY <3>2 DEF Occupied
    <2>4. \A i \in DOMAIN q.units : Clear(q, i)
      BY <1>2, <1>10, <2>2, <2>3 DEF Clear, Good
    <2>5. DOMAIN q.devices \subseteq 0..q.next.device - 1
      BY <1>2, <1>6, <1>9, <1>10
    <2>6. DOMAIN q.units \subseteq 0..q.next.unit - 1
      BY <1>2, <1>9, <1>10 DEF Good
    <2> QED
      BY <1>2, <1>10, <2>1, <2>4, <2>5, <2>6 DEF Good
  <1>12. Keeps(pos, q)
    <2>1. Keeps(pos, pos)
      BY BeforeDecision
    <2>2. /\ pos.next.unit <= q.next.unit /\ pos.next.device <= q.next.device
          /\ q.next.unit = pos.next.unit
      BY <1>2, <1>9, <1>10
    <2>3. Grows(pos, q)
      BY <1>10, <2>1, <2>2 DEF Keeps, Grows
    <2> QED
      BY <1>10, <1>11, <2>1, <2>3 DEF Keeps
  <1> QED
    BY <1>8, <1>12, DecisionKeeps

-----------------------------------------------------------------------------
(* The panel's decisions.                                                  *)

LEMMA SlotIs ==
  ASSUME NEW p \in Good
  PROVE  /\ \A i \in DOMAIN p.panel : p.panel[i] \in Slots
         /\ Cardinality(Released(p)) \in Nat
PROOF
  <1>1. p.panel \in Partial(Nat, Slots) /\ IsFiniteSet(DOMAIN p.panel)
    BY DEF Good, Positions
  <1>2. IsFiniteSet(Released(p))
    <2>1. Released(p) \subseteq DOMAIN p.panel
      BY DEF Released
    <2> QED
      BY <1>1, <2>1, FS_Subset
  <1> QED
    BY <1>1, <1>2, PartialElim, FS_CardinalityType

(* A slot that is released or spent.                                       *)
LEMMA ReleasesKeeps ==
  ASSUME pos \in Good, NEW p \in Good, NEW i \in DOMAIN p.panel
  PROVE  Keeps(p, Releases(p, i)) /\ Keeps(p, Spends(p, i))
PROOF
  <1> DEFINE n == Cardinality(Released(pos))
             g == p.panel[i]
             a == [g EXCEPT !.order = n]
             b == [g EXCEPT !.used = TRUE]
  <1>1. n \in Nat /\ g \in Slots
    BY SlotIs
  <1>2. p \in Positions
    BY DEF Good
  <1>3. /\ Releases(p, i) = [p EXCEPT !.panel = [@ EXCEPT ![i] = a]]
        /\ Spends(p, i) = [p EXCEPT !.panel = [@ EXCEPT ![i] = b]]
    BY <1>1, <1>2 DEF Releases, Spends, Positions, Slots
  <1> HIDE DEF n, g
  <1>4. /\ a \in Slots /\ a.id = g.id /\ b \in Slots /\ b.id = g.id
    BY <1>1 DEF Slots
  <1> HIDE DEF a, b
  <1>5. a.id = p.panel[i].id /\ b.id = p.panel[i].id
    BY <1>4 DEF g
  <1>6. /\ Keeps(p, [p EXCEPT !.panel = [@ EXCEPT ![i] = a]])
        /\ Keeps(p, [p EXCEPT !.panel = [@ EXCEPT ![i] = b]])
    BY <1>4, <1>5, SlotKeeps
  <1> QED
    BY <1>3, <1>6

LEMMA ReleaseKeeps ==
  ASSUME DeployInv, NEW i \in DOMAIN pos.panel,
         ReleaseOnArea(i) \/ ReleaseOnUnit(i)
  PROVE  DeployInv' /\ SeamStep
PROOF
  <1>1. Keeps(pos, Releases(pos, i))
    BY ReleasesKeeps, BeforeDecision
  <1> QED
    BY <1>1, DecisionKeeps DEF ReleaseOnArea, ReleaseOnUnit

LEMMA RedeployKeeps ==
  ASSUME DeployInv, NEW i \in DOMAIN pos.panel, NEW u \in DOMAIN pos.units,
         Redeploy(i, u)
  PROVE  DeployInv' /\ SeamStep
PROOF
  <1> DEFINE g == pos.units[u]
             f == [g EXCEPT !.redeployed = TRUE]
             m == [pos EXCEPT !.units = [@ EXCEPT ![u] = f]]
  <1>1. pos \in Good /\ pos \in Positions
    BY BeforeDecision
  <1>2. /\ g \in Formations /\ g.spot \notin Occupied(pos, u)
        /\ Len(g.worn) <= SlotsOf(pos) /\ (g.travelling => Flank(g.spot))
    BY <1>1, OwnSpot
  <1>3. Takes(Spends(m, i))
    <2>1. [pos EXCEPT !.units[u].redeployed = TRUE] = m
      BY <1>1, <1>2 DEF Positions, Formations
    <2> QED
      BY <2>1 DEF Redeploy
  <1> HIDE DEF g
  <1>4. /\ f \in Formations /\ f.spot = g.spot /\ f.worn = g.worn
        /\ f.travelling = g.travelling /\ f.type = g.type
        /\ f.value = g.value /\ f.level = g.level /\ g.level \in Nat
    BY <1>2 DEF Formations
  <1>5. m.panel = pos.panel
    BY <1>1 DEF Positions
  <1> HIDE DEF f
  <1>6. Keeps(pos, m) /\ m \in Good
    <2>1. pos.units[u] = g /\ f.level >= g.level
      BY <1>4 DEF g
    <2>2. Keeps(pos, m)
      BY <1>1, <1>2, <1>4, <2>1, FormationKeeps
    <2> QED
      BY <2>2 DEF Keeps
  <1> HIDE DEF m
  <1>7. Keeps(m, Spends(m, i))
    BY <1>1, <1>5, <1>6, ReleasesKeeps
  <1>8. Keeps(pos, Spends(m, i))
    BY <1>1, <1>6, <1>7, KeepsThen
  <1> QED
    BY <1>3, <1>8, DecisionKeeps

LEMMA TrainKeeps ==
  ASSUME DeployInv, NEW i \in DOMAIN pos.panel, NEW u \in DOMAIN pos.units,
         Train(i, u)
  PROVE  DeployInv' /\ SeamStep
PROOF
  <1> DEFINE g == pos.units[u]
             f == [g EXCEPT !.exp = "full"]
             m == [pos EXCEPT !.units = [@ EXCEPT ![u] = f]]
  <1>1. pos \in Good /\ pos \in Positions
    BY BeforeDecision
  <1>2. /\ g \in Formations /\ g.spot \notin Occupied(pos, u)
        /\ Len(g.worn) <= SlotsOf(pos) /\ (g.travelling => Flank(g.spot))
    BY <1>1, OwnSpot
  <1>3. Takes(Spends(m, i))
    <2>1. [pos EXCEPT !.units[u].exp = "full"] = m
      BY <1>1, <1>2 DEF Positions, Formations
    <2> QED
      BY <2>1 DEF Train
  <1> HIDE DEF g
  <1>4. /\ f \in Formations /\ f.spot = g.spot /\ f.worn = g.worn
        /\ f.travelling = g.travelling /\ f.type = g.type
        /\ f.value = g.value /\ f.level = g.level /\ g.level \in Nat
    BY <1>2 DEF Formations, Experience
  <1>5. m.panel = pos.panel
    BY <1>1 DEF Positions
  <1> HIDE DEF f
  <1>6. Keeps(pos, m) /\ m \in Good
    <2>1. pos.units[u] = g /\ f.level >= g.level
      BY <1>4 DEF g
    <2>2. Keeps(pos, m)
      BY <1>1, <1>2, <1>4, <2>1, FormationKeeps
    <2> QED
      BY <2>2 DEF Keeps
  <1> HIDE DEF m
  <1>7. Keeps(m, Spends(m, i))
    BY <1>1, <1>5, <1>6, ReleasesKeeps
  <1>8. Keeps(pos, Spends(m, i))
    BY <1>1, <1>6, <1>7, KeepsThen
  <1> QED
    BY <1>3, <1>8, DecisionKeeps

LEMMA RecoverUnitKeeps ==
  ASSUME DeployInv, NEW i \in DOMAIN pos.panel, NEW u \in DOMAIN pos.units,
         RecoverUnit(i, u)
  PROVE  DeployInv' /\ SeamStep
PROOF
  <1> DEFINE f == pos.units[u]
             k == Stocked(pos, f.worn)
             c == UpgradePrice(pos, f.type, 0)
             e == k.supply + f.value + (f.level - 1) * c
             d == DOMAIN k.units \ {u}
             U == Restrict(k.units, d)
             m == [k EXCEPT !.supply = e, !.units = U]
  <1>1. pos \in Good /\ pos \in Positions
    BY BeforeDecision
  <1>2. f \in Formations
    BY <1>1, OwnSpot
  <1>3. /\ f.worn \in Seq(Item) /\ f.type \in Unit /\ f.value \in Int
        /\ f.level \in Int
    BY <1>2 DEF Formations
  <1>4. c \in Int
    BY <1>1, <1>3, PricesInt
  <1>5. k \in Added(pos)
    BY <1>1, <1>3, StockedGood
  <1>6. k \in Good /\ Keeps(pos, k) /\ k.panel = pos.panel
    BY <1>1, <1>5, AddedKeeps DEF Added, Stocked, Positions
  <1>7. Takes(Releases(m, i))
    BY DEF RecoverUnit
  <1> HIDE DEF k, f, c
  <1>8. /\ k \in Positions /\ k.supply \in Int
        /\ k.units \in Partial(Nat, Formations)
        /\ IsFiniteSet(DOMAIN k.panel)
    BY <1>6 DEF Good, Positions
  <1>9. e \in Int
    <2>1. (f.level - 1) * c \in Int
      BY <1>3, <1>4
    <2> QED
      BY <1>3, <1>8, <2>1
  <1>10. /\ U \in Partial(Nat, Formations) /\ DOMAIN U = d
         /\ \A j \in d : U[j] = k.units[j]
    BY <1>8, PartialRestrict
  <1>11. d \subseteq DOMAIN k.units
    OBVIOUS
  <1> HIDE DEF e, U, d
  <1>12. /\ m \in Positions /\ m.next = k.next
         /\ m.units = U /\ m.devices = k.devices
         /\ m.panel = k.panel
         /\ m.constructions = k.constructions /\ m.officers = k.officers
         /\ m.plans = k.plans /\ m.core = k.core
         /\ m.techs = k.techs /\ m.shop = k.shop /\ m.towers = k.towers
    BY <1>8, <1>9, <1>10 DEF Positions
  <1> HIDE DEF m
  <1>13. m \in Good
    <2>1. Blocked(m) = Blocked(k)
      BY <1>12 DEF Blocked
    <2>2. SlotsOf(m) = SlotsOf(k) /\ SlotsOf(k) \in Nat
      BY <1>8, <1>12, SlotsOfNat DEF SlotsOf, Modifier
    <2>3. SlotsOf(k) <= SlotsOf(m)
      BY <2>2
    <2> QED
      BY <1>6, <1>8, <1>10, <1>11, <1>12, <2>1, <2>3, StaysGood
  <1>14. Keeps(k, m)
    <2>1. Keeps(k, k)
      BY <1>6, KeepsItself
    <2>2. Grows(k, m)
      BY <1>10, <1>11, <1>12, <2>1 DEF Keeps, Grows
    <2> QED
      BY <1>12, <1>13, <2>1, <2>2 DEF Keeps
  <1>15. Keeps(m, Releases(m, i))
    BY <1>1, <1>6, <1>12, <1>13, ReleasesKeeps
  <1>16. Keeps(pos, m)
    BY <1>1, <1>6, <1>14, KeepsThen
  <1>17. Keeps(pos, Releases(m, i))
    BY <1>1, <1>15, <1>16, KeepsThen
  <1> QED
    BY <1>7, <1>17, DecisionKeeps

LEMMA RecoverConstructionKeeps ==
  ASSUME DeployInv, NEW i \in DOMAIN pos.panel,
         NEW c \in DOMAIN pos.constructions, RecoverConstruction(i, c)
  PROVE  DeployInv' /\ SeamStep
PROOF
  <1> DEFINE e == pos.supply + Salvage
             d == DOMAIN pos.constructions \ {c}
             C == Restrict(pos.constructions, d)
             m == [pos EXCEPT !.supply = e, !.constructions = C]
  <1>1. /\ pos \in Good /\ pos \in Positions /\ pos.supply \in Int
        /\ pos.constructions \in Partial(DOMAIN Standing, Main)
        /\ IsFiniteSet(DOMAIN pos.panel)
    BY BeforeDecision DEF Good, Positions
  <1>2. e \in Int
    BY <1>1, DeploymentAssumption DEF DeploymentAssumption
  <1>3. /\ C \in Partial(DOMAIN Standing, Main) /\ DOMAIN C = d
        /\ \A j \in d : C[j] = pos.constructions[j]
    BY <1>1, PartialRestrict
  <1>4. d \subseteq DOMAIN pos.constructions
    OBVIOUS
  <1>5. Takes(Releases(m, i))
    <2>1. m = [pos EXCEPT !.supply = @ + Salvage,
                          !.constructions = Restrict(@, DOMAIN @ \ {c})]
      BY <1>1 DEF Positions
    <2> QED
      BY <2>1 DEF RecoverConstruction
  <1> HIDE DEF e, C, d
  <1>6. /\ m \in Positions /\ m.next = pos.next
        /\ m.units = pos.units /\ m.devices = pos.devices
        /\ m.panel = pos.panel
        /\ m.constructions = C /\ m.officers = pos.officers
        /\ m.plans = pos.plans /\ m.core = pos.core
        /\ m.techs = pos.techs /\ m.shop = pos.shop /\ m.towers = pos.towers
    BY <1>1, <1>2, <1>3 DEF Positions
  <1> HIDE DEF m
  <1>7. m \in Good
    <2>1. Blocked(m) = Blocked(pos)
      BY <1>6 DEF Blocked
    <2>2. SlotsOf(m) = SlotsOf(pos) /\ SlotsOf(pos) \in Nat
      BY <1>1, <1>6, SlotsOfNat DEF SlotsOf, Modifier
    <2>3. SlotsOf(pos) <= SlotsOf(m)
      BY <2>2
    <2>4. Range(m.constructions) \subseteq Range(pos.constructions)
      BY <1>3, <1>4, <1>6 DEF Range
    <2> QED
      BY <1>1, <1>6, <2>1, <2>3, <2>4, StaysGood
  <1>8. Keeps(pos, m)
    <2>1. Keeps(pos, pos)
      BY BeforeDecision
    <2>2. Grows(pos, m)
      BY <1>3, <1>4, <1>6, <2>1 DEF Keeps, Grows, IsRestriction
    <2> QED
      BY <1>6, <1>7, <2>1, <2>2 DEF Keeps
  <1>9. Keeps(m, Releases(m, i))
    BY <1>1, <1>6, <1>7, ReleasesKeeps
  <1>10. Keeps(pos, Releases(m, i))
    BY <1>1, <1>8, <1>9, KeepsThen
  <1> QED
    BY <1>5, <1>10, DecisionKeeps

-----------------------------------------------------------------------------
(* The rounds.                                                             *)

LEMMA ChooseAdvanceTeamKeeps ==
  ASSUME DeployInv, ChooseAdvanceTeam
  PROVE  DeployInv' /\ SeamStep
PROOF
  <1>1. PICK o \in Openings :
          /\ pos' = [pos EXCEPT !.supply = @ - o.price, !.core = @ + o.core,
                                !.officers = Sorted(@, o.officer)]
          /\ Affordable(pos')
          /\ team' = o.units
    BY DEF ChooseAdvanceTeam
  <1>2. /\ o.price \in Int /\ o.core \in Int /\ o.officer \in Officer
        /\ o.units \in Seq(Unit)
    BY TablesAssumption DEF TablesAssumption, DealtOpenings
  <1>3. /\ pos \in Good /\ pos \in Positions
        /\ pos.supply \in Int /\ pos.core \in Int
        /\ pos.left \in [buys : Int, unlocks : Int, devices : Int]
        /\ IsFiniteSet(DOMAIN pos.panel)
    BY BeforeDecision DEF Good
  <1> DEFINE s == pos.supply - o.price
             c == pos.core + o.core
             m == [pos EXCEPT !.core = c]
             x == [m EXCEPT !.supply = s, !.left = m.left,
                            !.officers = Sorted(m.officers, o.officer)]
  <1>4. s \in Int /\ c \in Int
    BY <1>2, <1>3
  <1>5. pos' = x
    BY <1>1, <1>3 DEF Positions
  <1> HIDE DEF s, c
  <1>6. /\ m \in Positions /\ m.next = pos.next
        /\ m.units = pos.units /\ m.devices = pos.devices
        /\ m.panel = pos.panel /\ m.left = pos.left
        /\ m.constructions = pos.constructions /\ m.officers = pos.officers
        /\ m.plans = pos.plans
        /\ m.techs = pos.techs /\ m.shop = pos.shop /\ m.towers = pos.towers
    BY <1>3, <1>4 DEF Positions
  <1>7. m.active = pos.active /\ x.active = m.active
    BY <1>3 DEF Positions
  <1> HIDE DEF m
  <1>8. m \in Good
    BY <1>3, <1>6, SameBoard
  <1>9. Grows(pos, m)
    <2>1. Grows(pos, pos)
      BY BeforeDecision DEF Keeps
    <2> QED
      BY <1>6, <2>1 DEF Grows
  <1>10. Keeps(m, x)
    BY <1>2, <1>3, <1>4, <1>6, <1>8, OfficerKeeps
  <1> HIDE DEF x
  <1>11. Grows(pos, x) /\ x \in Good /\ Plans(pos, x)
    BY <1>3, <1>6, <1>8, <1>9, <1>10, GrowsThen DEF Keeps, Good, Plans
  <1>12. NeverReissued /\ Extended
    BY <1>3, <1>5, <1>11, GrowsExtends
  <1>13. round = 0 /\ round' = round /\ taken' = 1 /\ answered' = answered
    BY DEF ChooseAdvanceTeam
  <1>14. DeployInv'
    BY <1>1, <1>2, <1>5, <1>7, <1>11, <1>13 DEF DeployInv
  <1> QED
    BY <1>12, <1>13, <1>14 DEF SeamStep

(* A round opens on a position that nothing crosses any more.              *)
LEMMA RoundOpens ==
  ASSUME DeployInv, NEW p, Keeps(pos, p), NEW r \in 1..MaxRound,
         \A i \in DOMAIN p.units : ~ p.units[i].travelling,
         p.supply >= 0, r = 1 => p.active = {},
         pos' \in OpenRound(p, r), round' = r, taken' = 0,
         answered' \in BOOLEAN, team' = team
  PROVE  DeployInv' /\ SeamStep
PROOF
  <1>1. p \in Good /\ pos \in Good
    BY DEF Keeps, DeployInv
  <1>2. /\ pos' \in Good /\ Grows(p, pos')
        /\ pos'.plans = p.plans /\ pos'.core = p.core
        /\ Opened(pos') /\ Affordable(pos')
    BY <1>1, OpenRoundGood
  <1>3. Grows(pos, pos')
    BY <1>1, <1>2, GrowsThen DEF Keeps, Good
  <1>4. Plans(pos, pos') /\ pos'.core <= pos.core
    BY <1>2 DEF Plans, Keeps
  <1>5. NeverReissued /\ Extended
    BY <1>1, <1>2, <1>3, <1>4, GrowsExtends
  <1>6. pos' = Read(pos')
    BY <1>2, OpenedIsRead
  <1>7. round' # 0 /\ round' \in 0..MaxRound
    BY DeploymentAssumption DEF DeploymentAssumption
  <1>8. DeployInv'
    BY <1>2, <1>7 DEF DeployInv, Affordable
  <1> QED
    BY <1>4, <1>5, <1>6, <1>8 DEF SeamStep

LEMMA ArrivedKeeps ==
  ASSUME NEW p \in Good
  PROVE  Keeps(p, Arrived(p))
PROOF
  <1>1. p.core \in Int
    BY DEF Good, Positions
  <1> QED
    BY <1>1, ArrivedGood DEF Keeps

LEMMA OpenFirstRoundKeeps ==
  ASSUME DeployInv, OpenFirstRound
  PROVE  DeployInv' /\ SeamStep
PROOF
  <1> DEFINE m == Arrived(pos)
  <1>1. /\ pos \in Good /\ pos.supply >= 0 /\ pos.active = {}
        /\ team \in Seq(Unit)
    BY DEF DeployInv, OpenFirstRound, Affordable
  <1>2. /\ m \in Good /\ m.supply = pos.supply /\ m.active = pos.active
        /\ Keeps(pos, m)
        /\ \A i \in DOMAIN m.units : ~ m.units[i].travelling
    BY <1>1, ArrivedGood, ArrivedKeeps
  <1>3. PICK q \in DeliverTeam(m, team) : pos' \in OpenRound(q, 0 + 1)
    BY DEF OpenFirstRound, Predict
  <1> HIDE DEF m
  <1>4. q \in Added(m)
    BY <1>1, <1>2, <1>3, DeliverTeamGood
  <1>5. Keeps(m, q)
    BY <1>2, <1>4, AddedKeeps
  <1>6. Keeps(pos, q)
    BY <1>1, <1>2, <1>5, KeepsThen
  <1>7. /\ q.supply = m.supply /\ q.active = m.active
        /\ \A i \in DOMAIN q.units : ~ q.units[i].travelling
    BY <1>2, <1>4 DEF Added, Adds, Arrives
  <1>8. pos' \in OpenRound(q, 1) /\ 1 \in 1..MaxRound
    BY <1>3, DeploymentAssumption DEF DeploymentAssumption
  <1>9. /\ round' = 1 /\ taken' = 0 /\ answered' \in BOOLEAN
        /\ team' = team
    BY DEF OpenFirstRound, DeployInv
  <1> QED
    BY <1>1, <1>2, <1>6, <1>7, <1>8, <1>9, RoundOpens

LEMMA FightRoundKeeps ==
  ASSUME DeployInv, FightRound
  PROVE  DeployInv' /\ SeamStep
PROOF
  <1>1. PICK w \in Outcomes(pos) : pos' \in Settle(pos, round, w)
    BY DEF FightRound
  <1> DEFINE f == Fought(pos, w)
             m == Arrived(f)
  <1>2. pos \in Good /\ pos.supply >= 0
    BY DEF DeployInv, Affordable
  <1>3. Keeps(pos, f) /\ f \in Good /\ f.supply = pos.supply
    BY <1>2, FoughtGood DEF Keeps
  <1>4. pos' \in OpenRound(m, round + 1)
    BY <1>1 DEF Settle
  <1> HIDE DEF f
  <1>5. /\ Keeps(f, m) /\ m.supply = f.supply
        /\ \A i \in DOMAIN m.units : ~ m.units[i].travelling
    BY <1>3, ArrivedGood, ArrivedKeeps
  <1> HIDE DEF m
  <1>6. Keeps(pos, m)
    BY <1>2, <1>3, <1>5, KeepsThen
  <1>7. round + 1 \in 1..MaxRound /\ round + 1 # 1
    BY DeploymentAssumption DEF FightRound, DeploymentAssumption
  <1>8. /\ round' = round + 1 /\ taken' = 0 /\ answered' \in BOOLEAN
        /\ team' = team
    BY DEF FightRound
  <1> QED
    BY <1>2, <1>3, <1>4, <1>5, <1>6, <1>7, <1>8, RoundOpens

-----------------------------------------------------------------------------
(* The specification.                                                      *)

LEMMA InitGood ==
  DeploymentInit => DeployInv
PROOF
  <1> SUFFICES ASSUME DeploymentInit PROVE DeployInv
    OBVIOUS
  <1>1. <<>> \in Partial(Nat, Slots) /\ <<>> \in Partial(Nat, Formations)
        /\ <<>> \in Partial(Nat, Contraptions)
    BY PartialEmpty
  <1>2. EmptyBag \in Partial(Item, Nat \ {0})
    <2>1. EmptyBag \in [{} -> Nat \ {0}] /\ {} \in SUBSET Item
      BY DEF EmptyBag, SetToBag
    <2> QED
      BY <2>1, PartialIntro
  <1>3. Standing \in Partial(DOMAIN Standing, Main)
    <2>1. Standing \in [DOMAIN Standing -> Main]
      BY DeploymentAssumption DEF DeploymentAssumption
    <2> QED
      BY <2>1, PartialIntro
  <1>4. pos \in Positions
    <2>1. <<0, 0>> \in [{1, 2} -> Nat] /\ <<>> \in Seq(Officer)
      OBVIOUS
    <2> QED
      BY <1>1, <1>2, <1>3, <2>1
      DEF DeploymentInit, BeforeOpening, Positions
  <1>5. DOMAIN pos.units = {} /\ DOMAIN pos.devices = {}
        /\ DOMAIN pos.panel = {} /\ pos.active = {}
    BY PartialEmpty DEF DeploymentInit, BeforeOpening
  <1>6. pos \in Good
    BY <1>4, <1>5, FS_EmptySet DEF Good
  <1>7. Affordable(pos)
    BY DEF DeploymentInit, BeforeOpening, Affordable
  <1>8. round \in 0..MaxRound /\ team \in Seq(Unit)
    BY DeploymentAssumption DEF DeploymentInit, DeploymentAssumption
  <1> QED
    BY <1>5, <1>6, <1>7, <1>8 DEF DeploymentInit, DeployInv

LEMMA StepKeeps ==
  ASSUME DeployInv, DeploymentNext
  PROVE  DeployInv' /\ SeamStep
PROOF
  <1>1. CASE ChooseAdvanceTeam
    BY <1>1, ChooseAdvanceTeamKeeps
  <1>2. CASE OpenFirstRound
    BY <1>2, OpenFirstRoundKeeps
  <1>3. CASE FightRound
    BY <1>3, FightRoundKeeps
  <1>4. CASE ChooseReinforceItem
    BY <1>4, RefundKeeps, TakeOfficerKeeps, TakeSkillKeeps, TakeItemKeeps,
       TakeUnitsKeeps
    DEF ChooseReinforceItem
  <1>5. ASSUME NEW u \in Unit, BuyUnit(u) \/ UnlockUnit(u)
        PROVE  DeployInv' /\ SeamStep
    BY <1>5, BuyUnitKeeps, UnlockUnitKeeps
  <1>6. ASSUME NEW i \in DOMAIN pos.units, UpgradeUnit(i) \/ MoveUnit(i)
        PROVE  DeployInv' /\ SeamStep
    BY <1>6, UpgradeUnitKeeps, MoveUnitKeeps
  <1>7. ASSUME NEW i \in DOMAIN pos.units, NEW x \in Item, UseEquipment(x, i)
        PROVE  DeployInv' /\ SeamStep
    BY <1>7, UseEquipmentKeeps
  <1>8. ASSUME NEW t \in DOMAIN TechRow, UpgradeTechnology(t)
        PROVE  DeployInv' /\ SeamStep
    BY <1>8, UpgradeTechnologyKeeps
  <1>9. ASSUME NEW b \in DOMAIN BlueprintRow, ActiveBlueprint(b)
        PROVE  DeployInv' /\ SeamStep
    BY <1>9, ActiveBlueprintKeeps
  <1>10. ASSUME NEW k \in DOMAIN TowerRow, ActiveEnergyTowerSkill(k)
         PROVE  DeployInv' /\ SeamStep
    BY <1>10, TowerSkillKeeps
  <1>11. ASSUME NEW w \in {1, 2}, StrengthenTower(w)
         PROVE  DeployInv' /\ SeamStep
    BY <1>11, StrengthenTowerKeeps
  <1>12. ASSUME NEW d \in DOMAIN DeviceRow, ReleaseContraption(d)
         PROVE  DeployInv' /\ SeamStep
    BY <1>12, ReleaseContraptionKeeps DEF Device
  <1>13. ASSUME NEW i \in DOMAIN pos.panel, ReleaseCommanderSkill(i)
         PROVE  DeployInv' /\ SeamStep
    <2>1. CASE ReleaseOnArea(i) \/ ReleaseOnUnit(i)
      BY <2>1, ReleaseKeeps
    <2>2. ASSUME NEW u \in DOMAIN pos.units,
                 Redeploy(i, u) \/ Train(i, u) \/ RecoverUnit(i, u)
          PROVE  DeployInv' /\ SeamStep
      BY <2>2, RedeployKeeps, TrainKeeps, RecoverUnitKeeps
    <2>3. ASSUME NEW c \in DOMAIN pos.constructions,
                 RecoverConstruction(i, c)
          PROVE  DeployInv' /\ SeamStep
      BY <2>3, RecoverConstructionKeeps
    <2> QED
      BY <1>13, <2>1, <2>2, <2>3 DEF ReleaseCommanderSkill
  <1> QED
    BY <1>1, <1>2, <1>3, <1>4, <1>5, <1>6, <1>7, <1>8, <1>9, <1>10, <1>11,
       <1>12, <1>13
    DEF DeploymentNext

LEMMA StutterKeeps ==
  ASSUME DeployInv, UNCHANGED deployVars
  PROVE  DeployInv'
PROOF
  BY DEF deployVars, DeployInv, Affordable

(* What the invariant says of a position.                                  *)
LEMMA InvTypes ==
  DeployInv => DeployTypeOK
PROOF
  <1> SUFFICES ASSUME DeployInv PROVE DeployTypeOK
    OBVIOUS
  <1>1. /\ pos \in Good /\ pos \in Positions /\ pos.supply \in Int
        /\ pos.left \in [buys : Int, unlocks : Int, devices : Int]
        /\ pos.stock \in Partial(Item, Nat \ {0})
        /\ pos.panel \in Partial(Nat, Slots)
        /\ pos.shop \subseteq Unit
    BY BeforeDecision DEF Positions
  <1>2. /\ pos.supply \in Nat
        /\ pos.left \in [buys : Nat, unlocks : Nat, devices : Nat]
    BY <1>1 DEF DeployInv, Affordable
  <1>3. IsABag(pos.stock)
    BY <1>1, PartialElim DEF IsABag
  <1>4. \A i \in DOMAIN pos.panel : pos.panel[i] \in Slots
    BY <1>1, PartialElim
  <1>5. ASSUME NEW i \in DOMAIN pos.units
        PROVE  /\ pos.units[i] \in Formations /\ Alone(i)
               /\ Len(pos.units[i].worn) <= EquipmentSlots
               /\ (pos.units[i].travelling => Flank(pos.units[i].spot))
    <2>1. /\ pos.units[i] \in Formations
          /\ Len(pos.units[i].worn) <= SlotsOf(pos)
          /\ (pos.units[i].travelling => Flank(pos.units[i].spot))
      BY <1>1, OwnSpot
    <2>2. Clear(pos, i)
      BY <1>1 DEF Good
    <2>3. Alone(i)
      BY <2>2 DEF Clear, Alone, Blocked
    <2> QED
      BY <2>1, <2>3 DEF EquipmentSlots, SlotsOf
  <1> QED
    BY <1>1, <1>2, <1>3, <1>4, <1>5 DEF DeployTypeOK, DeployInv, Good

(* A position keeps its type whatever the tables, the offers, the          *)
(* decisions and the fights: no decision and no opened round leaves a debt *)
(* or spends an allowance twice, what was placed, moved or landed overlaps *)
(* nothing, and nothing is worn beyond the slots.                          *)
THEOREM DeployTypeCorrect == DeploymentSpec => []DeployTypeOK
PROOF
  <1>1. DeploymentInit => DeployInv
    BY InitGood
  <1>2. DeployInv /\ [DeploymentNext]_deployVars => DeployInv'
    BY StepKeeps, StutterKeeps
  <1> QED
    BY <1>1, <1>2, InvTypes, PTL DEF DeploymentSpec

(* The seams between rounds hold of every step.                            *)
THEOREM SeamsAreKept == DeploymentSpec => SeamsHold
PROOF
  <1>1. DeploymentInit => DeployInv
    BY InitGood
  <1>2. DeployInv /\ [DeploymentNext]_deployVars => DeployInv'
    BY StepKeeps, StutterKeeps
  <1>3. DeployInv /\ [DeploymentNext]_deployVars =>
          [ /\ NeverReissued
            /\ Extended
            /\ round > 0 => pos'.core <= pos.core
            /\ round' # round => pos' = Read(pos') ]_deployVars
    BY StepKeeps DEF SeamStep
  <1> QED
    BY <1>1, <1>2, <1>3, PTL DEF DeploymentSpec, SeamsHold

-----------------------------------------------------------------------------
(* The prediction.                                                         *)

(* Positions that agree in all a fight does not decide; the spots of what  *)
(* was delivered only where landings is set.                               *)
SameSlot(s, t) ==
  /\ s.id = t.id /\ s.cooldown = t.cooldown
  /\ s.used = t.used /\ s.order = t.order

SameUnit(f, g, landings) ==
  /\ f.type = g.type /\ f.level = g.level /\ f.worn = g.worn
  /\ f.travelling = g.travelling /\ f.source = g.source
  /\ f.value = g.value /\ f.redeployed = g.redeployed
  /\ landings \/ f.source # "delivered" => f.spot = g.spot

Agree(p, q, landings) ==
  /\ p.supply = q.supply /\ p.officers = q.officers /\ p.shop = q.shop
  /\ p.plans = q.plans /\ p.active = q.active /\ p.towers = q.towers
  /\ p.stock = q.stock /\ p.techs = q.techs
  /\ p.constructions = q.constructions
  /\ p.next = q.next /\ p.left = q.left
  /\ DOMAIN p.panel = DOMAIN q.panel
  /\ \A i \in DOMAIN p.panel : SameSlot(p.panel[i], q.panel[i])
  /\ DOMAIN p.units = DOMAIN q.units
  /\ \A i \in DOMAIN p.units : SameUnit(p.units[i], q.units[i], landings)

LEMMA AgreeUndecided ==
  ASSUME NEW landings \in BOOLEAN, NEW p \in Positions, NEW q \in Positions,
         Agree(p, q, landings)
  PROVE  Undecided(p, landings) = Undecided(q, landings)
PROOF
  <1> DEFINE P(x) == [i \in DOMAIN x.panel |->
                        [x.panel[i] EXCEPT !.standing = 0]]
             U(x) == [i \in DOMAIN x.units |->
                        [x.units[i] EXCEPT !.exp = "none",
                           !.spot = IF ~ landings
                                         /\ x.units[i].source = "delivered"
                                    THEN 0 ELSE x.units[i].spot]]
  <1>1. /\ \A i \in DOMAIN p.panel : p.panel[i] \in Slots
        /\ \A i \in DOMAIN q.panel : q.panel[i] \in Slots
        /\ \A i \in DOMAIN p.units : p.units[i] \in Formations
        /\ \A i \in DOMAIN q.units : q.units[i] \in Formations
    <2>1. /\ p.panel \in Partial(Nat, Slots) /\ q.panel \in Partial(Nat, Slots)
          /\ p.units \in Partial(Nat, Formations)
          /\ q.units \in Partial(Nat, Formations)
      BY DEF Positions
    <2> QED
      BY <2>1, PartialElim
  <1>2. P(p) = P(q)
    <2>1. ASSUME NEW s \in Slots, NEW t \in Slots, SameSlot(s, t)
          PROVE  [s EXCEPT !.standing = 0] = [t EXCEPT !.standing = 0]
      BY <2>1 DEF SameSlot, Slots
    <2>2. \A i \in DOMAIN p.panel : P(p)[i] = P(q)[i]
      BY <1>1, <2>1 DEF Agree
    <2>3. DOMAIN p.panel = DOMAIN q.panel
      BY DEF Agree
    <2> QED
      BY <2>2, <2>3
  <1>3. U(p) = U(q)
    <2>1. ASSUME NEW f \in Formations, NEW g \in Formations,
                 SameUnit(f, g, landings)
          PROVE  [f EXCEPT !.exp = "none",
                           !.spot = IF ~ landings /\ f.source = "delivered"
                                    THEN 0 ELSE @]
                 = [g EXCEPT !.exp = "none",
                             !.spot = IF ~ landings /\ g.source = "delivered"
                                      THEN 0 ELSE @]
      BY <2>1 DEF SameUnit, Formations
    <2>2. \A i \in DOMAIN p.units : U(p)[i] = U(q)[i]
      <3> SUFFICES ASSUME NEW i \in DOMAIN p.units PROVE U(p)[i] = U(q)[i]
        OBVIOUS
      <3> DEFINE f == p.units[i]
                 g == q.units[i]
      <3>1. /\ f \in Formations /\ g \in Formations
            /\ SameUnit(f, g, landings) /\ i \in DOMAIN q.units
        BY <1>1 DEF Agree
      <3>2. /\ U(p)[i] = [f EXCEPT !.exp = "none",
                           !.spot = IF ~ landings /\ f.source = "delivered"
                                    THEN 0 ELSE @]
            /\ U(q)[i] = [g EXCEPT !.exp = "none",
                           !.spot = IF ~ landings /\ g.source = "delivered"
                                    THEN 0 ELSE @]
        BY <3>1
      <3> HIDE DEF f, g, U
      <3> QED
        BY <2>1, <3>1, <3>2
    <2>3. DOMAIN p.units = DOMAIN q.units
      BY DEF Agree
    <2> QED
      BY <2>2, <2>3
  <1>4. ASSUME NEW x \in Positions
        PROVE  Undecided(x, landings)
                 = [x EXCEPT !.core = 0, !.devices = <<>>, !.panel = P(x),
                             !.units = U(x)]
    BY DEF Undecided, Positions
  <1> DEFINE a == P(p)
             b == U(p)
             r == Undecided(p, landings)
             s == Undecided(q, landings)
  <1>5. /\ r = [p EXCEPT !.core = 0, !.devices = <<>>, !.panel = a,
                         !.units = b]
        /\ s = [q EXCEPT !.core = 0, !.devices = <<>>, !.panel = a,
                         !.units = b]
    BY <1>2, <1>3, <1>4
  <1> HIDE DEF a, b, r, s
  <1>6. r = s
    BY <1>5 DEF Agree, Positions
  <1> QED
    BY <1>6 DEF r, s

(* Positions that agree, where the settled one has at least the room of    *)
(* the predicted one, and no more of it where every contraption is kept.   *)
Rel(p, q, whole, landings) ==
  /\ p \in Good /\ q \in Good
  /\ Agree(p, q, landings)
  /\ Room(p) \subseteq Room(q)
  /\ whole => Room(q) \subseteq Room(p)

LEMMA RoomIs ==
  ASSUME NEW p, DOMAIN p.units \subseteq Nat
  PROVE  Room(p) = Main \ ({p.units[k].spot : k \in DOMAIN p.units}
                             \cup Range(p.constructions) \cup Blocked(p))
PROOF
  <1>1. DOMAIN p.units \ {-1} = DOMAIN p.units
    OBVIOUS
  <1> QED
    BY <1>1 DEF Room, Occupied, Blocked

LEMMA RoomStays ==
  ASSUME NEW p, NEW q, DOMAIN p.units \subseteq Nat,
         DOMAIN q.units = DOMAIN p.units,
         \A i \in DOMAIN p.units : q.units[i].spot = p.units[i].spot,
         q.constructions = p.constructions, q.devices = p.devices
  PROVE  Room(q) = Room(p)
PROOF
  <1>1. {p.units[k].spot : k \in DOMAIN p.units}
          = {q.units[k].spot : k \in DOMAIN q.units}
    OBVIOUS
  <1>2. Blocked(q) = Blocked(p)
    BY DEF Blocked
  <1> QED
    BY <1>1, <1>2, RoomIs

(* The fight decides none of it.                                           *)
LEMMA FoughtRel ==
  ASSUME NEW p \in Good, NEW w \in Outcomes(p)
  PROVE  Rel(p, Fought(p, w), w.kept = DOMAIN p.devices, TRUE)
PROOF
  <1> DEFINE q == Fought(p, w)
             whole == w.kept = DOMAIN p.devices
  <1>1. /\ p \in Positions /\ p.units \in Partial(Nat, Formations)
        /\ p.panel \in Partial(Nat, Slots)
        /\ p.devices \in Partial(Nat, Contraptions)
    BY DEF Good, Positions
  <1>2. /\ DOMAIN p.units \subseteq Nat
        /\ \A i \in DOMAIN p.units : p.units[i] \in Formations
        /\ \A i \in DOMAIN p.panel : p.panel[i] \in Slots
    BY <1>1, PartialElim
  <1>3. q \in Good
    BY FoughtGood
  <1>4. w.kept \in SUBSET DOMAIN p.devices
    BY DEF Outcomes
  <1>5. /\ q.supply = p.supply /\ q.officers = p.officers /\ q.shop = p.shop
        /\ q.plans = p.plans /\ q.active = p.active /\ q.towers = p.towers
        /\ q.stock = p.stock /\ q.techs = p.techs
        /\ q.constructions = p.constructions
        /\ q.next = p.next /\ q.left = p.left
        /\ q.devices = Restrict(p.devices, w.kept)
        /\ q.panel = [i \in DOMAIN p.panel |->
                        [p.panel[i] EXCEPT
                           !.standing =
                             StandsOn(p.panel[i], w.lost[i], i \in w.left)]]
        /\ q.units = [i \in DOMAIN p.units |->
                        [p.units[i] EXCEPT !.exp = w.exp[i]]]
    BY <1>1 DEF Fought, Positions
  <1> HIDE DEF q
  <1>6. /\ DOMAIN q.devices = w.kept
        /\ \A k \in w.kept : q.devices[k] = p.devices[k]
    BY <1>1, <1>4, <1>5, PartialRestrict
  <1>7. /\ DOMAIN q.panel = DOMAIN p.panel
        /\ \A i \in DOMAIN p.panel : SameSlot(p.panel[i], q.panel[i])
    <2> HIDE DEF StandsOn
    <2> QED
      BY <1>2, <1>5 DEF SameSlot, Slots
  <1>8. /\ DOMAIN q.units = DOMAIN p.units
        /\ \A i \in DOMAIN p.units :
             /\ SameUnit(p.units[i], q.units[i], TRUE)
             /\ q.units[i].spot = p.units[i].spot
    BY <1>2, <1>5 DEF SameUnit, Formations
  <1>9. Agree(p, q, TRUE)
    BY <1>5, <1>7, <1>8 DEF Agree
  <1>10. /\ Blocked(q) \subseteq Blocked(p)
         /\ whole => Blocked(q) = Blocked(p)
    BY <1>4, <1>6 DEF Blocked
  <1>11. /\ {p.units[k].spot : k \in DOMAIN p.units}
              = {q.units[k].spot : k \in DOMAIN q.units}
         /\ DOMAIN q.units \subseteq Nat
    BY <1>2, <1>8
  <1>12. Room(p) \subseteq Room(q) /\ (whole => Room(q) \subseteq Room(p))
    BY <1>2, <1>5, <1>10, <1>11, RoomIs
  <1> QED
    BY <1>3, <1>9, <1>12 DEF Rel, q

(* The pieces of a position that a lemma of this part reads.               *)
LEMMA Pieces ==
  ASSUME NEW p \in Good
  PROVE  /\ p \in Positions /\ DOMAIN p.units \subseteq Nat
         /\ DOMAIN p.panel \subseteq Nat
         /\ \A i \in DOMAIN p.units : p.units[i] \in Formations
         /\ \A i \in DOMAIN p.panel : p.panel[i] \in Slots
         /\ p.next \in [unit : Nat, device : Nat]
         /\ p.officers \in Seq(Officer)
PROOF
  <1>1. /\ p \in Positions /\ p.units \in Partial(Nat, Formations)
        /\ p.panel \in Partial(Nat, Slots)
        /\ p.next \in [unit : Nat, device : Nat]
        /\ p.officers \in Seq(Officer)
    BY DEF Good, Positions
  <1> QED
    BY <1>1, PartialElim

LEMMA ArrivedRel ==
  ASSUME NEW whole \in BOOLEAN, NEW p, NEW q, Rel(p, q, whole, TRUE)
  PROVE  Rel(Arrived(p), Arrived(q), whole, TRUE)
PROOF
  <1>1. /\ p \in Good /\ q \in Good /\ Agree(p, q, TRUE)
        /\ Arrived(p) \in Good /\ Arrived(q) \in Good
    BY ArrivedGood DEF Rel
  <1>2. ASSUME NEW x \in Good
        PROVE  /\ Arrived(x).supply = x.supply
               /\ Arrived(x).officers = x.officers
               /\ Arrived(x).shop = x.shop /\ Arrived(x).plans = x.plans
               /\ Arrived(x).active = x.active
               /\ Arrived(x).towers = x.towers
               /\ Arrived(x).stock = x.stock /\ Arrived(x).techs = x.techs
               /\ Arrived(x).constructions = x.constructions
               /\ Arrived(x).next = x.next /\ Arrived(x).left = x.left
               /\ Arrived(x).panel = x.panel
               /\ Arrived(x).devices = x.devices
               /\ DOMAIN Arrived(x).units = DOMAIN x.units
               /\ \A i \in DOMAIN x.units :
                    Arrived(x).units[i]
                      = [x.units[i] EXCEPT !.travelling = FALSE]
    <2>1. x \in Positions
      BY Pieces
    <2> QED
      BY <2>1 DEF Arrived, Positions
  <1>3. ASSUME NEW f \in Formations, NEW g \in Formations,
               SameUnit(f, g, TRUE)
        PROVE  SameUnit([f EXCEPT !.travelling = FALSE],
                        [g EXCEPT !.travelling = FALSE], TRUE)
    BY <1>3 DEF SameUnit, Formations
  <1> DEFINE a == Arrived(p)
             b == Arrived(q)
  <1>4. \A i \in DOMAIN p.units : SameUnit(a.units[i], b.units[i], TRUE)
    <2>1. \A i \in DOMAIN p.units :
            /\ p.units[i] \in Formations /\ i \in DOMAIN q.units
            /\ q.units[i] \in Formations
            /\ SameUnit(p.units[i], q.units[i], TRUE)
      BY <1>1, Pieces DEF Agree
    <2> SUFFICES ASSUME NEW i \in DOMAIN p.units
                 PROVE  SameUnit(a.units[i], b.units[i], TRUE)
      OBVIOUS
    <2> DEFINE f == p.units[i]
               g == q.units[i]
               fa == a.units[i]
               gb == b.units[i]
    <2>2. /\ fa = [f EXCEPT !.travelling = FALSE]
          /\ gb = [g EXCEPT !.travelling = FALSE]
      BY <1>1, <1>2, <2>1
    <2>3. f \in Formations /\ g \in Formations /\ SameUnit(f, g, TRUE)
      BY <2>1
    <2> HIDE DEF f, g, fa, gb, a, b
    <2>4. SameUnit(fa, gb, TRUE)
      BY <1>3, <2>2, <2>3
    <2> QED
      BY <2>4 DEF fa, gb
  <1>5. Agree(a, b, TRUE)
    BY <1>1, <1>2, <1>4 DEF Agree
  <1>6. Room(a) = Room(p) /\ Room(b) = Room(q)
    <2>1. ASSUME NEW x \in Good PROVE Room(Arrived(x)) = Room(x)
      <3>1. \A i \in DOMAIN x.units :
              Arrived(x).units[i].spot = x.units[i].spot
        <4> SUFFICES ASSUME NEW i \in DOMAIN x.units
                     PROVE  Arrived(x).units[i].spot = x.units[i].spot
          OBVIOUS
        <4> DEFINE f == x.units[i]
                   h == Arrived(x).units[i]
        <4>1. f \in Formations /\ h = [f EXCEPT !.travelling = FALSE]
          BY <1>2, Pieces
        <4> HIDE DEF f, h
        <4>2. h.spot = f.spot
          BY <4>1 DEF Formations
        <4> QED
          BY <4>2 DEF f, h
      <3> QED
        BY <1>2, <3>1, Pieces, RoomStays
    <2> QED
      BY <1>1, <2>1
  <1> QED
    BY <1>1, <1>5, <1>6 DEF Rel

LEMMA ResetRel ==
  ASSUME NEW whole \in BOOLEAN, NEW p, NEW q, Rel(p, q, whole, TRUE),
         NEW r \in 1..MaxRound
  PROVE  Rel(Reset(p, r), Reset(q, r), whole, TRUE)
PROOF
  <1>1. /\ p \in Good /\ q \in Good /\ Agree(p, q, TRUE)
        /\ Reset(p, r) \in Good /\ Reset(q, r) \in Good
    BY ResetGood DEF Rel
  <1> DEFINE source == IF r <= 1 THEN "joined" ELSE "legacy"
  <1>2. ASSUME NEW x \in Good
        PROVE  /\ Reset(x, r).supply = x.supply + RoundIncome(x, r)
                                         + PaidByItems(x) - Owed(x)
               /\ Reset(x, r).officers = x.officers
               /\ Reset(x, r).shop = x.shop /\ Reset(x, r).plans = x.plans
               /\ Reset(x, r).active = {}
               /\ Reset(x, r).towers = x.towers
               /\ Reset(x, r).stock = x.stock /\ Reset(x, r).techs = x.techs
               /\ Reset(x, r).constructions = x.constructions
               /\ Reset(x, r).next = x.next
               /\ Reset(x, r).left = Allowances(x)
               /\ DOMAIN Reset(x, r).panel = DOMAIN x.panel
               /\ \A i \in DOMAIN x.panel :
                    Reset(x, r).panel[i] = Rested(x.panel[i])
               /\ Reset(x, r).devices = x.devices
               /\ DOMAIN Reset(x, r).units = DOMAIN x.units
               /\ \A i \in DOMAIN x.units :
                    Reset(x, r).units[i]
                      = [x.units[i] EXCEPT !.source = source,
                                           !.redeployed = FALSE]
    <2>1. x \in Positions
      BY Pieces
    <2> QED
      BY <2>1 DEF Reset, Positions
  <1>3. ASSUME NEW f \in Formations, NEW g \in Formations,
               SameUnit(f, g, TRUE)
        PROVE  SameUnit([f EXCEPT !.source = source, !.redeployed = FALSE],
                        [g EXCEPT !.source = source, !.redeployed = FALSE],
                        TRUE)
    BY <1>3 DEF SameUnit, Formations
  <1>4. ASSUME NEW s \in Slots, NEW t \in Slots, SameSlot(s, t)
        PROVE  SameSlot(Rested(s), Rested(t))
    BY <1>4 DEF SameSlot, Slots, Rested
  <1> DEFINE a == Reset(p, r)
             b == Reset(q, r)
  <1>5. \A i \in DOMAIN p.units : SameUnit(a.units[i], b.units[i], TRUE)
    <2>1. \A i \in DOMAIN p.units :
            /\ p.units[i] \in Formations /\ i \in DOMAIN q.units
            /\ q.units[i] \in Formations
            /\ SameUnit(p.units[i], q.units[i], TRUE)
      BY <1>1, Pieces DEF Agree
    <2> SUFFICES ASSUME NEW i \in DOMAIN p.units
                 PROVE  SameUnit(a.units[i], b.units[i], TRUE)
      OBVIOUS
    <2> DEFINE f == p.units[i]
               g == q.units[i]
               fa == a.units[i]
               gb == b.units[i]
    <2>2. /\ fa = [f EXCEPT !.source = source, !.redeployed = FALSE]
          /\ gb = [g EXCEPT !.source = source, !.redeployed = FALSE]
      BY <1>1, <1>2, <2>1
    <2>3. f \in Formations /\ g \in Formations /\ SameUnit(f, g, TRUE)
      BY <2>1
    <2> HIDE DEF f, g, fa, gb, a, b
    <2>4. SameUnit(fa, gb, TRUE)
      BY <1>3, <2>2, <2>3
    <2> QED
      BY <2>4 DEF fa, gb
  <1>6. \A i \in DOMAIN p.panel : SameSlot(a.panel[i], b.panel[i])
    <2>1. \A i \in DOMAIN p.panel :
            /\ p.panel[i] \in Slots /\ i \in DOMAIN q.panel
            /\ q.panel[i] \in Slots
            /\ SameSlot(p.panel[i], q.panel[i])
      BY <1>1, Pieces DEF Agree
    <2> SUFFICES ASSUME NEW i \in DOMAIN p.panel
                 PROVE  SameSlot(a.panel[i], b.panel[i])
      OBVIOUS
    <2> DEFINE f == p.panel[i]
               g == q.panel[i]
               fa == a.panel[i]
               gb == b.panel[i]
    <2>2. fa = Rested(f) /\ gb = Rested(g)
      BY <1>1, <1>2, <2>1
    <2>3. f \in Slots /\ g \in Slots /\ SameSlot(f, g)
      BY <2>1
    <2> HIDE DEF f, g, fa, gb, a, b
    <2>4. SameSlot(fa, gb)
      BY <1>4, <2>2, <2>3
    <2> QED
      BY <2>4 DEF fa, gb
  <1>7. a.supply = b.supply /\ a.left = b.left
    <2>1. /\ p.officers = q.officers /\ p.active = q.active
          /\ p.supply = q.supply
          /\ DOMAIN p.units = DOMAIN q.units
      BY <1>1 DEF Agree
    <2>2. RoundIncome(p, r) = RoundIncome(q, r) /\ Owed(p) = Owed(q)
          /\ Allowances(p) = Allowances(q)
      BY <2>1 DEF RoundIncome, Modifier, Owed, Allowances
    <2>3. \A i \in DOMAIN p.units :
            Worn(p.units[i], "round") = Worn(q.units[i], "round")
      BY <1>1 DEF Agree, SameUnit, Worn
    <2>4. PaidByItems(p) = PaidByItems(q)
      BY <2>1, <2>3 DEF PaidByItems
    <2>5. /\ a.supply = p.supply + RoundIncome(p, r) + PaidByItems(p) - Owed(p)
          /\ b.supply = q.supply + RoundIncome(q, r) + PaidByItems(q) - Owed(q)
          /\ a.left = Allowances(p) /\ b.left = Allowances(q)
      BY <1>1, <1>2
    <2> HIDE DEF a, b
    <2> QED
      BY <2>1, <2>2, <2>4, <2>5
  <1>8. Agree(a, b, TRUE)
    BY <1>1, <1>2, <1>5, <1>6, <1>7 DEF Agree
  <1>9. Room(a) = Room(p) /\ Room(b) = Room(q)
    <2>1. ASSUME NEW x \in Good PROVE Room(Reset(x, r)) = Room(x)
      <3>1. \A i \in DOMAIN x.units :
              Reset(x, r).units[i].spot = x.units[i].spot
        <4> SUFFICES ASSUME NEW i \in DOMAIN x.units
                     PROVE  Reset(x, r).units[i].spot = x.units[i].spot
          OBVIOUS
        <4> DEFINE f == x.units[i]
                   h == Reset(x, r).units[i]
        <4>1. /\ f \in Formations
              /\ h = [f EXCEPT !.source = source, !.redeployed = FALSE]
          BY <1>2, Pieces
        <4> HIDE DEF f, h, source
        <4>2. h.spot = f.spot
          BY <4>1 DEF Formations
        <4> QED
          BY <4>2 DEF f, h
      <3> QED
        BY <1>2, <3>1, Pieces, RoomStays
    <2> QED
      BY <1>1, <2>1
  <1> QED
    BY <1>1, <1>8, <1>9 DEF Rel

(* From then on what is delivered may land elsewhere.                      *)
LEMMA RelEase ==
  ASSUME NEW whole \in BOOLEAN, NEW p, NEW q, Rel(p, q, whole, TRUE)
  PROVE  Rel(p, q, whole, whole)
PROOF
  BY DEF Rel, Agree, SameUnit

-----------------------------------------------------------------------------
(* What is delivered keeps two positions alike.                            *)

(* A delivery that leaves the board alone.                                 *)
LEMMA AsideRel ==
  ASSUME NEW whole \in BOOLEAN, NEW p, NEW q, Rel(p, q, whole, whole),
         NEW a \in Good, NEW b \in Good,
         a.units = p.units, a.constructions = p.constructions,
         a.devices = p.devices,
         b.units = q.units, b.constructions = q.constructions,
         b.devices = q.devices,
         Agree(a, b, whole)
  PROVE  /\ Rel(a, b, whole, whole)
         /\ Room(a) = Room(p) /\ Room(b) = Room(q)
PROOF
  <1>1. p \in Good /\ q \in Good
    BY DEF Rel
  <1>2. DOMAIN p.units \subseteq Nat /\ DOMAIN q.units \subseteq Nat
    BY <1>1, Pieces
  <1>3. Room(a) = Room(p)
    BY <1>2, RoomStays
  <1>4. Room(b) = Room(q)
    BY <1>2, RoomStays
  <1> QED
    BY <1>3, <1>4 DEF Rel

LEMMA PanelAddRel ==
  ASSUME NEW whole \in BOOLEAN, NEW p, NEW q, Rel(p, q, whole, whole),
         NEW id \in Skill
  PROVE  /\ Rel(PanelAdd(p, id), PanelAdd(q, id), whole, whole)
         /\ Room(PanelAdd(p, id)) = Room(p)
PROOF
  <1>1. p \in Good /\ q \in Good /\ Agree(p, q, whole)
    BY DEF Rel
  <1>2. PanelAdd(p, id) \in Good /\ PanelAdd(q, id) \in Good
    BY <1>1, PanelAddGood DEF Added
  <1>3. ASSUME NEW x \in Good
        PROVE  PanelAdd(x, id)
                 = [x EXCEPT !.panel = With(x.panel, FreeSlot(x), Slot(id))]
    BY DEF PanelAdd
  <1>4. DOMAIN p.panel = DOMAIN q.panel
        /\ \A i \in DOMAIN p.panel : SameSlot(p.panel[i], q.panel[i])
    BY <1>1 DEF Agree
  <1>5. FreeSlot(p) = FreeSlot(q)
    BY <1>4 DEF FreeSlot
  <1> DEFINE i == FreeSlot(p)
             v == Slot(id)
             W == With(p.panel, i, v)
             V == With(q.panel, i, v)
             a == PanelAdd(p, id)
             b == PanelAdd(q, id)
  <1>6. a = [p EXCEPT !.panel = W] /\ b = [q EXCEPT !.panel = V]
    BY <1>1, <1>3, <1>5
  <1> HIDE DEF i, v, a, b
  <1>7. /\ DOMAIN W = DOMAIN V
        /\ \A k \in DOMAIN W : SameSlot(W[k], V[k])
    BY <1>4 DEF With, SameSlot
  <1> HIDE DEF W, V
  <1>8. p \in Positions /\ q \in Positions
    BY <1>1, Pieces
  <1>9. Agree(a, b, whole)
    BY <1>1, <1>6, <1>7, <1>8 DEF Agree, Positions
  <1>10. /\ a.units = p.units /\ a.constructions = p.constructions
         /\ a.devices = p.devices
         /\ b.units = q.units /\ b.constructions = q.constructions
         /\ b.devices = q.devices
    BY <1>6, <1>8 DEF Positions
  <1>11. a \in Good /\ b \in Good
    BY <1>2 DEF a, b
  <1>12. Rel(a, b, whole, whole) /\ Room(a) = Room(p)
    BY <1>9, <1>10, <1>11, AsideRel
  <1> QED
    BY <1>12 DEF a, b

LEMMA UnlockRel ==
  ASSUME NEW whole \in BOOLEAN, NEW p, NEW q, Rel(p, q, whole, whole),
         NEW u \in Unit
  PROVE  /\ Rel(Unlock(p, u), Unlock(q, u), whole, whole)
         /\ Room(Unlock(p, u)) = Room(p)
PROOF
  <1>1. p \in Good /\ q \in Good /\ Agree(p, q, whole)
        /\ p \in Positions /\ q \in Positions
    BY Pieces DEF Rel
  <1> DEFINE a == Unlock(p, u)
             b == Unlock(q, u)
  <1>2. a \in Good /\ b \in Good
    BY <1>1, UnlockGood DEF Added
  <1>3. /\ a = [p EXCEPT !.shop = p.shop \cup {u}]
        /\ b = [q EXCEPT !.shop = q.shop \cup {u}]
    BY DEF Unlock
  <1> HIDE DEF a, b
  <1>4. Agree(a, b, whole)
    BY <1>1, <1>3 DEF Agree, Positions
  <1>5. /\ a.units = p.units /\ a.constructions = p.constructions
        /\ a.devices = p.devices
        /\ b.units = q.units /\ b.constructions = q.constructions
        /\ b.devices = q.devices
    BY <1>1, <1>3 DEF Positions
  <1>6. Rel(a, b, whole, whole) /\ Room(a) = Room(p)
    BY <1>2, <1>4, <1>5, AsideRel
  <1> QED
    BY <1>6 DEF a, b

LEMMA StockedRel ==
  ASSUME NEW whole \in BOOLEAN, NEW p, NEW q, Rel(p, q, whole, whole),
         NEW items \in Seq(Item)
  PROVE  /\ Rel(Stocked(p, items), Stocked(q, items), whole, whole)
         /\ Room(Stocked(p, items)) = Room(p)
PROOF
  <1>1. p \in Good /\ q \in Good /\ Agree(p, q, whole)
        /\ p \in Positions /\ q \in Positions
    BY Pieces DEF Rel
  <1> DEFINE a == Stocked(p, items)
             b == Stocked(q, items)
             W == p.stock (+) ToBag(items)
  <1>2. a \in Good /\ b \in Good
    BY <1>1, StockedGood DEF Added
  <1>3. p.stock = q.stock
    BY <1>1 DEF Agree
  <1>4. a = [p EXCEPT !.stock = W] /\ b = [q EXCEPT !.stock = W]
    BY <1>3 DEF Stocked
  <1> HIDE DEF a, b, W
  <1>5. Agree(a, b, whole)
    BY <1>1, <1>4 DEF Agree, Positions
  <1>6. /\ a.units = p.units /\ a.constructions = p.constructions
        /\ a.devices = p.devices
        /\ b.units = q.units /\ b.constructions = q.constructions
        /\ b.devices = q.devices
    BY <1>1, <1>4 DEF Positions
  <1>7. Rel(a, b, whole, whole) /\ Room(a) = Room(p)
    BY <1>2, <1>5, <1>6, AsideRel
  <1> QED
    BY <1>7 DEF a, b

LEMMA PanelAddAllRel ==
  ASSUME NEW whole \in BOOLEAN, NEW p, NEW q, Rel(p, q, whole, whole),
         NEW ids \in Seq(Skill)
  PROVE  /\ Rel(PanelAddAll(p, ids), PanelAddAll(q, ids), whole, whole)
         /\ Room(PanelAddAll(p, ids)) = Room(p)
PROOF
  <1> DEFINE N == Len(ids)
  <1>1. p \in Good /\ q \in Good
    BY DEF Rel
  <1>2. PICK g : /\ g[0] = p
                 /\ \A n \in 1..Len(ids) : g[n] = PanelAdd(g[n - 1], ids[n])
                 /\ PanelAddAll(p, ids) = g[Len(ids)]
    BY <1>1, PanelAddFolds
  <1>3. PICK h : /\ h[0] = q
                 /\ \A n \in 1..Len(ids) : h[n] = PanelAdd(h[n - 1], ids[n])
                 /\ PanelAddAll(q, ids) = h[Len(ids)]
    BY <1>1, PanelAddFolds
  <1> DEFINE S == {n \in Nat : n <= N =>
                     Rel(g[n], h[n], whole, whole) /\ Room(g[n]) = Room(p)}
  <1>4. N \in Nat /\ \A n \in 1..N : ids[n] \in Skill
    OBVIOUS
  <1>5. 0 \in S
    BY <1>2, <1>3
  <1>6. ASSUME NEW n \in Nat, n \in S PROVE n + 1 \in S
    <2> SUFFICES ASSUME n + 1 <= N
                 PROVE  /\ Rel(g[n + 1], h[n + 1], whole, whole)
                        /\ Room(g[n + 1]) = Room(p)
      OBVIOUS
    <2>1. /\ n + 1 \in 1..N /\ (n + 1) - 1 = n /\ n <= N
          /\ ids[n + 1] \in Skill
      BY <1>4
    <2>2. Rel(g[n], h[n], whole, whole) /\ Room(g[n]) = Room(p)
      BY <1>6, <2>1
    <2>3. /\ g[n + 1] = PanelAdd(g[n], ids[n + 1])
          /\ h[n + 1] = PanelAdd(h[n], ids[n + 1])
      BY <1>2, <1>3, <2>1
    <2> QED
      BY <2>1, <2>2, <2>3, PanelAddRel
  <1> HIDE DEF S
  <1>7. Nat \subseteq S
    BY <1>5, <1>6, SetInduction
  <1>8. Rel(g[N], h[N], whole, whole) /\ Room(g[N]) = Room(p)
    BY <1>4, <1>7 DEF S
  <1> QED
    BY <1>2, <1>3, <1>8

LEMMA PlaceIs ==
  ASSUME NEW p \in Good, NEW f
  PROVE  /\ Place(p, f) = [p EXCEPT !.units = With(p.units, p.next.unit, f),
                                    !.next = [unit |-> p.next.unit + 1,
                                              device |-> p.next.device]]
         /\ p.next.unit \in Nat /\ p.next.unit \notin DOMAIN p.units
PROOF
  <1>1. p \in Positions /\ p.next \in [unit : Nat, device : Nat]
    BY Pieces
  <1>2. DOMAIN p.units \subseteq 0..p.next.unit - 1
    BY DEF Good
  <1>3. [p.next EXCEPT !.unit = @ + 1]
          = [unit |-> p.next.unit + 1, device |-> p.next.device]
    BY <1>1
  <1>4. Place(p, f) = [p EXCEPT !.units = With(p.units, p.next.unit, f),
                                !.next = [p.next EXCEPT !.unit = @ + 1]]
    BY <1>1 DEF Place, NextUnit, Positions
  <1>5. p.next.unit \in Nat /\ p.next.unit \notin DOMAIN p.units
    BY <1>1, <1>2
  <1> DEFINE W == With(p.units, p.next.unit, f)
             nx == [p.next EXCEPT !.unit = @ + 1]
             ny == [unit |-> p.next.unit + 1, device |-> p.next.device]
  <1>6. Place(p, f) = [p EXCEPT !.units = W, !.next = nx] /\ nx = ny
    BY <1>3, <1>4
  <1> HIDE DEF W, nx, ny
  <1>7. Place(p, f) = [p EXCEPT !.units = W, !.next = ny]
    BY <1>6
  <1> QED
    BY <1>5, <1>7 DEF W, ny

(* A formation that lands takes one spot of the room.                      *)
LEMMA PlaceRoom ==
  ASSUME NEW p \in Good, NEW f \in Formations, Place(p, f) \in Good
  PROVE  Room(Place(p, f)) = Room(p) \ {f.spot}
PROOF
  <1> DEFINE n == p.next.unit
             W == With(p.units, n, f)
             nx == [unit |-> n + 1, device |-> p.next.device]
             q == Place(p, f)
  <1>1. q = [p EXCEPT !.units = W, !.next = nx]
        /\ n \in Nat /\ n \notin DOMAIN p.units
    BY PlaceIs
  <1>2. /\ DOMAIN W = DOMAIN p.units \cup {n}
        /\ W[n] = f
        /\ \A k \in DOMAIN p.units : W[k] = p.units[k]
    <2> HIDE DEF n
    <2> QED
      BY <1>1 DEF With
  <1>3. /\ DOMAIN p.units \subseteq Nat /\ DOMAIN q.units \subseteq Nat
        /\ p \in Positions
    BY Pieces
  <1> HIDE DEF W, nx, q, n
  <1>4. /\ q.units = W /\ q.constructions = p.constructions
        /\ q.devices = p.devices
    BY <1>1, <1>3 DEF Positions
  <1>5. Blocked(q) = Blocked(p)
    BY <1>4 DEF Blocked
  <1>6. {q.units[k].spot : k \in DOMAIN q.units}
          = {p.units[k].spot : k \in DOMAIN p.units} \cup {f.spot}
    BY <1>2, <1>4
  <1>7. Room(q) = Room(p) \ {f.spot}
    BY <1>3, <1>4, <1>5, <1>6, RoomIs
  <1> QED
    BY <1>7 DEF q

LEMMA RoomFinite ==
  ASSUME NEW p
  PROVE  Room(p) \in SUBSET Int /\ IsFiniteSet(Room(p))
PROOF
  <1>1. MainSpots \in Nat
    BY DeploymentAssumption DEF DeploymentAssumption
  <1>2. IsFiniteSet(Main) /\ Main \in SUBSET Int
    BY <1>1, FS_Interval DEF Main
  <1> QED
    BY <1>2, FS_Subset DEF Room

(* Two boards of which one has the other's room: what lands on both takes  *)
(* the first spot of each, and leaves boards of which this holds too.      *)
LEMMA FirstSpots ==
  ASSUME NEW p, NEW q, Room(p) \subseteq Room(q), Room(p) # {}
  PROVE  /\ Room(p) \ {Min(Room(p))} \subseteq Room(q) \ {Min(Room(q))}
         /\ Room(q) \subseteq Room(p) =>
              /\ Min(Room(p)) = Min(Room(q))
              /\ Room(q) \ {Min(Room(q))} \subseteq Room(p) \ {Min(Room(p))}
PROOF
  <1> DEFINE R == Room(p)
             S == Room(q)
  <1>1. /\ R \in SUBSET Int /\ IsFiniteSet(R)
        /\ S \in SUBSET Int /\ IsFiniteSet(S)
        /\ R \subseteq S /\ R # {} /\ S # {}
    BY RoomFinite
  <1> HIDE DEF R, S
  <1>2. /\ Min(R) \in R /\ \A y \in R : Min(R) <= y
        /\ Min(S) \in S /\ \A y \in S : Min(S) <= y
    BY <1>1, MinIs
  <1>3. Min(R) \in Int /\ Min(S) \in Int
    BY <1>1, <1>2
  <1>4. Min(S) \in R => Min(S) = Min(R)
    BY <1>1, <1>2, <1>3
  <1>5. S \subseteq R => R = S
    BY <1>1
  <1>6. R \ {Min(R)} \subseteq S \ {Min(S)}
    BY <1>1, <1>4
  <1> QED
    BY <1>5, <1>6 DEF R, S

LEMMA LandRel ==
  ASSUME NEW whole \in BOOLEAN, NEW p, NEW q, Rel(p, q, whole, whole),
         NEW u \in Unit, NEW level \in Levels, Room(p) # {}
  PROVE  \E a, b :
           /\ Land(p, u, level, "delivered") = {a}
           /\ Land(q, u, level, "delivered") = {b}
           /\ Rel(a, b, whole, whole)
           /\ Room(a) = Room(p) \ {Min(Room(p))}
PROOF
  <1> DEFINE f == Formation(u, Min(Room(p)), level, UnitRow[u].price,
                            "delivered")
             g == Formation(u, Min(Room(q)), level, UnitRow[u].price,
                            "delivered")
             a == Place(p, f)
             b == Place(q, g)
  <1>1. /\ p \in Good /\ q \in Good /\ Agree(p, q, whole)
        /\ p \in Positions /\ q \in Positions
        /\ Room(p) \subseteq Room(q) /\ Room(q) # {}
        /\ whole => Room(q) \subseteq Room(p)
    BY Pieces DEF Rel
  <1>2. /\ Land(p, u, level, "delivered") = {a}
        /\ Land(q, u, level, "delivered") = {b}
    BY <1>1 DEF Land
  <1>3. "delivered" \in Sources
    BY DEF Sources
  <1>4. a \in Good /\ b \in Good
    BY <1>1, <1>2, <1>3, LandGood
  <1>5. /\ Min(Room(p)) \in Main /\ Min(Room(q)) \in Main
    <2>1. Min(Room(p)) \in Room(p) /\ Min(Room(q)) \in Room(q)
      BY <1>1, RoomFinite, MinIs
    <2> QED
      BY <2>1 DEF Room
  <1>6. /\ f \in Formations /\ g \in Formations
        /\ f.spot = Min(Room(p)) /\ g.spot = Min(Room(q))
    <2>1. Main \subseteq Spot
      BY DeploymentAssumption DEF DeploymentAssumption, Main, Spot
    <2>2. UnitRow[u].price \in Nat
      BY TablesAssumption DEF TablesAssumption, UnitRows
    <2> QED
      BY <1>5, <2>1, <2>2 DEF Formations, Formation, Experience, Levels
  <1>7. whole => Min(Room(p)) = Min(Room(q))
    BY <1>1, FirstSpots
  <1>8. SameUnit(f, g, whole)
    BY <1>7 DEF SameUnit, Formation
  <1>9. /\ p.next = q.next /\ DOMAIN p.units = DOMAIN q.units
        /\ \A i \in DOMAIN p.units : SameUnit(p.units[i], q.units[i], whole)
    BY <1>1 DEF Agree
  <1> HIDE DEF f, g
  <1>10. Room(a) = Room(p) \ {f.spot}
    BY <1>1, <1>4, <1>6, PlaceRoom
  <1>11. Room(b) = Room(q) \ {g.spot}
    BY <1>1, <1>4, <1>6, PlaceRoom
  <1> DEFINE n == p.next.unit
             nx == [unit |-> n + 1, device |-> p.next.device]
             W == With(p.units, n, f)
             V == With(q.units, n, g)
  <1>12. /\ a = [p EXCEPT !.units = W, !.next = nx]
         /\ b = [q EXCEPT !.units = V, !.next = nx]
    BY <1>1, <1>9, PlaceIs
  <1> HIDE DEF n, nx, a, b
  <1>13. /\ DOMAIN W = DOMAIN V
         /\ \A k \in DOMAIN W : SameUnit(W[k], V[k], whole)
    <2>1. DOMAIN W = DOMAIN V
      BY <1>9 DEF With
    <2>2. \A k \in DOMAIN W : k = n \/ k \in DOMAIN p.units
      BY DEF With
    <2>3. \A k \in DOMAIN W : k = n => W[k] = f /\ V[k] = g
      BY <2>1 DEF With
    <2>4. \A k \in DOMAIN p.units :
            k # n => W[k] = p.units[k] /\ V[k] = q.units[k]
      BY <1>9 DEF With
    <2> HIDE DEF W, V
    <2> QED
      BY <1>8, <1>9, <2>1, <2>2, <2>3, <2>4
  <1> HIDE DEF W, V
  <1>14. Agree(a, b, whole)
    BY <1>1, <1>12, <1>13 DEF Agree, Positions
  <1>15. /\ Room(a) \subseteq Room(b)
         /\ whole => Room(b) \subseteq Room(a)
    BY <1>1, <1>6, <1>10, <1>11, FirstSpots
  <1>16. Rel(a, b, whole, whole)
    BY <1>4, <1>14, <1>15 DEF Rel
  <1> QED
    BY <1>2, <1>6, <1>10, <1>16

(* One squad is one landing.                                               *)
LEMMA HandOutOne ==
  ASSUME NEW p \in Good, NEW u \in Unit, NEW level \in Levels,
         NEW source \in Sources
  PROVE  HandOut(p, u, 1, level, source) = Land(p, u, level, source)
PROOF
  <1> SUFFICES ASSUME NEW squads \in Nat, squads = 1
               PROVE  HandOut(p, u, squads, level, source)
                        = Land(p, u, level, source)
    OBVIOUS
  <1>1. PICK g : Landings(g, p, u, squads, level, source)
    BY HandOutFolds
  <1>2. /\ g[0] = {p} /\ HandOut(p, u, squads, level, source) = g[squads]
        /\ \A n \in 1..squads : \A x :
             x \in g[n] <=> \E q \in g[n - 1] : x \in Land(q, u, level, source)
    BY <1>1 DEF Landings
  <1>3. \A x : x \in g[1] <=> \E q \in g[0] : x \in Land(q, u, level, source)
    <2>1. 1 \in 1..squads /\ 1 - 1 = 0
      OBVIOUS
    <2> QED
      BY <1>2, <2>1
  <1> QED
    BY <1>2, <1>3

(* What an officer may hand out of its items at once.                      *)
Handed(o) ==
  IF OfficerRow[o].draws /\ OfficerRow[o].items # <<>>
  THEN {<<OfficerRow[o].items[k]>> : k \in DOMAIN OfficerRow[o].items}
  ELSE {OfficerRow[o].items}

LEMMA HandOutRoundIs ==
  ASSUME NEW o \in Officer
  PROVE  /\ \A p, x :
              x \in HandOutRound(p, o) <=>
                \E items \in Handed(o) :
                  x = Stocked(PanelAddAll(p, OfficerRow[o].skills), items)
         /\ Handed(o) \subseteq Seq(Item)
         /\ OfficerRow[o].skills \in Seq(Skill)
PROOF
  <1> DEFINE row == OfficerRow[o]
  <1>1. row.skills \in Seq(Skill) /\ row.items \in Seq(Item)
    BY TablesAssumption DEF TablesAssumption, OfficerRows
  <1>2. Handed(o) \subseteq Seq(Item)
    <2>1. \A k \in DOMAIN row.items : <<row.items[k]>> \in Seq(Item)
      BY <1>1
    <2> QED
      BY <1>1, <2>1 DEF Handed
  <1>3. ASSUME NEW p, NEW x
        PROVE  x \in HandOutRound(p, o) <=>
                 \E items \in Handed(o) :
                   x = Stocked(PanelAddAll(p, OfficerRow[o].skills), items)
    <2> DEFINE skilled == PanelAddAll(p, OfficerRow[o].skills)
    <2>1. CASE row.draws /\ row.items # <<>>
      <3>1. HandOutRound(p, o)
              = {Stocked(skilled, <<row.items[k]>>) : k \in DOMAIN row.items}
        BY <2>1 DEF HandOutRound
      <3>2. Handed(o) = {<<row.items[k]>> : k \in DOMAIN row.items}
        BY <2>1 DEF Handed
      <3> HIDE DEF skilled, row
      <3> QED
        BY <3>1, <3>2 DEF skilled
    <2>2. CASE ~ (row.draws /\ row.items # <<>>)
      <3>1. HandOutRound(p, o) = {Stocked(skilled, row.items)}
        BY <2>2 DEF HandOutRound
      <3>2. Handed(o) = {row.items}
        BY <2>2 DEF Handed
      <3> HIDE DEF skilled, row
      <3> QED
        BY <3>1, <3>2 DEF skilled
    <2> QED
      BY <2>1, <2>2
  <1> QED
    BY <1>1, <1>2, <1>3

LEMMA HandOutRoundRel ==
  ASSUME NEW whole \in BOOLEAN, NEW p, NEW q, Rel(p, q, whole, whole),
         NEW o \in Officer
  PROVE  /\ \A x \in HandOutRound(p, o) :
              /\ Room(x) = Room(p)
              /\ \E y \in HandOutRound(q, o) : Rel(x, y, whole, whole)
         /\ \A y \in HandOutRound(q, o) :
              \E x \in HandOutRound(p, o) :
                Rel(x, y, whole, whole) /\ Room(x) = Room(p)
PROOF
  <1> DEFINE a == PanelAddAll(p, OfficerRow[o].skills)
             b == PanelAddAll(q, OfficerRow[o].skills)
  <1>1. /\ Handed(o) \subseteq Seq(Item)
        /\ OfficerRow[o].skills \in Seq(Skill)
        /\ \A x : x \in HandOutRound(p, o) <=>
                    \E items \in Handed(o) : x = Stocked(a, items)
        /\ \A y : y \in HandOutRound(q, o) <=>
                    \E items \in Handed(o) : y = Stocked(b, items)
    BY HandOutRoundIs
  <1>2. Rel(a, b, whole, whole) /\ Room(a) = Room(p)
    BY <1>1, PanelAddAllRel
  <1> HIDE DEF a, b
  <1>3. ASSUME NEW items \in Handed(o)
        PROVE  /\ Rel(Stocked(a, items), Stocked(b, items), whole, whole)
               /\ Room(Stocked(a, items)) = Room(p)
    BY <1>1, <1>2, StockedRel
  <1> QED
    BY <1>1, <1>3

(* Whether an officer has a formation to hand out as round r opens.        *)
Hands(o, r) == r \in OfficerRow[o].rounds /\ OfficerRow[o].unit \in Unit

OpenShop(p, o, r) ==
  IF OfficerRow[o].unlocks = r THEN Unlock(p, OfficerRow[o].unit) ELSE p

LEMMA DeliverIs ==
  ASSUME NEW p \in Good, NEW o \in Officer, NEW r \in Nat \ {0}
  PROVE  /\ r \notin OfficerRow[o].rounds =>
              Deliver(p, o, r) = {OpenShop(p, o, r)}
         /\ r \in OfficerRow[o].rounds /\ OfficerRow[o].unit \notin Unit =>
              Deliver(p, o, r) = HandOutRound(OpenShop(p, o, r), o)
         /\ Hands(o, r) => \A x :
              x \in Deliver(p, o, r) <=>
                \E h \in HandOutRound(OpenShop(p, o, r), o) :
                  x \in Land(h, OfficerRow[o].unit, OfficerRow[o].unitLevel,
                             "delivered")
PROOF
  <1> DEFINE row == OfficerRow[o]
             open == OpenShop(p, o, r)
             H == HandOutRound(open, o)
             Out(h) == IF row.unit \in Unit
                       THEN HandOut(h, row.unit, 1, row.unitLevel, "delivered")
                       ELSE {h}
  <1>1. Deliver(p, o, r) = IF r \notin row.rounds THEN {open}
                           ELSE UNION {Out(h) : h \in H}
    BY DEF Deliver, OpenShop
  <1>2. /\ row.unlocks > 0 => row.unit \in Unit
        /\ row.unitLevel \in Levels
    BY TablesAssumption DEF TablesAssumption, OfficerRows, Levels
  <1>3. open \in Good
    BY <1>2, UnlockGood DEF Added, OpenShop
  <1>4. \A h \in H : h \in Good
    BY <1>3, HandOutRoundGood DEF Added
  <1>5. "delivered" \in Sources
    BY DEF Sources
  <1>6. ASSUME row.unit \in Unit, NEW h \in H
        PROVE  Out(h) = Land(h, row.unit, row.unitLevel, "delivered")
    BY <1>2, <1>4, <1>5, <1>6, HandOutOne
  <1>7. row.unit \notin Unit => \A h \in H : Out(h) = {h}
    OBVIOUS
  <1> HIDE DEF open, H, Out, row
  <1>8. r \notin row.rounds => Deliver(p, o, r) = {open}
    BY <1>1
  <1>9. r \in row.rounds /\ row.unit \notin Unit => Deliver(p, o, r) = H
    BY <1>1, <1>7
  <1>10. r \in row.rounds /\ row.unit \in Unit => \A x :
           x \in Deliver(p, o, r) <=>
             \E h \in H : x \in Land(h, row.unit, row.unitLevel, "delivered")
    BY <1>1, <1>6
  <1> QED
    BY <1>8, <1>9, <1>10 DEF Hands, row, open, H

(* What an officer brings comes to two alike positions alike; it takes one *)
(* spot of the room where it is a formation, and needs it.                 *)
LEMMA DeliverRel ==
  ASSUME NEW whole \in BOOLEAN, NEW p, NEW q, Rel(p, q, whole, whole),
         NEW o \in Officer, NEW r \in Nat \ {0}
  PROVE  /\ \A x \in Deliver(p, o, r) :
              /\ \E y \in Deliver(q, o, r) : Rel(x, y, whole, whole)
              /\ Hands(o, r) => /\ Room(p) # {}
                                /\ Room(x) = Room(p) \ {Min(Room(p))}
              /\ ~ Hands(o, r) => Room(x) = Room(p)
         /\ whole \/ ~ Hands(o, r) \/ Room(p) # {} =>
              \A y \in Deliver(q, o, r) :
                \E x \in Deliver(p, o, r) : Rel(x, y, whole, whole)
PROOF
  <1> DEFINE row == OfficerRow[o]
             a == OpenShop(p, o, r)
             b == OpenShop(q, o, r)
             X == Deliver(p, o, r)
             Y == Deliver(q, o, r)
             u == row.unit
             v == row.unitLevel
  <1>1. p \in Good /\ q \in Good
    BY DEF Rel
  <1>2. row.unlocks > 0 => row.unit \in Unit
    BY TablesAssumption DEF TablesAssumption
  <1>3. v \in Levels
    BY TablesAssumption DEF TablesAssumption, OfficerRows, Levels
  <1>4. Rel(a, b, whole, whole) /\ Room(a) = Room(p)
    BY <1>2, UnlockRel DEF OpenShop
  <1>5. /\ r \notin row.rounds => X = {a} /\ Y = {b}
        /\ r \in row.rounds /\ u \notin Unit =>
             X = HandOutRound(a, o) /\ Y = HandOutRound(b, o)
        /\ Hands(o, r) =>
             /\ \A x : x \in X <=> \E h \in HandOutRound(a, o) :
                                     x \in Land(h, u, v, "delivered")
             /\ \A y : y \in Y <=> \E h \in HandOutRound(b, o) :
                                     y \in Land(h, u, v, "delivered")
    BY <1>1, DeliverIs
  <1>6. /\ \A x \in HandOutRound(a, o) :
             /\ Room(x) = Room(p)
             /\ \E y \in HandOutRound(b, o) : Rel(x, y, whole, whole)
        /\ \A y \in HandOutRound(b, o) :
             \E x \in HandOutRound(a, o) :
               Rel(x, y, whole, whole) /\ Room(x) = Room(p)
    BY <1>4, HandOutRoundRel
  <1>7. Hands(o, r) <=> r \in row.rounds /\ u \in Unit
    BY DEF Hands
  <1> HIDE DEF X, Y, a, b, u, v, row
  <1>8. CASE ~ Hands(o, r)
    <2>1. CASE r \notin row.rounds
      BY <1>4, <1>5, <1>8, <2>1 DEF X, Y
    <2>2. CASE r \in row.rounds /\ u \notin Unit
      BY <1>5, <1>6, <1>8, <2>2 DEF X, Y
    <2> QED
      BY <1>7, <1>8, <2>1, <2>2
  <1>9. CASE Hands(o, r)
    <2>1. ASSUME NEW x \in X
          PROVE  /\ \E y \in Y : Rel(x, y, whole, whole)
                 /\ Room(p) # {} /\ Room(x) = Room(p) \ {Min(Room(p))}
      <3>1. PICK h \in HandOutRound(a, o) : x \in Land(h, u, v, "delivered")
        BY <1>5, <1>9
      <3>2. PICK k \in HandOutRound(b, o) : Rel(h, k, whole, whole)
        BY <1>6
      <3>3. Room(h) = Room(p) /\ Room(h) # {}
        BY <1>6, <3>1 DEF Land
      <3>4. PICK c, d : /\ Land(h, u, v, "delivered") = {c}
                        /\ Land(k, u, v, "delivered") = {d}
                        /\ Rel(c, d, whole, whole)
                        /\ Room(c) = Room(h) \ {Min(Room(h))}
        BY <1>3, <1>7, <1>9, <3>2, <3>3, LandRel
      <3>5. x = c /\ d \in Y
        BY <1>5, <1>9, <3>1, <3>4
      <3> QED
        BY <3>3, <3>4, <3>5
    <2>2. ASSUME whole \/ Room(p) # {}, NEW y \in Y
          PROVE  \E x \in X : Rel(x, y, whole, whole)
      <3>1. PICK k \in HandOutRound(b, o) : y \in Land(k, u, v, "delivered")
        BY <1>5, <1>9
      <3>2. PICK h \in HandOutRound(a, o) :
              Rel(h, k, whole, whole) /\ Room(h) = Room(p)
        BY <1>6
      <3>3. Room(k) # {}
        BY <3>1 DEF Land
      <3>4. Room(h) # {}
        BY <2>2, <3>2, <3>3 DEF Rel
      <3>5. PICK c, d : /\ Land(h, u, v, "delivered") = {c}
                        /\ Land(k, u, v, "delivered") = {d}
                        /\ Rel(c, d, whole, whole)
        BY <1>3, <1>7, <1>9, <3>2, <3>4, LandRel
      <3>6. y = d /\ c \in X
        BY <1>5, <1>9, <3>1, <3>2, <3>5
      <3> QED
        BY <3>5, <3>6
    <2> QED
      BY <1>9, <2>1, <2>2 DEF X, Y
  <1> QED
    BY <1>8, <1>9

(* Two sets of positions alike: each position of one has its like in the   *)
(* other.  Every position of the first has the same room, so a delivery    *)
(* that finds none finds none in all of them.                              *)
Matched(P, Q, whole) ==
  /\ \A x \in P : \E y \in Q : Rel(x, y, whole, whole)
  /\ \A y \in Q : \E x \in P : Rel(x, y, whole, whole)
  /\ \A x, z \in P : Room(x) = Room(z)

LEMMA DeliverMatches ==
  ASSUME NEW whole \in BOOLEAN, NEW P, NEW Q, Matched(P, Q, whole),
         NEW o \in Officer, NEW r \in Nat \ {0}, NEW X, NEW Y,
         \A x : x \in X <=> \E p \in P : x \in Deliver(p, o, r),
         \A y : y \in Y <=> \E q \in Q : y \in Deliver(q, o, r)
  PROVE  (~ whole /\ X = {}) \/ Matched(X, Y, whole)
PROOF
  <1>1. \A x \in X : \E y \in Y : Rel(x, y, whole, whole)
    <2> SUFFICES ASSUME NEW x \in X
                 PROVE  \E y \in Y : Rel(x, y, whole, whole)
      OBVIOUS
    <2>1. PICK p \in P : x \in Deliver(p, o, r)
      OBVIOUS
    <2>2. PICK q \in Q : Rel(p, q, whole, whole)
      BY DEF Matched
    <2>3. PICK y \in Deliver(q, o, r) : Rel(x, y, whole, whole)
      BY <2>1, <2>2, DeliverRel
    <2> QED
      BY <2>3
  <1>2. ASSUME NEW p \in P, NEW x \in Deliver(p, o, r)
        PROVE  /\ Hands(o, r) => /\ Room(p) # {}
                                 /\ Room(x) = Room(p) \ {Min(Room(p))}
               /\ ~ Hands(o, r) => Room(x) = Room(p)
    <2>1. PICK q \in Q : Rel(p, q, whole, whole)
      BY DEF Matched
    <2> QED
      BY <2>1, DeliverRel
  <1>3. \A x, z \in X : Room(x) = Room(z)
    <2> SUFFICES ASSUME NEW x \in X, NEW z \in X PROVE Room(x) = Room(z)
      OBVIOUS
    <2>1. PICK p \in P : x \in Deliver(p, o, r)
      OBVIOUS
    <2>2. PICK q \in P : z \in Deliver(q, o, r)
      OBVIOUS
    <2>3. Room(p) = Room(q)
      BY DEF Matched
    <2> QED
      BY <1>2, <2>1, <2>2, <2>3
  <1>4. CASE whole \/ ~ Hands(o, r) \/ \A p \in P : Room(p) # {}
    <2>1. ASSUME NEW y \in Y PROVE \E x \in X : Rel(x, y, whole, whole)
      <3>1. PICK q \in Q : y \in Deliver(q, o, r)
        OBVIOUS
      <3>2. PICK p \in P : Rel(p, q, whole, whole)
        BY DEF Matched
      <3>3. whole \/ ~ Hands(o, r) \/ Room(p) # {}
        BY <1>4
      <3>4. PICK x \in Deliver(p, o, r) : Rel(x, y, whole, whole)
        BY <3>1, <3>2, <3>3, DeliverRel
      <3> QED
        BY <3>4
    <2> QED
      BY <1>1, <1>3, <2>1 DEF Matched
  <1>5. CASE ~ whole /\ Hands(o, r) /\ \E p \in P : Room(p) = {}
    <2>1. \A p \in P : Room(p) = {}
      BY <1>5 DEF Matched
    <2>2. X = {}
      BY <1>2, <1>5, <2>1
    <2> QED
      BY <1>5, <2>2
  <1> QED
    BY <1>4, <1>5

LEMMA DeliverAllMatches ==
  ASSUME NEW whole \in BOOLEAN, NEW p, NEW q, Rel(p, q, whole, whole),
         NEW l \in Seq(Officer), NEW r \in Nat \ {0}
  PROVE  \/ ~ whole /\ DeliverAll(p, l, r) = {}
         \/ Matched(DeliverAll(p, l, r), DeliverAll(q, l, r), whole)
PROOF
  <1> DEFINE N == Len(l)
  <1>1. p \in Good /\ q \in Good
    BY DEF Rel
  <1>2. PICK g : Deliveries(g, p, l, r)
    BY <1>1, DeliverAllFolds
  <1>3. PICK h : Deliveries(h, q, l, r)
    BY <1>1, DeliverAllFolds
  <1>4. /\ g[0] = {p} /\ DeliverAll(p, l, r) = g[N]
        /\ h[0] = {q} /\ DeliverAll(q, l, r) = h[N]
        /\ \A n \in 1..N : \A x :
             x \in g[n] <=> \E z \in g[n - 1] : x \in Deliver(z, l[n], r)
        /\ \A n \in 1..N : \A x :
             x \in h[n] <=> \E z \in h[n - 1] : x \in Deliver(z, l[n], r)
    BY <1>2, <1>3 DEF Deliveries
  <1> DEFINE S == {n \in Nat : n <= N =>
                     \/ ~ whole /\ g[n] = {}
                     \/ Matched(g[n], h[n], whole)}
  <1>5. N \in Nat /\ \A n \in 1..N : l[n] \in Officer
    OBVIOUS
  <1>6. 0 \in S
    BY <1>4 DEF Matched
  <1>7. ASSUME NEW n \in Nat, n \in S PROVE n + 1 \in S
    <2> SUFFICES ASSUME n + 1 <= N
                 PROVE  \/ ~ whole /\ g[n + 1] = {}
                        \/ Matched(g[n + 1], h[n + 1], whole)
      OBVIOUS
    <2>1. n + 1 \in 1..N /\ (n + 1) - 1 = n /\ n <= N
      BY <1>5
    <2>2. \/ ~ whole /\ g[n] = {}
          \/ Matched(g[n], h[n], whole)
      BY <1>7, <2>1
    <2> DEFINE P == g[n]
               Q == h[n]
               X == g[n + 1]
               Y == h[n + 1]
               o == l[n + 1]
    <2>3. /\ o \in Officer
          /\ \A x : x \in X <=> \E z \in P : x \in Deliver(z, o, r)
          /\ \A x : x \in Y <=> \E z \in Q : x \in Deliver(z, o, r)
      BY <1>4, <1>5, <2>1
    <2> HIDE DEF P, Q, X, Y, o
    <2>4. ~ whole /\ P = {} => ~ whole /\ X = {}
      BY <2>3
    <2>5. Matched(P, Q, whole) => (~ whole /\ X = {}) \/ Matched(X, Y, whole)
      BY <2>3, DeliverMatches
    <2> QED
      BY <2>2, <2>4, <2>5 DEF P, Q, X, Y
  <1> HIDE DEF S
  <1>8. Nat \subseteq S
    BY <1>6, <1>7, SetInduction
  <1>9. (~ whole /\ g[N] = {}) \/ Matched(g[N], h[N], whole)
    BY <1>5, <1>8 DEF S
  <1> QED
    BY <1>4, <1>9

LEMMA MatchedUndecided ==
  ASSUME NEW whole \in BOOLEAN, NEW P, NEW Q, Matched(P, Q, whole)
  PROVE  {Undecided(x, whole) : x \in P} = {Undecided(y, whole) : y \in Q}
PROOF
  <1>1. ASSUME NEW x, NEW y, Rel(x, y, whole, whole)
        PROVE  Undecided(x, whole) = Undecided(y, whole)
    <2>1. /\ x \in Positions /\ y \in Positions
          /\ Agree(x, y, whole)
      BY <1>1 DEF Rel, Good
    <2> QED
      BY <2>1, AgreeUndecided
  <1> QED
    BY <1>1 DEF Matched

(* The round that is predicted and the round the fight leaves open from    *)
(* positions alike, whose officers hand out the same in the same order.    *)
LEMMA OpenRoundMatches ==
  ASSUME NEW p \in Good, NEW r \in 1..MaxRound, NEW w \in Outcomes(p)
  PROVE  LET whole == w.kept = DOMAIN p.devices
             settled == OpenRound(Arrived(Fought(p, w)), r)
             predicted == OpenRound(Arrived(p), r)
         IN  \/ ~ whole /\ predicted = {}
             \/ Matched(predicted, settled, whole)
PROOF
  <1> DEFINE whole == w.kept = DOMAIN p.devices
             q == Fought(p, w)
             a == Arrived(p)
             b == Arrived(q)
             c == Reset(a, r)
             d == Reset(b, r)
  <1>1. whole \in BOOLEAN
    OBVIOUS
  <1>2. Rel(p, q, whole, TRUE)
    BY FoughtRel
  <1> HIDE DEF whole, q
  <1>3. Rel(a, b, whole, TRUE)
    BY <1>1, <1>2, ArrivedRel
  <1> HIDE DEF a, b
  <1>4. Rel(c, d, whole, TRUE)
    BY <1>1, <1>3, ResetRel
  <1>5. a.officers = b.officers /\ a.officers \in Seq(Officer)
    BY <1>3, Pieces DEF Rel, Agree
  <1> DEFINE l == a.officers
  <1>6. /\ OpenRound(a, r) = DeliverAll(c, l, r)
        /\ OpenRound(b, r) = DeliverAll(d, l, r)
    BY <1>5 DEF OpenRound
  <1> HIDE DEF c, d, l
  <1>7. Rel(c, d, whole, whole)
    BY <1>1, <1>4, RelEase
  <1>8. r \in Nat \ {0} /\ l \in Seq(Officer)
    BY <1>5, DeploymentAssumption DEF DeploymentAssumption, l
  <1>9. \/ ~ whole /\ DeliverAll(c, l, r) = {}
        \/ Matched(DeliverAll(c, l, r), DeliverAll(d, l, r), whole)
    BY <1>1, <1>7, <1>8, DeliverAllMatches
  <1> QED
    BY <1>6, <1>9 DEF whole, q, a, b

LEMMA InvPredicts ==
  DeployInv => PredictedIsSettled
PROOF
  <1> SUFFICES ASSUME DeployInv, round \in 1..MaxRound - 1,
                      NEW w \in Outcomes(pos)
               PROVE  LET whole == w.kept = DOMAIN pos.devices
                          predicted == Predict(pos, round, team)
                      IN  \/ ~ whole /\ predicted = {}
                          \/ {Undecided(s, whole) :
                                s \in Settle(pos, round, w)}
                               = {Undecided(p, whole) : p \in predicted}
    BY DEF PredictedIsSettled
  <1> DEFINE whole == w.kept = DOMAIN pos.devices
             predicted == OpenRound(Arrived(pos), round + 1)
             settled == OpenRound(Arrived(Fought(pos, w)), round + 1)
  <1>1. pos \in Good /\ round + 1 \in 1..MaxRound /\ round # 0
    BY DeploymentAssumption DEF DeployInv, DeploymentAssumption
  <1>2. (~ whole /\ predicted = {}) \/ Matched(predicted, settled, whole)
    BY <1>1, OpenRoundMatches
  <1>3. Predict(pos, round, team) = predicted
    BY <1>1 DEF Predict
  <1>4. Settle(pos, round, w) = settled
    BY DEF Settle
  <1>5. whole \in BOOLEAN
    OBVIOUS
  <1> HIDE DEF whole, predicted, settled
  <1>6. Matched(predicted, settled, whole) =>
          {Undecided(s, whole) : s \in settled}
            = {Undecided(p, whole) : p \in predicted}
    BY <1>5, MatchedUndecided
  <1> QED
    BY <1>2, <1>3, <1>4, <1>6 DEF whole

(* What the decisions of a round predict of the next one is what the fight *)
(* leaves of it, but for what the fight decides, whatever the fight, the   *)
(* officers and the board; only where a contraption was destroyed may what *)
(* is delivered land elsewhere, or find the room it was not to find.       *)
THEOREM PredictionHolds == DeploymentSpec => []PredictedIsSettled
PROOF
  <1>1. DeploymentInit => DeployInv
    BY InitGood
  <1>2. DeployInv /\ [DeploymentNext]_deployVars => DeployInv'
    BY StepKeeps, StutterKeeps
  <1> QED
    BY <1>1, <1>2, InvPredicts, PTL DEF DeploymentSpec
=============================================================================
