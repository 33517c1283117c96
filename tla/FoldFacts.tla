------------------------------ MODULE FoldFacts ------------------------------
(***************************************************************************)
(* Induction in the form of sets, and what it gives of recursive           *)
(* definitions: that a function which recurses over the subsets of a       *)
(* finite set, as the folds of the community modules do, or over a prefix  *)
(* of the naturals, exists; so its CHOOSE obeys its equation.              *)
(***************************************************************************)
EXTENDS Integers, FiniteSets, FiniteSetTheorems, WellFoundedInduction, TLAPS

(* A set that holds 0 and, with a number, the next one holds them all.     *)
LEMMA SetInduction ==
  ASSUME NEW S, 0 \in S, \A n \in Nat : n \in S => n + 1 \in S
  PROVE  Nat \subseteq S
PROOF
  <1> DEFINE R == OpToRel(<, Nat)
             T == Nat \ S
  <1>1. SUFFICES ASSUME T # {} PROVE FALSE
    OBVIOUS
  <1>2. IsWellFoundedOn(R, Nat)
    BY NatLessThanWellFounded
  <1>3. \E x \in T : \A y \in T : ~ (<<y, x>> \in R)
    <2> HIDE DEF R
    <2>1. T \subseteq Nat
      OBVIOUS
    <2> HIDE DEF T
    <2> QED
      BY <1>1, <1>2, <2>1, WFMin
  <1>4. PICK x \in T : \A y \in T : ~ (<<y, x>> \in R)
    BY <1>3
  <1>5. x # 0 /\ x - 1 \in Nat /\ x - 1 < x /\ x \in Nat
    OBVIOUS
  <1>6. x - 1 \notin T
    BY <1>4, <1>5 DEF OpToRel
  <1>7. x - 1 \in S /\ (x - 1) + 1 = x
    BY <1>5, <1>6
  <1>8. x \in S
    BY <1>5, <1>7
  <1> QED
    BY <1>8

(* A family of subsets of a finite set that holds the empty one, and each  *)
(* one of which it holds those with one element less, holds them all.      *)
LEMMA SubsetInduction ==
  ASSUME NEW S, IsFiniteSet(S), NEW P, {} \in P,
         \A s \in SUBSET S :
           s # {} /\ (\A x \in s : s \ {x} \in P) => s \in P
  PROVE  SUBSET S \subseteq P
PROOF
  <1> DEFINE K == {n \in Nat :
                     \A s \in SUBSET S : Cardinality(s) = n => s \in P}
  <1>1. \A s \in SUBSET S : IsFiniteSet(s) /\ Cardinality(s) \in Nat
    BY FS_Subset, FS_CardinalityType
  <1>2. 0 \in K
    <2>1. \A s \in SUBSET S : Cardinality(s) = 0 => s = {}
      BY <1>1, FS_EmptySet, Zenon
    <2> QED
      BY <2>1
  <1>3. ASSUME NEW n \in Nat, n \in K PROVE n + 1 \in K
    <2> SUFFICES ASSUME NEW s \in SUBSET S, Cardinality(s) = n + 1
                 PROVE  s \in P
      BY <1>3
    <2>1. s # {}
      <3>1. Cardinality({}) = 0
        BY FS_EmptySet, Zenon
      <3> QED
        BY <1>3, <3>1
    <2>2. ASSUME NEW x \in s PROVE s \ {x} \in P
      <3>1. Cardinality(s \ {x}) = n
        BY <1>1, <1>3, FS_RemoveElement
      <3> QED
        BY <1>3, <3>1
    <2> QED
      BY <2>1, <2>2
  <1>4. Nat \subseteq K
    <2> HIDE DEF K
    <2> QED
      BY <1>2, <1>3, SetInduction
  <1> QED
    BY <1>1, <1>4

(* A finite set of numbers has a greatest, where it has any.               *)
LEMMA MaxExists ==
  ASSUME NEW S \in SUBSET Int, IsFiniteSet(S), NEW s \in SUBSET S, s # {}
  PROVE  \E x \in s : \A y \in s : x >= y
PROOF
  <1> DEFINE P == {r \in SUBSET S :
                     r # {} => \E x \in r : \A y \in r : x >= y}
  <1>2. {} \in P
    OBVIOUS
  <1>3. ASSUME NEW r \in SUBSET S, r # {},
               \A x \in r : r \ {x} \in P
        PROVE  r \in P
    <2>1. PICK x \in r : TRUE
      BY <1>3
    <2>2. CASE r \ {x} = {}
      BY <2>1, <2>2
    <2>3. CASE r \ {x} # {}
      <3>1. PICK m \in r \ {x} : \A y \in r \ {x} : m >= y
        BY <1>3, <2>3
      <3>2. x \in Int /\ m \in Int
        OBVIOUS
      <3>3. CASE m >= x
        BY <3>1, <3>3
      <3>4. CASE x >= m
        BY <3>1, <3>2, <3>4
      <3> QED
        BY <3>2, <3>3, <3>4
    <2> QED
      BY <2>2, <2>3
  <1>4. SUBSET S \subseteq P
    <2> HIDE DEF P
    <2> QED
      BY <1>2, <1>3, SubsetInduction
  <1> QED
    BY <1>4

(* What a fold is: from a base, one element of the set at a time, in the   *)
(* order in which the function "next" takes them out.                      *)
Unfolds(h, S, T, next, base, G) ==
  /\ h \in [SUBSET S -> T]
  /\ h[{}] = base
  /\ \A s \in SUBSET S : s # {} =>
       h[s] = G[<<next[s], h[s \ {next[s]}]>>]

(* There is one, whatever the order.                                       *)
LEMMA FoldExists ==
  ASSUME NEW S, IsFiniteSet(S), NEW T, NEW base \in T,
         NEW next, \A s \in SUBSET S : s # {} => next[s] \in s,
         NEW G \in [S \X T -> T]
  PROVE  \E h : Unfolds(h, S, T, next, base, G)
PROOF
  <1> DEFINE Upto(n) == {s \in SUBSET S : Cardinality(s) <= n}
             Part(h, n) ==
               /\ h \in [Upto(n) -> T]
               /\ h[{}] = base
               /\ \A s \in Upto(n) : s # {} =>
                    h[s] = G[<<next[s], h[s \ {next[s]}]>>]
             K == {n \in Nat : \E h : Part(h, n)}
  <1>1. \A s \in SUBSET S : IsFiniteSet(s) /\ Cardinality(s) \in Nat
    BY FS_Subset, FS_CardinalityType
  <1>2. 0 \in K
    <2>1. Upto(0) = {{}}
      BY <1>1, FS_EmptySet
    <2> DEFINE h == [s \in Upto(0) |-> base]
    <2>2. Part(h, 0)
      BY <2>1
    <2> QED
      BY <2>2
  <1>3. ASSUME NEW n \in Nat, n \in K PROVE n + 1 \in K
    <2>1. PICK h : Part(h, n)
      BY <1>3
    <2> DEFINE g == [s \in Upto(n + 1) |->
                       IF s = {} THEN base
                       ELSE G[<<next[s], h[s \ {next[s]}]>>]]
    <2>2. \A s \in Upto(n + 1) : s # {} => s \ {next[s]} \in Upto(n)
      <3> SUFFICES ASSUME NEW s \in Upto(n + 1), s # {}
                   PROVE  s \ {next[s]} \in Upto(n)
        OBVIOUS
      <3>1. next[s] \in s
        OBVIOUS
      <3>2. Cardinality(s \ {next[s]}) = Cardinality(s) - 1
        BY <1>1, <3>1, FS_RemoveElement
      <3> QED
        BY <1>1, <1>3, <3>2
    <2>3. Upto(n) \subseteq Upto(n + 1)
      BY <1>1, <1>3
    <2>4. {} \in Upto(n + 1)
      BY <1>3, FS_EmptySet
    <2>5. g \in [Upto(n + 1) -> T]
      BY <2>1, <2>2
    <2>6. \A s \in Upto(n) : g[s] = h[s]
      BY <2>1, <2>3
    <2>7. \A s \in Upto(n + 1) : s # {} =>
             g[s] = G[<<next[s], g[s \ {next[s]}]>>]
      BY <2>2, <2>6
    <2>8. Part(g, n + 1)
      BY <2>4, <2>5, <2>7
    <2> HIDE DEF Part
    <2>9. \E f : Part(f, n + 1)
      BY <2>8, Zenon
    <2>10. n + 1 \in Nat
      BY <1>3
    <2> QED
      BY <2>9, <2>10
  <1>4. Cardinality(S) \in K
    <2>1. Nat \subseteq K
      <3> HIDE DEF K
      <3> QED
        BY <1>2, <1>3, SetInduction
    <2> QED
      BY <2>1, FS_CardinalityType
  <1>5. PICK h : Part(h, Cardinality(S))
    BY <1>4
  <1>6. Upto(Cardinality(S)) = SUBSET S
    BY FS_Subset
  <1> QED
    BY <1>5, <1>6 DEF Unfolds

(* A function that recurses over the numbers up to N.                      *)
Iterates(h, N, T, base, G) ==
  /\ h \in [0..N -> T]
  /\ h[0] = base
  /\ \A n \in 1..N : h[n] = G[<<n, h[n - 1]>>]

(* There is one.                                                           *)
LEMMA PrefixExists ==
  ASSUME NEW N \in Nat, NEW T, NEW base \in T, NEW G \in [Nat \X T -> T]
  PROVE  \E h : Iterates(h, N, T, base, G)
PROOF
  <1> DEFINE Part(h, m) == /\ h \in [0..m -> T]
                           /\ h[0] = base
                           /\ \A n \in 1..m : h[n] = G[<<n, h[n - 1]>>]
             K == {m \in Nat : \E h : Part(h, m)}
  <1>1. 0 \in K
    <2>1. Part([n \in 0..0 |-> base], 0)
      OBVIOUS
    <2>2. \E h : Part(h, 0)
      <3> HIDE DEF Part
      <3> QED
        BY <2>1
    <2> QED
      BY <2>2
  <1>2. ASSUME NEW m \in Nat, m \in K PROVE m + 1 \in K
    <2>1. PICK h : Part(h, m)
      BY <1>2
    <2> DEFINE g == [n \in 0..m + 1 |-> IF n = m + 1
                                        THEN G[<<m + 1, h[m]>>] ELSE h[n]]
    <2>2. \A n \in 0..m : g[n] = h[n] /\ h[n] \in T
      BY <2>1
    <2>3. g[m + 1] = G[<<m + 1, h[m]>>] /\ G[<<m + 1, h[m]>>] \in T
      <3>1. m \in 0..m /\ m + 1 \in 0..m + 1 /\ m + 1 \in Nat
        BY <1>2
      <3>2. h[m] \in T
        BY <2>1, <3>1
      <3> QED
        BY <3>1, <3>2
    <2>4. g \in [0..m + 1 -> T]
      <3>1. \A n \in 0..m + 1 : n # m + 1 => n \in 0..m
        OBVIOUS
      <3> QED
        BY <2>2, <2>3, <3>1
    <2>5. ASSUME NEW n \in 1..m + 1 PROVE g[n] = G[<<n, g[n - 1]>>]
      <3>1. n - 1 \in 0..m
        OBVIOUS
      <3>2. CASE n = m + 1
        <4>1. n - 1 = m
          BY <3>2
        <4> HIDE DEF g
        <4> QED
          BY <2>2, <2>3, <3>1, <3>2, <4>1
      <3>3. CASE n # m + 1
        <4>1. n \in 1..m /\ n \in 0..m
          BY <3>3
        <4>2. h[n] = G[<<n, h[n - 1]>>]
          BY <2>1, <4>1
        <4> HIDE DEF g
        <4> QED
          BY <2>2, <3>1, <4>1, <4>2
      <3> QED
        BY <3>2, <3>3
    <2>6. Part(g, m + 1)
      <3>1. g[0] = base
        BY <2>1, <2>2
      <3> HIDE DEF g
      <3> QED
        BY <2>4, <2>5, <3>1
    <2>7. \E f : Part(f, m + 1)
      <3> HIDE DEF Part, g
      <3> QED
        BY <2>6
    <2> QED
      BY <2>7
  <1>3. N \in K
    <2> HIDE DEF K
    <2> QED
      BY <1>1, <1>2, SetInduction
  <1> QED
    BY <1>3 DEF Iterates
=============================================================================
