------------------------------ MODULE Recursion -----------------------------
(***************************************************************************)
(* What a recursive function on numbers is: for any step, whatever the     *)
(* values, there is one function that follows it.  A module that defines   *)
(* one takes this module with its own step; e is what the step depends on  *)
(* beside the number it is for and the value before.                       *)
(***************************************************************************)
EXTENDS Integers, WellFoundedInduction, TLAPS

CONSTANT Step(_, _, _)   \* Step(e, j, v): the value at j, if v is the one at j - 1

Solves(g, e, c, a, b) == g = [j \in a .. b |-> IF j = a THEN c ELSE Step(e, j, g[j - 1])]

-----------------------------------------------------------------------------
(* Induction.                                                              *)

\* The order the least number is found by.
LEMMA LessIsRelated == \A m, n \in Nat : m < n => <<m, n>> \in OpToRel(<, Nat)
  BY DEF OpToRel

\* A set of natural numbers that is not empty has a least one.
LEMMA LeastNatural ==
  ASSUME NEW S \in SUBSET Nat, S # {}
  PROVE  \E n \in S : \A m \in S : n <= m
<1>1. PICK n \in S : \A m \in S : <<m, n>> \notin OpToRel(<, Nat)
  BY NatLessThanWellFounded, WFMin
<1>2. \A m \in S : ~(m < n)
  BY <1>1, LessIsRelated
<1> QED
  BY <1>2

\* Induction on an interval, with the set of the numbers that have a property.
LEMMA IntervalInduction ==
  ASSUME NEW a \in Nat, NEW b \in Nat, NEW T, a \in T,
         \A i \in (a + 1) .. b : i - 1 \in T => i \in T
  PROVE  \A i \in a .. b : i \in T
<1> DEFINE U == (a .. b) \ T
<1>1. U \in SUBSET Nat
  OBVIOUS
<1>2. SUFFICES ASSUME U # {} PROVE FALSE
  OBVIOUS
<1>3. PICK n \in U : \A m \in U : n <= m
  <2> HIDE DEF U
  <2> QED
    BY <1>1, <1>2, LeastNatural
<1>4. n \in (a + 1) .. b /\ n - 1 \in a .. b /\ n - 1 \notin U
  BY <1>3
<1> QED
  BY <1>3, <1>4

\* Induction on all natural numbers.
LEMMA NumberInduction ==
  ASSUME NEW T, 0 \in T, \A i \in Nat : i \in T => i + 1 \in T
  PROVE  \A i \in Nat : i \in T
<1>1. ASSUME NEW n \in Nat
      PROVE  n \in T
  <2>1. \A i \in (0 + 1) .. n : i - 1 \in T => i \in T
    OBVIOUS
  <2>2. \A i \in 0 .. n : i \in T
    BY <2>1, IntervalInduction
  <2> QED
    BY <2>2
<1> QED
  BY <1>1

-----------------------------------------------------------------------------
(* Recursion.                                                              *)

\* There is a function that follows the step on an interval.
THEOREM RecursionExists ==
  ASSUME NEW e, NEW c, NEW a \in Nat, NEW b \in Nat, a <= b
  PROVE  \E g : Solves(g, e, c, a, b)
<1> DEFINE T == {n \in Nat : \E g : Solves(g, e, c, a, n)}
<1>1. a \in T
  <2>1. Solves([j \in a .. a |-> c], e, c, a, a)
    BY DEF Solves
  <2> QED
    BY <2>1
<1>2. ASSUME NEW n \in (a + 1) .. b, n - 1 \in T
      PROVE  n \in T
  <2>1. PICK g : Solves(g, e, c, a, n - 1)
    BY <1>2
  <2> DEFINE h == [j \in a .. n |-> IF j = n THEN Step(e, n, g[n - 1]) ELSE g[j]]
  <2>2. ASSUME NEW j \in a .. n
        PROVE  h[j] = IF j = a THEN c ELSE Step(e, j, h[j - 1])
    <3>1. CASE j = n
      BY <1>2, <3>1
    <3>2. CASE j # n
      <4>1. g[j] = IF j = a THEN c ELSE Step(e, j, g[j - 1])
        BY <2>1, <3>2 DEF Solves
      <4>2. h[j] = g[j] /\ (j # a => h[j - 1] = g[j - 1])
        BY <1>2, <3>2
      <4> QED
        BY <4>1, <4>2
    <3> QED
      BY <3>1, <3>2
  <2>3. h = [j \in a .. n |-> IF j = a THEN c ELSE Step(e, j, h[j - 1])]
    BY <2>2
  <2> HIDE DEF h
  <2>4. Solves(h, e, c, a, n)
    BY <2>3 DEF Solves
  <2> QED
    BY <2>4
<1> HIDE DEF T
<1>3. \A n \in a .. b : n \in T
  BY <1>1, <1>2, IntervalInduction
<1>4. b \in T
  BY <1>3
<1> QED
  BY <1>4 DEF T

\* Two functions that follow it from the same value agree as far as both go.
THEOREM RecursionUnique ==
  ASSUME NEW e, NEW c, NEW a \in Nat, NEW b \in Nat, NEW d \in Nat, a <= b, b <= d,
         NEW g, Solves(g, e, c, a, b), NEW h, Solves(h, e, c, a, d)
  PROVE  \A j \in a .. b : g[j] = h[j]
<1> DEFINE T == {j \in Nat : g[j] = h[j]}
<1>1. g[a] = c /\ \A j \in (a + 1) .. b : g[j] = Step(e, j, g[j - 1])
  BY DEF Solves
<1>2. h[a] = c /\ \A j \in (a + 1) .. d : h[j] = Step(e, j, h[j - 1])
  BY DEF Solves
<1>3. a \in T
  BY <1>1, <1>2
<1>4. \A j \in (a + 1) .. b : j - 1 \in T => j \in T
  BY <1>1, <1>2
<1> HIDE DEF T
<1>5. \A j \in a .. b : j \in T
  BY <1>3, <1>4, IntervalInduction
<1> QED
  BY <1>5 DEF T

SolvesOnNat(g, e, c) == g = [j \in Nat |-> IF j = 0 THEN c ELSE Step(e, j, g[j - 1])]

Solution(e, c, n) == CHOOSE g : Solves(g, e, c, 0, n)

\* There is one on all natural numbers, too.
THEOREM RecursionOnNat ==
  ASSUME NEW e, NEW c
  PROVE  \E g : SolvesOnNat(g, e, c)
<1> DEFINE g == [j \in Nat |-> Solution(e, c, j)[j]]
<1>1. \A n \in Nat : Solves(Solution(e, c, n), e, c, 0, n)
  <2> TAKE n \in Nat
  <2>1. \E g1 : Solves(g1, e, c, 0, n)
    BY RecursionExists
  <2> QED
    BY <2>1 DEF Solution
<1>2. ASSUME NEW j \in Nat
      PROVE  g[j] = IF j = 0 THEN c ELSE Step(e, j, g[j - 1])
  <2>1. CASE j = 0
    BY <1>1, <2>1 DEF Solves
  <2>2. CASE j # 0
    <3>1. j - 1 \in Nat /\ 0 <= j - 1 /\ j - 1 <= j /\ j \in (0 + 1) .. j
      BY <2>2
    <3>2. Solution(e, c, j)[j] = Step(e, j, Solution(e, c, j)[j - 1])
      BY <1>1, <3>1 DEF Solves
    <3>3. Solution(e, c, j - 1)[j - 1] = Solution(e, c, j)[j - 1]
      <4>1. Solves(Solution(e, c, j - 1), e, c, 0, j - 1) /\ Solves(Solution(e, c, j), e, c, 0, j)
        BY <1>1, <3>1
      <4>2. \A k \in 0 .. (j - 1) : Solution(e, c, j - 1)[k] = Solution(e, c, j)[k]
        BY <3>1, <4>1, RecursionUnique
      <4> QED
        BY <3>1, <4>2
    <3> QED
      BY <2>2, <3>1, <3>2, <3>3
  <2> QED
    BY <2>1, <2>2
<1>3. g = [j \in Nat |-> IF j = 0 THEN c ELSE Step(e, j, g[j - 1])]
  BY <1>2
<1> HIDE DEF g
<1>4. SolvesOnNat(g, e, c)
  BY <1>3 DEF SolvesOnNat
<1> QED
  BY <1>4

=============================================================================
