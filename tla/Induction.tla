------------------------------ MODULE Induction ------------------------------
(***************************************************************************)
(* Induction over numbers said of sets and functions, so that it can be     *)
(* cited for a set or a function that a proof names.  The library's         *)
(* theorems are about predicates and operators.                             *)
(***************************************************************************)
EXTENDS Integers, WellFoundedInduction, TLAPS

(* A set of numbers that is not empty has a least one.                       *)
LEMMA LeastNumber ==
  ASSUME NEW T, T \subseteq Nat, T # {}
  PROVE  \E x \in T : \A y \in T : x <= y
<1>1. PICK R : R = {ss \in Nat \X Nat : ss[1] < ss[2]}
  OBVIOUS
<1>2. IsWellFoundedOn(R, Nat)
  BY <1>1, NatLessThanWellFounded, Zenon DEF OpToRel
<1>3. \E x \in T : \A y \in T : ~ (<<y, x>> \in R)
  BY <1>2, WFMin
<1>4. \A x, y \in Nat : y < x => <<y, x>> \in R
  BY <1>1
<1>5. PICK x \in T : \A y \in T : ~ (<<y, x>> \in R)
  BY <1>3, Zenon
<1>6. \A y \in T : ~(y < x)
  BY <1>4, <1>5
<1> QED
  BY <1>6

(* A set that contains the first number of a range, and with each number of  *)
(* the range the next one, contains the range.                               *)
LEMMA RangeInduction ==
  ASSUME NEW first \in Nat, NEW last \in Nat, NEW T,
         first \in T,
         \A n \in first .. last - 1 : n \in T => n + 1 \in T
  PROVE  \A n \in first .. last : n \in T
<1> SUFFICES ASSUME NEW m \in first .. last, m \notin T PROVE FALSE
  OBVIOUS
<1> DEFINE missing == {n \in first .. last : n \notin T}
<1>1. missing \subseteq Nat /\ missing # {}
  OBVIOUS
<1>2. PICK n \in missing : \A k \in missing : n <= k
  BY <1>1, LeastNumber
<1>3. n # first /\ n - 1 \in first .. last - 1 /\ n - 1 \notin missing
  BY <1>2
<1> QED
  BY <1>2, <1>3

(* A largest number, below a bound.                                          *)
LEMMA LargestNumber ==
  ASSUME NEW last \in Nat, NEW T, T \subseteq 0 .. last, T # {}
  PROVE  \E x \in T : \A y \in T : y <= x
<1> DEFINE mirrored == {n \in 0 .. last : last - n \in T}
<1>1. mirrored \subseteq Nat /\ \A y \in T : last - y \in mirrored
  <2>1. ASSUME NEW y \in T PROVE last - y \in mirrored
    <3>1. y \in 0 .. last /\ last - (last - y) = y
      OBVIOUS
    <3>2. last - y \in 0 .. last
      BY <3>1
    <3> QED
      BY <3>1, <3>2
  <2> QED
    BY <2>1
<1> HIDE DEF mirrored
<1>2. PICK n \in mirrored : \A k \in mirrored : n <= k
  BY <1>1, LeastNumber
<1>3. last - n \in T
  BY DEF mirrored
<1>4. ASSUME NEW y \in T PROVE y <= last - n
  <2>1. y \in Nat /\ n \in Nat /\ n <= last - y
    BY <1>1, <1>2
  <2> QED
    BY <2>1
<1> QED
  BY <1>3, <1>4

(* f goes from base on, one step for each number up to last.                 *)
Iterates(f, last, V, base, step) ==
  /\ f \in [0 .. last -> V]
  /\ f[0] = base
  /\ \A n \in 1 .. last : f[n] = step[n][f[n - 1]]

(* A function defined step by step over the numbers up to last exists.       *)
LEMMA Recursion ==
  ASSUME NEW last \in Nat, NEW V, NEW base \in V,
         NEW step \in [1 .. last -> [V -> V]]
  PROVE  \E f : Iterates(f, last, V, base, step)
<1> DEFINE Upto(f, m) == f[0] = base /\ \A n \in 1 .. m : f[n] = step[n][f[n - 1]]
<1> DEFINE T == {m \in 0 .. last : \E f \in [0 .. m -> V] : Upto(f, m)}
<1>1. 0 \in T
  <2>1. [n \in 0 .. 0 |-> base] \in [0 .. 0 -> V]
    OBVIOUS
  <2>2. Upto([n \in 0 .. 0 |-> base], 0)
    OBVIOUS
  <2>3. \E f \in [0 .. 0 -> V] : Upto(f, 0)
    BY <2>1, <2>2, Zenon
  <2>4. 0 \in 0 .. last
    OBVIOUS
  <2> QED
    BY <2>3, <2>4, Zenon
<1>2. ASSUME NEW m \in 0 .. last - 1, m \in T PROVE m + 1 \in T
  <2>1. PICK f \in [0 .. m -> V] : Upto(f, m)
    BY <1>2, Zenon
  <2> DEFINE g == [n \in 0 .. m + 1 |-> IF n <= m THEN f[n] ELSE step[m + 1][f[m]]]
  <2>2. g \in [0 .. m + 1 -> V]
    <3>1. step[m + 1][f[m]] \in V
      OBVIOUS
    <3> QED
      BY <3>1
  <2>3. Upto(g, m + 1)
    <3>1. g[0] = base
      BY <2>1
    <3>2. ASSUME NEW n \in 1 .. m + 1 PROVE g[n] = step[n][g[n - 1]]
      <4>1. CASE n <= m
        BY <2>1, <4>1
      <4>2. CASE n = m + 1
        BY <4>2
      <4> QED
        BY <4>1, <4>2
    <3> QED
      BY <3>1, <3>2, Zenon
  <2>4. \E h \in [0 .. m + 1 -> V] : Upto(h, m + 1)
    BY <2>2, <2>3, Zenon
  <2>5. m + 1 \in 0 .. last
    OBVIOUS
  <2> QED
    BY <2>4, <2>5, Zenon
<1>3. last \in T
  <2> HIDE DEF T
  <2>1. \A n \in 0 .. last : n \in T
    BY <1>1, <1>2, RangeInduction
  <2> QED
    BY <2>1
<1>4. \E f \in [0 .. last -> V] : Upto(f, last)
  BY <1>3, Zenon
<1> QED
  BY <1>4, Zenon DEF Iterates

(* Two functions that go from one value on step by step are the same.        *)
Alike(f, g, last) ==
  /\ f[0] = g[0]
  /\ \A n \in 1 .. last : f[n - 1] = g[n - 1] => f[n] = g[n]

LEMMA SameSteps ==
  ASSUME NEW last \in Nat, NEW f, NEW g, Alike(f, g, last)
  PROVE  \A n \in 0 .. last : f[n] = g[n]
<1>1. PICK T : T = {n \in 0 .. last : f[n] = g[n]}
  OBVIOUS
<1>2. 0 \in T
  BY <1>1 DEF Alike
<1>3. ASSUME NEW n \in 0 .. last - 1, n \in T PROVE n + 1 \in T
  <2>1. n + 1 \in 1 .. last /\ n + 1 \in 0 .. last /\ (n + 1) - 1 = n
    OBVIOUS
  <2>2. f[n] = g[n]
    BY <1>1, <1>3
  <2>3. f[n + 1] = g[n + 1]
    BY <2>1, <2>2 DEF Alike
  <2> QED
    BY <1>1, <2>1, <2>3
<1>4. \A n \in 0 .. last : n \in T
  BY <1>2, <1>3, RangeInduction
<1> QED
  BY <1>1, <1>4
=============================================================================
