---------------------------- MODULE NumberLemmas ----------------------------
(***************************************************************************)
(* Least and largest numbers.  Inductions over the natural numbers go by   *)
(* the least element of the set of counterexamples.                        *)
(***************************************************************************)
EXTENDS Integers, FiniteSetsExt, WellFoundedInduction, TLAPS

\* A set of natural numbers that is not empty has a least element.
LEMMA LeastNat ==
  ASSUME NEW T, T \subseteq Nat, T # {}
  PROVE  \E x \in T : \A y \in T : x <= y
<1>1. PICK x \in T : \A y \in T : ~(<<y, x>> \in OpToRel(<, Nat))
  <2> DEFINE R == OpToRel(<, Nat)
  <2>1. IsWellFoundedOn(R, Nat)
    BY NatLessThanWellFounded
  <2> HIDE DEF R
  <2>2. \E x \in T : \A y \in T : ~(<<y, x>> \in R)
    BY <2>1, WFMin
  <2> QED
    BY <2>2 DEF R
<1>2. ASSUME NEW y \in T PROVE x <= y
  <2>1. ~(y < x)
    BY <1>1 DEF OpToRel
  <2> QED
    BY <2>1
<1> QED
  BY <1>2

\* Min() of a set of natural numbers is its least element.
LEMMA MinOfNat ==
  ASSUME NEW S, S \subseteq Nat, S # {}
  PROVE  Min(S) \in S /\ \A x \in S : Min(S) <= x
<1>1. \E x \in S : \A y \in S : x <= y
  BY LeastNat
<1> QED
  BY <1>1 DEF Min

\* The values of a function on the first n numbers have a bound.
LEMMA Bounded ==
  ASSUME NEW n \in Nat, NEW f, \A i \in 1 .. n : f[i] \in Nat
  PROVE  \E b \in Nat : \A i \in 1 .. n : f[i] <= b
<1> DEFINE Bound(m) == \E b \in Nat : \A i \in 1 .. m : f[i] <= b
           T == {m \in 0 .. n : ~Bound(m)}
<1>2. SUFFICES ASSUME T # {} PROVE FALSE
  <2>1. n \in 0 .. n
    OBVIOUS
  <2>2. CASE n \in T
    BY <2>2
  <2>3. CASE n \notin T
    <3>1. Bound(n)
      BY <2>1, <2>3
    <3> QED
      BY <3>1
  <2> QED
    BY <2>2, <2>3
<1>3. PICK m \in T : \A k \in T : m <= k
  <2>1. T \subseteq Nat
    OBVIOUS
  <2> HIDE DEF T
  <2> QED
    BY <1>2, <2>1, LeastNat
<1>4. m # 0
  <2>1. Bound(0)
    OBVIOUS
  <2> QED
    BY <2>1
<1>5. m \in 0 .. n /\ m - 1 \in 0 .. n /\ m - 1 \notin T
  <2>1. m \in 0 .. n
    OBVIOUS
  <2> HIDE DEF T
  <2>2. m - 1 \in 0 .. n /\ ~(m <= m - 1)
    BY <2>1, <1>4
  <2> QED
    BY <1>3, <2>1, <2>2
<1>6. PICK b \in Nat : \A i \in 1 .. (m - 1) : f[i] <= b
  BY <1>5
<1>7. f[m] \in Nat
  BY <1>4, <1>5
<1>8. PICK c \in Nat : b <= c /\ f[m] <= c
  <2>1. b + f[m] \in Nat /\ b <= b + f[m] /\ f[m] <= b + f[m]
    BY <1>7
  <2> QED
    BY <2>1
<1>9. ASSUME NEW i \in 1 .. m PROVE f[i] <= c
  <2>1. CASE i = m
    BY <1>8, <2>1
  <2>2. CASE i \in 1 .. (m - 1)
    <3>1. f[i] <= b /\ f[i] \in Nat
      BY <1>6, <2>2
    <3> QED
      BY <1>8, <3>1
  <2> QED
    BY <2>1, <2>2
<1> QED
  BY <1>9

\* Max() of a bounded set of natural numbers is its largest element.
LEMMA MaxOfBounded ==
  ASSUME NEW S, S \subseteq Nat, S # {}, NEW b \in Nat, \A x \in S : x <= b
  PROVE  Max(S) \in S /\ \A x \in S : x <= Max(S)
<1> DEFINE T == {b - x : x \in S}
<1>1. PICK d \in T : \A e \in T : d <= e
  <2>1. ASSUME NEW x \in S PROVE b - x \in Nat
    <3>1. x \in Nat /\ x <= b
      OBVIOUS
    <3> QED
      BY <3>1
  <2>2. T \subseteq Nat /\ T # {}
    BY <2>1
  <2> HIDE DEF T
  <2> QED
    BY <2>2, LeastNat
<1>2. PICK m \in S : d = b - m
  OBVIOUS
<1>3. ASSUME NEW x \in S PROVE m >= x
  <2>1. d <= b - x
    BY <1>1
  <2> HIDE DEF T
  <2>2. m \in Nat /\ x \in Nat
    OBVIOUS
  <2> QED
    BY <1>2, <2>1, <2>2
<1>4. \E x \in S : \A y \in S : x >= y
  BY <1>3
<1>5. Max(S) \in S /\ \A y \in S : Max(S) >= y
  BY <1>4 DEF Max
<1> QED
  BY <1>5
=============================================================================
