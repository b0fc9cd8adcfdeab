--------------------------- MODULE InductionProofs ---------------------------
(***************************************************************************)
(* Induction over the naturals and over finite sets for a statement that   *)
(* is given as a set, those of which it holds, since the library's own     *)
(* theorems take an operator; and least and greatest members.              *)
(***************************************************************************)
EXTENDS Integers, FiniteSetTheorems, WellFoundedInduction, TLAPS

\* Naturals have a least one.
LEMMA LeastNat ==
  ASSUME NEW S, S \subseteq Nat, S # {}
  PROVE  \E m \in S : \A n \in S : m <= n
<1> DEFINE R == OpToRel(<, Nat)
<1>1. IsWellFoundedOn(R, Nat)
  BY NatLessThanWellFounded, Zenon
<1>2. \A x, y \in Nat : y < x => <<y, x>> \in R
  BY DEF OpToRel
<1> HIDE DEF R
<1>3. PICK m \in S : \A n \in S : ~ (<<n, m>> \in R)
  BY <1>1, WFMin, Zenon
<1>4. ASSUME NEW n \in S  PROVE m <= n
  <2>1. ~(n < m)
    BY <1>2, <1>3
  <2> QED BY <2>1
<1> QED BY <1>4

\* A set of naturals with 0 and the successor of each of its members.
LEMMA EveryNat ==
  ASSUME NEW T, T \subseteq Nat, 0 \in T, \A n \in T : n + 1 \in T
  PROVE  T = Nat
<1> SUFFICES ASSUME Nat \ T # {}  PROVE FALSE
  OBVIOUS
<1>1. PICK x \in Nat \ T : \A y \in Nat \ T : x <= y
  BY LeastNat
<1>2. x - 1 \in Nat /\ ~(x <= x - 1) /\ (x - 1) + 1 = x
  BY <1>1
<1>3. x - 1 \in T
  BY <1>1, <1>2
<1> QED BY <1>2, <1>3

\* A family of subsets that has each one all of whose smaller ones, by one
\* element, it has.
LEMMA EverySubset ==
  ASSUME NEW D, IsFiniteSet(D), NEW T,
         \A s \in SUBSET D : (\A x \in s : s \ {x} \in T) => s \in T
  PROVE  \A s \in SUBSET D : s \in T
<1> DEFINE N == {n \in Nat : \A s \in SUBSET D : Cardinality(s) = n => s \in T}
<1>1. \A s \in SUBSET D : IsFiniteSet(s) /\ Cardinality(s) \in Nat
  BY FS_Subset, FS_CardinalityType
<1>2. 0 \in N
  <2> SUFFICES ASSUME NEW s \in SUBSET D, Cardinality(s) = 0  PROVE s \in T
    OBVIOUS
  <2>1. s = {}
    BY <1>1, FS_EmptySet
  <2> QED BY <2>1
<1>3. ASSUME NEW n \in N  PROVE n + 1 \in N
  <2> SUFFICES ASSUME NEW s \in SUBSET D, Cardinality(s) = n + 1  PROVE s \in T
    OBVIOUS
  <2>1. ASSUME NEW x \in s  PROVE s \ {x} \in T
    <3>1. Cardinality(s \ {x}) = n
      BY <1>1, FS_RemoveElement
    <3> QED BY <3>1
  <2> QED BY <2>1
<1>4. N = Nat
  <2>1. N \subseteq Nat
    OBVIOUS
  <2> HIDE DEF N
  <2> QED BY <2>1, <1>2, <1>3, EveryNat
<1> QED BY <1>1, <1>4

\* A finite set has a member at which an integer function is greatest.
LEMMA Greatest ==
  ASSUME NEW D, IsFiniteSet(D), NEW f, \A x \in D : f[x] \in Int
  PROVE  D # {} => \E m \in D : \A x \in D : f[x] <= f[m]
<1> DEFINE T == {s \in SUBSET D : s # {} => \E m \in s : \A x \in s : f[x] <= f[m]}
<1>1. ASSUME NEW s \in SUBSET D, \A x \in s : s \ {x} \in T  PROVE s \in T
  <2> SUFFICES ASSUME s # {}  PROVE \E m \in s : \A x \in s : f[x] <= f[m]
    OBVIOUS
  <2>1. PICK y \in s : TRUE
    OBVIOUS
  <2>2. CASE s \ {y} = {}
    BY <2>1, <2>2
  <2>3. CASE s \ {y} # {}
    <3>1. PICK m \in s \ {y} : \A x \in s \ {y} : f[x] <= f[m]
      BY <1>1, <2>3
    <3>2. CASE f[y] <= f[m]
      BY <3>1, <3>2
    <3>3. CASE ~(f[y] <= f[m])
      <4>1. \A x \in s : f[x] <= f[y]
        BY <3>1, <3>3
      <4> QED BY <4>1
    <3> QED BY <3>2, <3>3
  <2> QED BY <2>2, <2>3
<1> HIDE DEF T
<1>2. \A s \in SUBSET D : s \in T
  BY <1>1, EverySubset
<1> QED BY <1>2 DEF T
=============================================================================
