---------------------------- MODULE LimitsProofs ----------------------------
(***************************************************************************)
(* Sums over finite bags of any size, and what follows from them for       *)
(* Limits.check().                                                         *)
(***************************************************************************)
EXTENDS Limits, InductionProofs

-----------------------------------------------------------------------------
(* Sums *)

Chosen(s) == CHOOSE x \in s : TRUE

\* g sums f over each subset of D, one chosen element after the other.
Sums(g, f, D) ==
    g = [s \in SUBSET D |-> IF s = {} THEN 0 ELSE f[Chosen(s)] + g[s \ {Chosen(s)}]]

Sum(f, D) == (CHOOSE g : Sums(g, f, D))[D]

\* CountOf is such a sum.
LEMMA CountIsSum == \A bag, S : CountOf(bag, S) = Sum(bag, S \cap DOMAIN bag)
BY DEF CountOf, MapThenSumSet, MapThenFoldSet, Sum, Sums, Chosen

\* There is a function that sums f, since D is finite.
LEMMA SumsExist ==
  ASSUME NEW D, IsFiniteSet(D), NEW f, \A x \in D : f[x] \in Int
  PROVE  \E g \in [SUBSET D -> Int] : Sums(g, f, D)
<1> DEFINE V(g, s) == IF s = {} THEN 0 ELSE f[Chosen(s)] + g[s \ {Chosen(s)}]
           N == {n \in Nat : \E g \in [SUBSET D -> Int] :
                    \A s \in SUBSET D : Cardinality(s) <= n => g[s] = V(g, s)}
<1>1. \A s \in SUBSET D : IsFiniteSet(s) /\ Cardinality(s) \in Nat
  BY FS_Subset, FS_CardinalityType
<1>2. \A s \in SUBSET D : s # {} =>
         /\ Chosen(s) \in s /\ f[Chosen(s)] \in Int
         /\ s \ {Chosen(s)} \in SUBSET D /\ Cardinality(s \ {Chosen(s)}) = Cardinality(s) - 1
  <2> SUFFICES ASSUME NEW s \in SUBSET D, s # {}
               PROVE  /\ Chosen(s) \in s /\ f[Chosen(s)] \in Int
                      /\ s \ {Chosen(s)} \in SUBSET D /\ Cardinality(s \ {Chosen(s)}) = Cardinality(s) - 1
    OBVIOUS
  <2>1. Chosen(s) \in s
    BY DEF Chosen
  <2>2. Cardinality(s \ {Chosen(s)}) = Cardinality(s) - 1
    BY <1>1, <2>1, FS_RemoveElement
  <2> QED BY <2>1, <2>2
<1>3. 0 \in N
  <2>1. \A s \in SUBSET D : Cardinality(s) <= 0 => s = {}
    BY <1>1, FS_EmptySet
  <2> DEFINE z == [s \in SUBSET D |-> 0]
  <2>2. z \in [SUBSET D -> Int] /\ \A s \in SUBSET D : z[s] = 0
    OBVIOUS
  <2> HIDE DEF z
  <2> QED BY <2>1, <2>2
<1>4. ASSUME NEW n \in N  PROVE n + 1 \in N
  <2>0. n \in Nat /\ \E g \in [SUBSET D -> Int] :
                       \A s \in SUBSET D : Cardinality(s) <= n => g[s] = V(g, s)
    BY <1>4
  <2>1. PICK g \in [SUBSET D -> Int] : \A s \in SUBSET D : Cardinality(s) <= n => g[s] = V(g, s)
    BY <2>0
  <2>2. ASSUME NEW s \in SUBSET D  PROVE V(g, s) \in Int
    <3>1. CASE s = {}
      BY <3>1
    <3>2. CASE s # {}
      <4>1. f[Chosen(s)] \in Int /\ g[s \ {Chosen(s)}] \in Int
        BY <1>2, <3>2
      <4> QED BY <3>2, <4>1
    <3> QED BY <3>1, <3>2
  <2>3. PICK h \in [SUBSET D -> Int] : h = [s \in SUBSET D |-> V(g, s)]
    BY <2>2
  <2>4. ASSUME NEW s \in SUBSET D, Cardinality(s) <= n + 1  PROVE h[s] = V(h, s)
    <3>1. CASE s = {}
      BY <2>3, <3>1
    <3>2. CASE s # {}
      <4>1. Cardinality(s \ {Chosen(s)}) <= n /\ s \ {Chosen(s)} \in SUBSET D
        BY <1>1, <1>2, <2>4, <3>2
      <4>2. g[s \ {Chosen(s)}] = V(g, s \ {Chosen(s)})
        BY <2>1, <4>1
      <4>3. h[s \ {Chosen(s)}] = g[s \ {Chosen(s)}]
        BY <2>3, <4>1, <4>2
      <4> QED BY <2>3, <3>2, <4>3
    <3> QED BY <3>1, <3>2
  <2>5. n + 1 \in Nat
    OBVIOUS
  <2> QED BY <2>4, <2>5
<1>5. N = Nat
  <2>1. N \subseteq Nat
    OBVIOUS
  <2> HIDE DEF N
  <2> QED BY <2>1, <1>3, <1>4, EveryNat
<1>6. PICK g \in [SUBSET D -> Int] : \A s \in SUBSET D : Cardinality(s) <= Cardinality(D) => g[s] = V(g, s)
  BY <1>1, <1>5
<1>7. \A s \in SUBSET D : Cardinality(s) <= Cardinality(D)
  BY FS_Subset
<1>8. \A s \in SUBSET D : g[s] = V(g, s)
  BY <1>6, <1>7
<1> QED BY <1>8 DEF Sums

\* A sum is the chosen element's value and the sum of the rest; sums over
\* subsets do not depend on the set they are subsets of.
LEMMA SumChosen ==
  ASSUME NEW D, IsFiniteSet(D), NEW f, \A x \in D : f[x] \in Int
  PROVE  /\ Sum(f, {}) = 0
         /\ \A s \in SUBSET D : Sum(f, s) \in Int
         /\ \A s \in SUBSET D : s # {} => Sum(f, s) = f[Chosen(s)] + Sum(f, s \ {Chosen(s)})
<1>1. PICK g \in [SUBSET D -> Int] : Sums(g, f, D)
  BY SumsExist
<1>2. \A s \in SUBSET D : g[s] = IF s = {} THEN 0 ELSE f[Chosen(s)] + g[s \ {Chosen(s)}]
  BY <1>1 DEF Sums
<1>3. ASSUME NEW E \in SUBSET D  PROVE Sum(f, E) = g[E]
  <2>1. IsFiniteSet(E)
    BY FS_Subset
  <2>2. PICK k : k = CHOOSE h : Sums(h, f, E)
    OBVIOUS
  <2>3. \E h \in [SUBSET E -> Int] : Sums(h, f, E)
    BY <2>1, SumsExist
  <2>4. Sums(k, f, E)
    BY <2>2, <2>3
  <2>5. \A s \in SUBSET E : k[s] = IF s = {} THEN 0 ELSE f[Chosen(s)] + k[s \ {Chosen(s)}]
    BY <2>4 DEF Sums
  <2> DEFINE T == {s \in SUBSET E : k[s] = g[s]}
  <2>6. ASSUME NEW s \in SUBSET E, \A x \in s : s \ {x} \in T  PROVE s \in T
    <3>1. CASE s = {}
      BY <1>2, <2>5, <3>1
    <3>2. CASE s # {}
      <4>1. Chosen(s) \in s
        BY <3>2 DEF Chosen
      <4>2. k[s \ {Chosen(s)}] = g[s \ {Chosen(s)}]
        BY <2>6, <4>1
      <4>3. s \in SUBSET D
        OBVIOUS
      <4> QED BY <1>2, <2>5, <3>2, <4>2, <4>3
    <3> QED BY <3>1, <3>2
  <2>7. \A s \in SUBSET E : s \in T
    <3> HIDE DEF T
    <3> QED BY <2>1, <2>6, EverySubset
  <2>8. k[E] = g[E]
    BY <2>7
  <2> QED BY <2>2, <2>8 DEF Sum
<1>4. ASSUME NEW s \in SUBSET D, s # {}  PROVE Sum(f, s) = f[Chosen(s)] + Sum(f, s \ {Chosen(s)})
  <2>1. s \ {Chosen(s)} \in SUBSET D
    OBVIOUS
  <2> QED BY <1>2, <1>3, <1>4, <2>1
<1>5. Sum(f, {}) = 0
  BY <1>2, <1>3
<1> QED BY <1>3, <1>4, <1>5

\* Any other element could have been chosen.
LEMMA SumOf ==
  ASSUME NEW D, IsFiniteSet(D), NEW f, \A x \in D : f[x] \in Int
  PROVE  \A s \in SUBSET D : \A x \in s : Sum(f, s) = f[x] + Sum(f, s \ {x})
<1> DEFINE T == {s \in SUBSET D : \A x \in s : Sum(f, s) = f[x] + Sum(f, s \ {x})}
<1>1. ASSUME NEW s \in SUBSET D, \A x \in s : s \ {x} \in T  PROVE s \in T
  <2> SUFFICES ASSUME NEW x \in s  PROVE Sum(f, s) = f[x] + Sum(f, s \ {x})
    OBVIOUS
  <2>1. PICK y \in s : y = Chosen(s)
    BY DEF Chosen
  <2>2. Sum(f, s) = f[y] + Sum(f, s \ {y})
    BY <2>1, SumChosen
  <2>3. CASE x = y
    BY <2>2, <2>3
  <2>4. CASE x # y
    <3>1. Sum(f, s \ {y}) = f[x] + Sum(f, (s \ {y}) \ {x})
      BY <1>1, <2>4
    <3>2. Sum(f, s \ {x}) = f[y] + Sum(f, (s \ {x}) \ {y})
      BY <1>1, <2>4
    <3>3. (s \ {y}) \ {x} = (s \ {x}) \ {y} /\ (s \ {y}) \ {x} \in SUBSET D
      OBVIOUS
    <3>4. PICK r \in Int : r = Sum(f, (s \ {y}) \ {x}) /\ r = Sum(f, (s \ {x}) \ {y})
      BY <3>3, SumChosen
    <3>5. Sum(f, s) = f[y] + (f[x] + r) /\ Sum(f, s \ {x}) = f[y] + r
      BY <2>2, <3>1, <3>2, <3>4
    <3>6. f[x] \in Int /\ f[y] \in Int
      OBVIOUS
    <3> QED BY <3>5, <3>6
  <2> QED BY <2>3, <2>4
<1> HIDE DEF T
<1>2. \A s \in SUBSET D : s \in T
  BY <1>1, EverySubset
<1> QED BY <1>2 DEF T

\* Sums keep what holds of each element.
LEMMA SumsCompare ==
  ASSUME NEW D, IsFiniteSet(D), NEW f, NEW g, NEW h, NEW k,
         \A x \in D : /\ f[x] \in Int /\ g[x] \in Int /\ h[x] \in Int /\ k[x] \in Int
                      /\ f[x] + g[x] <= h[x] + k[x]
  PROVE  Sum(f, D) + Sum(g, D) <= Sum(h, D) + Sum(k, D)
<1> DEFINE T == {s \in SUBSET D : Sum(f, s) + Sum(g, s) <= Sum(h, s) + Sum(k, s)}
<1>1. ASSUME NEW s \in SUBSET D, \A x \in s : s \ {x} \in T  PROVE s \in T
  <2>1. CASE s = {}
    <3>1. Sum(f, s) = 0 /\ Sum(g, s) = 0 /\ Sum(h, s) = 0 /\ Sum(k, s) = 0
      BY <2>1, SumChosen
    <3> QED BY <3>1
  <2>2. CASE s # {}
    <3>1. PICK x \in s : TRUE
      BY <2>2
    <3>2. PICK a \in Int, b \in Int, c \in Int, d \in Int :
             /\ a = Sum(f, s \ {x}) /\ b = Sum(g, s \ {x})
             /\ c = Sum(h, s \ {x}) /\ d = Sum(k, s \ {x})
      BY SumChosen
    <3>3. Sum(f, s) = f[x] + a
      BY <3>2, SumOf
    <3>4. Sum(g, s) = g[x] + b
      BY <3>2, SumOf
    <3>5. Sum(h, s) = h[x] + c
      BY <3>2, SumOf
    <3>6. Sum(k, s) = k[x] + d
      BY <3>2, SumOf
    <3>7. a + b <= c + d
      BY <1>1, <3>2
    <3>8. /\ f[x] \in Int /\ g[x] \in Int /\ h[x] \in Int /\ k[x] \in Int
          /\ f[x] + g[x] <= h[x] + k[x]
      OBVIOUS
    <3> QED BY <3>3, <3>4, <3>5, <3>6, <3>7, <3>8
  <2> QED BY <2>1, <2>2
<1> HIDE DEF T
<1>2. \A s \in SUBSET D : s \in T
  BY <1>1, EverySubset
<1> QED BY <1>2 DEF T

-----------------------------------------------------------------------------
(* Bags *)

\* A bag's occurrences are a natural number, within S at most as many as in
\* all, and each name outside S adds its own.
LEMMA CountWithin ==
  ASSUME NEW D, IsFiniteSet(D), NEW bag \in [D -> Nat], NEW S
  PROVE  /\ CountOf(bag, S) \in Nat /\ Size(bag) \in Nat /\ CountOf(bag, S) <= Size(bag)
         /\ \A x \in D \ S : CountOf(bag, S) + bag[x] <= Size(bag)
<1> DEFINE T == {s \in SUBSET D : Sum(bag, s) >= Sum(bag, s \cap S) /\ Sum(bag, s \cap S) >= 0}
<1>0. \A x \in D : bag[x] \in Int /\ bag[x] >= 0
  OBVIOUS
<1>1. ASSUME NEW s \in SUBSET D, \A x \in s : s \ {x} \in T  PROVE s \in T
  <2>1. CASE s = {}
    <3>1. s \cap S = {} /\ Sum(bag, {}) = 0
      BY <1>0, <2>1, SumChosen
    <3> QED BY <2>1, <3>1
  <2>2. CASE s # {}
    <3>1. PICK x \in s : TRUE
      BY <2>2
    <3>2. PICK a \in Int, b \in Int : a = Sum(bag, s \ {x}) /\ b = Sum(bag, (s \ {x}) \cap S)
      BY <1>0, SumChosen
    <3>3. a >= b /\ b >= 0
      BY <1>1, <3>2
    <3>4. Sum(bag, s) = bag[x] + a
      BY <1>0, <3>2, SumOf
    <3>5. CASE x \in S
      <4>1. (s \cap S) \ {x} = (s \ {x}) \cap S /\ x \in s \cap S /\ s \cap S \in SUBSET D
        BY <3>5
      <4>2. Sum(bag, s \cap S) = bag[x] + b
        BY <1>0, <3>2, <4>1, SumOf
      <4> QED BY <1>0, <3>3, <3>4, <4>2
    <3>6. CASE x \notin S
      <4>1. s \cap S = (s \ {x}) \cap S
        BY <3>6
      <4> QED BY <1>0, <3>2, <3>3, <3>4, <4>1
    <3> QED BY <3>5, <3>6
  <2> QED BY <2>1, <2>2
<1>2. \A s \in SUBSET D : s \in T
  <2> HIDE DEF T
  <2> QED BY <1>1, EverySubset
<1>3. /\ DOMAIN bag = D /\ D \cap D = D /\ D \in SUBSET D /\ D \cap S \in SUBSET D
      /\ \A s \in SUBSET D : Sum(bag, s) \in Int
  BY <1>0, SumChosen
<1>4. CountOf(bag, S) = Sum(bag, D \cap S)
  <2>1. S \cap DOMAIN bag = D \cap S
    BY <1>3
  <2> QED BY <2>1, CountIsSum
<1>5. Size(bag) = Sum(bag, D)
  BY <1>3, CountIsSum DEF Size
<1>6. ASSUME NEW x \in D \ S  PROVE CountOf(bag, S) + bag[x] <= Size(bag)
  <2>1. PICK a \in Int : a = Sum(bag, D \ {x})
    BY <1>3
  <2>2. Sum(bag, D) = bag[x] + a
    BY <1>0, <1>3, <2>1, SumOf
  <2>3. (D \ {x}) \cap S = D \cap S
    OBVIOUS
  <2>4. a >= Sum(bag, D \cap S)
    BY <1>2, <2>1, <2>3
  <2> QED BY <1>0, <1>3, <1>4, <1>5, <2>2, <2>4
<1> QED BY <1>2, <1>3, <1>4, <1>5, <1>6

\* A bag with more occurrences than S has of them has a name outside S.
LEMMA CountBeyond ==
  ASSUME NEW D, IsFiniteSet(D), NEW bag \in [D -> Nat], NEW S, Size(bag) > CountOf(bag, S)
  PROVE  \E x \in D \ S : bag[x] > 0
<1> SUFFICES ASSUME \A x \in D \ S : bag[x] = 0  PROVE Sum(bag, D) = Sum(bag, D \cap S)
  <2>1. S \cap DOMAIN bag = D \cap S /\ D \cap DOMAIN bag = D /\ DOMAIN bag = D
    OBVIOUS
  <2>2. CountOf(bag, S) = Sum(bag, D \cap S) /\ Size(bag) = Sum(bag, D)
    BY <2>1, CountIsSum DEF Size
  <2>3. Size(bag) \in Nat /\ CountOf(bag, S) \in Nat
    BY CountWithin
  <2>4. \A x \in D \ S : bag[x] > 0 \/ bag[x] = 0
    OBVIOUS
  <2> QED BY <2>2, <2>3, <2>4
<1> DEFINE T == {s \in SUBSET D : Sum(bag, s) = Sum(bag, s \cap S)}
<1>0. \A x \in D : bag[x] \in Int
  OBVIOUS
<1>1. ASSUME NEW s \in SUBSET D, \A x \in s : s \ {x} \in T  PROVE s \in T
  <2>1. CASE s = {}
    <3>1. s \cap S = s
      BY <2>1
    <3> QED BY <3>1
  <2>2. CASE s # {}
    <3>1. PICK x \in s : TRUE
      BY <2>2
    <3>2. PICK a \in Int : a = Sum(bag, s \ {x})
      BY <1>0, SumChosen
    <3>3. Sum(bag, s) = bag[x] + a
      BY <1>0, <3>2, SumOf
    <3>4. Sum(bag, (s \ {x}) \cap S) = a
      BY <1>1, <3>2
    <3>5. CASE x \in S
      <4>1. (s \cap S) \ {x} = (s \ {x}) \cap S /\ x \in s \cap S /\ s \cap S \in SUBSET D
        BY <3>5
      <4>2. Sum(bag, s \cap S) = bag[x] + a
        BY <1>0, <3>4, <4>1, SumOf
      <4> QED BY <3>3, <4>2
    <3>6. CASE x \notin S
      <4>1. s \cap S = (s \ {x}) \cap S /\ bag[x] = 0
        BY <3>6
      <4>2. Sum(bag, s) = a
        BY <3>3, <4>1
      <4> QED BY <3>4, <4>1, <4>2
    <3> QED BY <3>5, <3>6
  <2> QED BY <2>1, <2>2
<1> HIDE DEF T
<1>2. \A s \in SUBSET D : s \in T
  BY <1>1, EverySubset
<1> QED BY <1>2 DEF T

\* Sizes keep what holds of each name.
LEMMA SizesCompare ==
  ASSUME NEW D, IsFiniteSet(D),
         NEW a \in [D -> Nat], NEW b \in [D -> Nat], NEW c \in [D -> Nat], NEW d \in [D -> Nat],
         \A x \in D : a[x] + b[x] <= c[x] + d[x]
  PROVE  Size(a) + Size(b) <= Size(c) + Size(d)
<1>1. \A e \in [D -> Nat] : Size(e) = Sum(e, D)
  <2> SUFFICES ASSUME NEW e \in [D -> Nat]  PROVE Size(e) = Sum(e, D)
    OBVIOUS
  <2>1. DOMAIN e \cap DOMAIN e = D /\ DOMAIN e = D
    OBVIOUS
  <2> QED BY <2>1, CountIsSum DEF Size
<1>2. Sum(a, D) + Sum(b, D) <= Sum(c, D) + Sum(d, D)
  BY SumsCompare
<1> QED BY <1>1, <1>2

\* A bag of nothing.
LEMMA SizeOfNothing ==
  ASSUME NEW D, IsFiniteSet(D), NEW bag \in [D -> Nat], \A x \in D : bag[x] = 0
  PROVE  Size(bag) = 0
<1>1. Size(bag) \in Nat /\ CountOf(bag, {}) \in Nat
  BY CountWithin
<1>2. CountOf(bag, {}) = 0
  <2>1. {} \cap DOMAIN bag = {} /\ \A x \in D : bag[x] \in Int
    OBVIOUS
  <2> QED BY <2>1, CountIsSum, SumChosen
<1>3. ~(Size(bag) > CountOf(bag, {}))
  BY CountBeyond
<1> QED BY <1>1, <1>2, <1>3
=============================================================================
