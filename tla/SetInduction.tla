---------------------------- MODULE SetInduction ----------------------------
(***************************************************************************)
(* Induction over numbers and finite sets, for what the modules compute    *)
(* with the folds of the community modules: sums over a set, and updates   *)
(* applied one after the other.  The library states induction for an       *)
(* operator; here it is stated for a set, the set of what has the property.*)
(***************************************************************************)
EXTENDS Integers, Sequences, FiniteSets, SequencesExt, FiniteSetTheorems,
        WellFoundedInduction, TLAPS

LEMMA LeastOfOrder ==
  ASSUME NEW R, IsWellFoundedOn(R, Nat),
         \A x, y \in Nat : y < x => <<y, x>> \in R,
         NEW S \in SUBSET Nat, S # {}
  PROVE  \E x \in S : \A y \in S : x <= y
<1>1. PICK x \in S : \A y \in S : ~ (<<y, x>> \in R)
  BY WFMin, Zenon
<1>2. ASSUME NEW y \in S PROVE x <= y
  <2>1. x \in Nat /\ y \in Nat
    OBVIOUS
  <2>2. ~(y < x)
    BY <1>1, <2>1
  <2> QED BY <2>1, <2>2
<1> QED BY <1>2

(* A set of numbers has a least one.                                       *)
LEMMA LeastNatural ==
  ASSUME NEW S \in SUBSET Nat, S # {}
  PROVE  \E x \in S : \A y \in S : x <= y
<1>1. \A x, y \in Nat : y < x => <<y, x>> \in OpToRel(<, Nat)
  BY DEF OpToRel
<1> QED BY <1>1, NatLessThanWellFounded, LeastOfOrder, Zenon

LEMMA NumberInduction ==
  ASSUME NEW T, 0 \in T, \A n \in Nat : n \in T => n + 1 \in T
  PROVE  \A n \in Nat : n \in T
<1> DEFINE Others == {n \in Nat : n \notin T}
<1> SUFFICES ASSUME Others # {} PROVE FALSE
  OBVIOUS
<1>1. PICK n \in Others : \A m \in Others : n <= m
  BY LeastNatural
<1>2. n - 1 \in Nat /\ (n - 1) + 1 = n
  BY <1>1
<1>3. n - 1 \in T
  BY <1>1, <1>2
<1> QED BY <1>1, <1>2, <1>3

LEMMA GreatestBelow ==
  ASSUME NEW S \in SUBSET Int, S # {}, NEW n \in Int, \A x \in S : x <= n
  PROVE  \E x \in S : \A y \in S : x >= y
<1> DEFINE T == {n - x : x \in S}
<1>1. T \in SUBSET Nat /\ T # {}
  <2>1. ASSUME NEW t \in T PROVE t \in Nat
    <3>1. PICK x \in S : t = n - x
      OBVIOUS
    <3>2. x \in Int /\ x <= n
      OBVIOUS
    <3> QED BY <3>1, <3>2
  <2>2. PICK x \in S : TRUE
    OBVIOUS
  <2>3. n - x \in T
    OBVIOUS
  <2> QED BY <2>1, <2>3
<1> HIDE DEF T
<1>2. PICK t \in T : \A y \in T : t <= y
  BY <1>1, LeastNatural
<1>3. PICK x \in S : t = n - x
  BY <1>2 DEF T
<1>4. ASSUME NEW y \in S PROVE x >= y
  <2>1. n - y \in T
    BY DEF T
  <2>2. t <= n - y
    BY <1>2, <2>1
  <2> QED BY <1>3, <2>2
<1> QED BY <1>4

(* A set of subsets of S that has {}, and every set it has all smaller     *)
(* sets of, has S.                                                         *)
LEMMA SubsetInduction ==
  ASSUME NEW S, IsFiniteSet(S), NEW T,
         ASSUME NEW s \in SUBSET S, \A t \in SUBSET s : t # s => t \in T
         PROVE  s \in T
  PROVE  \A s \in SUBSET S : s \in T
<1> DEFINE R == StrictSubsetOrdering(S)
           Others == {s \in SUBSET S : s \notin T}
<1>1. IsWellFoundedOn(R, SUBSET S)
  BY FS_StrictSubsetOrderingWellFounded, FS_FiniteSubsetsOfFinite
<1> SUFFICES ASSUME Others # {} PROVE FALSE
  OBVIOUS
<1>2. Others \subseteq SUBSET S
  OBVIOUS
<1>3. \E x \in Others : \A y \in Others : ~ (<<y, x>> \in R)
  <2> HIDE DEF R, Others
  <2> QED BY <1>1, <1>2, WFMin
<1>4. PICK s \in Others : \A y \in Others : ~ (<<y, s>> \in R)
  BY <1>3
<1>5. ASSUME NEW t \in SUBSET s, t # s PROVE t \in T
  BY <1>4, <1>5 DEF StrictSubsetOrdering
<1> QED BY <1>4, <1>5

(* A function on the subsets of S that is defined by what it is for a set  *)
(* with the element c[s] taken away, by way of an operation M on D.        *)
Recursive(g, sets, base, c, M) ==
  g = [s \in sets |-> IF s = {} THEN base ELSE M[<<c[s], g[s \ {c[s]}]>>]]

LEMMA RecursiveFunctionExists ==
  ASSUME NEW S, IsFiniteSet(S), NEW D, NEW base \in D,
         NEW c, \A s \in SUBSET S : s # {} => c[s] \in s,
         NEW M \in [S \X D -> D]
  PROVE  \E g \in [SUBSET S -> D] : Recursive(g, SUBSET S, base, c, M)
<1> DEFINE Upto(n) == {s \in SUBSET S : Cardinality(s) <= n}
           T == {n \in Nat : \E g \in [Upto(n) -> D] : Recursive(g, Upto(n), base, c, M)}
<1>1. \A s \in SUBSET S : IsFiniteSet(s) /\ Cardinality(s) \in Nat
  BY FS_Subset, FS_CardinalityType
<1>2. 0 \in T
  <2> DEFINE g == [s \in Upto(0) |-> base]
  <2>1. \A s \in Upto(0) : s = {}
    BY <1>1, FS_EmptySet
  <2>2. g \in [Upto(0) -> D] /\ Recursive(g, Upto(0), base, c, M)
    BY <2>1 DEF Recursive
  <2> QED BY <2>2
<1>3. ASSUME NEW n \in Nat, n \in T PROVE n + 1 \in T
  <2>1. PICK g \in [Upto(n) -> D] : Recursive(g, Upto(n), base, c, M)
    BY <1>3
  <2> DEFINE h == [s \in Upto(n + 1) |->
                     IF s = {} THEN base ELSE M[<<c[s], g[s \ {c[s]}]>>]]
  <2>2. ASSUME NEW s \in Upto(n + 1), s # {}
        PROVE  s \ {c[s]} \in Upto(n) /\ c[s] \in S
    <3>1. Cardinality(s \ {c[s]}) = Cardinality(s) - 1
      BY <1>1, <2>2, FS_RemoveElement
    <3> QED BY <1>1, <2>2, <3>1
  <2>3. \A s \in Upto(n) : s \in Upto(n + 1) /\ h[s] = g[s]
    <3>1. \A s \in Upto(n) : s \in Upto(n + 1)
      BY <1>1
    <3>2. \A s \in Upto(n) : g[s] = IF s = {} THEN base ELSE M[<<c[s], g[s \ {c[s]}]>>]
      BY <2>1 DEF Recursive
    <3> QED BY <3>1, <3>2
  <2>4. h \in [Upto(n + 1) -> D]
    BY <2>2
  <2>5. Recursive(h, Upto(n + 1), base, c, M)
    BY <2>2, <2>3 DEF Recursive
  <2> HIDE DEF h
  <2>6. \E f \in [Upto(n + 1) -> D] : Recursive(f, Upto(n + 1), base, c, M)
    BY <2>4, <2>5
  <2> HIDE DEF Upto
  <2> QED BY <2>6
<1>4. \A n \in Nat : n \in T
  <2> HIDE DEF T
  <2> QED BY <1>2, <1>3, NumberInduction
<1>5. Cardinality(S) \in Nat /\ Upto(Cardinality(S)) = SUBSET S
  BY FS_Subset, FS_CardinalityType
<1>6. Cardinality(S) \in T
  BY <1>4, <1>5
<1>7. \E g \in [Upto(Cardinality(S)) -> D] : Recursive(g, Upto(Cardinality(S)), base, c, M)
  BY <1>6
<1> HIDE DEF Upto
<1> QED BY <1>5, <1>7

---------------------------------------------------------------------------
(* Sums.                                                                   *)

SomeOf(s) == CHOOSE x \in s : TRUE

LEMMA SumUnfolds ==
  ASSUME NEW f, NEW S
  PROVE  SumFunctionOnSet(f, S) =
           (CHOOSE g : g = [s \in SUBSET S |->
              IF s = {} THEN 0 ELSE f[SomeOf(s)] + g[s \ {SomeOf(s)}]])[S]
BY Zenon DEF SumFunctionOnSet, FoldFunctionOnSet, MapThenFoldSet, SomeOf

(* A sum depends on the values at the elements of the set.                 *)
LEMMA SumOfEqual ==
  ASSUME NEW f, NEW h, NEW S, \A x \in S : f[x] = h[x]
  PROVE  SumFunctionOnSet(f, S) = SumFunctionOnSet(h, S)
<1>1. \A s \in SUBSET S : s # {} => SomeOf(s) \in S
  BY DEF SomeOf
<1>2. ASSUME NEW g
      PROVE  [s \in SUBSET S |-> IF s = {} THEN 0 ELSE f[SomeOf(s)] + g[s \ {SomeOf(s)}]] =
             [s \in SUBSET S |-> IF s = {} THEN 0 ELSE h[SomeOf(s)] + g[s \ {SomeOf(s)}]]
  BY <1>1
<1>3. (CHOOSE g : g = [s \in SUBSET S |->
         IF s = {} THEN 0 ELSE f[SomeOf(s)] + g[s \ {SomeOf(s)}]]) =
      (CHOOSE g : g = [s \in SUBSET S |->
         IF s = {} THEN 0 ELSE h[SomeOf(s)] + g[s \ {SomeOf(s)}]])
  BY <1>2
<1> QED BY <1>3, SumUnfolds

(* The function that sums up, for the subsets of S.                        *)
SumsOn(f, g, S) ==
  /\ g \in [SUBSET S -> Int]
  /\ \A s \in SUBSET S :
       g[s] = IF s = {} THEN 0 ELSE f[SomeOf(s)] + g[s \ {SomeOf(s)}]

LEMMA SumsExist ==
  ASSUME NEW S, IsFiniteSet(S), NEW f, \A x \in S : f[x] \in Int
  PROVE  \E g : SumsOn(f, g, S) /\ g[S] = SumFunctionOnSet(f, S)
<1> DEFINE c == [s \in SUBSET S |-> SomeOf(s)]
           M == [p \in S \X Int |-> f[p[1]] + p[2]]
           Def(g) == [s \in SUBSET S |->
                        IF s = {} THEN 0 ELSE f[SomeOf(s)] + g[s \ {SomeOf(s)}]]
<1>1. \A s \in SUBSET S : s # {} => SomeOf(s) \in s /\ c[s] = SomeOf(s)
  BY DEF SomeOf
<1>2. M \in [S \X Int -> Int]
  OBVIOUS
<1>3. PICK g \in [SUBSET S -> Int] : Recursive(g, SUBSET S, 0, c, M)
  <2>1. \A s \in SUBSET S : s # {} => c[s] \in s
    BY <1>1
  <2>2. 0 \in Int
    OBVIOUS
  <2> HIDE DEF M, c
  <2> QED BY <1>2, <2>1, <2>2, RecursiveFunctionExists, Zenon
<1>4. g = Def(g)
  <2>1. ASSUME NEW s \in SUBSET S, s # {}
        PROVE  M[<<c[s], g[s \ {c[s]}]>>] = f[SomeOf(s)] + g[s \ {SomeOf(s)}]
    BY <1>1, <1>3, <2>1
  <2> HIDE DEF M, c
  <2> QED BY <1>3, <2>1 DEF Recursive
(* The sum is a function that satisfies the equation, though another one   *)
(* than g for all that is known yet.                                       *)
<1>5. PICK h : h = Def(h) /\ h[S] = SumFunctionOnSet(f, S)
  <2>1. (CHOOSE h : h = Def(h)) = Def(CHOOSE h : h = Def(h))
    <3> HIDE DEF Def
    <3> QED BY <1>4
  <2> QED BY <2>1, SumUnfolds
<1>6. \A s \in SUBSET S : h[s] \in Int
  <2> DEFINE T == {s \in SUBSET S : h[s] \in Int}
  <2>1. ASSUME NEW s \in SUBSET S, \A t \in SUBSET s : t # s => t \in T
        PROVE  s \in T
    <3>1. h[s] = IF s = {} THEN 0 ELSE f[SomeOf(s)] + h[s \ {SomeOf(s)}]
      BY <1>5
    <3>2. CASE s # {}
      <4>1. s \ {SomeOf(s)} \in T /\ SomeOf(s) \in S
        BY <1>1, <2>1, <3>2
      <4> QED BY <3>1, <3>2, <4>1
    <3> QED BY <3>1, <3>2
  <2>2. \A s \in SUBSET S : s \in T
    <3> HIDE DEF T
    <3> QED BY <2>1, SubsetInduction
  <2> QED BY <2>2
<1>7. SumsOn(f, h, S)
  BY <1>5, <1>6 DEF SumsOn
<1> QED BY <1>5, <1>7

LEMMA SumsAgree ==
  ASSUME NEW S, IsFiniteSet(S), NEW R \in SUBSET S, NEW f, NEW g, NEW h,
         SumsOn(f, g, S), SumsOn(f, h, R)
  PROVE  g[R] = h[R]
<1> DEFINE T == {s \in SUBSET R : g[s] = h[s]}
<1>1. ASSUME NEW s \in SUBSET R, \A t \in SUBSET s : t # s => t \in T
      PROVE  s \in T
  <2>1. CASE s = {}
    BY <2>1 DEF SumsOn
  <2>2. CASE s # {}
    <3>1. SomeOf(s) \in s
      BY <2>2 DEF SomeOf
    <3>2. g[s \ {SomeOf(s)}] = h[s \ {SomeOf(s)}]
      BY <1>1, <3>1
    <3> QED BY <2>2, <3>2 DEF SumsOn
  <2> QED BY <2>1, <2>2
<1>2. IsFiniteSet(R)
  BY FS_Subset
<1>3. R \in T
  <2> HIDE DEF T
  <2> QED BY <1>1, <1>2, SubsetInduction
<1> QED BY <1>3

LEMMA SumType ==
  ASSUME NEW S, IsFiniteSet(S), NEW f, \A x \in S : f[x] \in Int
  PROVE  SumFunctionOnSet(f, S) \in Int
<1>1. PICK g : SumsOn(f, g, S) /\ g[S] = SumFunctionOnSet(f, S)
  BY SumsExist
<1> QED BY <1>1 DEF SumsOn

LEMMA SumOfNone == \A f : SumFunctionOnSet(f, {}) = 0
<1>1. IsFiniteSet({})
  BY FS_EmptySet
<1> QED BY <1>1, SumsExist DEF SumsOn

LEMMA SumOfFirst ==
  ASSUME NEW S, IsFiniteSet(S), S # {}, NEW f, \A x \in S : f[x] \in Int
  PROVE  SumFunctionOnSet(f, S) = f[SomeOf(S)] + SumFunctionOnSet(f, S \ {SomeOf(S)})
<1> DEFINE R == S \ {SomeOf(S)}
<1>1. PICK g : SumsOn(f, g, S) /\ g[S] = SumFunctionOnSet(f, S)
  BY SumsExist
<1>2. IsFiniteSet(R) /\ R \in SUBSET S
  BY FS_Subset
<1>3. PICK h : SumsOn(f, h, R) /\ h[R] = SumFunctionOnSet(f, R)
  BY <1>2, SumsExist
<1>4. g[R] = h[R]
  BY <1>1, <1>2, <1>3, SumsAgree
<1> QED BY <1>1, <1>3, <1>4 DEF SumsOn

(* Whatever element is taken out of a sum.                                 *)
LEMMA SumSplits ==
  ASSUME NEW S, IsFiniteSet(S), NEW f, \A x \in S : f[x] \in Int, NEW e \in S
  PROVE  SumFunctionOnSet(f, S) = f[e] + SumFunctionOnSet(f, S \ {e})
<1> DEFINE Sum(s) == SumFunctionOnSet(f, s)
           T == {s \in SUBSET S : \A x \in s : Sum(s) = f[x] + Sum(s \ {x})}
<1>1. \A s \in SUBSET S : IsFiniteSet(s) /\ Sum(s) \in Int
  BY FS_Subset, SumType
<1>2. \A s \in SUBSET S : s # {} => Sum(s) = f[SomeOf(s)] + Sum(s \ {SomeOf(s)})
  BY <1>1, SumOfFirst
<1> HIDE DEF Sum
<1>3. ASSUME NEW s \in SUBSET S, \A t \in SUBSET s : t # s => t \in T, NEW x \in s
      PROVE  Sum(s) = f[x] + Sum(s \ {x})
  <2> DEFINE y == SomeOf(s)
             rest == s \ {x, y}
  <2>1. y \in s
    BY DEF SomeOf
  <2>2. Sum(s) = f[y] + Sum(s \ {y})
    BY <1>2
  <2>3. CASE x = y
    BY <2>2, <2>3
  <2>4. CASE x # y
    <3>1. s \ {y} \in T /\ s \ {x} \in T /\ rest \in SUBSET S
      BY <1>3, <2>1
    <3>2. (s \ {y}) \ {x} = rest /\ (s \ {x}) \ {y} = rest
      OBVIOUS
    <3>3. Sum(s \ {y}) = f[x] + Sum(rest)
      BY <2>4, <3>1, <3>2
    <3>4. Sum(s \ {x}) = f[y] + Sum(rest)
      BY <2>1, <2>4, <3>1, <3>2
    <3>5. f[x] \in Int /\ f[y] \in Int /\ Sum(rest) \in Int
      BY <1>1, <2>1, <3>1
    <3> HIDE DEF y, rest
    <3> QED BY <2>2, <3>3, <3>4, <3>5
  <2> QED BY <2>3, <2>4
<1>4. \A s \in SUBSET S : s \in T
  <2>1. ASSUME NEW s \in SUBSET S, \A t \in SUBSET s : t # s => t \in T
        PROVE  s \in T
    BY <1>3, <2>1
  <2> HIDE DEF T
  <2> QED BY <2>1, SubsetInduction
<1> QED BY <1>4 DEF Sum

(* A sum of terms that are at most c.                                      *)
LEMMA SumOfSmall ==
  ASSUME NEW S, IsFiniteSet(S), NEW f, NEW c \in Int,
         \A x \in S : f[x] \in Int /\ f[x] <= c
  PROVE  SumFunctionOnSet(f, S) <= Cardinality(S) * c
<1> DEFINE Sum(s) == SumFunctionOnSet(f, s)
           T == {s \in SUBSET S : Sum(s) <= Cardinality(s) * c}
<1>1. \A s \in SUBSET S : IsFiniteSet(s) /\ Sum(s) \in Int /\ Cardinality(s) \in Nat
  BY FS_Subset, SumType, FS_CardinalityType
<1>2. ASSUME NEW s \in SUBSET S, \A r \in SUBSET s : r # s => r \in T
      PROVE  s \in T
  <2>1. CASE s = {}
    <3>1. Sum(s) = 0 /\ Cardinality(s) = 0
      BY <2>1, SumOfNone, FS_EmptySet
    <3> QED BY <3>1
  <2>2. CASE s # {}
    <3>1. PICK e \in s : TRUE
      BY <2>2
    <3> DEFINE r == s \ {e}
    <3>2. r \in T /\ r \in SUBSET S
      BY <1>2, <3>1
    <3>3. Sum(s) = f[e] + Sum(r)
      BY <1>1, <3>1, SumSplits
    <3>4. Cardinality(r) = Cardinality(s) - 1
      BY <1>1, <3>1, FS_RemoveElement
    <3>5. Sum(r) <= Cardinality(r) * c
      BY <3>2
    <3>6. PICK n \in Nat, m \in Int : n = Cardinality(r) /\ m = Sum(r)
      BY <1>1, <3>2
    <3>7. Cardinality(s) = n + 1
      BY <1>1, <3>4, <3>6
    <3>8. f[e] \in Int /\ f[e] <= c /\ m <= n * c /\ Sum(s) = f[e] + m
      BY <3>1, <3>3, <3>5, <3>6
    <3> HIDE DEF r, Sum
    <3>9. (n + 1) * c = n * c + c
      OBVIOUS
    <3>10. f[e] + m <= (n + 1) * c
      <4>1. PICK p \in Int : p = n * c
        OBVIOUS
      <4> QED BY <3>8, <3>9, <4>1
    <3> QED BY <3>7, <3>8, <3>10
  <2> QED BY <2>1, <2>2
<1> HIDE DEF T, Sum
<1>3. \A s \in SUBSET S : s \in T
  BY <1>2, SubsetInduction
<1> QED BY <1>3 DEF T, Sum

LEMMA SumOfDifferences ==
  ASSUME NEW S, IsFiniteSet(S), NEW f, NEW g,
         \A x \in S : f[x] \in Int /\ g[x] \in Int
  PROVE  SumFunctionOnSet([x \in S |-> f[x] - g[x]], S)
           = SumFunctionOnSet(f, S) - SumFunctionOnSet(g, S)
<1> DEFINE d == [x \in S |-> f[x] - g[x]]
           Sum(e, s) == SumFunctionOnSet(e, s)
           T == {s \in SUBSET S : Sum(d, s) = Sum(f, s) - Sum(g, s)}
<1>1. \A x \in S : d[x] \in Int /\ d[x] = f[x] - g[x]
  OBVIOUS
<1> HIDE DEF d
<1>2. ASSUME NEW s \in SUBSET S
      PROVE  IsFiniteSet(s) /\ Sum(d, s) \in Int /\ Sum(f, s) \in Int /\ Sum(g, s) \in Int
  <2>1. IsFiniteSet(s) /\ \A x \in s : d[x] \in Int /\ f[x] \in Int /\ g[x] \in Int
    BY <1>1, FS_Subset
  <2> QED BY <2>1, SumType
<1>3. ASSUME NEW s \in SUBSET S, \A r \in SUBSET s : r # s => r \in T
      PROVE  s \in T
  <2>1. CASE s = {}
    BY <2>1, SumOfNone
  <2>2. CASE s # {}
    <3>1. PICK e \in s : TRUE
      BY <2>2
    <3> DEFINE r == s \ {e}
    <3>2. r \in T /\ r \in SUBSET S
      BY <1>3, <3>1
    <3>3. Sum(d, s) = d[e] + Sum(d, r)
      <4>1. IsFiniteSet(s) /\ \A x \in s : d[x] \in Int
        BY <1>1, <1>2
      <4> QED BY <3>1, <4>1, SumSplits
    <3>4. Sum(f, s) = f[e] + Sum(f, r)
      <4>1. IsFiniteSet(s) /\ \A x \in s : f[x] \in Int
        BY <1>2
      <4> QED BY <3>1, <4>1, SumSplits
    <3>5. Sum(g, s) = g[e] + Sum(g, r)
      <4>1. IsFiniteSet(s) /\ \A x \in s : g[x] \in Int
        BY <1>2
      <4> QED BY <3>1, <4>1, SumSplits
    <3>6. Sum(d, r) = Sum(f, r) - Sum(g, r)
      BY <3>2
    <3>7. /\ f[e] \in Int /\ g[e] \in Int /\ d[e] = f[e] - g[e]
          /\ Sum(f, r) \in Int /\ Sum(g, r) \in Int
      BY <1>1, <1>2, <3>1, <3>2
    <3> HIDE DEF r, Sum
    <3>8. Sum(d, s) = Sum(f, s) - Sum(g, s)
      BY <3>3, <3>4, <3>5, <3>6, <3>7
    <3> QED BY <3>8
  <2> QED BY <2>1, <2>2
<1> HIDE DEF T, Sum
<1>4. \A s \in SUBSET S : s \in T
  BY <1>3, SubsetInduction
<1> QED BY <1>4 DEF T, Sum, d

(* A sequence with one more term.                                          *)
LEMMA SumOfOneMore ==
  ASSUME NEW n \in Nat, NEW f, DOMAIN f = 1..n, NEW g, DOMAIN g = 1..(n + 1),
         \A k \in 1..(n + 1) : g[k] \in Int, \A k \in 1..n : f[k] = g[k]
  PROVE  SumFunction(g) = SumFunction(f) + g[n + 1] /\ SumFunction(f) \in Int
<1>1. IsFiniteSet(1..n) /\ IsFiniteSet(1..(n + 1))
  BY FS_Interval
<1>2. n + 1 \in 1..(n + 1) /\ 1..(n + 1) \ {n + 1} = 1..n
  OBVIOUS
<1>3. SumFunctionOnSet(g, 1..(n + 1)) = g[n + 1] + SumFunctionOnSet(g, 1..n)
  BY <1>1, <1>2, SumSplits
<1>4. SumFunctionOnSet(g, 1..n) = SumFunctionOnSet(f, 1..n)
  BY SumOfEqual
<1>5. SumFunctionOnSet(f, 1..n) \in Int
  <2>1. \A k \in 1..n : f[k] \in Int
    <3>1. \A k \in 1..n : k \in 1..(n + 1)
      OBVIOUS
    <3> QED BY <3>1
  <2> QED BY <1>1, <2>1, SumType
<1>6. /\ SumFunction(g) = SumFunctionOnSet(g, 1..(n + 1))
      /\ SumFunction(f) = SumFunctionOnSet(f, 1..n)
  BY DEF SumFunction
<1>7. g[n + 1] \in Int
  BY <1>2
<1> QED BY <1>3, <1>4, <1>5, <1>6, <1>7

---------------------------------------------------------------------------
(* Folding a sequence from the left.                                       *)

(* The function a fold chooses, for an operation M on D.                   *)
FoldsOver(g, n, base, M) ==
  g = [s \in SUBSET (1..n) |-> IF s = {} THEN base
                               ELSE M[<<Max(s), g[s \ {Max(s)}]>>]]

LEMMA MaxOfNumbers ==
  ASSUME NEW n \in Nat, NEW s \in SUBSET (1..n), s # {}
  PROVE  Max(s) \in s /\ \A x \in s : x <= Max(s)
<1>1. s \in SUBSET Int /\ (\A x \in s : x <= n) /\ n \in Int
  OBVIOUS
<1>2. \E x \in s : \A y \in s : x >= y
  BY <1>1, GreatestBelow, Zenon
<1>3. Max(s) \in s /\ \A y \in s : Max(s) >= y
  BY <1>2 DEF Max
<1>4. \A y \in s : y \in Int
  BY <1>1
<1> QED BY <1>3, <1>4

LEMMA FoldExists ==
  ASSUME NEW n \in Nat, NEW D, NEW base \in D, NEW M \in [(1..n) \X D -> D]
  PROVE  \E g \in [SUBSET (1..n) -> D] : FoldsOver(g, n, base, M)
<1> DEFINE S == 1..n
           c == [s \in SUBSET S |-> Max(s)]
<1>1. IsFiniteSet(S)
  BY FS_Interval
<1>2. \A s \in SUBSET S : s # {} => c[s] \in s /\ c[s] = Max(s)
  BY MaxOfNumbers
<1>3. PICK g \in [SUBSET S -> D] : Recursive(g, SUBSET S, base, c, M)
  <2>1. \A s \in SUBSET S : s # {} => c[s] \in s
    BY <1>2
  <2> HIDE DEF c, S
  <2> QED BY <1>1, <2>1, RecursiveFunctionExists, Zenon DEF S
<1>4. FoldsOver(g, n, base, M)
  <2>1. \A s \in SUBSET S : c[s] = Max(s)
    OBVIOUS
  <2> HIDE DEF c
  <2> QED BY <1>3, <2>1 DEF Recursive, FoldsOver
<1> QED BY <1>3, <1>4

(* The values of the fold on longer and longer prefixes.                   *)
(* The values that a fold g goes through.                                  *)
FoldSteps(e, g, n, D, base, M) ==
  /\ e \in [0..n -> D]
  /\ e[0] = base
  /\ \A k \in 1..n : e[k] = M[<<k, e[k - 1]>>]
  /\ g[1..n] = e[n]

LEMMA FoldsInSteps ==
  ASSUME NEW n \in Nat, NEW D, NEW base \in D, NEW M \in [(1..n) \X D -> D],
         NEW g, FoldsOver(g, n, base, M)
  PROVE  \E e : FoldSteps(e, g, n, D, base, M)
<1> DEFINE e == [k \in 0..n |-> g[1..k]]
           T == {k \in Nat : k <= n => e[k] \in D}
<1>1. e[0] = base
  <2>1. 1..0 = {} /\ {} \in SUBSET (1..n) /\ 0 \in 0..n
    OBVIOUS
  <2> QED BY <2>1 DEF FoldsOver
<1>2. ASSUME NEW k \in 1..n
      PROVE  e[k] = M[<<k, e[k - 1]>>]
  <2>1. /\ 1..k \in SUBSET (1..n) /\ 1..k # {} /\ k \in 1..k
        /\ (1..k) \ {k} = 1..(k - 1) /\ k - 1 \in 0..n /\ k \in 0..n
    OBVIOUS
  <2>2. Max(1..k) = k
    <3>1. Max(1..k) \in 1..k /\ k <= Max(1..k)
      BY <2>1, MaxOfNumbers
    <3> QED BY <3>1
  <2> QED BY <2>1, <2>2 DEF FoldsOver
<1>3. 0 \in T
  BY <1>1
<1>4. ASSUME NEW k \in Nat, k \in T PROVE k + 1 \in T
  <2>1. CASE k + 1 <= n
    <3>1. k + 1 \in 1..n /\ (k + 1) - 1 = k /\ k <= n
      BY <2>1
    <3>2. e[k + 1] = M[<<k + 1, e[k]>>]
      BY <1>2, <3>1
    <3>3. e[k] \in D
      BY <1>4, <3>1
    <3> HIDE DEF e
    <3> QED BY <3>1, <3>2, <3>3
  <2>2. CASE ~(k + 1 <= n)
    BY <2>2
  <2> QED BY <2>1, <2>2
<1>5. \A k \in Nat : k \in T
  <2> HIDE DEF T
  <2> QED BY <1>3, <1>4, NumberInduction
<1>6. e \in [0..n -> D]
  <2>1. ASSUME NEW k \in 0..n PROVE e[k] \in D
    <3>1. k \in Nat /\ k <= n
      OBVIOUS
    <3> HIDE DEF e
    <3>2. k \in T
      <4> HIDE DEF T
      <4> QED BY <1>5, <3>1
    <3> QED BY <3>1, <3>2
  <2>2. e = [k \in 0..n |-> e[k]]
    OBVIOUS
  <2> HIDE DEF e
  <2> QED BY <2>1, <2>2
<1>7. g[1..n] = e[n]
  OBVIOUS
<1> HIDE DEF e
<1> QED BY <1>1, <1>2, <1>6, <1>7 DEF FoldSteps
=============================================================================
