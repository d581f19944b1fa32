--------------------------- MODULE SwapPlanProofs ---------------------------
(***************************************************************************)
(* What planSwapLegs returns, for any number of assets, any holdings and   *)
(* any targets: the sellers and the buyers are the overweight and the      *)
(* underweight assets, each once; the matching loop is an iteration that   *)
(* ends a turn with every trade; so a plan has fewer legs than assets, and *)
(* each leg moves at least Dust from an overweight to an underweight one.  *)
(* The amounts of its legs add up to at most what is due of each asset,    *)
(* and the wallet it leaves plans nothing more and is near its targets.    *)
(***************************************************************************)
EXTENDS SwapPlan, SequenceTheorems, SetInduction

---------------------------------------------------------------------------
(* The order of the sellers and of the buyers.                             *)

(* How many elements of S are before each in the order R.                  *)
Rank(S, R) == [a \in S |-> Cardinality({b \in S : <<b, a>> \in R})]

(* In a finite set with a strict total order R, each element has a rank of *)
(* its own, and each rank below the size of the set is taken.              *)
LEMMA RanksAreTaken ==
  ASSUME NEW S, IsFiniteSet(S), NEW R,
         \A a, b \in S : a # b => <<a, b>> \in R \/ <<b, a>> \in R,
         \A a \in S : <<a, a>> \notin R,
         \A a, b, c \in S : <<a, b>> \in R /\ <<b, c>> \in R => <<a, c>> \in R
  PROVE  /\ Rank(S, R) \in [S -> 0..(Cardinality(S) - 1)]
         /\ \A a, b \in S : a # b => Rank(S, R)[a] # Rank(S, R)[b]
         /\ \A k \in 0..(Cardinality(S) - 1) : \E a \in S : Rank(S, R)[a] = k
<1> DEFINE rank == Rank(S, R)
           before(a) == {b \in S : <<b, a>> \in R}
           n == Cardinality(S)
<1>1. n \in Nat
  BY FS_CardinalityType
<1>2. \A a \in S : IsFiniteSet(before(a)) /\ Cardinality(before(a)) \in Nat
  <2> TAKE a \in S
  <2>1. before(a) \in SUBSET S
    OBVIOUS
  <2> HIDE DEF before
  <2> QED BY <2>1, FS_Subset, FS_CardinalityType
<1>3. \A a, b \in S : <<a, b>> \in R => Cardinality(before(a)) < Cardinality(before(b))
  <2> SUFFICES ASSUME NEW a \in S, NEW b \in S, <<a, b>> \in R
               PROVE  Cardinality(before(a)) < Cardinality(before(b))
    OBVIOUS
  <2>1. before(a) \in SUBSET before(b) /\ before(a) # before(b)
    OBVIOUS
  <2> HIDE DEF before
  <2>2. /\ Cardinality(before(a)) <= Cardinality(before(b))
        /\ Cardinality(before(b)) = Cardinality(before(a)) => before(b) = before(a)
    BY <1>2, <2>1, FS_Subset
  <2> QED BY <1>2, <2>1, <2>2
<1>4. \A a \in S : Cardinality(before(a)) < n
  <2> TAKE a \in S
  <2>1. before(a) \in SUBSET S /\ before(a) # S
    OBVIOUS
  <2> HIDE DEF before
  <2>2. Cardinality(before(a)) <= n /\ (n = Cardinality(before(a)) => S = before(a))
    BY <2>1, FS_Subset
  <2> QED BY <1>1, <1>2, <2>1, <2>2
<1>5. \A a \in S : rank[a] = Cardinality(before(a))
  BY DEF Rank
<1> HIDE DEF before
<1>6. rank \in [S -> 0..(n - 1)]
  <2>1. \A a \in S : rank[a] \in 0..(n - 1)
    BY <1>1, <1>2, <1>4, <1>5
  <2>2. rank = [a \in S |-> rank[a]]
    BY DEF Rank
  <2> HIDE DEF n, rank
  <2> QED BY <2>1, <2>2
<1>7. \A a, b \in S : a # b => rank[a] # rank[b]
  <2> SUFFICES ASSUME NEW a \in S, NEW b \in S, a # b
               PROVE  rank[a] # rank[b]
    OBVIOUS
  <2>1. <<a, b>> \in R \/ <<b, a>> \in R
    OBVIOUS
  <2>2. \/ Cardinality(before(a)) < Cardinality(before(b))
        \/ Cardinality(before(b)) < Cardinality(before(a))
    BY <1>3, <2>1
  <2>3. Cardinality(before(a)) \in Nat /\ Cardinality(before(b)) \in Nat
    BY <1>2
  <2> QED BY <1>5, <2>2, <2>3
<1>8. rank \in Surjection(S, 0..(n - 1))
  <2>1. rank \in Injection(S, 0..(n - 1))
    <3>1. DOMAIN rank = S
      BY <1>6
    <3>2. IsInjective(rank)
      BY <1>7, <3>1 DEF IsInjective
    <3> HIDE DEF rank, n
    <3> QED BY <1>6, <3>2 DEF Injection
  <2>2. IsFiniteSet(0..(n - 1)) /\ Cardinality(0..(n - 1)) = n
    <3>1. 0 \in Int /\ n - 1 \in Int
      BY <1>1
    <3>2. /\ IsFiniteSet(0..(n - 1))
          /\ Cardinality(0..(n - 1)) = IF 0 > n - 1 THEN 0 ELSE (n - 1) - 0 + 1
      BY <3>1, FS_Interval
    <3> QED BY <1>1, <3>2
  <2> QED BY <2>1, <2>2, FS_Injection
<1>9. \A k \in 0..(n - 1) : \E a \in S : rank[a] = k
  BY <1>8 DEF Surjection
<1> QED BY <1>6, <1>7, <1>9

Orders == [Assets -> Int]

LEMMA AssetsAreFinite ==
  /\ IsFiniteSet(Assets) /\ Cardinality(Assets) = NumAssets
  /\ NumAssets \in Nat /\ NumAssets >= 2 /\ Assets = 1..NumAssets
<1>1. NumAssets \in Nat /\ NumAssets >= 2 /\ 1 \in Int /\ NumAssets \in Int
  BY NumAssetsAssumption
<1>2. /\ IsFiniteSet(1..NumAssets)
      /\ Cardinality(1..NumAssets) = IF 1 > NumAssets THEN 0 ELSE NumAssets - 1 + 1
  BY <1>1, FS_Interval
<1> QED BY <1>1, <1>2 DEF Assets

(* Sells is the overweight assets, each once.                              *)
LEMMA SellsAreOverweight ==
  ASSUME NEW h \in Orders, NEW t \in Orders
  PROVE  /\ IsFiniteSet(Overweight(h, t)) /\ Cardinality(Overweight(h, t)) \in Nat
         /\ Sells(h, t) \in Seq(Overweight(h, t))
         /\ Len(Sells(h, t)) = Cardinality(Overweight(h, t))
         /\ \A k, m \in 1..Len(Sells(h, t)) : k # m => Sells(h, t)[k] # Sells(h, t)[m]
         /\ \A a \in Overweight(h, t) : \E k \in 1..Len(Sells(h, t)) : Sells(h, t)[k] = a
<1> DEFINE S == Overweight(h, t)
           R == {p \in Assets \X Assets : Before(p[1], p[2], h, t)}
           rank == Rank(S, R)
           n == Cardinality(S)
<1>1. S \in SUBSET Assets /\ IsFiniteSet(S) /\ n \in Nat
  BY AssetsAreFinite, FS_Subset, FS_CardinalityType DEF Overweight
<1>2. \A a, b \in S : <<a, b>> \in R <=> Before(a, b, h, t)
  BY <1>1
<1>3. \A a \in Assets : h[a] - t[a] \in Int /\ a \in Int
  BY DEF Orders, Assets
<1>4. /\ \A a, b \in S : a # b => <<a, b>> \in R \/ <<b, a>> \in R
      /\ \A a \in S : <<a, a>> \notin R
      /\ \A a, b, c \in S : <<a, b>> \in R /\ <<b, c>> \in R => <<a, c>> \in R
  <2> HIDE DEF S, R
  <2>1. \A a, b \in S : <<a, b>> \in R <=>
          \/ h[a] - t[a] > h[b] - t[b]
          \/ h[a] - t[a] = h[b] - t[b] /\ a < b
    BY <1>2 DEF Before
  <2>2. \A a \in S : h[a] - t[a] \in Int /\ a \in Int
    BY <1>1, <1>3
  <2>3. \A a, b \in S : a # b => <<a, b>> \in R \/ <<b, a>> \in R
    BY <2>1, <2>2
  <2>4. \A a \in S : <<a, a>> \notin R
    BY <2>1, <2>2
  <2>5. ASSUME NEW a \in S, NEW b \in S, NEW c \in S, <<a, b>> \in R, <<b, c>> \in R
        PROVE  <<a, c>> \in R
    BY <2>1, <2>2, <2>5
  <2> QED BY <2>3, <2>4, <2>5
<1>5. /\ rank \in [S -> 0..(n - 1)]
      /\ \A a, b \in S : a # b => rank[a] # rank[b]
      /\ \A k \in 0..(n - 1) : \E a \in S : rank[a] = k
  <2> HIDE DEF S, R
  <2>2. IsFiniteSet(S)
    BY <1>1
  <2> QED BY <1>4, <2>2, RanksAreTaken
<1>6. \A a \in S : rank[a] = Cardinality({b \in S : Before(b, a, h, t)})
  <2> TAKE a \in S
  <2>1. {b \in S : <<b, a>> \in R} = {b \in S : Before(b, a, h, t)}
    BY <1>2
  <2> HIDE DEF S, R
  <2> QED BY <2>1 DEF Rank
<1>7. Sells(h, t) = [k \in 1..n |->
         CHOOSE a \in S : Cardinality({b \in S : Before(b, a, h, t)}) = k - 1]
  BY DEF Sells
<1> HIDE DEF S, R, rank, n
<1>8. \A k \in 1..n : Sells(h, t)[k] \in S /\ rank[Sells(h, t)[k]] = k - 1
  <2> SUFFICES ASSUME NEW k \in 1..n
               PROVE  Sells(h, t)[k] \in S /\ rank[Sells(h, t)[k]] = k - 1
    OBVIOUS
  <2>1. k - 1 \in 0..(n - 1)
    BY <1>1
  <2>2. \E a \in S : Cardinality({b \in S : Before(b, a, h, t)}) = k - 1
    BY <1>5, <1>6, <2>1
  <2>3. Sells(h, t)[k] = CHOOSE a \in S : Cardinality({b \in S : Before(b, a, h, t)}) = k - 1
    BY <1>7
  <2>4. /\ Sells(h, t)[k] \in S
        /\ Cardinality({b \in S : Before(b, Sells(h, t)[k], h, t)}) = k - 1
    BY <2>2, <2>3
  <2> QED BY <1>6, <2>4
<1>9. Sells(h, t) \in Seq(S) /\ Len(Sells(h, t)) = n
  <2>1. Sells(h, t) \in [1..n -> S]
    <3>1. Sells(h, t) = [k \in 1..n |-> Sells(h, t)[k]]
      BY <1>7
    <3> QED BY <1>8, <3>1
  <2> QED BY <1>1, <2>1, IsASeq
<1>10. \A k, m \in 1..n : k # m => Sells(h, t)[k] # Sells(h, t)[m]
  <2>1. \A k, m \in 1..n : k # m => k - 1 # m - 1
    BY <1>1
  <2> QED BY <1>8, <2>1
<1>11. ASSUME NEW a \in S
       PROVE  \E k \in 1..n : Sells(h, t)[k] = a
  <2>1. rank[a] \in 0..(n - 1)
    BY <1>5, <1>11
  <2>2. rank[a] + 1 \in 1..n /\ (rank[a] + 1) - 1 = rank[a]
    BY <1>1, <2>1
  <2>3. Sells(h, t)[rank[a] + 1] \in S /\ rank[Sells(h, t)[rank[a] + 1]] = rank[a]
    BY <1>8, <2>2
  <2> QED BY <1>5, <1>11, <2>2, <2>3
<1> QED BY <1>1, <1>9, <1>10, <1>11 DEF S, n

---------------------------------------------------------------------------
(* The loop as a sequence of states.                                       *)

(* A function on the numbers that is defined by what it is for the number  *)
(* before exists, when each of its values is in D.                         *)
LEMMA IterationExists ==
  ASSUME NEW D, NEW base \in D, NEW M \in [D -> D]
  PROVE  \E g \in [Nat -> D] :
           g = [n \in Nat |-> IF n = 0 THEN base ELSE M[g[n - 1]]]
<1> DEFINE Run(f, n) == f[0] = base /\ \A k \in 1..n : f[k] = M[f[k - 1]]
           T == {n \in Nat : \E f \in [0..n -> D] : Run(f, n)}
           r == [n \in Nat |-> CHOOSE f \in [0..n -> D] : Run(f, n)]
           g == [n \in Nat |-> r[n][n]]
<1>1. \A n \in Nat : n \in T
  <2>1. 0 \in T
    <3>1. [k \in 0..0 |-> base] \in [0..0 -> D] /\ Run([k \in 0..0 |-> base], 0)
      OBVIOUS
    <3> HIDE DEF Run
    <3> QED BY <3>1
  <2>2. ASSUME NEW n \in Nat, n \in T
        PROVE  n + 1 \in T
    <3>1. PICK f \in [0..n -> D] : Run(f, n)
      BY <2>2
    <3> DEFINE e == [k \in 0..(n + 1) |-> IF k = n + 1 THEN M[f[n]] ELSE f[k]]
    <3>2. e \in [0..(n + 1) -> D]
      <4>1. \A k \in 0..(n + 1) : e[k] \in D
        <5> TAKE k \in 0..(n + 1)
        <5>1. n \in 0..n /\ (k # n + 1 => k \in 0..n)
          OBVIOUS
        <5> QED BY <5>1
      <4> QED BY <4>1
    <3>3. Run(e, n + 1)
      <4>1. e[0] = base
        BY <3>1
      <4>2. ASSUME NEW k \in 1..(n + 1) PROVE e[k] = M[e[k - 1]]
        <5>1. k - 1 \in 0..n /\ k - 1 # n + 1 /\ k - 1 \in 0..(n + 1) /\ k \in 0..(n + 1)
          OBVIOUS
        <5>2. e[k - 1] = f[k - 1]
          BY <5>1
        <5>3. CASE k = n + 1
          BY <5>1, <5>2, <5>3
        <5>4. CASE k # n + 1
          <6>1. k \in 1..n
            BY <5>4
          <6> QED BY <3>1, <5>1, <5>2, <5>4, <6>1
        <5> QED BY <5>3, <5>4
      <4> QED BY <4>1, <4>2
    <3> HIDE DEF Run, e
    <3> QED BY <2>2, <3>2, <3>3
  <2> HIDE DEF T
  <2> QED BY <2>1, <2>2, NumberInduction
<1>2. \A n \in Nat : r[n] \in [0..n -> D] /\ Run(r[n], n)
  <2> HIDE DEF Run
  <2> QED BY <1>1
<1> HIDE DEF r, T
<1>3. ASSUME NEW n \in Nat PROVE r[n + 1][n] = r[n][n]
  <2> DEFINE same == {k \in Nat : k <= n => r[n + 1][k] = r[n][k]}
  <2>1. n + 1 \in Nat
    OBVIOUS
  <2>2. 0 \in same
    BY <1>2, <2>1
  <2>3. ASSUME NEW k \in Nat, k \in same PROVE k + 1 \in same
    <3>1. CASE k + 1 <= n
      <4>1. k + 1 \in 1..n /\ k + 1 \in 1..(n + 1) /\ (k + 1) - 1 = k /\ k <= n
        BY <3>1
      <4>2. r[n + 1][k + 1] = M[r[n + 1][k]] /\ r[n][k + 1] = M[r[n][k]]
        <5>1. Run(r[n + 1], n + 1) /\ Run(r[n], n)
          BY <1>2, <2>1
        <5> QED BY <4>1, <5>1
      <4> QED BY <2>3, <4>1, <4>2
    <3> QED BY <3>1
  <2> HIDE DEF same
  <2>4. \A k \in Nat : k \in same
    BY <2>2, <2>3, NumberInduction
  <2> QED BY <2>4 DEF same
<1>4. g \in [Nat -> D]
  <2>1. \A n \in Nat : r[n][n] \in D
    BY <1>2
  <2> QED BY <2>1
<1>5. ASSUME NEW n \in Nat PROVE g[n] = IF n = 0 THEN base ELSE M[g[n - 1]]
  <2>1. CASE n = 0
    BY <1>2, <2>1
  <2>2. CASE n # 0
    <3>1. n - 1 \in Nat /\ (n - 1) + 1 = n /\ n \in 1..n
      BY <2>2
    <3>2. r[n][n] = M[r[n][n - 1]]
      BY <1>2, <3>1
    <3>3. r[n][n - 1] = r[n - 1][n - 1]
      BY <1>3, <3>1
    <3> QED BY <2>2, <3>1, <3>2, <3>3
  <2> QED BY <2>1, <2>2
<1>6. g = [n \in Nat |-> IF n = 0 THEN base ELSE M[g[n - 1]]]
  <2> DEFINE e == [n \in Nat |-> IF n = 0 THEN base ELSE M[g[n - 1]]]
  <2>1. \A n \in Nat : g[n] = e[n]
    BY <1>5
  <2>2. g = [n \in Nat |-> g[n]] /\ e = [n \in Nat |-> e[n]]
    OBVIOUS
  <2> HIDE DEF g, e
  <2>3. g = e
    BY <2>1, <2>2
  <2> QED BY <2>3 DEF e
<1> HIDE DEF g
<1> QED BY <1>4, <1>6

LoopStart(h, t) ==
  [i |-> 1, j |-> 1,
   left |-> TurnOf(1, Sells(h, t), h, t, 0),
   need |-> TurnOf(1, Buys(h, t), t, h, 0), legs |-> <<>>]

LoopStep(s, h, t) == MatchStep(s, Sells(h, t), Buys(h, t), h, t)

(* What the loop of PlanSwapLegs starts with and every step keeps holds of *)
(* each of its states, and the plan is that of the last one.               *)
LEMMA LoopStates ==
  ASSUME NEW h, NEW t, NEW D, LoopStart(h, t) \in D,
         \A s \in D : LoopStep(s, h, t) \in D
  PROVE  \E g \in [Nat -> D] :
           /\ g[0] = LoopStart(h, t)
           /\ \A n \in Nat : g[n + 1] = LoopStep(g[n], h, t)
           /\ PlanSwapLegs(h, t) =
                IF TotalValue(h) = 0 \/ Sells(h, t) = <<>> \/ Buys(h, t) = <<>>
                THEN <<>> ELSE g[Len(Sells(h, t)) + Len(Buys(h, t))].legs
<1> DEFINE start == LoopStart(h, t)
           Def(g) == [n \in Nat |-> IF n = 0 THEN start ELSE LoopStep(g[n - 1], h, t)]
           loop == CHOOSE g : g = Def(g)
           M == [s \in D |-> LoopStep(s, h, t)]
<1>1. PICK f \in [Nat -> D] : f = [n \in Nat |-> IF n = 0 THEN start ELSE M[f[n - 1]]]
  <2>1. M \in [D -> D]
    OBVIOUS
  <2> HIDE DEF M
  <2> QED BY <2>1, IterationExists
<1>2. f = Def(f)
  <2>1. \A n \in Nat : n # 0 => n - 1 \in Nat /\ M[f[n - 1]] = LoopStep(f[n - 1], h, t)
    OBVIOUS
  <2> HIDE DEF M
  <2>2. [n \in Nat |-> IF n = 0 THEN start ELSE M[f[n - 1]]] = Def(f)
    BY <2>1
  <2> HIDE DEF Def
  <2> QED BY <1>1, <2>2
<1>3. loop = Def(loop)
  <2> HIDE DEF Def
  <2> QED BY <1>2
<1>4. PlanSwapLegs(h, t) =
        IF TotalValue(h) = 0 \/ Sells(h, t) = <<>> \/ Buys(h, t) = <<>>
        THEN <<>> ELSE loop[Len(Sells(h, t)) + Len(Buys(h, t))].legs
  BY Zenon DEF PlanSwapLegs, LoopStart, LoopStep
<1> HIDE DEF loop
<1>5. loop[0] = start
  <2>1. Def(loop)[0] = start
    OBVIOUS
  <2> HIDE DEF Def, start
  <2> QED BY <1>3, <2>1
<1>6. ASSUME NEW n \in Nat PROVE loop[n + 1] = LoopStep(loop[n], h, t)
  <2>1. n + 1 \in Nat /\ n + 1 # 0 /\ (n + 1) - 1 = n
    OBVIOUS
  <2>2. Def(loop)[n + 1] = LoopStep(loop[n], h, t)
    BY <2>1
  <2> HIDE DEF Def
  <2> QED BY <1>3, <2>2
<1>7. \A n \in Nat : loop[n] \in D
  <2> DEFINE T == {n \in Nat : loop[n] \in D}
  <2>1. 0 \in T
    BY <1>5
  <2>2. \A n \in Nat : n \in T => n + 1 \in T
    BY <1>6
  <2> HIDE DEF T
  <2>3. \A n \in Nat : n \in T
    BY <2>1, <2>2, NumberInduction
  <2> QED BY <2>3 DEF T
<1>8. loop \in [Nat -> D]
  <2>1. loop = [n \in Nat |-> loop[n]]
    <3>1. Def(loop) = [n \in Nat |-> Def(loop)[n]]
      OBVIOUS
    <3> HIDE DEF Def
    <3> QED BY <1>3, <3>1
  <2> QED BY <1>7, <2>1
<1> QED BY <1>4, <1>5, <1>6, <1>8

---------------------------------------------------------------------------
(* What each state of the loop has.                                        *)

LoopState == [i : Nat, j : Nat, left : Int, need : Int, legs : Seq(Leg)]

(* A leg from an overweight to an underweight asset, which is not dust.    *)
GoodLeg(leg, h, t) ==
  /\ leg \in Leg
  /\ leg.value >= Dust
  /\ leg.from \in Overweight(h, t)
  /\ leg.to \in Overweight(t, h)

(* Who is still to trade has more than dust left, and each leg has ended   *)
(* the turn of a seller or of a buyer.                                     *)
LoopShape(h, t) ==
  {s \in LoopState :
     /\ s.i \in 1..(Len(Sells(h, t)) + 1)
     /\ s.j \in 1..(Len(Buys(h, t)) + 1)
     /\ s.i <= Len(Sells(h, t)) => s.left >= Dust
     /\ s.j <= Len(Buys(h, t)) => s.need >= Dust
     /\ Len(s.legs) <= s.i + s.j - 2
     /\ Len(s.legs) < Len(Sells(h, t)) + Len(Buys(h, t))
     /\ \A k \in DOMAIN s.legs : GoodLeg(s.legs[k], h, t)}

(* The two sides, as SellsAreOverweight describes them.                    *)
LEMMA SidesOfPlan ==
  ASSUME NEW h \in Orders, NEW t \in Orders
  PROVE  /\ Len(Sells(h, t)) \in Nat /\ Len(Buys(h, t)) \in Nat
         /\ \A k \in 1..Len(Sells(h, t)) :
              /\ Sells(h, t)[k] \in Overweight(h, t)
              /\ h[Sells(h, t)[k]] - t[Sells(h, t)[k]] \in Int
              /\ h[Sells(h, t)[k]] - t[Sells(h, t)[k]] > Dust
         /\ \A k \in 1..Len(Buys(h, t)) :
              /\ Buys(h, t)[k] \in Overweight(t, h)
              /\ t[Buys(h, t)[k]] - h[Buys(h, t)[k]] \in Int
              /\ t[Buys(h, t)[k]] - h[Buys(h, t)[k]] > Dust
<1>1. ASSUME NEW x \in Orders, NEW y \in Orders
      PROVE  /\ Len(Sells(x, y)) \in Nat
             /\ \A k \in 1..Len(Sells(x, y)) :
                  /\ Sells(x, y)[k] \in Overweight(x, y)
                  /\ x[Sells(x, y)[k]] - y[Sells(x, y)[k]] \in Int
                  /\ x[Sells(x, y)[k]] - y[Sells(x, y)[k]] > Dust
  <2>1. Sells(x, y) \in Seq(Overweight(x, y)) /\ Len(Sells(x, y)) \in Nat
    BY SellsAreOverweight
  <2>2. \A k \in 1..Len(Sells(x, y)) : Sells(x, y)[k] \in Overweight(x, y)
    BY <2>1, ElementOfSeq
  <2>3. \A a \in Overweight(x, y) : x[a] - y[a] \in Int /\ x[a] - y[a] > Dust
    BY DEF Overweight, Orders
  <2> QED BY <2>1, <2>2, <2>3
<1> QED BY <1>1 DEF Buys

LEMMA SidesAreSeqs ==
  ASSUME NEW h \in Orders, NEW t \in Orders
  PROVE  Len(Sells(h, t)) \in Nat /\ Len(Buys(h, t)) \in Nat
  BY SidesOfPlan

LEMMA DustIsPositive == Dust \in Nat /\ Dust > 0
  BY DustAssumption

(* The first state.                                                        *)
LEMMA LoopStartsWell ==
  ASSUME NEW h \in Orders, NEW t \in Orders,
         Len(Sells(h, t)) > 0, Len(Buys(h, t)) > 0
  PROVE  /\ LoopStart(h, t) \in LoopShape(h, t)
         /\ LoopStart(h, t).i = 1 /\ LoopStart(h, t).j = 1
         /\ LoopStart(h, t).legs = <<>>
         /\ LoopStart(h, t).left = h[Sells(h, t)[1]] - t[Sells(h, t)[1]]
         /\ LoopStart(h, t).need = t[Buys(h, t)[1]] - h[Buys(h, t)[1]]
<1> DEFINE left == h[Sells(h, t)[1]] - t[Sells(h, t)[1]]
           need == t[Buys(h, t)[1]] - h[Buys(h, t)[1]]
<1>1. 1 \in 1..Len(Sells(h, t)) /\ 1 \in 1..Len(Buys(h, t))
  BY SidesOfPlan
<1>2. left \in Int /\ need \in Int /\ left > Dust /\ need > Dust
  BY <1>1, SidesOfPlan
<1>3. LoopStart(h, t) = [i |-> 1, j |-> 1, left |-> left, need |-> need, legs |-> <<>>]
  BY <1>1 DEF LoopStart, TurnOf
<1>4. <<>> \in Seq(Leg) /\ Len(<<>>) = 0 /\ DOMAIN <<>> = {}
  OBVIOUS
<1> HIDE DEF left, need
<1>5. LoopStart(h, t) \in LoopState
  BY <1>2, <1>3, <1>4 DEF LoopState
<1>6. LoopStart(h, t) \in LoopShape(h, t)
  BY <1>1, <1>2, <1>3, <1>4, <1>5, SidesOfPlan, DustIsPositive, SMTT(20) DEF LoopShape
<1> QED BY <1>3, <1>6 DEF left, need

(* A state in which both sides are still to trade.                         *)
Open(s, h, t) == s.i <= Len(Sells(h, t)) /\ s.j <= Len(Buys(h, t))

LEMMA TradedIsLess ==
  ASSUME NEW s, s.left \in Int, s.need \in Int
  PROVE  /\ Traded(s) \in {s.left, s.need}
         /\ Traded(s) <= s.left /\ Traded(s) <= s.need
<1> DEFINE P(x) == x \in {s.left, s.need} /\ \A y \in {s.left, s.need} : x <= y
<1>1. \E x : P(x)
  <2>1. CASE s.left <= s.need
    BY <2>1
  <2>2. CASE s.need <= s.left
    BY <2>2
  <2> QED BY <2>1, <2>2
<1>2. Traded(s) = CHOOSE x \in {s.left, s.need} : \A y \in {s.left, s.need} : x <= y
  BY DEF Traded, Min
<1>3. P(Traded(s))
  BY <1>1, <1>2
<1> QED BY <1>3

(* A trade of x: it ends the turn of the seller (nextI) or of the buyer    *)
(* (nextJ), and leaves what they or their successors have to trade.        *)
Trade(s, x, leg, nextI, nextJ, left, need, h, t) ==
  /\ x \in {s.left, s.need} /\ x <= s.left /\ x <= s.need /\ x >= Dust
  /\ nextI <=> s.left - x < Dust
  /\ nextJ <=> s.need - x < Dust
  /\ nextI \/ nextJ
  /\ leg = [from |-> Sells(h, t)[s.i], to |-> Buys(h, t)[s.j], value |-> x]
  /\ GoodLeg(leg, h, t)
  /\ ~nextI => left = s.left - x
  /\ ~nextJ => need = s.need - x
  /\ nextI /\ s.i + 1 <= Len(Sells(h, t))
       => /\ left = h[Sells(h, t)[s.i + 1]] - t[Sells(h, t)[s.i + 1]]
          /\ left > Dust
  /\ nextJ /\ s.j + 1 <= Len(Buys(h, t))
       => /\ need = t[Buys(h, t)[s.j + 1]] - h[Buys(h, t)[s.j + 1]]
          /\ need > Dust
  /\ LoopStep(s, h, t) =
       [i |-> IF nextI THEN s.i + 1 ELSE s.i,
        j |-> IF nextJ THEN s.j + 1 ELSE s.j,
        left |-> left, need |-> need, legs |-> Append(s.legs, leg)]

LEMMA LoopTrades ==
  ASSUME NEW h \in Orders, NEW t \in Orders, NEW s \in LoopShape(h, t), Open(s, h, t)
  PROVE  \E x \in Nat, leg \in Leg, nextI \in BOOLEAN, nextJ \in BOOLEAN,
            left \in Int, need \in Int :
           Trade(s, x, leg, nextI, nextJ, left, need, h, t)
<1> DEFINE x == Traded(s)
           nextI == s.left - x < Dust
           nextJ == s.need - x < Dust
           leg == [from |-> Sells(h, t)[s.i], to |-> Buys(h, t)[s.j], value |-> x]
           left == IF nextI THEN TurnOf(s.i + 1, Sells(h, t), h, t, s.left) ELSE s.left - x
           need == IF nextJ THEN TurnOf(s.j + 1, Buys(h, t), t, h, s.need) ELSE s.need - x
<1>1. /\ s.left \in Int /\ s.need \in Int /\ s.i \in Nat /\ s.j \in Nat
      /\ s.i \in 1..Len(Sells(h, t)) /\ s.j \in 1..Len(Buys(h, t))
      /\ s.left >= Dust /\ s.need >= Dust
  <2>1. /\ s.left \in Int /\ s.need \in Int /\ s.i \in Nat /\ s.j \in Nat
        /\ s.i \in 1..(Len(Sells(h, t)) + 1) /\ s.j \in 1..(Len(Buys(h, t)) + 1)
        /\ s.left >= Dust /\ s.need >= Dust
    BY DEF LoopShape, LoopState, Open
  <2> QED BY <2>1, SidesOfPlan DEF Open
<1>2. x \in {s.left, s.need} /\ x <= s.left /\ x <= s.need
  BY <1>1, TradedIsLess
<1>3. x \in Nat /\ x >= Dust
  BY <1>1, <1>2, DustIsPositive
<1>4. nextI \/ nextJ
  BY <1>1, <1>2, DustIsPositive
<1>5. GoodLeg(leg, h, t)
  <2>1. Sells(h, t)[s.i] \in Overweight(h, t) /\ Buys(h, t)[s.j] \in Overweight(t, h)
    BY <1>1, SidesOfPlan
  <2>2. Overweight(h, t) \subseteq Assets /\ Overweight(t, h) \subseteq Assets
    BY DEF Overweight
  <2> HIDE DEF x
  <2> QED BY <1>3, <2>1, <2>2 DEF GoodLeg, Leg
<1>6. nextI /\ s.i + 1 <= Len(Sells(h, t))
        => /\ left = h[Sells(h, t)[s.i + 1]] - t[Sells(h, t)[s.i + 1]]
           /\ left > Dust /\ left \in Int
  <2> SUFFICES ASSUME nextI, s.i + 1 <= Len(Sells(h, t))
               PROVE  /\ left = h[Sells(h, t)[s.i + 1]] - t[Sells(h, t)[s.i + 1]]
                      /\ left > Dust /\ left \in Int
    OBVIOUS
  <2>1. left = h[Sells(h, t)[s.i + 1]] - t[Sells(h, t)[s.i + 1]]
    BY DEF TurnOf
  <2>2. s.i + 1 \in 1..Len(Sells(h, t))
    BY <1>1, SidesAreSeqs
  <2> HIDE DEF left
  <2> QED BY <2>1, <2>2, SidesOfPlan
<1>7. nextJ /\ s.j + 1 <= Len(Buys(h, t))
        => /\ need = t[Buys(h, t)[s.j + 1]] - h[Buys(h, t)[s.j + 1]]
           /\ need > Dust /\ need \in Int
  <2> SUFFICES ASSUME nextJ, s.j + 1 <= Len(Buys(h, t))
               PROVE  /\ need = t[Buys(h, t)[s.j + 1]] - h[Buys(h, t)[s.j + 1]]
                      /\ need > Dust /\ need \in Int
    OBVIOUS
  <2>1. need = t[Buys(h, t)[s.j + 1]] - h[Buys(h, t)[s.j + 1]]
    BY DEF TurnOf
  <2>2. s.j + 1 \in 1..Len(Buys(h, t))
    BY <1>1, SidesAreSeqs
  <2> HIDE DEF need
  <2> QED BY <2>1, <2>2, SidesOfPlan
<1>8. left \in Int /\ need \in Int
  <2>1. left \in Int
    <3>1. CASE nextI /\ ~ (s.i + 1 <= Len(Sells(h, t)))
      BY <1>1, <3>1 DEF TurnOf
    <3>2. CASE ~nextI
      BY <1>1, <1>3, <3>2
    <3> QED BY <1>6, <3>1, <3>2
  <2>2. need \in Int
    <3>1. CASE nextJ /\ ~ (s.j + 1 <= Len(Buys(h, t)))
      BY <1>1, <3>1 DEF TurnOf
    <3>2. CASE ~nextJ
      BY <1>1, <1>3, <3>2
    <3> QED BY <1>7, <3>1, <3>2
  <2> QED BY <2>1, <2>2
<1>9. LoopStep(s, h, t) =
        [i |-> IF nextI THEN s.i + 1 ELSE s.i,
         j |-> IF nextJ THEN s.j + 1 ELSE s.j,
         left |-> left, need |-> need, legs |-> Append(s.legs, leg)]
  <2>1. ~(x < Dust)
    BY <1>3, DustIsPositive
  <2>2. ~(s.i > Len(Sells(h, t)) \/ s.j > Len(Buys(h, t)))
    BY <1>1, SidesOfPlan
  <2> HIDE DEF x
  <2> QED BY <2>1, <2>2, Zenon DEF LoopStep, MatchStep, Exhausted, x
<1>10. nextI \in BOOLEAN /\ nextJ \in BOOLEAN
  OBVIOUS
<1>11. /\ ~nextI => left = s.left - x
       /\ ~nextJ => need = s.need - x
  OBVIOUS
<1>12. leg \in Leg
  BY <1>5 DEF GoodLeg
<1>13. Trade(s, x, leg, nextI, nextJ, left, need, h, t)
  <2> HIDE DEF x, left, need
  <2> QED BY <1>2, <1>3, <1>4, <1>5, <1>6, <1>7, <1>9, <1>11 DEF Trade
<1> HIDE DEF x, left, need, leg, nextI, nextJ
<1> QED BY <1>3, <1>8, <1>10, <1>12, <1>13

LEMMA LoopStays ==
  ASSUME NEW h, NEW t, NEW s, ~Open(s, h, t),
         s.i \in Nat, s.j \in Nat, Len(Sells(h, t)) \in Nat, Len(Buys(h, t)) \in Nat
  PROVE  LoopStep(s, h, t) = s
<1>1. s.i > Len(Sells(h, t)) \/ s.j > Len(Buys(h, t))
  BY DEF Open
<1> QED BY <1>1, Zenon DEF LoopStep, MatchStep

LEMMA LoopKeepsShape ==
  ASSUME NEW h \in Orders, NEW t \in Orders, NEW s \in LoopShape(h, t)
  PROVE  /\ LoopStep(s, h, t) \in LoopShape(h, t)
         /\ Open(s, h, t) => LoopStep(s, h, t).i + LoopStep(s, h, t).j > s.i + s.j
<1> DEFINE S == Len(Sells(h, t))
           B == Len(Buys(h, t))
<1>1. /\ s.i \in Nat /\ s.j \in Nat /\ s.legs \in Seq(Leg)
      /\ s.i \in 1..(S + 1) /\ s.j \in 1..(B + 1)
      /\ Len(s.legs) <= s.i + s.j - 2 /\ Len(s.legs) < S + B
      /\ \A k \in DOMAIN s.legs : GoodLeg(s.legs[k], h, t)
  BY DEF LoopShape, LoopState
<1>2. S \in Nat /\ B \in Nat
  BY SidesAreSeqs
<1>5. /\ s.i \in Nat /\ s.j \in Nat
      /\ 1 <= s.i /\ s.i <= S + 1 /\ 1 <= s.j /\ s.j <= B + 1
  <2> HIDE DEF S, B
  <2> QED BY <1>1, <1>2
<1>6. Len(s.legs) <= s.i + s.j - 2 /\ Len(s.legs) < S + B
  BY <1>1
<1>3. CASE ~Open(s, h, t)
  BY <1>1, <1>2, <1>3, LoopStays
<1>4. CASE Open(s, h, t)
  <2>1. PICK x \in Nat, leg \in Leg, nextI \in BOOLEAN, nextJ \in BOOLEAN,
            left \in Int, need \in Int :
           Trade(s, x, leg, nextI, nextJ, left, need, h, t)
    BY <1>4, LoopTrades
  <2> DEFINE i == IF nextI THEN s.i + 1 ELSE s.i
             j == IF nextJ THEN s.j + 1 ELSE s.j
             legs == Append(s.legs, leg)
  <2>2. s.i <= S /\ s.j <= B
    BY <1>4 DEF Open
  <2>3. i \in 1..(S + 1) /\ j \in 1..(B + 1) /\ i + j > s.i + s.j
        /\ i \in Nat /\ j \in Nat
    <3>1. nextI \/ nextJ
      BY <2>1 DEF Trade
    <3> HIDE DEF S, B
    <3>2. (i = s.i \/ i = s.i + 1) /\ (j = s.j \/ j = s.j + 1) /\ (i # s.i \/ j # s.j)
      BY <1>5, <3>1
    <3> HIDE DEF i, j
    <3> QED BY <1>2, <1>5, <2>2, <3>2
  <2>4. Len(s.legs) \in Nat
    BY <1>1, LenProperties
  <2>5. /\ legs \in Seq(Leg) /\ Len(legs) = Len(s.legs) + 1
        /\ \A k \in 1..Len(s.legs) : legs[k] = s.legs[k]
        /\ legs[Len(s.legs) + 1] = leg
    BY <1>1, AppendProperties
  <2>6. DOMAIN legs = 1..(Len(s.legs) + 1) /\ DOMAIN s.legs = 1..Len(s.legs)
    BY <1>1, <2>5, LenProperties
  <2>7. \A k \in DOMAIN legs : GoodLeg(legs[k], h, t)
    <3> SUFFICES ASSUME NEW k \in DOMAIN legs PROVE GoodLeg(legs[k], h, t)
      OBVIOUS
    <3> HIDE DEF legs
    <3>1. k \in 1..Len(s.legs) \/ k = Len(s.legs) + 1
      BY <2>4, <2>6
    <3> QED BY <1>1, <2>1, <2>5, <2>6, <3>1 DEF Trade
  <2> HIDE DEF legs
  <2>8. Len(legs) <= i + j - 2 /\ Len(legs) < S + B
    <3>1. Len(legs) = Len(s.legs) + 1
      BY <2>5
    <3>2. i \in Nat /\ j \in Nat /\ i + j > s.i + s.j
      BY <2>3
    <3>3. PICK n : n = Len(s.legs)
      OBVIOUS
    <3>4. /\ n \in Nat /\ n <= s.i + s.j - 2 /\ n < S + B
          /\ Len(legs) = n + 1
      BY <1>6, <2>4, <3>1, <3>3
    <3> HIDE DEF i, j, S, B
    <3>5. PICK a, b, c, d : a = s.i /\ b = s.j /\ c = i /\ d = j
      OBVIOUS
    <3>6. /\ a \in Nat /\ b \in Nat /\ c \in Nat /\ d \in Nat /\ c + d > a + b
          /\ a <= S /\ b <= B /\ n <= a + b - 2
      BY <1>5, <2>2, <3>2, <3>4, <3>5
    <3>7. n + 1 <= c + d - 2 /\ n + 1 < S + B
      BY <1>2, <3>4, <3>6
    <3>8. n + 1 <= i + j - 2 /\ n + 1 < S + B
      BY <3>5, <3>7
    <3> QED BY <3>4, <3>8
  <2>9. i <= S => left >= Dust
    <3>1. s.left >= Dust \/ ~(s.i <= S)
      BY DEF LoopShape
    <3>2. x \in Int /\ s.left \in Int
      BY DEF LoopShape, LoopState
    <3>3. /\ nextI <=> s.left - x < Dust
          /\ ~nextI => left = s.left - x
          /\ nextI /\ s.i + 1 <= S => left > Dust
      BY <2>1 DEF Trade
    <3> HIDE DEF S
    <3> QED BY <1>1, <1>2, <2>2, <3>1, <3>2, <3>3, DustIsPositive
  <2>10. j <= B => need >= Dust
    <3>1. x \in Int /\ s.need \in Int
      BY DEF LoopShape, LoopState
    <3>2. /\ nextJ <=> s.need - x < Dust
          /\ ~nextJ => need = s.need - x
          /\ nextJ /\ s.j + 1 <= B => need > Dust
      BY <2>1 DEF Trade
    <3> HIDE DEF B
    <3> QED BY <1>1, <1>2, <2>2, <3>1, <3>2, DustIsPositive
  <2>11. LoopStep(s, h, t) = [i |-> i, j |-> j, left |-> left, need |-> need, legs |-> legs]
    BY <2>1 DEF Trade, legs
  <2> HIDE DEF i, j
  <2>12. LoopStep(s, h, t) \in LoopState
    BY <2>3, <2>5, <2>11 DEF LoopState
  <2>13. LoopStep(s, h, t) \in LoopShape(h, t)
    <3> DEFINE r == LoopStep(s, h, t)
    <3>1. /\ r \in LoopState
          /\ r.i = i /\ r.j = j /\ r.left = left /\ r.need = need /\ r.legs = legs
      BY <2>11, <2>12
    <3> HIDE DEF r
    <3>2. r \in LoopShape(h, t)
      BY <2>3, <2>7, <2>8, <2>9, <2>10, <3>1 DEF LoopShape
    <3> QED BY <3>2 DEF r
  <2> QED BY <2>3, <2>11, <2>13
<1> QED BY <1>3, <1>4

(* Turns p and q are taken while the loop is open, that is until p is      *)
(* beyond S or q is beyond B.                                              *)
TakesTurns(S, B, p, q, open) ==
  /\ S \in Nat /\ B \in Nat
  /\ \A n \in Nat : p[n] \in Nat /\ q[n] \in Nat
  /\ p[0] + q[0] >= 2
  /\ \A n \in Nat : open[n] <=> p[n] <= S /\ q[n] <= B
  /\ \A n \in Nat : open[n] => p[n + 1] + q[n + 1] > p[n] + q[n]
  /\ \A n \in Nat : ~open[n] => ~open[n + 1]

LEMMA TurnsEnd ==
  ASSUME NEW S, NEW B, NEW p, NEW q, NEW open, TakesTurns(S, B, p, q, open)
  PROVE  ~open[S + B] /\ S + B \in Nat
<1> USE DEF TakesTurns
<1> DEFINE T == {n \in Nat : open[n] => p[n] + q[n] >= n + 2}
<1>1. 0 \in T
  OBVIOUS
<1>2. ASSUME NEW n \in Nat, n \in T PROVE n + 1 \in T
  BY <1>2
<1> HIDE DEF T
<1>3. \A n \in Nat : n \in T
  BY <1>1, <1>2, NumberInduction
<1>4. S + B \in Nat
  OBVIOUS
<1>5. open[S + B] => p[S + B] + q[S + B] >= S + B + 2
  BY <1>3, <1>4 DEF T
<1>6. p[S + B] \in Nat /\ q[S + B] \in Nat
  BY <1>4
<1> QED BY <1>4, <1>5, <1>6

(* After n steps the loop has ended or has ended n turns.                  *)
LEMMA LoopGoesOn ==
  ASSUME NEW h \in Orders, NEW t \in Orders,
         NEW g, \A n \in Nat : g[n] \in LoopShape(h, t), g[0] = LoopStart(h, t),
         Len(Sells(h, t)) > 0, Len(Buys(h, t)) > 0,
         \A n \in Nat : g[n + 1] = LoopStep(g[n], h, t)
  PROVE  ~Open(g[Len(Sells(h, t)) + Len(Buys(h, t))], h, t)
<1> DEFINE S == Len(Sells(h, t))
           B == Len(Buys(h, t))
           p == [n \in Nat |-> g[n].i]
           q == [n \in Nat |-> g[n].j]
           open == [n \in Nat |-> g[n].i <= S /\ g[n].j <= B]
<1>1. S \in Nat /\ B \in Nat
  BY SidesAreSeqs
<1>2. ASSUME NEW n \in Nat
      PROVE  g[n] \in LoopShape(h, t) /\ g[n].i \in Nat /\ g[n].j \in Nat
  <2>1. g[n] \in LoopShape(h, t)
    OBVIOUS
  <2> QED BY <2>1 DEF LoopShape, LoopState
<1>3. p[0] = 1 /\ q[0] = 1
  BY LoopStartsWell
<1>4. ASSUME NEW n \in Nat
      PROVE  /\ open[n] <=> Open(g[n], h, t)
             /\ open[n] <=> p[n] <= S /\ q[n] <= B
             /\ p[n] = g[n].i /\ q[n] = g[n].j
  BY <1>4 DEF Open
<1>5. \A n \in Nat : p[n] \in Nat /\ q[n] \in Nat
  BY <1>2
<1> HIDE DEF p, q, open, S, B
<1>6. \A n \in Nat : n + 1 \in Nat
  OBVIOUS
<1>7. \A n \in Nat : open[n] => p[n + 1] + q[n + 1] > p[n] + q[n]
  <2> SUFFICES ASSUME NEW n \in Nat, open[n]
               PROVE  p[n + 1] + q[n + 1] > p[n] + q[n]
    OBVIOUS
  <2>1. LoopStep(g[n], h, t).i + LoopStep(g[n], h, t).j > g[n].i + g[n].j
    BY <1>2, <1>4, LoopKeepsShape
  <2>2. g[n + 1].i + g[n + 1].j > g[n].i + g[n].j
    BY <2>1
  <2> QED BY <1>4, <1>6, <2>2, Zenon
<1>8. \A n \in Nat : ~open[n] => ~open[n + 1]
  <2> SUFFICES ASSUME NEW n \in Nat, ~open[n]
               PROVE  ~open[n + 1]
    OBVIOUS
  <2>1. LoopStep(g[n], h, t) = g[n]
    BY <1>1, <1>2, <1>4, LoopStays DEF S, B
  <2>2. ~Open(g[n + 1], h, t)
    BY <1>4, <2>1
  <2> QED BY <1>4, <1>6, <2>2, Zenon
<1>9. p[0] + q[0] >= 2
  BY <1>3
<1>10. ~open[S + B] /\ S + B \in Nat
  <2>1. \A n \in Nat : open[n] <=> p[n] <= S /\ q[n] <= B
    BY <1>4
  <2>2. TakesTurns(S, B, p, q, open)
    BY <1>1, <1>5, <1>7, <1>8, <1>9, <2>1 DEF TakesTurns
  <2> QED BY <2>2, TurnsEnd
<1>11. ~Open(g[S + B], h, t)
  BY <1>4, <1>10
<1> QED BY <1>11 DEF S, B

(* No asset is both overweight and underweight.                            *)
LEMMA SidesAreApart ==
  ASSUME NEW h \in Orders, NEW t \in Orders
  PROVE  /\ Overweight(h, t) \cap Overweight(t, h) = {}
         /\ Len(Sells(h, t)) + Len(Buys(h, t)) <= NumAssets
<1> DEFINE O == Overweight(h, t)
           U == Overweight(t, h)
<1>1. O \cap U = {}
  <2> SUFFICES ASSUME NEW a \in Assets, h[a] - t[a] > Dust, t[a] - h[a] > Dust
               PROVE  FALSE
    BY DEF Overweight
  <2>1. h[a] \in Int /\ t[a] \in Int
    BY DEF Orders
  <2> QED BY <2>1, DustIsPositive
<1>2. /\ IsFiniteSet(O) /\ Cardinality(O) \in Nat /\ Len(Sells(h, t)) = Cardinality(O)
      /\ IsFiniteSet(U) /\ Cardinality(U) \in Nat /\ Len(Buys(h, t)) = Cardinality(U)
  BY SellsAreOverweight DEF Buys
<1>3. O \union U \in SUBSET Assets
  BY DEF Overweight
<1> HIDE DEF O, U
<1>4. Cardinality(O \union U) = Cardinality(O) + Cardinality(U) - Cardinality(O \cap U)
  BY <1>2, FS_Union
<1>5. Cardinality(O \cap U) = 0
  BY <1>1, FS_EmptySet
<1>6. Cardinality(O \union U) <= Cardinality(Assets)
  BY <1>3, AssetsAreFinite, FS_Subset
<1>7. Cardinality(O \union U) = Cardinality(O) + Cardinality(U)
  BY <1>2, <1>4, <1>5
<1> QED BY <1>1, <1>2, <1>6, <1>7, AssetsAreFinite DEF O, U

(* A plan is made of legs from overweight to underweight assets, none of   *)
(* them dust, and has fewer legs than there are assets to trade.           *)
LEMMA PlanIsWellFormed ==
  ASSUME NEW h \in Orders, NEW t \in Orders
  PROVE  /\ PlanSwapLegs(h, t) \in Seq(Leg)
         /\ PlanSwapLegs(h, t) # <<>> =>
              Len(PlanSwapLegs(h, t)) < Len(Sells(h, t)) + Len(Buys(h, t))
         /\ Len(PlanSwapLegs(h, t)) < NumAssets
         /\ \A k \in DOMAIN PlanSwapLegs(h, t) : GoodLeg(PlanSwapLegs(h, t)[k], h, t)
<1> DEFINE plan == PlanSwapLegs(h, t)
           S == Len(Sells(h, t))
           B == Len(Buys(h, t))
<1>1. S \in Nat /\ B \in Nat /\ S + B <= NumAssets
  BY SidesAreSeqs, SidesAreApart
<1>2. CASE plan = <<>>
  <2>1. <<>> \in Seq(Leg) /\ Len(<<>>) = 0 /\ DOMAIN <<>> = {}
    OBVIOUS
  <2> QED BY <1>2, <2>1, AssetsAreFinite
<1>3. CASE plan # <<>>
  <2>1. Sells(h, t) = <<>> \/ Buys(h, t) = <<>> => plan = <<>>
    BY Zenon DEF PlanSwapLegs
  <2>2. S > 0 /\ B > 0
    <3>1. Sells(h, t) \in Seq(Overweight(h, t)) /\ Buys(h, t) \in Seq(Overweight(t, h))
      BY SellsAreOverweight DEF Buys
    <3>2. Sells(h, t) # <<>> /\ Buys(h, t) # <<>>
      BY <1>3, <2>1
    <3>3. S # 0 /\ B # 0
      BY <3>1, <3>2, EmptySeq
    <3> QED BY <1>1, <3>3
  <2>3. PICK g \in [Nat -> LoopShape(h, t)] :
          plan = IF TotalValue(h) = 0 \/ Sells(h, t) = <<>> \/ Buys(h, t) = <<>>
                 THEN <<>> ELSE g[S + B].legs
    <3>1. LoopStart(h, t) \in LoopShape(h, t)
      BY <2>2, LoopStartsWell
    <3>2. \A s \in LoopShape(h, t) : LoopStep(s, h, t) \in LoopShape(h, t)
      BY LoopKeepsShape
    <3> QED BY <3>1, <3>2, LoopStates
  <2>4. plan = g[S + B].legs
    BY <1>3, <2>3
  <2>5. g[S + B] \in LoopShape(h, t)
    BY <1>1, <2>3
  <2>6. /\ plan \in Seq(Leg) /\ Len(plan) < S + B
        /\ \A k \in DOMAIN plan : GoodLeg(plan[k], h, t)
    BY <2>4, <2>5 DEF LoopShape, LoopState
  <2>7. Len(plan) \in Nat
    BY <2>6, LenProperties
  <2> HIDE DEF plan, S, B
  <2>8. Len(plan) < NumAssets
    BY <1>1, <2>6, <2>7, AssetsAreFinite
  <2> QED BY <2>6, <2>8 DEF plan, S, B
<1> QED BY <1>2, <1>3

---------------------------------------------------------------------------
(* What a list of legs sells and buys.                                     *)

SoldBy(legs, a) ==
  SumFunction([k \in DOMAIN legs |-> IF legs[k].from = a THEN legs[k].value ELSE 0])

BoughtBy(legs, a) ==
  SumFunction([k \in DOMAIN legs |-> IF legs[k].to = a THEN legs[k].value ELSE 0])

LEMMA NoLegsSum ==
  ASSUME NEW a
  PROVE  SoldBy(<<>>, a) = 0 /\ BoughtBy(<<>>, a) = 0
<1>1. \A f : DOMAIN f = {} => SumFunction(f) = 0
  BY SumOfNone DEF SumFunction
<1>2. DOMAIN <<>> = {}
  OBVIOUS
<1> QED BY <1>1, <1>2 DEF SoldBy, BoughtBy

LEMMA OneMoreLegSum ==
  ASSUME NEW legs \in Seq(Leg), NEW leg \in Leg, NEW a
  PROVE  /\ SoldBy(legs, a) \in Int /\ BoughtBy(legs, a) \in Int
         /\ SoldBy(Append(legs, leg), a)
              = SoldBy(legs, a) + IF leg.from = a THEN leg.value ELSE 0
         /\ BoughtBy(Append(legs, leg), a)
              = BoughtBy(legs, a) + IF leg.to = a THEN leg.value ELSE 0
<1> DEFINE more == Append(legs, leg)
           f == [k \in DOMAIN legs |-> IF legs[k].from = a THEN legs[k].value ELSE 0]
           g == [k \in DOMAIN more |-> IF more[k].from = a THEN more[k].value ELSE 0]
           p == [k \in DOMAIN legs |-> IF legs[k].to = a THEN legs[k].value ELSE 0]
           q == [k \in DOMAIN more |-> IF more[k].to = a THEN more[k].value ELSE 0]
<1>1. PICK n \in Nat : n = Len(legs)
  BY LenProperties
<1>2. /\ more \in Seq(Leg) /\ Len(more) = n + 1
      /\ \A k \in 1..n : more[k] = legs[k]
      /\ more[n + 1] = leg
  BY <1>1, AppendProperties
<1>3. DOMAIN legs = 1..n /\ DOMAIN more = 1..(n + 1)
  BY <1>1, <1>2, LenProperties
<1>4. \A k \in 1..(n + 1) : more[k] \in Leg
  BY <1>2, <1>3, ElementOfSeq
<1> HIDE DEF more
<1>5. \A k \in 1..(n + 1) : g[k] \in Int /\ q[k] \in Int
  <2> SUFFICES ASSUME NEW k \in 1..(n + 1) PROVE g[k] \in Int /\ q[k] \in Int
    OBVIOUS
  <2>1. more[k].value \in Nat
    BY <1>4 DEF Leg
  <2> QED BY <1>3, <2>1
<1>6. \A k \in 1..n : f[k] = g[k] /\ p[k] = q[k]
  <2>1. \A k \in 1..n : k \in 1..(n + 1)
    OBVIOUS
  <2> QED BY <1>2, <1>3, <2>1
<1>7. /\ DOMAIN f = 1..n /\ DOMAIN g = 1..(n + 1)
      /\ DOMAIN p = 1..n /\ DOMAIN q = 1..(n + 1)
  BY <1>3
<1>8. /\ g[n + 1] = IF leg.from = a THEN leg.value ELSE 0
      /\ q[n + 1] = IF leg.to = a THEN leg.value ELSE 0
  <2>1. n + 1 \in 1..(n + 1)
    OBVIOUS
  <2> QED BY <1>2, <1>3, <2>1
<1>9. /\ SoldBy(legs, a) = SumFunction(f) /\ SoldBy(more, a) = SumFunction(g)
      /\ BoughtBy(legs, a) = SumFunction(p) /\ BoughtBy(more, a) = SumFunction(q)
  BY DEF SoldBy, BoughtBy
<1> HIDE DEF f, g, p, q
<1>10. SumFunction(g) = SumFunction(f) + g[n + 1] /\ SumFunction(f) \in Int
  BY <1>5, <1>6, <1>7, SumOfOneMore, ZenonT(30)
<1>11. SumFunction(q) = SumFunction(p) + q[n + 1] /\ SumFunction(p) \in Int
  BY <1>5, <1>6, <1>7, SumOfOneMore, ZenonT(30)
<1> QED BY <1>8, <1>9, <1>10, <1>11 DEF more

(* The legs are applied one after the other.                               *)
AppliedSteps(e, h, legs) ==
  /\ e \in [0..Len(legs) -> Orders]
  /\ e[0] = h
  /\ \A k \in 1..Len(legs) : e[k] = ApplyLeg(e[k - 1], legs[k])

LEMMA MaxOfTwo ==
  ASSUME NEW d \in Int
  PROVE  Max({0, d}) = IF d >= 0 THEN d ELSE 0
<1>1. \E x \in {0, d} : \A y \in {0, d} : x >= y
  BY DEF Max
<1>2. Max({0, d}) \in {0, d} /\ \A y \in {0, d} : Max({0, d}) >= y
  BY <1>1 DEF Max
<1> QED BY <1>2

LEMMA AppliedIsOrder ==
  ASSUME NEW h \in Orders, NEW leg \in Leg
  PROVE  /\ ApplyLeg(h, leg) \in Orders
         /\ leg.from # leg.to /\ h[leg.from] >= leg.value =>
              \A a \in Assets : ApplyLeg(h, leg)[a] =
                h[a] - (IF leg.from = a THEN leg.value ELSE 0)
                     + (IF leg.to = a THEN leg.value ELSE 0)
<1>1. /\ leg.from \in Assets /\ leg.to \in Assets /\ leg.value \in Nat
      /\ \A a \in Assets : h[a] \in Int
  BY DEF Leg, Orders
<1> DEFINE d == h[leg.from] - leg.value
           h1 == [h EXCEPT ![leg.from] = Max({0, d})]
<1>2. d \in Int
  BY <1>1
<1>3. ApplyLeg(h, leg) = [h1 EXCEPT ![leg.to] = @ + leg.value]
  BY DEF ApplyLeg
<1>4. Max({0, d}) = IF d >= 0 THEN d ELSE 0
  BY <1>2, MaxOfTwo
<1>5. h1 \in Orders
  <2>1. Max({0, d}) \in Int
    BY <1>2, <1>4
  <2> QED BY <2>1 DEF Orders
<1>6. ApplyLeg(h, leg) \in Orders
  <2>1. h1[leg.to] + leg.value \in Int
    BY <1>1, <1>5 DEF Orders
  <2> HIDE DEF h1
  <2> QED BY <1>3, <1>5, <2>1 DEF Orders
<1>7. ASSUME leg.from # leg.to, h[leg.from] >= leg.value, NEW a \in Assets
      PROVE  ApplyLeg(h, leg)[a] =
                h[a] - (IF leg.from = a THEN leg.value ELSE 0)
                     + (IF leg.to = a THEN leg.value ELSE 0)
  <2>1. Max({0, d}) = d
    BY <1>1, <1>2, <1>4, <1>7
  <2>2. \A b \in Assets : h1[b] = IF leg.from = b THEN d ELSE h[b]
    BY <2>1 DEF Orders
  <2>3. ApplyLeg(h, leg)[a] = IF leg.to = a THEN h1[a] + leg.value ELSE h1[a]
    <3> HIDE DEF h1
    <3> QED BY <1>3, <1>5 DEF Orders
  <2> HIDE DEF h1
  <2> QED BY <1>1, <1>7, <2>2, <2>3
<1> QED BY <1>6, <1>7

LEMMA LegsApplyInSteps ==
  ASSUME NEW h \in Orders, NEW legs \in Seq(Leg)
  PROVE  \E e : AppliedSteps(e, h, legs) /\ ApplyLegs(h, legs) = e[Len(legs)]
<1>1. PICK n \in Nat : n = Len(legs) /\ DOMAIN legs = 1..n
  BY LenProperties
<1> DEFINE M == [p \in (1..n) \X Orders |-> ApplyLeg(p[2], legs[p[1]])]
           Def(g) == [s \in SUBSET (1..n) |->
                        IF s = {} THEN h ELSE ApplyLeg(g[s \ {Max(s)}], legs[Max(s)])]
<1>2. ASSUME NEW k \in 1..n, NEW x \in Orders
      PROVE  M[<<k, x>>] = ApplyLeg(x, legs[k]) /\ ApplyLeg(x, legs[k]) \in Orders
  <2>1. legs[k] \in Leg
    BY <1>1, ElementOfSeq
  <2> QED BY <2>1, AppliedIsOrder
<1>3. M \in [(1..n) \X Orders -> Orders]
  <2>1. \A p \in (1..n) \X Orders : M[p] \in Orders
    <3> TAKE p \in (1..n) \X Orders
    <3>1. p[1] \in 1..n /\ p[2] \in Orders /\ M[p] = ApplyLeg(p[2], legs[p[1]])
      OBVIOUS
    <3> HIDE DEF M
    <3> QED BY <1>2, <3>1
  <2>2. M = [p \in (1..n) \X Orders |-> M[p]]
    OBVIOUS
  <2> HIDE DEF M
  <2> QED BY <2>1, <2>2
<1> HIDE DEF M
<1>4. PICK f \in [SUBSET (1..n) -> Orders] : FoldsOver(f, n, h, M)
  BY <1>3, FoldExists
<1>5. ASSUME NEW g, \A s \in SUBSET (1..n) : g[s] \in Orders
      PROVE  FoldsOver(g, n, h, M) <=> g = Def(g)
  <2>1. ASSUME NEW s \in SUBSET (1..n), s # {}
        PROVE  M[<<Max(s), g[s \ {Max(s)}]>>] = ApplyLeg(g[s \ {Max(s)}], legs[Max(s)])
    <3>1. Max(s) \in 1..n
      BY <2>1, MaxOfNumbers
    <3>2. g[s \ {Max(s)}] \in Orders
      BY <1>5
    <3> QED BY <1>2, <3>1, <3>2
  <2> QED BY <2>1 DEF FoldsOver
<1>6. f = Def(f)
  BY <1>4, <1>5
<1>7. PICK g : g = Def(g) /\ ApplyLegs(h, legs) = g[1..n]
  <2>1. (CHOOSE g : g = Def(g)) = Def(CHOOSE g : g = Def(g))
    <3> HIDE DEF Def
    <3> QED BY <1>6
  <2>2. ApplyLegs(h, legs) = (CHOOSE g : g = Def(g))[1..n]
    BY <1>1, Zenon DEF ApplyLegs, FoldLeft, MapThenFoldSet
  <2> QED BY <2>1, <2>2
<1>8. \A s \in SUBSET (1..n) : g[s] \in Orders
  <2> DEFINE T == {s \in SUBSET (1..n) : g[s] \in Orders}
  <2>1. ASSUME NEW s \in SUBSET (1..n), \A r \in SUBSET s : r # s => r \in T
        PROVE  s \in T
    <3>1. g[s] = IF s = {} THEN h ELSE ApplyLeg(g[s \ {Max(s)}], legs[Max(s)])
      BY <1>7
    <3>2. CASE s # {}
      <4>1. Max(s) \in s
        BY <3>2, MaxOfNumbers
      <4>2. Max(s) \in 1..n /\ s \ {Max(s)} \in T
        BY <2>1, <4>1
      <4> QED BY <1>2, <3>1, <3>2, <4>2
    <3> QED BY <3>1, <3>2
  <2>2. IsFiniteSet(1..n)
    BY FS_Interval
  <2>3. \A s \in SUBSET (1..n) : s \in T
    <3> HIDE DEF T
    <3> QED BY <2>1, <2>2, SubsetInduction
  <2> QED BY <2>3
<1>9. FoldsOver(g, n, h, M)
  BY <1>5, <1>7, <1>8
<1>10. PICK e : FoldSteps(e, g, n, Orders, h, M)
  <2>1. n \in Nat /\ h \in Orders
    OBVIOUS
  <2> QED BY <1>3, <1>9, <2>1, FoldsInSteps
<1>11. \A k \in 1..n : e[k] = ApplyLeg(e[k - 1], legs[k])
  <2> TAKE k \in 1..n
  <2>1. k - 1 \in 0..n
    OBVIOUS
  <2>2. e[k - 1] \in Orders
    BY <1>10, <2>1 DEF FoldSteps
  <2>3. e[k] = M[<<k, e[k - 1]>>]
    BY <1>10 DEF FoldSteps
  <2> QED BY <1>2, <2>2, <2>3
<1>12. AppliedSteps(e, h, legs)
  BY <1>1, <1>10, <1>11 DEF AppliedSteps, FoldSteps
<1>13. g[1..n] = e[n]
  BY <1>10 DEF FoldSteps
<1> QED BY <1>1, <1>7, <1>12, <1>13

LEMMA OneMoreApplied ==
  ASSUME NEW h \in Orders, NEW legs \in Seq(Leg), NEW leg \in Leg
  PROVE  /\ ApplyLegs(h, legs) \in Orders
         /\ ApplyLegs(h, Append(legs, leg)) = ApplyLeg(ApplyLegs(h, legs), leg)
<1> DEFINE more == Append(legs, leg)
<1>1. PICK n \in Nat : n = Len(legs)
  BY LenProperties
<1>2. /\ more \in Seq(Leg) /\ Len(more) = n + 1
      /\ \A k \in 1..n : more[k] = legs[k]
      /\ more[n + 1] = leg
  BY <1>1, AppendProperties
<1> HIDE DEF more
<1>3. PICK e : AppliedSteps(e, h, legs) /\ ApplyLegs(h, legs) = e[n]
  BY <1>1, LegsApplyInSteps
<1>4. PICK d : AppliedSteps(d, h, more) /\ ApplyLegs(h, more) = d[n + 1]
  BY <1>2, LegsApplyInSteps
<1> DEFINE T == {k \in Nat : k <= n => d[k] = e[k]}
<1>5. 0 \in T
  BY <1>3, <1>4 DEF AppliedSteps
<1>6. ASSUME NEW k \in Nat, k \in T PROVE k + 1 \in T
  <2>1. CASE k + 1 <= n
    <3>1. k + 1 \in 1..n /\ k + 1 \in 1..(n + 1) /\ (k + 1) - 1 = k /\ k <= n
      BY <2>1
    <3>2. e[k + 1] = ApplyLeg(e[k], legs[k + 1]) /\ d[k + 1] = ApplyLeg(d[k], more[k + 1])
      BY <1>1, <1>2, <1>3, <1>4, <3>1 DEF AppliedSteps
    <3> QED BY <1>2, <1>6, <3>1, <3>2
  <2>2. CASE ~(k + 1 <= n)
    BY <2>2
  <2> QED BY <2>1, <2>2
<1>7. n \in T
  <2> HIDE DEF T
  <2>1. \A k \in Nat : k \in T
    BY <1>5, <1>6, NumberInduction
  <2> QED BY <2>1
<1>8. n + 1 \in 1..(n + 1) /\ (n + 1) - 1 = n /\ n \in 0..n
  OBVIOUS
<1>9. d[n + 1] = ApplyLeg(d[n], leg)
  BY <1>2, <1>4, <1>8 DEF AppliedSteps
<1>10. d[n] = e[n] /\ e[n] \in Orders
  BY <1>1, <1>3, <1>7, <1>8 DEF AppliedSteps
<1> QED BY <1>3, <1>4, <1>9, <1>10 DEF more

LEMMA NoLegsApplied ==
  ASSUME NEW h \in Orders
  PROVE  ApplyLegs(h, <<>>) = h
<1>1. <<>> \in Seq(Leg) /\ Len(<<>>) = 0
  OBVIOUS
<1>2. PICK e : AppliedSteps(e, h, <<>>) /\ ApplyLegs(h, <<>>) = e[0]
  BY <1>1, LegsApplyInSteps
<1> QED BY <1>2 DEF AppliedSteps

---------------------------------------------------------------------------
(* What the loop has sold and bought so far.                               *)

Due(h, t) == [a \in Assets |-> h[a] - t[a]]

SoldOf(legs) == [a \in Assets |-> SoldBy(legs, a)]
BoughtOf(legs) == [a \in Assets |-> BoughtBy(legs, a)]

(* On the turn of the i-th of a side, who still has to trade left: those   *)
(* before have traded what was due but for dust, those after nothing.      *)
TurnsTaken(side, due, i, left, done) ==
  \A k \in 1..Len(side) :
    /\ k < i => due[side[k]] - done[side[k]] < Dust /\ due[side[k]] >= done[side[k]]
    /\ k = i => /\ done[side[k]] = due[side[k]] - left
                /\ 0 <= left /\ left <= due[side[k]]
    /\ k > i => done[side[k]] = 0

(* The assets of one side, each once, and what is due of each.             *)
IsSide(side, due) ==
  /\ Len(side) \in Nat
  /\ due \in Orders
  /\ \A k \in 1..Len(side) : side[k] \in Assets /\ due[side[k]] > Dust
  /\ \A k, m \in 1..Len(side) : k # m => side[k] # side[m]

(* The i-th of a side has traded x.                                        *)
TradedBy(side, i, x, done, next) ==
  /\ done \in Orders /\ next \in Orders
  /\ next[side[i]] = done[side[i]] + x
  /\ \A a \in Assets : a # side[i] => next[a] = done[a]

LEMMA TurnTaken ==
  ASSUME NEW side, NEW due, IsSide(side, due), NEW i \in 1..Len(side),
         NEW x \in Int, NEW left \in Int, x <= left, x > 0, NEW done, NEW next,
         TradedBy(side, i, x, done, next), TurnsTaken(side, due, i, left, done)
  PROVE  /\ TurnsTaken(side, due, i, left - x, next)
         /\ left - x < Dust =>
              \A rest \in Int :
                (i + 1 <= Len(side) => rest = due[side[i + 1]])
                  => TurnsTaken(side, due, i + 1, rest, next)
         /\ x = left => next[side[i]] = due[side[i]]
<1>1. PICK n \in Nat : n = Len(side)
  BY DEF IsSide
<1>2. i \in Nat /\ 1 <= i /\ i <= n
  BY <1>1
<1>3. \A k \in 1..n : /\ side[k] \in Assets /\ due[side[k]] \in Int
                      /\ done[side[k]] \in Int /\ next[side[k]] \in Int
                      /\ due[side[k]] > Dust
  BY <1>1 DEF IsSide, TradedBy, Orders
<1>4. \A k \in 1..n : k # i => next[side[k]] = done[side[k]]
  <2> SUFFICES ASSUME NEW k \in 1..n, k # i PROVE next[side[k]] = done[side[k]]
    OBVIOUS
  <2>1. side[k] # side[i] /\ side[k] \in Assets
    BY <1>1, <1>3 DEF IsSide
  <2> QED BY <2>1 DEF TradedBy
<1>5. next[side[i]] = done[side[i]] + x
  BY DEF TradedBy
<1>6. /\ done[side[i]] = due[side[i]] - left
      /\ 0 <= left /\ left <= due[side[i]]
  BY <1>1 DEF TurnsTaken
<1>7. \A k \in 1..n :
        /\ k < i => due[side[k]] - done[side[k]] < Dust /\ due[side[k]] >= done[side[k]]
        /\ k > i => done[side[k]] = 0
  BY <1>1 DEF TurnsTaken
<1>8. i \in 1..n
  BY <1>1
<1>9. next[side[i]] = due[side[i]] - (left - x)
  BY <1>3, <1>5, <1>6, <1>8
<1>10. TurnsTaken(side, due, i, left - x, next)
  <2> SUFFICES ASSUME NEW k \in 1..n
               PROVE
                 /\ k < i => /\ due[side[k]] - next[side[k]] < Dust
                             /\ due[side[k]] >= next[side[k]]
                 /\ k = i => /\ next[side[k]] = due[side[k]] - (left - x)
                             /\ 0 <= left - x /\ left - x <= due[side[k]]
                 /\ k > i => next[side[k]] = 0
    BY <1>1, Zenon DEF TurnsTaken
  <2>1. CASE k = i
    <3>1. 0 <= left - x /\ left - x <= due[side[i]] /\ due[side[i]] \in Int
      BY <1>3, <1>6, <1>8
    <3> QED BY <1>2, <1>9, <2>1, <3>1
  <2>2. CASE k # i
    BY <1>4, <1>7, <2>2
  <2> QED BY <2>1, <2>2
<1>11. ASSUME left - x < Dust, NEW rest \in Int,
              i + 1 <= Len(side) => rest = due[side[i + 1]]
       PROVE  TurnsTaken(side, due, i + 1, rest, next)
  <2> SUFFICES ASSUME NEW k \in 1..n
               PROVE
                 /\ k < i + 1 => /\ due[side[k]] - next[side[k]] < Dust
                                 /\ due[side[k]] >= next[side[k]]
                 /\ k = i + 1 => /\ next[side[k]] = due[side[k]] - rest
                                 /\ 0 <= rest /\ rest <= due[side[k]]
                 /\ k > i + 1 => next[side[k]] = 0
    BY <1>1, Zenon DEF TurnsTaken
  <2>1. CASE k = i
    <3>1. due[side[i]] \in Int
      BY <1>3, <1>8
    <3>2. due[side[i]] - next[side[i]] < Dust /\ due[side[i]] >= next[side[i]]
      BY <1>9, <1>11, <3>1
    <3> QED BY <1>2, <2>1, <3>2
  <2>2. CASE k < i
    <3>1. ~(k = i + 1) /\ ~(k > i + 1) /\ k # i
      BY <1>2, <2>2
    <3> QED BY <1>4, <1>7, <2>2, <3>1
  <2>3. CASE k = i + 1
    <3>1. k > i /\ k # i /\ ~(k < i + 1) /\ ~(k > i + 1) /\ i + 1 <= n
      BY <1>2, <2>3
    <3>2. next[side[k]] = 0
      BY <1>4, <1>7, <3>1
    <3>3. rest = due[side[k]]
      BY <1>1, <1>11, <2>3, <3>1
    <3>4. due[side[k]] \in Int /\ due[side[k]] > 0
      BY <1>3, DustIsPositive
    <3> QED BY <3>1, <3>2, <3>3, <3>4
  <2>4. CASE k > i + 1
    <3>1. k > i /\ k # i /\ ~(k < i + 1) /\ ~(k = i + 1)
      BY <1>2, <2>4
    <3> QED BY <1>4, <1>7, <3>1
  <2> QED BY <1>2, <2>1, <2>2, <2>3, <2>4
<1>12. x = left => next[side[i]] = due[side[i]]
  <2>1. due[side[i]] \in Int
    BY <1>3, <1>8
  <2> QED BY <1>9, <2>1
<1> QED BY <1>10, <1>11, <1>12

LEMMA SidesAreSides ==
  ASSUME NEW h \in Orders, NEW t \in Orders
  PROVE  /\ Due(h, t) \in Orders
         /\ \A a \in Assets : Due(h, t)[a] = h[a] - t[a]
         /\ IsSide(Sells(h, t), Due(h, t))
         /\ IsSide(Buys(h, t), Due(t, h))
<1>1. ASSUME NEW x \in Orders, NEW y \in Orders
      PROVE  /\ Due(x, y) \in Orders
             /\ \A a \in Assets : Due(x, y)[a] = x[a] - y[a]
             /\ IsSide(Sells(x, y), Due(x, y))
  <2>1. /\ \A a \in Assets : Due(x, y)[a] = x[a] - y[a]
        /\ Due(x, y) \in Orders
    <3>1. \A a \in Assets : x[a] - y[a] \in Int
      BY DEF Orders
    <3> QED BY <3>1 DEF Due, Orders
  <2>2. /\ Sells(x, y) \in Seq(Overweight(x, y)) /\ Len(Sells(x, y)) \in Nat
        /\ \A k, m \in 1..Len(Sells(x, y)) : k # m => Sells(x, y)[k] # Sells(x, y)[m]
    <3>1. Sells(x, y) \in Seq(Overweight(x, y)) /\ Len(Sells(x, y)) \in Nat
      BY SellsAreOverweight
    <3>2. \A k, m \in 1..Len(Sells(x, y)) : k # m => Sells(x, y)[k] # Sells(x, y)[m]
      BY SellsAreOverweight, ZenonT(30)
    <3> QED BY <3>1, <3>2
  <2>3. \A k \in 1..Len(Sells(x, y)) : Sells(x, y)[k] \in Overweight(x, y)
    BY <2>2, ElementOfSeq
  <2>4. \A a \in Overweight(x, y) : a \in Assets /\ Due(x, y)[a] > Dust
    BY <2>1 DEF Overweight
  <2> QED BY <2>1, <2>2, <2>3, <2>4 DEF IsSide
<1> QED BY <1>1 DEF Buys

(* The k-th of a side had its turn and has traded exactly what was due.    *)
Exact(side, due, i, done, k) ==
  k \in 1..Len(side) /\ k < i /\ done[side[k]] = due[side[k]]

(* The trades so far come from the turns taken, and the wallet they leave  *)
(* is what they add up to; the first of them already put an asset exactly  *)
(* on its target.                                                          *)
LoopSums(s, h, t) ==
  /\ TurnsTaken(Sells(h, t), Due(h, t), s.i, s.left, SoldOf(s.legs))
  /\ TurnsTaken(Buys(h, t), Due(t, h), s.j, s.need, BoughtOf(s.legs))
  /\ \A a \in Assets \ Overweight(h, t) : SoldOf(s.legs)[a] = 0
  /\ \A a \in Assets \ Overweight(t, h) : BoughtOf(s.legs)[a] = 0
  /\ \A a \in Assets :
       ApplyLegs(h, s.legs)[a] = h[a] - SoldOf(s.legs)[a] + BoughtOf(s.legs)[a]
  /\ \/ s.legs = <<>>
     \/ \E k : Exact(Sells(h, t), Due(h, t), s.i, SoldOf(s.legs), k)
     \/ \E k : Exact(Buys(h, t), Due(t, h), s.j, BoughtOf(s.legs), k)

LEMMA NothingDone ==
  /\ SoldOf(<<>>) \in Orders /\ BoughtOf(<<>>) \in Orders
  /\ \A a \in Assets : SoldOf(<<>>)[a] = 0 /\ BoughtOf(<<>>)[a] = 0
<1>1. \A a \in Assets : SoldOf(<<>>)[a] = 0 /\ BoughtOf(<<>>)[a] = 0
  BY NoLegsSum DEF SoldOf, BoughtOf
<1> QED BY <1>1 DEF SoldOf, BoughtOf, Orders

LEMMA SumsStart ==
  ASSUME NEW h \in Orders, NEW t \in Orders,
         Len(Sells(h, t)) > 0, Len(Buys(h, t)) > 0
  PROVE  LoopSums(LoopStart(h, t), h, t)
<1> DEFINE s == LoopStart(h, t)
<1>1. /\ s.i = 1 /\ s.j = 1 /\ s.legs = <<>>
      /\ s.left = h[Sells(h, t)[1]] - t[Sells(h, t)[1]]
      /\ s.need = t[Buys(h, t)[1]] - h[Buys(h, t)[1]]
  BY LoopStartsWell
<1> HIDE DEF s
<1>2. ASSUME NEW side, NEW due, IsSide(side, due), Len(side) > 0,
             NEW done, \A a \in Assets : done[a] = 0
      PROVE  TurnsTaken(side, due, 1, due[side[1]], done)
  <2> SUFFICES ASSUME NEW k \in 1..Len(side)
               PROVE  /\ ~(k < 1)
                      /\ k = 1 => /\ done[side[k]] = due[side[k]] - due[side[1]]
                                  /\ 0 <= due[side[1]] /\ due[side[1]] <= due[side[k]]
                      /\ done[side[k]] = 0
    BY DEF TurnsTaken
  <2>1. due[side[k]] \in Int /\ due[side[k]] > Dust /\ side[k] \in Assets
    BY <1>2 DEF IsSide, Orders
  <2>2. done[side[k]] = 0
    BY <1>2, <2>1
  <2> QED BY <2>1, <2>2, DustIsPositive
<1>3. TurnsTaken(Sells(h, t), Due(h, t), 1, s.left, SoldOf(<<>>))
  <2>1. IsSide(Sells(h, t), Due(h, t))
    BY SidesAreSides
  <2>2. TurnsTaken(Sells(h, t), Due(h, t), 1, Due(h, t)[Sells(h, t)[1]], SoldOf(<<>>))
    BY <1>2, <2>1, NothingDone
  <2>3. Sells(h, t)[1] \in Assets
    <3>1. 1 \in 1..Len(Sells(h, t))
      BY <2>1 DEF IsSide
    <3> QED BY <2>1, <3>1 DEF IsSide
  <2>4. Due(h, t)[Sells(h, t)[1]] = s.left
    BY <1>1, <2>3, SidesAreSides
  <2> QED BY <2>2, <2>4
<1>4. TurnsTaken(Buys(h, t), Due(t, h), 1, s.need, BoughtOf(<<>>))
  <2>1. IsSide(Buys(h, t), Due(t, h))
    BY SidesAreSides
  <2>2. TurnsTaken(Buys(h, t), Due(t, h), 1, Due(t, h)[Buys(h, t)[1]], BoughtOf(<<>>))
    BY <1>2, <2>1, NothingDone
  <2>3. Buys(h, t)[1] \in Assets
    <3>1. 1 \in 1..Len(Buys(h, t))
      BY <2>1 DEF IsSide
    <3> QED BY <2>1, <3>1 DEF IsSide
  <2>4. Due(t, h)[Buys(h, t)[1]] = s.need
    BY <1>1, <2>3, SidesAreSides
  <2> QED BY <2>2, <2>4
<1>5. \A a \in Assets :
        ApplyLegs(h, <<>>)[a] = h[a] - SoldOf(<<>>)[a] + BoughtOf(<<>>)[a]
  <2>1. \A a \in Assets : h[a] \in Int
    BY DEF Orders
  <2> QED BY <2>1, NothingDone, NoLegsApplied
<1>6. LoopSums(s, h, t)
  BY <1>1, <1>3, <1>4, <1>5, NothingDone DEF LoopSums
<1> QED BY <1>6 DEF s

(* What one more leg does to the sums.                                     *)
LEMMA OneMoreTraded ==
  ASSUME NEW legs \in Seq(Leg), NEW leg \in Leg,
         NEW side, NEW i, NEW other, NEW j, leg.from = side[i], leg.to = other[j]
  PROVE  /\ TradedBy(side, i, leg.value, SoldOf(legs), SoldOf(Append(legs, leg)))
         /\ TradedBy(other, j, leg.value, BoughtOf(legs), BoughtOf(Append(legs, leg)))
<1> DEFINE more == Append(legs, leg)
<1>1. leg.value \in Nat /\ leg.from \in Assets /\ leg.to \in Assets
  BY DEF Leg
<1>2. \A a \in Assets :
        /\ SoldOf(legs)[a] = SoldBy(legs, a) /\ SoldOf(more)[a] = SoldBy(more, a)
        /\ BoughtOf(legs)[a] = BoughtBy(legs, a) /\ BoughtOf(more)[a] = BoughtBy(more, a)
  BY DEF SoldOf, BoughtOf
<1>3. \A a \in Assets :
        /\ SoldBy(legs, a) \in Int /\ BoughtBy(legs, a) \in Int
        /\ SoldBy(more, a) = SoldBy(legs, a) + IF leg.from = a THEN leg.value ELSE 0
        /\ BoughtBy(more, a) = BoughtBy(legs, a) + IF leg.to = a THEN leg.value ELSE 0
  BY OneMoreLegSum
<1> HIDE DEF more
<1>4. \A a \in Assets :
        /\ SoldBy(more, a) \in Int /\ BoughtBy(more, a) \in Int
        /\ a = leg.from => SoldBy(more, a) = SoldBy(legs, a) + leg.value
        /\ a # leg.from => SoldBy(more, a) = SoldBy(legs, a)
        /\ a = leg.to => BoughtBy(more, a) = BoughtBy(legs, a) + leg.value
        /\ a # leg.to => BoughtBy(more, a) = BoughtBy(legs, a)
  BY <1>1, <1>3
<1>5. /\ SoldOf(legs) \in Orders /\ BoughtOf(legs) \in Orders
      /\ SoldOf(more) \in Orders /\ BoughtOf(more) \in Orders
  BY <1>3, <1>4 DEF SoldOf, BoughtOf, Orders
<1>6. TradedBy(side, i, leg.value, SoldOf(legs), SoldOf(more))
  BY <1>1, <1>2, <1>4, <1>5 DEF TradedBy
<1>7. TradedBy(other, j, leg.value, BoughtOf(legs), BoughtOf(more))
  BY <1>1, <1>2, <1>4, <1>5 DEF TradedBy
<1> QED BY <1>6, <1>7 DEF more

(* After a trade the turns taken are those of the state after.             *)
LEMMA NextTurns ==
  ASSUME NEW side, NEW due, IsSide(side, due), NEW i \in 1..Len(side),
         NEW x \in Int, NEW left \in Int, x <= left, x > 0, NEW done, NEW next,
         TradedBy(side, i, x, done, next), TurnsTaken(side, due, i, left, done),
         NEW turn \in BOOLEAN, NEW rest \in Int,
         turn <=> left - x < Dust,
         ~turn => rest = left - x,
         turn /\ i + 1 <= Len(side) => rest = due[side[i + 1]]
  PROVE  TurnsTaken(side, due, IF turn THEN i + 1 ELSE i, rest, next)
<1>1. /\ TurnsTaken(side, due, i, left - x, next)
      /\ left - x < Dust =>
           \A r \in Int : (i + 1 <= Len(side) => r = due[side[i + 1]])
                             => TurnsTaken(side, due, i + 1, r, next)
  BY TurnTaken
<1>2. CASE turn
  BY <1>1, <1>2
<1>3. CASE ~turn
  BY <1>1, <1>3
<1> QED BY <1>2, <1>3

(* An exact trade stays exact: its seller or buyer trades no more.         *)
LEMMA ExactStays ==
  ASSUME NEW side, NEW due, IsSide(side, due), NEW i \in 1..Len(side),
         NEW x, NEW done, NEW next, NEW j \in {i, i + 1}, NEW k,
         TradedBy(side, i, x, done, next), Exact(side, due, i, done, k)
  PROVE  Exact(side, due, j, next, k)
<1>1. k \in 1..Len(side) /\ k < i /\ done[side[k]] = due[side[k]]
  BY DEF Exact
<1>2. Len(side) \in Nat /\ k \in Nat /\ i \in Nat
  BY <1>1 DEF IsSide
<1>3. k < j /\ k # i
  BY <1>1, <1>2
<1>4. side[k] \in Assets /\ side[k] # side[i]
  BY <1>1, <1>3 DEF IsSide
<1>5. next[side[k]] = done[side[k]]
  BY <1>4 DEF TradedBy
<1> QED BY <1>1, <1>3, <1>5 DEF Exact

(* Wallet c is wallet h after what was sold and bought.                    *)
AddsUp(h, c, sold, bought) ==
  /\ h \in Orders /\ sold \in Orders /\ bought \in Orders
  /\ \A a \in Assets : c[a] = h[a] - sold[a] + bought[a]

(* The leg that trades x from side[i] to other[j], of a wallet c that has  *)
(* as much.                                                                *)
LegTrades(leg, c, x, side, i, other, j) ==
  /\ leg \in Leg /\ leg.value = x
  /\ leg.from = side[i] /\ leg.to = other[j] /\ leg.from # leg.to
  /\ c \in Orders /\ c[leg.from] >= x

(* What a leg does to a wallet that holds what it sells.                   *)
LEMMA AppliedAddsUp ==
  ASSUME NEW h, NEW c, NEW sold, NEW bought, AddsUp(h, c, sold, bought),
         NEW leg, NEW x, NEW side, NEW i, NEW other, NEW j,
         LegTrades(leg, c, x, side, i, other, j),
         NEW soldMore, TradedBy(side, i, x, sold, soldMore),
         NEW boughtMore, TradedBy(other, j, x, bought, boughtMore)
  PROVE  \A a \in Assets : ApplyLeg(c, leg)[a] = h[a] - soldMore[a] + boughtMore[a]
<1> USE DEF AddsUp, LegTrades
<1> SUFFICES ASSUME NEW a \in Assets
             PROVE  ApplyLeg(c, leg)[a] = h[a] - soldMore[a] + boughtMore[a]
  OBVIOUS
<1>1. ApplyLeg(c, leg)[a] = c[a] - (IF leg.from = a THEN leg.value ELSE 0)
                                 + (IF leg.to = a THEN leg.value ELSE 0)
  BY AppliedIsOrder
<1>2. leg.value \in Nat /\ leg.from \in Assets /\ leg.to \in Assets
  BY DEF Leg
<1>3. /\ c[a] = h[a] - sold[a] + bought[a]
      /\ c[a] \in Int /\ h[a] \in Int /\ sold[a] \in Int /\ bought[a] \in Int
  BY DEF Orders
<1>4. soldMore[a] = sold[a] + IF leg.from = a THEN leg.value ELSE 0
  <2>1. CASE leg.from = a
    BY <2>1 DEF TradedBy
  <2>2. CASE leg.from # a
    <3>1. soldMore[a] = sold[a]
      BY <2>2 DEF TradedBy
    <3> QED BY <1>3, <2>2, <3>1
  <2> QED BY <2>1, <2>2
<1>5. boughtMore[a] = bought[a] + IF leg.to = a THEN leg.value ELSE 0
  <2>1. CASE leg.to = a
    BY <2>1 DEF TradedBy
  <2>2. CASE leg.to # a
    <3>1. boughtMore[a] = bought[a]
      BY <2>2 DEF TradedBy
    <3> QED BY <1>3, <2>2, <3>1
  <2> QED BY <2>1, <2>2
<1>6. PICK y \in Nat, z \in Nat : /\ y = IF leg.from = a THEN leg.value ELSE 0
                                 /\ z = IF leg.to = a THEN leg.value ELSE 0
  BY <1>2
<1>7. /\ ApplyLeg(c, leg)[a] = c[a] - y + z
      /\ soldMore[a] = sold[a] + y /\ boughtMore[a] = bought[a] + z
  BY <1>1, <1>4, <1>5, <1>6
<1> QED BY <1>3, <1>7

LEMMA LoopKeepsSums ==
  ASSUME NEW h \in Orders, NEW t \in Orders, \A a \in Assets : t[a] >= 0,
         NEW s \in LoopShape(h, t), LoopSums(s, h, t)
  PROVE  LoopSums(LoopStep(s, h, t), h, t)
<1> DEFINE S == Sells(h, t)
           B == Buys(h, t)
           due == Due(h, t)
           deficit == Due(t, h)
<1>1. /\ IsSide(S, due) /\ IsSide(B, deficit) /\ due \in Orders /\ deficit \in Orders
      /\ \A a \in Assets : due[a] = h[a] - t[a] /\ deficit[a] = t[a] - h[a]
  BY SidesAreSides
<1>2. /\ s.i \in Nat /\ s.j \in Nat /\ s.legs \in Seq(Leg)
      /\ s.i \in 1..(Len(S) + 1) /\ s.j \in 1..(Len(B) + 1)
      /\ s.left \in Int /\ s.need \in Int
  BY DEF LoopShape, LoopState
<1>3. Len(S) \in Nat /\ Len(B) \in Nat
  BY <1>1 DEF IsSide
<1>4. CASE ~Open(s, h, t)
  BY <1>2, <1>3, <1>4, LoopStays
<1>5. CASE Open(s, h, t)
  <2>1. PICK x \in Nat, leg \in Leg, nextI \in BOOLEAN, nextJ \in BOOLEAN,
            left \in Int, need \in Int :
           Trade(s, x, leg, nextI, nextJ, left, need, h, t)
    BY <1>5, LoopTrades
  <2> DEFINE i == IF nextI THEN s.i + 1 ELSE s.i
             j == IF nextJ THEN s.j + 1 ELSE s.j
             legs == Append(s.legs, leg)
             sold == SoldOf(s.legs)
             bought == BoughtOf(s.legs)
             soldMore == SoldOf(legs)
             boughtMore == BoughtOf(legs)
             held == ApplyLegs(h, s.legs)
  <2>2. s.i \in 1..Len(S) /\ s.j \in 1..Len(B)
    BY <1>2, <1>3, <1>5 DEF Open
  <2>3. /\ x \in {s.left, s.need} /\ x <= s.left /\ x <= s.need /\ x >= Dust
        /\ nextI <=> s.left - x < Dust
        /\ nextJ <=> s.need - x < Dust
        /\ ~nextI => left = s.left - x
        /\ ~nextJ => need = s.need - x
        /\ nextI /\ s.i + 1 <= Len(S) => left = h[S[s.i + 1]] - t[S[s.i + 1]]
        /\ nextJ /\ s.j + 1 <= Len(B) => need = t[B[s.j + 1]] - h[B[s.j + 1]]
    BY <2>1 DEF Trade
  <2>4. x \in Int /\ x > 0
    BY <2>3, DustIsPositive
  <2>5. /\ leg.from = S[s.i] /\ leg.to = B[s.j] /\ leg.value = x
        /\ GoodLeg(leg, h, t)
    BY <2>1 DEF Trade
  <2>6. /\ leg.from \in Overweight(h, t) /\ leg.to \in Overweight(t, h)
        /\ leg.from \in Assets /\ leg.to \in Assets
    BY <2>5 DEF GoodLeg, Overweight
  <2>7. /\ leg.from \notin Overweight(t, h) /\ leg.to \notin Overweight(h, t)
        /\ leg.from # leg.to
    BY <2>6, SidesAreApart
  <2>8. /\ TradedBy(S, s.i, x, sold, soldMore)
        /\ TradedBy(B, s.j, x, bought, boughtMore)
    BY <1>2, <2>5, OneMoreTraded
  <2>9. /\ TurnsTaken(S, due, s.i, s.left, sold)
        /\ TurnsTaken(B, deficit, s.j, s.need, bought)
        /\ \A a \in Assets \ Overweight(h, t) : sold[a] = 0
        /\ \A a \in Assets \ Overweight(t, h) : bought[a] = 0
        /\ \A a \in Assets : held[a] = h[a] - sold[a] + bought[a]
    BY DEF LoopSums
  <2>10. LoopStep(s, h, t) = [i |-> i, j |-> j, left |-> left, need |-> need, legs |-> legs]
    BY <2>1 DEF Trade
  <2>11. held \in Orders /\ ApplyLegs(h, legs) = ApplyLeg(held, leg)
    BY <1>2, OneMoreApplied
  <2> HIDE DEF S, B, due, deficit, legs, sold, bought, soldMore, boughtMore, held
  <2>12. TurnsTaken(S, due, i, left, soldMore)
    <3>1. nextI /\ s.i + 1 <= Len(S) => left = due[S[s.i + 1]]
      <4> SUFFICES ASSUME nextI, s.i + 1 <= Len(S) PROVE left = due[S[s.i + 1]]
        OBVIOUS
      <4>1. s.i + 1 \in 1..Len(S)
        BY <1>2, <1>3
      <4>2. S[s.i + 1] \in Assets
        BY <1>1, <4>1 DEF IsSide
      <4> QED BY <1>1, <2>3, <4>2
    <3> QED BY <1>1, <1>2, <2>2, <2>3, <2>4, <2>8, <2>9, <3>1, NextTurns
  <2>13. TurnsTaken(B, deficit, j, need, boughtMore)
    <3>1. nextJ /\ s.j + 1 <= Len(B) => need = deficit[B[s.j + 1]]
      <4> SUFFICES ASSUME nextJ, s.j + 1 <= Len(B) PROVE need = deficit[B[s.j + 1]]
        OBVIOUS
      <4>1. s.j + 1 \in 1..Len(B)
        BY <1>2, <1>3
      <4>2. B[s.j + 1] \in Assets
        BY <1>1, <4>1 DEF IsSide
      <4> QED BY <1>1, <2>3, <4>2
    <3> QED BY <1>1, <1>2, <2>2, <2>3, <2>4, <2>8, <2>9, <3>1, NextTurns
  <2>14. \A a \in Assets \ Overweight(h, t) : soldMore[a] = 0
    <3> SUFFICES ASSUME NEW a \in Assets, a \notin Overweight(h, t) PROVE soldMore[a] = 0
      OBVIOUS
    <3>1. a # S[s.i]
      BY <2>5, <2>6
    <3> QED BY <2>8, <2>9, <3>1 DEF TradedBy
  <2>15. \A a \in Assets \ Overweight(t, h) : boughtMore[a] = 0
    <3> SUFFICES ASSUME NEW a \in Assets, a \notin Overweight(t, h) PROVE boughtMore[a] = 0
      OBVIOUS
    <3>1. a # B[s.j]
      BY <2>5, <2>6
    <3> QED BY <2>8, <2>9, <3>1 DEF TradedBy
  <2>16. held[leg.from] >= x
    <3> DEFINE a == leg.from
    <3>1. bought[a] = 0
      BY <2>6, <2>7, <2>9
    <3>2. sold[a] = due[a] - s.left
      BY <2>2, <2>5, <2>9 DEF TurnsTaken
    <3>3. due[a] = h[a] - t[a] /\ held[a] = h[a] - sold[a] + bought[a] /\ t[a] >= 0
      BY <1>1, <2>6, <2>9
    <3>4. h[a] \in Int /\ t[a] \in Int
      BY <2>6 DEF Orders
    <3> HIDE DEF a
    <3>5. held[a] = t[a] + s.left
      BY <1>2, <3>1, <3>2, <3>3, <3>4
    <3> QED BY <1>2, <2>3, <2>4, <3>3, <3>4, <3>5 DEF a
  <2>17. \A a \in Assets : ApplyLegs(h, legs)[a] = h[a] - soldMore[a] + boughtMore[a]
    <3>1. sold \in Orders /\ bought \in Orders
      BY <2>8 DEF TradedBy
    <3>2. AddsUp(h, held, sold, bought)
      BY <2>9, <3>1 DEF AddsUp
    <3>3. LegTrades(leg, held, x, S, s.i, B, s.j)
      BY <2>5, <2>7, <2>11, <2>16 DEF LegTrades
    <3>4. \A a \in Assets : ApplyLeg(held, leg)[a] = h[a] - soldMore[a] + boughtMore[a]
      BY <2>8, <3>2, <3>3, AppliedAddsUp
    <3> QED BY <2>11, <3>4
  <2>18. \/ \E k : Exact(S, due, i, soldMore, k)
         \/ \E k : Exact(B, deficit, j, boughtMore, k)
    <3>1. CASE x = s.left
      <4>1. nextI
        BY <1>2, <2>3, <3>1, DustIsPositive
      <4>2. soldMore[S[s.i]] = due[S[s.i]]
        BY <1>1, <1>2, <2>2, <2>3, <2>4, <2>8, <2>9, <3>1, TurnTaken, SMTT(20)
      <4>3. Exact(S, due, i, soldMore, s.i)
        BY <1>2, <2>2, <4>1, <4>2 DEF Exact
      <4> QED BY <4>3
    <3>2. CASE x = s.need
      <4>1. nextJ
        BY <1>2, <2>3, <3>2, DustIsPositive
      <4>2. boughtMore[B[s.j]] = deficit[B[s.j]]
        BY <1>1, <1>2, <2>2, <2>3, <2>4, <2>8, <2>9, <3>2, TurnTaken, SMTT(20)
      <4>3. Exact(B, deficit, j, boughtMore, s.j)
        BY <1>2, <2>2, <4>1, <4>2 DEF Exact
      <4> QED BY <4>3
    <3> QED BY <2>3, <3>1, <3>2
  <2> DEFINE r == LoopStep(s, h, t)
  <2>19. /\ r.i = i /\ r.j = j /\ r.left = left /\ r.need = need /\ r.legs = legs
    BY <2>10
  <2> HIDE DEF r, i, j
  <2>20. LoopSums(r, h, t)
    BY <2>12, <2>13, <2>14, <2>15, <2>17, <2>18, <2>19
       DEF LoopSums, S, B, due, deficit, soldMore, boughtMore
  <2> QED BY <2>20 DEF r
<1> QED BY <1>4, <1>5

(* A plan is what the loop has traded when it ends.                        *)
LEMMA PlanEndsLoop ==
  ASSUME NEW h \in Orders, NEW t \in Orders, \A a \in Assets : t[a] >= 0,
         PlanSwapLegs(h, t) # <<>>
  PROVE  \E s \in LoopShape(h, t) :
           /\ LoopSums(s, h, t)
           /\ ~Open(s, h, t)
           /\ s.legs = PlanSwapLegs(h, t)
<1> DEFINE S == Len(Sells(h, t))
           B == Len(Buys(h, t))
           D == {s \in LoopShape(h, t) : LoopSums(s, h, t)}
<1>1. S \in Nat /\ B \in Nat
  BY SidesAreSeqs
<1>2. Sells(h, t) # <<>> /\ Buys(h, t) # <<>> /\ TotalValue(h) # 0
  BY Zenon DEF PlanSwapLegs
<1>3. S > 0 /\ B > 0
  <2>1. Sells(h, t) \in Seq(Overweight(h, t)) /\ Buys(h, t) \in Seq(Overweight(t, h))
    BY SellsAreOverweight DEF Buys
  <2>2. S # 0 /\ B # 0
    BY <1>2, <2>1, EmptySeq
  <2> QED BY <1>1, <2>2
<1>4. LoopStart(h, t) \in D
  BY <1>3, LoopStartsWell, SumsStart
<1>5. \A s \in D : LoopStep(s, h, t) \in D
  BY LoopKeepsShape, LoopKeepsSums
<1>6. \A s \in D : s \in LoopShape(h, t) /\ LoopSums(s, h, t)
  OBVIOUS
<1> HIDE DEF D
<1>7. PICK g \in [Nat -> D] :
        /\ g[0] = LoopStart(h, t)
        /\ \A n \in Nat : g[n + 1] = LoopStep(g[n], h, t)
        /\ PlanSwapLegs(h, t) =
             IF TotalValue(h) = 0 \/ Sells(h, t) = <<>> \/ Buys(h, t) = <<>>
             THEN <<>> ELSE g[S + B].legs
  BY <1>4, <1>5, LoopStates, ZenonT(30)
<1>8. \A n \in Nat : g[n] \in LoopShape(h, t)
  BY <1>6
<1>9. ~Open(g[S + B], h, t)
  BY <1>3, <1>7, <1>8, LoopGoesOn
<1>10. g[S + B] \in LoopShape(h, t) /\ LoopSums(g[S + B], h, t)
  <2>1. S + B \in Nat
    BY <1>1
  <2> QED BY <1>6, <2>1
<1>11. PlanSwapLegs(h, t) = g[S + B].legs
  BY <1>2, <1>7
<1> QED BY <1>9, <1>10, <1>11

(* What a side has done when the i-th has its turn: within what is due.    *)
LEMMA DoneIsWithin ==
  ASSUME NEW side, NEW due, IsSide(side, due), NEW i \in Nat, NEW left \in Int,
         NEW done \in Orders, TurnsTaken(side, due, i, left, done)
  PROVE  /\ \A k \in 1..Len(side) : /\ 0 <= done[side[k]]
                                    /\ done[side[k]] <= due[side[k]]
         /\ i > Len(side) => \A k \in 1..Len(side) : due[side[k]] - done[side[k]] < Dust
<1>1. ASSUME NEW k \in 1..Len(side)
      PROVE  /\ 0 <= done[side[k]] /\ done[side[k]] <= due[side[k]]
             /\ i > Len(side) => due[side[k]] - done[side[k]] < Dust
  <2>1. /\ side[k] \in Assets /\ due[side[k]] \in Int /\ due[side[k]] > Dust
        /\ done[side[k]] \in Int /\ Len(side) \in Nat
    BY DEF IsSide, Orders
  <2>2. /\ k < i => due[side[k]] - done[side[k]] < Dust /\ due[side[k]] >= done[side[k]]
        /\ k = i => /\ done[side[k]] = due[side[k]] - left
                    /\ 0 <= left /\ left <= due[side[k]]
        /\ k > i => done[side[k]] = 0
    BY DEF TurnsTaken
  <2>3. k < i \/ k = i \/ k > i
    OBVIOUS
  <2>4. i > Len(side) => k < i
    BY <2>1
  <2>5. PICK d, u : d = done[side[k]] /\ u = due[side[k]]
    OBVIOUS
  <2>6. /\ d \in Int /\ u \in Int /\ u > Dust
        /\ k < i => u - d < Dust /\ u >= d
        /\ k = i => d = u - left /\ 0 <= left /\ left <= u
        /\ k > i => d = 0
    BY <2>1, <2>2, <2>5
  <2>7. 0 <= d /\ d <= u /\ (k < i => u - d < Dust)
    BY <2>3, <2>6, DustIsPositive
  <2> QED BY <2>4, <2>5, <2>7
<1> QED BY <1>1

(* Wallet w is between wallet h and the targets, one side of it is on them *)
(* but for dust, and one asset is on its target exactly.                   *)
Settled(w, h, t) ==
  /\ w \in Orders
  /\ \A a \in Overweight(h, t) : t[a] <= w[a] /\ w[a] <= h[a]
  /\ \A a \in Overweight(t, h) : h[a] <= w[a] /\ w[a] <= t[a]
  /\ \A a \in Assets : a \notin Overweight(h, t) /\ a \notin Overweight(t, h) => w[a] = h[a]
  /\ \/ \A a \in Overweight(h, t) : w[a] - t[a] < Dust
     \/ \A a \in Overweight(t, h) : t[a] - w[a] < Dust
  /\ \E a \in Assets : w[a] = t[a]

(* What is sold or bought is at most what is due.                          *)
WithinDue(done, due, over) ==
  /\ done \in Orders /\ due \in Orders
  /\ \A a \in over : a \in Assets /\ 0 <= done[a] /\ done[a] <= due[a]
  /\ \A a \in Assets : a \notin over => done[a] = 0

LEMMA SideIsDone ==
  ASSUME NEW h \in Orders, NEW t \in Orders, NEW i \in Nat, NEW left \in Int,
         NEW done \in Orders, TurnsTaken(Sells(h, t), Due(h, t), i, left, done),
         \A a \in Assets \ Overweight(h, t) : done[a] = 0
  PROVE  /\ WithinDue(done, Due(h, t), Overweight(h, t))
         /\ i > Len(Sells(h, t)) =>
              \A a \in Overweight(h, t) : Due(h, t)[a] - done[a] < Dust
         /\ \A k : Exact(Sells(h, t), Due(h, t), i, done, k) =>
              \E a \in Overweight(h, t) : done[a] = Due(h, t)[a]
<1>1. IsSide(Sells(h, t), Due(h, t)) /\ Due(h, t) \in Orders
  BY SidesAreSides
<1>2. /\ \A k \in 1..Len(Sells(h, t)) :
           /\ 0 <= done[Sells(h, t)[k]]
           /\ done[Sells(h, t)[k]] <= Due(h, t)[Sells(h, t)[k]]
      /\ i > Len(Sells(h, t)) =>
           \A k \in 1..Len(Sells(h, t)) :
             Due(h, t)[Sells(h, t)[k]] - done[Sells(h, t)[k]] < Dust
  BY <1>1, DoneIsWithin
<1>3. \A a \in Overweight(h, t) : \E k \in 1..Len(Sells(h, t)) : Sells(h, t)[k] = a
  BY SellsAreOverweight, Zenon
<1>4. Overweight(h, t) \subseteq Assets
  BY DEF Overweight
<1>5. WithinDue(done, Due(h, t), Overweight(h, t))
  BY <1>1, <1>2, <1>3, <1>4 DEF WithinDue
<1>6. i > Len(Sells(h, t)) =>
        \A a \in Overweight(h, t) : Due(h, t)[a] - done[a] < Dust
  BY <1>2, <1>3
<1>7. ASSUME NEW k, Exact(Sells(h, t), Due(h, t), i, done, k)
      PROVE  \E a \in Overweight(h, t) : done[a] = Due(h, t)[a]
  <2>1. k \in 1..Len(Sells(h, t)) /\ done[Sells(h, t)[k]] = Due(h, t)[Sells(h, t)[k]]
    BY <1>7 DEF Exact
  <2>2. Sells(h, t)[k] \in Overweight(h, t)
    BY <2>1, SidesOfPlan
  <2> QED BY <2>1, <2>2
<1> QED BY <1>5, <1>6, <1>7

(* One side has traded all but dust, and one asset exactly what was due.   *)
SideDone(sold, bought, h, t) ==
  /\ \/ \A a \in Overweight(h, t) : Due(h, t)[a] - sold[a] < Dust
     \/ \A a \in Overweight(t, h) : Due(t, h)[a] - bought[a] < Dust
  /\ \/ \E a \in Overweight(h, t) : sold[a] = Due(h, t)[a]
     \/ \E a \in Overweight(t, h) : bought[a] = Due(t, h)[a]

(* What sums within what is due make of the wallet.                        *)
LEMMA SumsSettle ==
  ASSUME NEW h \in Orders, NEW t \in Orders, NEW sold, NEW bought, NEW w \in Orders,
         WithinDue(sold, Due(h, t), Overweight(h, t)),
         WithinDue(bought, Due(t, h), Overweight(t, h)),
         AddsUp(h, w, sold, bought), SideDone(sold, bought, h, t)
  PROVE  Settled(w, h, t)
<1>1. \A a \in Assets :
        /\ h[a] \in Int /\ t[a] \in Int /\ sold[a] \in Int /\ bought[a] \in Int
        /\ Due(h, t)[a] = h[a] - t[a] /\ Due(t, h)[a] = t[a] - h[a]
        /\ w[a] = h[a] - sold[a] + bought[a]
  BY SidesAreSides DEF WithinDue, AddsUp, Orders
<1>2. \A a \in Overweight(h, t) : a \in Assets /\ a \notin Overweight(t, h)
  BY SidesAreApart DEF Overweight
<1>3. \A a \in Overweight(t, h) : a \in Assets /\ a \notin Overweight(h, t)
  BY SidesAreApart DEF Overweight
<1>4. ASSUME NEW a \in Overweight(h, t)
      PROVE  /\ t[a] <= w[a] /\ w[a] <= h[a]
             /\ Due(h, t)[a] - sold[a] < Dust => w[a] - t[a] < Dust
             /\ sold[a] = Due(h, t)[a] => w[a] = t[a]
             /\ a \in Assets
  <2>1. a \in Assets /\ bought[a] = 0 /\ 0 <= sold[a] /\ sold[a] <= Due(h, t)[a]
    BY <1>2 DEF WithinDue
  <2>2. w[a] = h[a] - sold[a]
    BY <1>1, <2>1
  <2> QED BY <1>1, <2>1, <2>2, DustIsPositive
<1>5. ASSUME NEW a \in Overweight(t, h)
      PROVE  /\ h[a] <= w[a] /\ w[a] <= t[a]
             /\ Due(t, h)[a] - bought[a] < Dust => t[a] - w[a] < Dust
             /\ bought[a] = Due(t, h)[a] => w[a] = t[a]
             /\ a \in Assets
  <2>1. a \in Assets /\ sold[a] = 0 /\ 0 <= bought[a] /\ bought[a] <= Due(t, h)[a]
    BY <1>3 DEF WithinDue
  <2>2. w[a] = h[a] + bought[a]
    BY <1>1, <2>1
  <2> QED BY <1>1, <2>1, <2>2, DustIsPositive
<1>6. ASSUME NEW a \in Assets, a \notin Overweight(h, t), a \notin Overweight(t, h)
      PROVE  w[a] = h[a]
  <2>1. sold[a] = 0 /\ bought[a] = 0
    BY <1>6 DEF WithinDue
  <2> QED BY <1>1, <2>1
<1>7. \/ \A a \in Overweight(h, t) : w[a] - t[a] < Dust
      \/ \A a \in Overweight(t, h) : t[a] - w[a] < Dust
  BY <1>4, <1>5 DEF SideDone
<1>8. \E a \in Assets : w[a] = t[a]
  BY <1>4, <1>5 DEF SideDone
<1> QED BY <1>4, <1>5, <1>6, <1>7, <1>8 DEF Settled

(* What a plan sells and buys, and what it makes of the wallet.            *)
LEMMA PlanSettles ==
  ASSUME NEW h \in Orders, NEW t \in Orders, \A a \in Assets : t[a] >= 0,
         PlanSwapLegs(h, t) # <<>>
  PROVE  /\ WithinDue(SoldOf(PlanSwapLegs(h, t)), Due(h, t), Overweight(h, t))
         /\ WithinDue(BoughtOf(PlanSwapLegs(h, t)), Due(t, h), Overweight(t, h))
         /\ Settled(ApplyLegs(h, PlanSwapLegs(h, t)), h, t)
<1>1. PICK s \in LoopShape(h, t) :
        LoopSums(s, h, t) /\ ~Open(s, h, t) /\ s.legs = PlanSwapLegs(h, t)
  BY PlanEndsLoop
<1> DEFINE sold == SoldOf(s.legs)
           bought == BoughtOf(s.legs)
           w == ApplyLegs(h, s.legs)
<1>2. /\ s.i \in Nat /\ s.j \in Nat /\ s.left \in Int /\ s.need \in Int
      /\ s.legs \in Seq(Leg)
  BY DEF LoopShape, LoopState
<1>3. /\ TurnsTaken(Sells(h, t), Due(h, t), s.i, s.left, sold)
      /\ TurnsTaken(Sells(t, h), Due(t, h), s.j, s.need, bought)
      /\ \A a \in Assets \ Overweight(h, t) : sold[a] = 0
      /\ \A a \in Assets \ Overweight(t, h) : bought[a] = 0
      /\ \A a \in Assets : w[a] = h[a] - sold[a] + bought[a]
      /\ \/ \E k : Exact(Sells(h, t), Due(h, t), s.i, sold, k)
         \/ \E k : Exact(Sells(t, h), Due(t, h), s.j, bought, k)
  BY <1>1 DEF LoopSums, Buys
<1>4. s.i > Len(Sells(h, t)) \/ s.j > Len(Sells(t, h))
  BY <1>1, <1>2, SidesAreSeqs DEF Open, Buys
<1>5. sold \in Orders /\ bought \in Orders
  <2>1. \A a \in Assets : SoldBy(s.legs, a) \in Int /\ BoughtBy(s.legs, a) \in Int
    <3>1. [from |-> 1, to |-> 1, value |-> 0] \in Leg
      BY AssetsAreFinite DEF Leg
    <3> QED BY <1>2, <3>1, OneMoreLegSum
  <2> QED BY <2>1 DEF SoldOf, BoughtOf, Orders
<1>6. w \in Orders
  <2>1. [from |-> 1, to |-> 1, value |-> 0] \in Leg
    BY AssetsAreFinite DEF Leg
  <2> QED BY <1>2, <2>1, OneMoreApplied
<1> HIDE DEF sold, bought, w
<1>7. /\ WithinDue(sold, Due(h, t), Overweight(h, t))
      /\ s.i > Len(Sells(h, t)) =>
           \A a \in Overweight(h, t) : Due(h, t)[a] - sold[a] < Dust
      /\ \A k : Exact(Sells(h, t), Due(h, t), s.i, sold, k) =>
           \E a \in Overweight(h, t) : sold[a] = Due(h, t)[a]
  BY <1>2, <1>3, <1>5, SideIsDone
<1>8. /\ WithinDue(bought, Due(t, h), Overweight(t, h))
      /\ s.j > Len(Sells(t, h)) =>
           \A a \in Overweight(t, h) : Due(t, h)[a] - bought[a] < Dust
      /\ \A k : Exact(Sells(t, h), Due(t, h), s.j, bought, k) =>
           \E a \in Overweight(t, h) : bought[a] = Due(t, h)[a]
  BY <1>2, <1>3, <1>5, SideIsDone
<1>9. SideDone(sold, bought, h, t)
  BY <1>3, <1>4, <1>7, <1>8 DEF SideDone
<1>10. AddsUp(h, w, sold, bought)
  BY <1>3, <1>5 DEF AddsUp
<1>11. Settled(w, h, t)
  BY <1>6, <1>7, <1>8, <1>9, <1>10, SumsSettle
<1> QED BY <1>1, <1>7, <1>8, <1>11 DEF sold, bought, w

(* A settled wallet has nobody left to sell or nobody left to buy.         *)
LEMMA SettledPlansNothing ==
  ASSUME NEW h \in Orders, NEW t \in Orders, NEW w, Settled(w, h, t)
  PROVE  /\ PlanSwapLegs(w, t) = <<>>
         /\ \/ \A a \in Assets : w[a] - t[a] <= Dust
            \/ \A a \in Assets : t[a] - w[a] <= Dust
<1>1. \A a \in Assets : h[a] \in Int /\ t[a] \in Int /\ w[a] \in Int
  BY DEF Settled, Orders
<1>2. w \in Orders
  BY DEF Settled
<1>3. ASSUME NEW a \in Assets
      PROVE  /\ a \in Overweight(h, t) \/ w[a] - t[a] <= Dust
             /\ a \in Overweight(t, h) \/ t[a] - w[a] <= Dust
  <2>1. CASE a \in Overweight(h, t)
    <3>1. t[a] <= w[a]
      BY <2>1 DEF Settled
    <3> QED BY <1>1, <2>1, <3>1, DustIsPositive
  <2>2. CASE a \in Overweight(t, h)
    <3>1. w[a] <= t[a]
      BY <2>2 DEF Settled
    <3> QED BY <1>1, <2>2, <3>1, DustIsPositive
  <2>3. CASE a \notin Overweight(h, t) /\ a \notin Overweight(t, h)
    <3>1. w[a] = h[a]
      BY <2>3 DEF Settled
    <3>2. ~(h[a] - t[a] > Dust) /\ ~(t[a] - h[a] > Dust)
      BY <2>3 DEF Overweight
    <3> QED BY <1>1, <3>1, <3>2, DustIsPositive
  <2> QED BY <2>1, <2>2, <2>3
<1>4. \/ \A a \in Overweight(h, t) : w[a] - t[a] < Dust
      \/ \A a \in Overweight(t, h) : t[a] - w[a] < Dust
  BY DEF Settled
<1>5. \/ \A a \in Assets : w[a] - t[a] <= Dust
      \/ \A a \in Assets : t[a] - w[a] <= Dust
  <2>1. \A a \in Assets : /\ w[a] - t[a] < Dust => w[a] - t[a] <= Dust
                          /\ t[a] - w[a] < Dust => t[a] - w[a] <= Dust
    BY <1>1, DustIsPositive
  <2> QED BY <1>3, <1>4, <2>1
<1>6. ASSUME NEW x \in Orders, NEW y \in Orders, \A a \in Assets : x[a] - y[a] <= Dust
      PROVE  Sells(x, y) = <<>>
  <2>1. Overweight(x, y) = {}
    <3>1. \A a \in Assets : ~(x[a] - y[a] > Dust)
      <4>1. \A a \in Assets : x[a] - y[a] \in Int
        BY DEF Orders
      <4> QED BY <1>6, <4>1, DustIsPositive
    <3> QED BY <3>1 DEF Overweight
  <2>2. /\ Sells(x, y) \in Seq(Overweight(x, y))
        /\ Len(Sells(x, y)) = Cardinality(Overweight(x, y))
    BY SellsAreOverweight
  <2>3. Len(Sells(x, y)) = 0
    BY <2>1, <2>2, FS_EmptySet
  <2> QED BY <2>2, <2>3, EmptySeq
<1>7. Sells(w, t) = <<>> \/ Buys(w, t) = <<>>
  BY <1>2, <1>5, <1>6 DEF Buys
<1>8. PlanSwapLegs(w, t) = <<>>
  BY <1>7, Zenon DEF PlanSwapLegs
<1> QED BY <1>5, <1>8

LEMMA BoundOnDrift ==
  LET bound == (NumAssets - 2) * Dust
  IN  bound \in Int /\ bound >= 0 /\ (NumAssets > 2 => bound >= Dust)
<1>1. NumAssets - 2 \in Nat /\ Dust \in Nat
  BY AssetsAreFinite, DustIsPositive
<1>2. PICK m \in Nat : m = NumAssets - 2
  BY <1>1
<1>3. m * Dust \in Int /\ m * Dust >= 0
  BY <1>1
<1>4. m > 0 => m * Dust >= Dust
  BY <1>1
<1>5. NumAssets > 2 => m > 0
  BY <1>2, AssetsAreFinite
<1> QED BY <1>2, <1>3, <1>4, <1>5

(* Deviations of at most Dust that add up to nothing, one of them nothing: *)
(* each is made up for by the others.                                      *)
LEMMA DeviationsAreSmall ==
  ASSUME NEW d \in Orders, SumFunctionOnSet(d, Assets) = 0,
         NEW z \in Assets, d[z] = 0, \A a \in Assets : d[a] <= Dust, NEW a \in Assets
  PROVE  -((NumAssets - 2) * Dust) <= d[a] /\ d[a] <= (NumAssets - 2) * Dust
<1> DEFINE bound == (NumAssets - 2) * Dust
           R == (Assets \ {a}) \ {z}
<1>1. bound \in Int /\ bound >= 0 /\ (NumAssets > 2 => bound >= Dust)
  BY BoundOnDrift
<1>2. \A b \in Assets : d[b] \in Int
  BY DEF Orders
<1>3. CASE a = z
  BY <1>1, <1>3
<1>4. CASE a # z
  <2>1. IsFiniteSet(Assets) /\ Cardinality(Assets) = NumAssets
    BY AssetsAreFinite
  <2>2. IsFiniteSet(Assets \ {a}) /\ Cardinality(Assets \ {a}) = NumAssets - 1
    BY <2>1, FS_RemoveElement
  <2>3. z \in Assets \ {a}
    BY <1>4
  <2>4. IsFiniteSet(R) /\ Cardinality(R) = (NumAssets - 1) - 1
    BY <2>2, <2>3, FS_RemoveElement
  <2>5. SumFunctionOnSet(d, Assets) = d[a] + SumFunctionOnSet(d, Assets \ {a})
    BY <1>2, <2>1, SumSplits
  <2>6. SumFunctionOnSet(d, Assets \ {a}) = d[z] + SumFunctionOnSet(d, R)
    BY <1>2, <2>2, <2>3, SumSplits
  <2>7. SumFunctionOnSet(d, R) \in Int
    BY <1>2, <2>4, SumType
  <2>8. SumFunctionOnSet(d, R) <= Cardinality(R) * Dust
    BY <1>2, <2>4, SumOfSmall, DustIsPositive
  <2>9. Cardinality(R) = NumAssets - 2
    BY <2>4, AssetsAreFinite
  <2>10. SumFunctionOnSet(d, R) <= bound
    BY <2>8, <2>9
  <2>11. NumAssets = 2 => SumFunctionOnSet(d, R) = 0
    <3>1. NumAssets = 2 => R = {}
      <4>1. NumAssets = 2 => Cardinality(R) = 0
        BY <2>9
      <4> HIDE DEF R
      <4> QED BY <2>4, <4>1, FS_EmptySet
    <3> QED BY <3>1, SumOfNone
  <2> HIDE DEF bound, R
  <2>12. PICK s \in Int : s = SumFunctionOnSet(d, R)
    BY <2>7
  <2>13. d[a] = -s /\ s <= bound /\ (NumAssets = 2 => s = 0)
    BY <1>2, <2>5, <2>6, <2>10, <2>11, <2>12
  <2>14. -bound <= d[a]
    BY <1>1, <2>13
  <2>15. d[a] <= bound
    <3>1. CASE NumAssets = 2
      BY <1>1, <2>13, <3>1
    <3>2. CASE NumAssets > 2
      BY <1>1, <1>2, <3>2, DustIsPositive
    <3> QED BY <3>1, <3>2, AssetsAreFinite
  <2> QED BY <2>14, <2>15 DEF bound
<1> QED BY <1>3, <1>4

LEMMA TotalsDiffer ==
  ASSUME NEW w \in Orders, NEW t \in Orders, TotalValue(w) = TotalValue(t)
  PROVE  SumFunctionOnSet(Due(w, t), Assets) = 0
<1>1. /\ TotalValue(w) = SumFunctionOnSet(w, Assets)
      /\ TotalValue(t) = SumFunctionOnSet(t, Assets)
  BY DEF TotalValue, SumFunction, Orders
<1>2. IsFiniteSet(Assets) /\ \A a \in Assets : w[a] \in Int /\ t[a] \in Int
  BY AssetsAreFinite DEF Orders
<1>3. SumFunctionOnSet(w, Assets) \in Int /\ SumFunctionOnSet(t, Assets) \in Int
  BY <1>2, SumType
<1>4. SumFunctionOnSet([a \in Assets |-> w[a] - t[a]], Assets)
        = SumFunctionOnSet(w, Assets) - SumFunctionOnSet(t, Assets)
  BY <1>2, SumOfDifferences
<1>5. PICK x \in Int, y \in Int : /\ x = SumFunctionOnSet(w, Assets)
                                 /\ y = SumFunctionOnSet(t, Assets)
  BY <1>3
<1>6. x = y
  BY <1>1, <1>5, Zenon
<1>7. SumFunctionOnSet(w, Assets) - SumFunctionOnSet(t, Assets) = 0
  <2>1. x - y = 0
    BY <1>6
  <2> QED BY <1>5, <2>1, Zenon
<1> QED BY <1>4, <1>7, Zenon DEF Due

LEMMA SettledIsNear ==
  ASSUME NEW h \in Orders, NEW t \in Orders, NEW w, Settled(w, h, t),
         TotalValue(w) = TotalValue(t)
  PROVE  MaxDrift(w, t) <= (NumAssets - 2) * Dust
<1> DEFINE bound == (NumAssets - 2) * Dust
           drifts == {AbsDiff(w[a], t[a]) : a \in Assets}
<1>1. w \in Orders
  BY DEF Settled
<1>2. \A a \in Assets : /\ w[a] \in Int /\ t[a] \in Int
                        /\ Due(w, t)[a] = w[a] - t[a] /\ Due(t, w)[a] = t[a] - w[a]
  BY <1>1, SidesAreSides DEF Orders
<1>3. Due(w, t) \in Orders /\ Due(t, w) \in Orders
  BY <1>1, SidesAreSides
<1>4. SumFunctionOnSet(Due(w, t), Assets) = 0 /\ SumFunctionOnSet(Due(t, w), Assets) = 0
  BY <1>1, TotalsDiffer
<1>5. PICK z \in Assets : w[z] = t[z]
  BY DEF Settled
<1>6. Due(w, t)[z] = 0 /\ Due(t, w)[z] = 0
  BY <1>2, <1>5
<1>7. bound \in Int
  BY BoundOnDrift
<1>8. ASSUME NEW a \in Assets
      PROVE  AbsDiff(w[a], t[a]) \in Int /\ AbsDiff(w[a], t[a]) <= bound
  <2>1. CASE \A b \in Assets : w[b] - t[b] <= Dust
    <3>1. \A b \in Assets : Due(w, t)[b] <= Dust
      BY <1>2, <2>1
    <3>2. -bound <= Due(w, t)[a] /\ Due(w, t)[a] <= bound
      BY <1>3, <1>4, <1>6, <3>1, DeviationsAreSmall
    <3> HIDE DEF bound
    <3> QED BY <1>2, <1>7, <3>2 DEF AbsDiff
  <2>2. CASE \A b \in Assets : t[b] - w[b] <= Dust
    <3>1. \A b \in Assets : Due(t, w)[b] <= Dust
      BY <1>2, <2>2
    <3>2. -bound <= Due(t, w)[a] /\ Due(t, w)[a] <= bound
      BY <1>3, <1>4, <1>6, <3>1, DeviationsAreSmall
    <3> HIDE DEF bound
    <3> QED BY <1>2, <1>7, <3>2 DEF AbsDiff
  <2> QED BY <2>1, <2>2, SettledPlansNothing
<1>9. drifts \in SUBSET Int /\ drifts # {} /\ \A x \in drifts : x <= bound
  BY <1>5, <1>8
<1> HIDE DEF drifts, bound
<1>10. \E x \in drifts : \A y \in drifts : x >= y
  BY <1>7, <1>9, GreatestBelow
<1>11. Max(drifts) \in drifts
  BY <1>10 DEF Max
<1> QED BY <1>9, <1>11 DEF MaxDrift, drifts, bound
=============================================================================
