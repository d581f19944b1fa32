----------------------------- MODULE SwapPlan -----------------------------
(***************************************************************************)
(* The two pure functions of the rebalance engine                          *)
(* (backend/src/engine/rebalance.ts): calculateDrift and planSwapLegs.     *)
(*                                                                         *)
(* Assets are numbered by their position in the portfolio's target list.   *)
(* Every quantity is a value in one common unit: holdings[a] is the value  *)
(* held of asset a, target[a] the value that its target percentage stands  *)
(* for at the current total.  A leg carries the value it trades; the code  *)
(* divides it by the price of each side to get token amounts.  Dust is the *)
(* 0.01 of the code.                                                       *)
(***************************************************************************)
EXTENDS Integers, Sequences, FiniteSets, SequencesExt

CONSTANTS
  NumAssets,  \* the portfolio's assets are 1..NumAssets
  Dust        \* deviations up to Dust are not worth a trade

ASSUME NumAssetsAssumption == NumAssets \in Nat \ {0, 1}
ASSUME DustAssumption == Dust \in Nat \ {0}

Assets == 1..NumAssets

Leg == [from : Assets, to : Assets, value : Nat]

TotalValue(holdings) == SumFunction(holdings)

AbsDiff(x, y) == IF x >= y THEN x - y ELSE y - x

(***************************************************************************)
(* calculateDrift: the largest deviation of an asset from its target.  An  *)
(* empty portfolio is at weight 0 everywhere, hence at drift target[a].    *)
(***************************************************************************)
MaxDrift(holdings, target) ==
  Max({AbsDiff(holdings[a], target[a]) : a \in Assets})

(***************************************************************************)
(* planSwapLegs: overweight assets are matched greedily with underweight   *)
(* ones, both in descending order of deviation (ties in target order).     *)
(***************************************************************************)
Overweight(holdings, target) ==
  {a \in Assets : holdings[a] - target[a] > Dust}

(* Whether asset a comes before asset b.                                   *)
Before(a, b, holdings, target) ==
  LET excess(c) == holdings[c] - target[c]
  IN  \/ excess(a) > excess(b)
      \/ excess(a) = excess(b) /\ a < b

(* The k-th of the overweight assets has k - 1 of them before it.          *)
Sells(holdings, target) ==
  LET over == Overweight(holdings, target)
      rank(a) == Cardinality({b \in over : Before(b, a, holdings, target)})
  IN  [k \in 1..Cardinality(over) |-> CHOOSE a \in over : rank(a) = k - 1]

Buys(holdings, target) == Sells(target, holdings)

(***************************************************************************)
(* The matching loop as the sequence of its states: i and j index the      *)
(* current seller and buyer, left and need are what they still have to     *)
(* trade.  Each trade exhausts a side, and a side left with less than Dust *)
(* is passed over.                                                         *)
(***************************************************************************)
Traded_WholeNeed(s) == s.need
Traded(s) == Min({s.left, s.need})

Exhausted(rest) == rest < Dust

(* The amount the k-th of a side has to trade, once it is that one's turn. *)
TurnOf(k, side, held, wanted, otherwise) ==
  IF k <= Len(side) THEN held[side[k]] - wanted[side[k]] ELSE otherwise

MatchStep(s, sells, buys, holdings, target) ==
  LET traded == Traded(s)
      skip   == traded < Dust
      nextI  == skip \/ Exhausted(s.left - traded)
      nextJ  == skip \/ Exhausted(s.need - traded)
  IN  IF s.i > Len(sells) \/ s.j > Len(buys) THEN s
      ELSE [i |-> IF nextI THEN s.i + 1 ELSE s.i,
            j |-> IF nextJ THEN s.j + 1 ELSE s.j,
            left |-> IF nextI
                     THEN TurnOf(s.i + 1, sells, holdings, target, s.left)
                     ELSE s.left - traded,
            need |-> IF nextJ
                     THEN TurnOf(s.j + 1, buys, target, holdings, s.need)
                     ELSE s.need - traded,
            legs |-> IF skip THEN s.legs
                     ELSE Append(s.legs, [from |-> sells[s.i],
                                          to |-> buys[s.j],
                                          value |-> traded])]

PlanSwapLegs(holdings, target) ==
  LET sells == Sells(holdings, target)
      buys  == Buys(holdings, target)
      start == [i |-> 1, j |-> 1,
                left |-> TurnOf(1, sells, holdings, target, 0),
                need |-> TurnOf(1, buys, target, holdings, 0), legs |-> <<>>]
      loop[n \in Nat] ==
        IF n = 0 THEN start
        ELSE MatchStep(loop[n - 1], sells, buys, holdings, target)
  IN  IF TotalValue(holdings) = 0 \/ sells = <<>> \/ buys = <<>>
      THEN <<>>
      ELSE loop[Len(sells) + Len(buys)].legs

(***************************************************************************)
(* The effect on a wallet of executing one leg (computeUpdatedHoldings     *)
(* clamps the asset sold at 0).                                            *)
(***************************************************************************)
ApplyLeg(holdings, leg) ==
  LET sold == [holdings EXCEPT ![leg.from] = Max({0, @ - leg.value})]
  IN  [sold EXCEPT ![leg.to] = @ + leg.value]

ApplyLegs(holdings, legs) == FoldLeft(ApplyLeg, holdings, legs)
===========================================================================
