---------------------------- MODULE MCSwapPlan ----------------------------
(***************************************************************************)
(* Checks planSwapLegs against what a plan must be, on every holding of    *)
(* NumAssets assets worth Total and every target with (almost) the same    *)
(* total: the one step of the model carries out the plan it computes.      *)
(***************************************************************************)
EXTENDS SwapPlan

CONSTANTS
  Total,  \* bound: value of the portfolio
  Slack   \* the percentages may sum to 99.9 .. 100.1: value this leaves

ASSUME BoundsAssumption == Total \in Nat /\ Slack \in Nat

VARIABLES holdings, target, rounds

vars == <<holdings, target, rounds>>

ValuesWithin(slack) ==
  {v \in [Assets -> 0..(Total + slack)] : AbsDiff(TotalValue(v), Total) <= slack}

Portfolios == ValuesWithin(0)
Wishes == ValuesWithin(Slack)

Init ==
  /\ holdings \in Portfolios
  /\ target \in Wishes
  /\ rounds = 0

Plan == PlanSwapLegs(holdings, target)

Rebalance ==
  /\ rounds = 0
  /\ Plan # <<>>
  /\ holdings' = ApplyLegs(holdings, Plan)
  /\ rounds' = 1
  /\ UNCHANGED target

Next == Rebalance

Spec == Init /\ [][Next]_vars

Sold(a)   == SumFunction([k \in DOMAIN Plan |->
               IF Plan[k].from = a THEN Plan[k].value ELSE 0])
Bought(a) == SumFunction([k \in DOMAIN Plan |->
               IF Plan[k].to = a THEN Plan[k].value ELSE 0])

(* No plan sells more of an asset than its excess over the target, nor     *)
(* buys more than its deficit: the sequential legs of planSwapLegs never   *)
(* overshoot, whatever the order and number of counterparties.             *)
NeverOvershoots ==
  \A a \in Assets : /\ Sold(a) <= Max({0, holdings[a] - target[a]})
                    /\ Bought(a) <= Max({0, target[a] - holdings[a]})

(* A plan has fewer legs than the assets that need a trade ("minimize the  *)
(* number of swap legs"), and none of its legs is dust.                    *)
PlanIsShort ==
  /\ Plan # <<>> => Len(Plan) < Len(Sells(holdings, target))
                                + Len(Buys(holdings, target))
  /\ \A k \in DOMAIN Plan : Plan[k].value >= Dust

(* After one rebalance there is nothing left to plan: repeated calls of    *)
(* the engine on a settled portfolio never trade again.                    *)
SettlesInOneRound == rounds = 1 => Plan = <<>>

(* When the targets sum to the portfolio's value, one rebalance brings     *)
(* every asset to within what the planner ignores: a rebalance puts one    *)
(* asset on its target and at most Dust is left of each of the others.     *)
RebalanceReachesTarget ==
  (rounds = 1 /\ TotalValue(holdings) = TotalValue(target))
    => MaxDrift(holdings, target) <= (NumAssets - 2) * Dust
===========================================================================
