------------------------------ MODULE MCValue ------------------------------
(***************************************************************************)
(* What is paid and at which price, checked in one run: the swaps with the *)
(* treasury, those on the market, the price oracle, the reinvestment of    *)
(* yields and the monthly rewards.  A swap is checked against whatever the *)
(* oracle may say, so the parts share no state and their interleavings say *)
(* nothing: part is the one that moves in a behaviour, and the others stay *)
(* as they are.                                                            *)
(***************************************************************************)
EXTENDS MCTreasurySwap

CONSTANTS
  d1, d2, p1, e1, v1, n1, j1, s1, w1, w2,
  Listed, Quoted, Readers, Prices, MadeUp, CacheTtl,         \* of PriceOracle
  MaxHistory, MaxRecords, MaxPriceTime,
  Parties, Executors, Interval, FirstPeriod, SlotsPerDay,    \* of Compound
  Slot, CatchUp, Minima, MaxLegs, MaxCompoundTime, MaxChanges,
  Traders, Recorders, Jobs, TierBounds, RatePerTx, MaxTx,    \* of Rewards
  MaxMonth,
  MaxRestarts,                                               \* of both
  Swaps, Watchers, Amount, Outputs, Books, Dummy, Attempts,  \* of SmartRouter
  CantexFee, TakerRate, AvailabilityTtl, MaxRouterTime

VARIABLES
  part,
  cache, buffers, recorded, readings, priceTime,
  configs, runs, lastCompoundTime, file, saving, wanted, onLedger, writes, boot,
  executions, compounded, compoundTime, changes, restarts,
  trackers, payouts, lastDistributedMonthId, recordings, month, counted, acked,
  created, rewardRestarts,
  live, orders, executed, gauge, watchers, healthy, routerTime

(* The sidecar's made-up price of every asset.                             *)
Nine == [a \in Listed |-> 9]

(* The frequencies last one slot and two.                                  *)
Frequencies == [f \in {"hourly", "daily"} |-> IF f = "hourly" THEN 1 ELSE 2]

Slots == [p \in Parties |-> 1]

(* A higher tier earns more.                                               *)
Rates == [t \in 0..1 |-> t + 1]

(* The books of Temple: none, one bid, a better one before a worse one that*)
(* is larger, or not, and one that does not take all.                      *)
Bid(price, amount) == [price |-> price, amount |-> amount]
Bids == {<<>>, <<Bid(2, 1)>>, <<Bid(2, 1), Bid(1, 2)>>, <<Bid(2, 1), Bid(1, 1)>>,
         <<Bid(2, 1), Bid(2, 1), Bid(1, 1)>>}

(* The sidecar's client retries once, Temple's twice.                      *)
Tries == [cantex |-> 2, temple |-> 3]

Oracle == INSTANCE PriceOracle WITH
            Assets <- Listed, Mock <- MadeUp, MaxTime <- MaxPriceTime,
            calls <- readings, now <- priceTime
Reinvestment == INSTANCE Compound WITH
            MaxTime <- MaxCompoundTime, calls <- executions, now <- compoundTime
Monthly == INSTANCE Rewards WITH
            Users <- Traders, calls <- recordings, restarts <- rewardRestarts
Router == INSTANCE SmartRouter WITH
            Mock <- Dummy, MaxTime <- MaxRouterTime, calls <- orders, now <- routerTime

ASSUME OracleAssumption == Oracle!ConstantsAssumption
ASSUME ReinvestmentAssumption == Reinvestment!ConstantsAssumption
ASSUME MonthlyAssumption == Monthly!ConstantsAssumption
ASSUME RouterAssumption == Router!ConstantsAssumption

oracleVars == <<cache, buffers, recorded, readings, priceTime>>
compoundVars == <<configs, runs, lastCompoundTime, file, saving, wanted, onLedger,
                  writes, boot, executions, compounded, compoundTime, changes,
                  restarts>>
rewardVars == <<trackers, payouts, lastDistributedMonthId, recordings, month, counted,
                acked, created, rewardRestarts>>
routerVars == <<live, orders, executed, gauge, watchers, healthy, routerTime>>
valueVars == <<part, vars, oracleVars, compoundVars, rewardVars, routerVars>>

ValueInit ==
  /\ part \in {"treasury", "oracle", "compound", "rewards", "router"}
  /\ part # "treasury" => market = Stable
  /\ part # "router" => live = {}
  /\ Init /\ Oracle!Init /\ Reinvestment!Init /\ Monthly!Init /\ Router!Init

ValueNext ==
  \/ /\ part = "treasury" /\ Next
     /\ UNCHANGED <<part, oracleVars, compoundVars, rewardVars, routerVars>>
  \/ /\ part = "oracle" /\ Oracle!Next
     /\ UNCHANGED <<part, vars, compoundVars, rewardVars, routerVars>>
  \/ /\ part = "compound" /\ Reinvestment!Next
     /\ UNCHANGED <<part, vars, oracleVars, rewardVars, routerVars>>
  \/ /\ part = "rewards" /\ Monthly!Next
     /\ UNCHANGED <<part, vars, oracleVars, compoundVars, routerVars>>
  \/ /\ part = "router" /\ Router!Next
     /\ UNCHANGED <<part, vars, oracleVars, compoundVars, rewardVars>>

ValueSpec == ValueInit /\ [][ValueNext]_valueVars

---------------------------------------------------------------------------
(* The types of the parts' state (treasury.ts, price-oracle.ts,            *)
(* compound.ts, rewards.ts and smart-router.ts).                           *)
TypesOK ==
  CASE part = "treasury" -> TypeOK
    [] part = "oracle" -> Oracle!TypeOK
    [] part = "compound" -> Reinvestment!TypeOK
    [] part = "rewards" -> Monthly!TypeOK
    [] part = "router" -> Router!TypeOK

(* What is told of the market is true: the oracle's prices of the present  *)
(* and of the past are those it saw (price-oracle.ts), and the router sends*)
(* a swap to the venue that promises most, once for every attempt, reports *)
(* what that venue did, and calls Cantex available only if a probe said so *)
(* (smart-router.ts, cantex.ts and temple-client.ts).                      *)
TheMarketIsTold ==
  /\ part = "oracle" => Oracle!PricesAreHonest
  /\ part = "router" => Router!VenuesAreReported

(* No save of the compound engine is lost: whenever nothing is being       *)
(* written and the last write did not fail, the file holds the state of the*)
(* latest call of saveState (compound.ts).                                 *)
FileCatchesUp == part = "compound" => Reinvestment!FileCatchesUp

(* The engine does not reinvest yield that cannot have accrued: the time   *)
(* compounded for a party is within the time that has passed, plus the day *)
(* a first detection assumes, again after each restart (compound.ts).      *)
YieldIsNotInvented == part = "compound" => Reinvestment!YieldIsNotInvented

(* Nothing a user did is lost or paid twice, nor at a tier the user did not*)
(* reach (rewards.ts, recordTransaction and distributeMonthlyRewards).     *)
RewardsAreExact == part = "rewards" => Monthly!RewardsAreExact
===========================================================================
