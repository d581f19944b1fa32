------------------------------- MODULE Rewards -------------------------------
(***************************************************************************)
(* The RewardsEngine (backend/src/engine/rewards.ts) over the contracts of *)
(* RewardTracker.daml: transactions are counted on a tracker for each user *)
(* and month, and a monthly job pays them out and rolls the trackers over. *)
(*                                                                         *)
(* Calls of recordTransaction and runs of the job overlap; a request to    *)
(* the ledger and the code after it are one action, as that code has no    *)
(* state of the engine to read but the guard of the job.                   *)
(***************************************************************************)
EXTENDS Integers, FiniteSets, FiniteSetsExt

CONSTANTS
  Users,
  Recorders,       \* calls of recordTransaction that may overlap
  Jobs,            \* runs of distributeMonthlyRewards that may overlap
  TierBounds,      \* the counts up to which a tier lasts: 50, 200 and 500
  RatePerTx,       \* what a transaction earns in each tier
  MaxTx, MaxMonth, MaxRestarts  \* bounds

ConstantsAssumption ==
  /\ TierBounds \subseteq Nat /\ IsFiniteSet(TierBounds)
  /\ RatePerTx \in [0..Cardinality(TierBounds) -> Nat \ {0}]
  /\ {MaxTx, MaxMonth, MaxRestarts} \subseteq Nat

VARIABLES
  trackers,    \* ledger: the active RewardTrackers
  payouts,     \* ledger: the RewardPayouts
  lastDistributedMonthId,
  calls,       \* the local state of each call and job
  month,       \* the calendar
  counted,     \* how often RecordTx was executed for a user
  acked,       \* how often a call was told so
  created, restarts  \* trackers ever created, and a bound

ledgerVars == <<trackers, payouts, created, counted>>
vars == <<ledgerVars, lastDistributedMonthId, calls, month, acked, restarts>>

None == -1

Tiers == 0..Cardinality(TierBounds)

(* getTier: Bronze is 0 and Platinum 3.                                    *)
GetTier(n) == Cardinality({b \in TierBounds : n > b})

CalculateRewardAmount(tier, n) == n * RatePerTx[tier]

(* What a user is told of the next tier.                                   *)
TxToNextTier(n, tier) ==
  LET above == {b \in TierBounds : Cardinality({c \in TierBounds : c < b}) = tier}
  IN  IF above = {} THEN 0 ELSE Max({0, Min(above) + 1 - n})

Tracker == [id : Nat, user : Users, month : Nat, txCount : Nat, tier : Tiers,
            previousTier : Tiers, consecutiveMonths : Nat,
            totalRewardsEarned : Nat]

NewTracker(u, m) ==
  [id |-> created + 1, user |-> u, month |-> m, txCount |-> 0, tier |-> 0,
   previousTier |-> 0, consecutiveMonths |-> 0, totalRewardsEarned |-> 0]

Idle == [step |-> "idle"]

At(c, step) == calls[c].step = step

Goto(c, call) == calls' = [calls EXCEPT ![c] = call]

Init ==
  /\ trackers = {}
  /\ payouts = {}
  /\ lastDistributedMonthId = None
  /\ calls = [c \in Recorders \union Jobs |-> Idle]
  /\ month = 0
  /\ counted = [u \in Users |-> 0]
  /\ acked = [u \in Users |-> 0]
  /\ created = 0
  /\ restarts = 0

---------------------------------------------------------------------------
(* recordTransaction.                                                      *)

(* The month is determined before the trackers are queried.                *)
Record(c, u) ==
  /\ c \in Recorders /\ calls[c] = Idle
  /\ Goto(c, [step |-> "query", user |-> u, month |-> month])
  /\ UNCHANGED <<ledgerVars, lastDistributedMonthId, month, acked, restarts>>

(* One of the user's trackers for the month, or none.                      *)
FindTracker(c) ==
  LET found == {t \in trackers : t.user = calls[c].user /\ t.month = calls[c].month} IN
  /\ At(c, "query")
  /\ \/ /\ found = {}
        /\ Goto(c, [calls[c] EXCEPT !.step = "create"])
     \/ \E t \in found :
          Goto(c, [step |-> "record", user |-> t.user, tracker |-> t])
  /\ UNCHANGED <<ledgerVars, lastDistributedMonthId, month, acked, restarts>>

CreateTracker(c) ==
  LET t == NewTracker(calls[c].user, calls[c].month) IN
  /\ At(c, "create")
  /\ trackers' = trackers \union {t}
  /\ created' = created + 1
  /\ Goto(c, [step |-> "record", user |-> t.user, tracker |-> t])
  /\ UNCHANGED <<payouts, counted, lastDistributedMonthId, month, acked, restarts>>

(* A tier carried over from the month before is kept.                      *)
WithTx(t, id) ==
  [t EXCEPT !.id = id, !.txCount = @ + 1,
            !.tier = Max({t.previousTier, GetTier(t.txCount + 1)})]

(* RecordTx archives the tracker and creates it with one transaction more. *)
(* CreditReferrer, which follows, leaves no trace: it needs the argument   *)
(* creditedAt, gets timestamp, and its failure is swallowed.               *)
RecordTx(c) ==
  LET t == calls[c].tracker IN
  /\ At(c, "record")
  /\ t \in trackers
  /\ SumSet({counted[u] : u \in Users}) < MaxTx
  /\ trackers' = (trackers \ {t}) \union {WithTx(t, created + 1)}
  /\ created' = created + 1
  /\ counted' = [counted EXCEPT ![t.user] = @ + 1]
  /\ \E heard \in BOOLEAN : acked' = [acked EXCEPT ![t.user] = @ + (IF heard THEN 1 ELSE 0)]
  /\ Goto(c, Idle)
  /\ UNCHANGED <<payouts, lastDistributedMonthId, month, restarts>>

(* Any of the requests fails, RecordTx surely if the tracker is gone.      *)
RecordFails(c) ==
  /\ calls[c].step \in {"query", "create", "record"}
  /\ c \in Recorders
  /\ Goto(c, Idle)
  /\ UNCHANGED <<ledgerVars, lastDistributedMonthId, month, acked, restarts>>

---------------------------------------------------------------------------
(* distributeMonthlyRewards.                                               *)

StartJob(j) ==
  /\ j \in Jobs /\ calls[j] = Idle
  /\ month > 0
  /\ lastDistributedMonthId # month - 1
  /\ Goto(j, [step |-> "list", month |-> month - 1, next |-> month])
  /\ UNCHANGED <<ledgerVars, lastDistributedMonthId, month, acked, restarts>>

Earned(t) == CalculateRewardAmount(t.tier, t.txCount)

(* The trackers of the month that ended, without those that earn nothing.  *)
ListTrackers(j) ==
  /\ At(j, "list")
  /\ Goto(j, [step |-> "pay", month |-> calls[j].month, next |-> calls[j].next,
              todo |-> {t \in trackers : t.month = calls[j].month /\ Earned(t) > 0},
              distributed |-> FALSE, failed |-> FALSE])
  /\ UNCHANGED <<ledgerVars, lastDistributedMonthId, month, acked, restarts>>

RolledOver_KeepsCount(t, next, amount) ==
  [t EXCEPT !.id = created + 1, !.month = next,
            !.previousTier = t.tier,
            !.consecutiveMonths = IF GetTier(t.txCount) >= t.tier THEN @ + 1 ELSE 1,
            !.totalRewardsEarned = @ + amount]

RolledOver(t, next, amount) ==
  [t EXCEPT !.id = created + 1, !.month = next, !.txCount = 0,
            !.previousTier = t.tier,
            !.consecutiveMonths = IF GetTier(t.txCount) >= t.tier THEN @ + 1 ELSE 1,
            !.totalRewardsEarned = @ + amount]

Payout(t, amount) ==
  [tracker |-> t.id, user |-> t.user, month |-> t.month, tier |-> t.tier,
   txCount |-> t.txCount, amount |-> amount]

(* DistributeReward, which archives the tracker.                           *)
Pay(t, next) ==
  /\ t \in trackers
  /\ payouts' = payouts \union {Payout(t, Earned(t))}
  /\ trackers' = (trackers \ {t}) \union {RolledOver(t, next, Earned(t))}
  /\ created' = created + 1
  /\ UNCHANGED counted

(* The ledger may refuse: the request has no distributedAt, which the      *)
(* choice asks for, so a ledger that insists on it refuses every time.     *)
Distribute(j) ==
  /\ At(j, "pay")
  /\ \E t \in calls[j].todo :
       \/ /\ Pay(t, calls[j].next)
          /\ Goto(j, [calls[j] EXCEPT !.todo = @ \ {t}, !.distributed = TRUE])
       \/ /\ UNCHANGED ledgerVars
          /\ Goto(j, [calls[j] EXCEPT !.todo = @ \ {t}, !.failed = TRUE])
  /\ UNCHANGED <<lastDistributedMonthId, month, acked, restarts>>

(* The month is done if someone was paid and nobody failed.                *)
EndJob(j) ==
  /\ At(j, "pay")
  /\ calls[j].todo = {}
  /\ lastDistributedMonthId' =
       IF calls[j].distributed /\ ~calls[j].failed THEN calls[j].month
                                                   ELSE lastDistributedMonthId
  /\ Goto(j, Idle)
  /\ UNCHANGED <<ledgerVars, month, acked, restarts>>

---------------------------------------------------------------------------
NextMonth ==
  /\ month < MaxMonth
  /\ month' = month + 1
  /\ UNCHANGED <<ledgerVars, lastDistributedMonthId, calls, acked, restarts>>

(* The guard is lost with the process, and so are its calls.               *)
Restart ==
  /\ restarts < MaxRestarts
  /\ restarts' = restarts + 1
  /\ lastDistributedMonthId' = None
  /\ calls' = [c \in Recorders \union Jobs |-> Idle]
  /\ UNCHANGED <<ledgerVars, month, acked>>

Next ==
  \/ \E c \in Recorders, u \in Users : Record(c, u)
  \/ \E c \in Recorders :
       FindTracker(c) \/ CreateTracker(c) \/ RecordTx(c) \/ RecordFails(c)
  \/ \E j \in Jobs :
       StartJob(j) \/ ListTrackers(j) \/ Distribute(j) \/ EndJob(j)
  \/ NextMonth \/ Restart

Spec == Init /\ [][Next]_vars

---------------------------------------------------------------------------
(* Properties.                                                             *)

TypeOK ==
  /\ trackers \subseteq Tracker
  /\ \A p \in payouts : p.amount \in Nat \ {0} /\ p.month < month
  /\ lastDistributedMonthId \in None..(MaxMonth - 1)
  /\ month \in 0..MaxMonth
  /\ \A u \in Users : acked[u] \in 0..counted[u]

CountedIn(set, u) ==
  MapThenSumSet(LAMBDA x : x.txCount, {x \in set : x.user = u})

(* Every transaction that was recorded is on exactly one tracker or was    *)
(* paid out exactly once, though calls and jobs overlap, a restart forgets *)
(* which month was distributed, and a month ends under a call.             *)
TransactionsAreConserved ==
  \A u \in Users :
    CountedIn(trackers, u) + CountedIn(payouts, u) = counted[u]

(* The tiers are what users were told: a payout is at the rate of the      *)
(* count it pays, or of a tier the user was paid at before; and one more   *)
(* tier is reached with txToNextTier more transactions, and no fewer.      *)
TiersAreHonest ==
  /\ \A p \in payouts :
       \/ p.tier = GetTier(p.txCount)
       \/ \E q \in payouts : q.user = p.user /\ q.month < p.month /\ q.tier = p.tier
  /\ \A t \in trackers :
       LET more == TxToNextTier(t.txCount, t.tier) IN
       more > 0 => /\ GetTier(t.txCount + more) = t.tier + 1
                   /\ GetTier(t.txCount + more - 1) <= t.tier

(* Nothing a user did is lost or paid twice, nor at a tier the user did    *)
(* not reach (recordTransaction and distributeMonthlyRewards).             *)
RewardsAreExact == TransactionsAreConserved /\ TiersAreHonest
===========================================================================
