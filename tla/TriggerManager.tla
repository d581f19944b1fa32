---------------------------- MODULE TriggerManager ----------------------------
(***************************************************************************)
(* The TriggerManager (backend/src/engine/trigger-manager.ts): polls that  *)
(* look for portfolios to rebalance, a degraded mode that falls back to    *)
(* what the cron jobs do, and a queue of activity markers.                 *)
(*                                                                         *)
(* The polls of setInterval may overlap: a poll waits a random jitter of   *)
(* up to a minute for each drifted portfolio and starts every 30 seconds.  *)
(* An action is the code between two awaits.  Each change of a portfolio   *)
(* archives its contract, so a contract is a portfolio and a version; the  *)
(* rebalance itself is module Rebalance, here a single action.  DCA        *)
(* schedules are only delegated to module DCA's ticks and are left out.    *)
(***************************************************************************)
EXTENDS Integers, Sequences

CONSTANTS
  Portfolios,
  Polls,        \* polls that may run at once
  Threshold,    \* circuitBreakerThreshold
  CronFallback, \* cronFallback
  GiveUp,       \* MAX_CONSECUTIVE_FAILURES of checkAndAutoRebalance
  MaxFailures,  \* bound: requests that fail
  MaxChanges    \* bound: changes of portfolios by their owners

ConstantsAssumption ==
  /\ {Threshold, GiveUp} \subseteq Nat \ {0}
  /\ CronFallback \in BOOLEAN
  /\ {MaxFailures, MaxChanges} \subseteq Nat

VARIABLES
  ledger,       \* the current contract of each portfolio
  mode,         \* state
  timer,        \* pollTimer is set
  tracked,      \* the keys of the map portfolios
  failures,     \* consecutiveFailures
  deferred,     \* rebalances of new portfolios that wait for their jitter
  heap,         \* the arrays that were ever pendingActivityMarkers
  recorded,     \* markers passed to recordActivity
  polls,        \* the local state of each poll
  failed, changes  \* what the bounds count

lifecycleVars == <<mode, timer, failures>>
markerVars == <<heap, recorded>>
boundVars == <<failed, changes>>
vars == <<ledger, lifecycleVars, tracked, deferred, markerVars, polls, boundVars>>

Contract == [of : Portfolios, version : Nat, auto : BOOLEAN, drifted : BOOLEAN]

Contracts == {ledger[p] : p \in Portfolios}

(* In DriftThreshold mode with a drift that is not below the threshold.    *)
Due(c) == c.auto /\ c.drifted

Idle == [step |-> "idle", seen |-> {}, target |-> {}, array |-> 0, at |-> 0]

At(k, step) == polls[k].step = step

Goto(k, step) == polls' = [polls EXCEPT ![k].step = step]

Init ==
  /\ \E mode0, drift0 \in [Portfolios -> BOOLEAN] :
       ledger = [p \in Portfolios |->
         [of |-> p, version |-> 0, auto |-> mode0[p], drifted |-> drift0[p]]]
  /\ mode = "stopped"
  /\ timer = FALSE
  /\ tracked = {}
  /\ failures = 0
  /\ deferred = {}
  /\ heap = << <<>> >>
  /\ recorded = {}
  /\ polls = [k \in Polls |-> Idle]
  /\ failed = 0
  /\ changes = 0

---------------------------------------------------------------------------
(* startTriggerManager and stopTriggerManager: each instance is started    *)
(* once, and a stopped one is forgotten.                                   *)

Start ==
  /\ mode = "stopped" /\ ~timer /\ failures = 0 /\ failed + changes = 0
  /\ mode' = "starting"
  /\ UNCHANGED <<ledger, timer, failures, tracked, deferred, markerVars, polls,
                 boundVars>>

Scanned ==
  /\ mode = "starting"
  /\ tracked' = Contracts
  /\ mode' = "running"
  /\ timer' = TRUE
  /\ UNCHANGED <<ledger, failures, deferred, markerVars, polls, boundVars>>

Fail ==
  /\ failed < MaxFailures
  /\ failed' = failed + 1
  /\ UNCHANGED changes

(* The scan fails: the polls are left to recover, or start throws.         *)
ScanFails ==
  /\ mode = "starting"
  /\ Fail
  /\ mode' = IF CronFallback THEN "degraded" ELSE "stopped"
  /\ timer' = CronFallback
  /\ UNCHANGED <<ledger, failures, tracked, deferred, markerVars, polls>>

(* Polls that run go on.                                                   *)
Stop ==
  /\ timer
  /\ timer' = FALSE
  /\ mode' = "stopped"
  /\ UNCHANGED <<ledger, failures, tracked, deferred, markerVars, polls, boundVars>>

---------------------------------------------------------------------------
(* A poll.                                                                 *)

Tick(k) ==
  /\ timer
  /\ polls[k] = Idle
  /\ Goto(k, "refresh")
  /\ UNCHANGED <<ledger, lifecycleVars, tracked, deferred, markerVars, boundVars>>

Refresh_IgnoresNew(k) ==
  /\ At(k, "refresh")
  /\ tracked' = tracked \cap Contracts
  /\ Goto(k, "load")
  /\ UNCHANGED <<ledger, lifecycleVars, deferred, markerVars, boundVars>>

(* refreshContractState: a contract that was not tracked and is due is     *)
(* rebalanced after a jitter, with the payload it has now.                 *)
Refresh(k) ==
  /\ At(k, "refresh")
  /\ tracked' = Contracts
  /\ deferred' = deferred \union {c \in Contracts \ tracked : Due(c)}
  /\ Goto(k, "load")
  /\ UNCHANGED <<ledger, lifecycleVars, markerVars, boundVars>>

(* processPortfolios has its payloads.                                     *)
Load(k) ==
  /\ At(k, "load")
  /\ polls' = [polls EXCEPT ![k].step = "portfolios", ![k].seen = Contracts]
  /\ UNCHANGED <<ledger, lifecycleVars, tracked, deferred, markerVars, boundVars>>

(* handlePortfolioRebalance of the next contract that is still in the map: *)
(* it is due in the payload read before, and waits for its jitter.         *)
Choose(k) ==
  /\ At(k, "portfolios")
  /\ \E c \in polls[k].seen \cap tracked :
       /\ Due(c)
       /\ polls' = [polls EXCEPT ![k].step = "jitter", ![k].target = {c},
                                 ![k].seen = @ \ {c}]
  /\ UNCHANGED <<ledger, lifecycleVars, tracked, deferred, markerVars, boundVars>>

Rebalanced_ByPortfolio(c) ==
  /\ ledger' = [ledger EXCEPT ![c.of].version = @ + 1, ![c.of].drifted = FALSE]
  /\ heap' = [heap EXCEPT ![Len(heap)] = Append(@, c)]
  /\ UNCHANGED <<failed, changes>>

(* executeRebalance finds the contract by its id and brings the holdings   *)
(* to their targets; the marker of the activity is queued.                 *)
Rebalanced(c) ==
  /\ ledger[c.of] = c
  /\ ledger' = [ledger EXCEPT ![c.of].version = @ + 1, ![c.of].drifted = FALSE]
  /\ heap' = [heap EXCEPT ![Len(heap)] = Append(@, c)]
  /\ UNCHANGED <<failed, changes>>

(* It fails: the contract is gone, or something went wrong before or after *)
(* InitiateRebalance created the portfolio anew.                           *)
NotRebalanced(c) ==
  /\ \/ ledger[c.of] # c /\ UNCHANGED <<ledger, failed, changes>>
     \/ Fail /\ ledger[c.of] = c /\ UNCHANGED ledger
     \/ Fail /\ ledger[c.of] = c /\ ledger' = [ledger EXCEPT ![c.of].version = @ + 1]
  /\ UNCHANGED heap

ExecuteRebalance(c) == Rebalanced(c) \/ NotRebalanced(c)

Rebalance(k) ==
  /\ At(k, "jitter")
  /\ \E c \in polls[k].target : ExecuteRebalance(c)
  /\ polls' = [polls EXCEPT ![k].step = "portfolios", ![k].target = {}]
  /\ UNCHANGED <<lifecycleVars, tracked, deferred, recorded>>

Deferred(c) ==
  /\ ExecuteRebalance(c)
  /\ deferred' = deferred \ {c}
  /\ UNCHANGED <<lifecycleVars, tracked, recorded, polls>>

(* No contract is left, and the requests that are pending cannot be told   *)
(* which portfolio they are of: on to the markers.                         *)
Processed(k) ==
  /\ At(k, "portfolios")
  /\ ~\E c \in polls[k].seen \cap tracked : Due(c)
  /\ polls' = [polls EXCEPT ![k].step = "markers", ![k].seen = {},
                            ![k].array = Len(heap), ![k].at = 1]
  /\ UNCHANGED <<ledger, lifecycleVars, tracked, deferred, markerVars, boundVars>>

(* retryPendingActivityMarkers: recordActivity never throws.               *)
Record(k) ==
  LET array == heap[polls[k].array] IN
  /\ At(k, "markers")
  /\ polls[k].at <= Len(array)
  /\ recorded' = recorded \union {array[polls[k].at]}
  /\ polls' = [polls EXCEPT ![k].at = @ + 1]
  /\ UNCHANGED <<ledger, lifecycleVars, tracked, deferred, heap, boundVars>>

(* The array is replaced by an empty one, and a degraded manager recovers. *)
PollSucceeds(k) ==
  /\ At(k, "markers")
  /\ polls[k].at > Len(heap[polls[k].array])
  /\ heap' = IF polls[k].at > 1 THEN Append(heap, <<>>) ELSE heap
  /\ failures' = 0
  /\ mode' = IF mode = "degraded" THEN "running" ELSE mode
  /\ polls' = [polls EXCEPT ![k] = Idle]
  /\ UNCHANGED <<ledger, timer, tracked, deferred, recorded, boundVars>>

(* One of the queries fails; at the threshold the cron cycle takes over.   *)
PollFails(k) ==
  /\ polls[k].step \in {"refresh", "load"}
  /\ Fail
  /\ failures' = failures + 1
  /\ mode' = IF failures' >= Threshold THEN "degraded" ELSE mode
  /\ polls' = [polls EXCEPT ![k] =
       IF failures' >= Threshold /\ CronFallback
       THEN [Idle EXCEPT !.step = "fallback"] ELSE Idle]
  /\ UNCHANGED <<ledger, timer, tracked, deferred, markerVars>>

(* cronFallbackCycle: checkAndAutoRebalance goes through the portfolios it *)
(* reads now, and gives up after some failures in a row.                   *)
Fallback(k) ==
  /\ At(k, "fallback")
  /\ polls' = [polls EXCEPT ![k].step = "auto", ![k].seen = Contracts]
  /\ UNCHANGED <<ledger, lifecycleVars, tracked, deferred, markerVars, boundVars>>

AutoRebalance(k) ==
  /\ At(k, "auto")
  /\ polls[k].at < GiveUp
  /\ \E c \in polls[k].seen :
       /\ Due(c)
       /\ \/ Rebalanced(c) /\ polls' = [polls EXCEPT ![k].seen = @ \ {c}, ![k].at = 0]
          \/ NotRebalanced(c)
             /\ polls' = [polls EXCEPT ![k].seen = @ \ {c}, ![k].at = @ + 1]
  /\ UNCHANGED <<lifecycleVars, tracked, deferred, recorded>>

FallbackEnds(k) ==
  /\ At(k, "auto")
  /\ polls[k].at = GiveUp \/ ~\E c \in polls[k].seen : Due(c)
  /\ polls' = [polls EXCEPT ![k] = Idle]
  /\ UNCHANGED <<ledger, lifecycleVars, tracked, deferred, markerVars, boundVars>>

---------------------------------------------------------------------------
(* The owner of a portfolio: new targets, another trigger mode, holdings   *)
(* that were synchronized.                                                 *)
OwnerChanges(p) ==
  /\ changes < MaxChanges
  /\ changes' = changes + 1
  /\ \E auto, drifted \in BOOLEAN :
       ledger' = [ledger EXCEPT ![p].version = @ + 1, ![p].auto = auto,
                                ![p].drifted = drifted]
  /\ UNCHANGED <<lifecycleVars, tracked, deferred, markerVars, polls, failed>>

Poll(k) ==
  \/ Tick(k) \/ Refresh(k) \/ Load(k) \/ Choose(k) \/ Rebalance(k)
  \/ Processed(k) \/ Record(k) \/ PollSucceeds(k) \/ PollFails(k)
  \/ Fallback(k) \/ AutoRebalance(k) \/ FallbackEnds(k)

Next ==
  \/ Start \/ Scanned \/ ScanFails \/ Stop
  \/ \E k \in Polls : Poll(k)
  \/ \E c \in deferred : Deferred(c)
  \/ \E p \in Portfolios : OwnerChanges(p)

Spec == Init /\ [][Next]_vars

(* The interval fires, requests are answered and jitters end.              *)
Fairness ==
  /\ WF_vars(Scanned \/ ScanFails)
  /\ \A k \in Polls : WF_vars(Poll(k))

FairSpec == Spec /\ Fairness

---------------------------------------------------------------------------
(* Properties.                                                             *)

TypeOK ==
  /\ ledger \in [Portfolios -> Contract] /\ \A p \in Portfolios : ledger[p].of = p
  /\ mode \in {"stopped", "starting", "running", "degraded"}
  /\ timer \in BOOLEAN
  /\ tracked \union deferred \subseteq Contract
  /\ failures \in 0..MaxFailures
  /\ heap \in Seq(Seq(Contract))
  /\ recorded \subseteq Contract
  /\ \A k \in Polls : polls[k].seen \union polls[k].target \subseteq Contract

(* The mode of a portfolio is read before a jitter of up to a minute and   *)
(* acted upon after it.  Still, a portfolio whose owner has switched to    *)
(* manual meanwhile is not rebalanced: that has archived the contract.     *)
ActsOnWhatItSaw ==
  [][\A p \in Portfolios :
       ledger[p].drifted /\ ~ledger'[p].drifted /\ changes' = changes
         => ledger[p].auto]_vars

(* While the manager runs, a portfolio that is due is brought back to its  *)
(* targets, though requests fail, contracts are archived under the poll    *)
(* and the manager may be degraded.                                        *)
DriftIsCorrected ==
  \A p \in Portfolios :
    (timer /\ Due(ledger[p])) ~> (~timer \/ ~Due(ledger[p]))
===========================================================================
