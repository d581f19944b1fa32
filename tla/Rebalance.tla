---------------------------- MODULE Rebalance ----------------------------
(***************************************************************************)
(* Rebalancing a portfolio: RebalanceEngine.executeRebalance               *)
(* (backend/src/engine/rebalance.ts) against the Portfolio and             *)
(* RebalanceRequest contracts (main/daml/Portfolio.daml) and a swap venue. *)
(*                                                                         *)
(* A call of executeRebalance is a sequence of ledger exercises and venue  *)
(* calls with awaits between them, so several calls (the cron tick, the    *)
(* manual route) and the users' own choices interleave at every step.  A   *)
(* ledger exercise has three outcomes: accepted, rejected (nothing         *)
(* committed, the call throws) and lost (committed, but the response never *)
(* arrives or cannot be decoded, so the call throws all the same).         *)
(***************************************************************************)
EXTENDS SwapPlan, FiniteSets

CONSTANTS
  Users,            \* portfolio owners, one portfolio each
  Workers,          \* executeRebalance calls that may be in flight at once
  Targets,          \* the targets users choose from
  InitialWallets,   \* what an owner's account may hold at the start
  InitialHoldings,  \* what the portfolio may record of it at the start
  DriftThreshold,   \* of the DriftThreshold trigger mode
  MaxPortfolioCC,   \* RoilConfig.maxPortfolioCC
  SwapAttempts,     \* how often each venue's client attempts a swap
  MockModes,        \* the sets of venues whose clients may run mocked
  MaxRequests,      \* bound: rebalance requests ever created
  MaxEnvSteps       \* bound: choices of users, crashes of the backend and answers
                    \* other than that a whole order was filled

Values == [Assets -> Nat]

Venues == {"cantex", "temple"}

ASSUME ConstantsAssumption ==
  /\ Targets \subseteq Values
  /\ InitialWallets \subseteq Values
  /\ InitialHoldings \subseteq Values
  /\ DriftThreshold \in Nat
  /\ MaxPortfolioCC \in Nat
  /\ SwapAttempts \in [Venues -> Nat \ {0}]
  /\ MockModes \subseteq SUBSET Venues
  /\ MaxRequests \in Nat
  /\ MaxEnvSteps \in Nat

VARIABLES
  portfolio,  \* the active Portfolio contract of each user
  requests,   \* every RebalanceRequest ever created, in order
  fills,      \* fills[r][k]: how often the venue executed leg k of request r
  logs,       \* RebalanceLog contracts
  mocked,     \* the venues without a key or a sidecar: their clients make answers up
  answers,    \* what the venues' clients reported of the swaps they were asked for
  wallet,     \* what each user's account really holds
  rewardTxs,  \* transactions credited to each user by the rewards engine
  job,        \* the local state of each executeRebalance call
  envSteps    \* what MaxEnvSteps bounds

ledgerVars == <<portfolio, requests, logs>>
clientVars == <<mocked, answers>>
venueVars  == <<fills, wallet>>
vars == <<portfolio, requests, fills, logs, mocked, answers, wallet, rewardTxs, job, envSteps>>

Modes    == {"Manual", "DriftThreshold"}
Statuses == {"Pending", "Executing", "Failed", "Archived"}

(* A contract id is the number of the version of the contract: exercising  *)
(* a consuming choice archives version cid and creates version cid + 1.    *)
PortfolioContract ==
  [cid : Nat, holdings : Values, target : Values, mode : Modes, active : BOOLEAN]

Request == [user : Users, status : Statuses]

(* What a client reports of a swap.  "filled", "partial" and "rejected" are *)
(* Temple's status, which the router does not look at; Cantex answers only *)
(* for what it executed.  The output of a rejected order is 0.             *)
Outcomes == {"filled", "partial", "rejected", "mocked"}

Answer == [request : Nat, leg : Nat, outcome : Outcomes, output : Nat]

Steps == {"initiate", "setLegs", "swap", "failSkipped", "complete", "query",
          "sync", "record", "cleanup"}

(* holdings is the snapshot of the portfolio's holdings until "query", and *)
(* the holdings to record from then on; rid is 0 until a request exists.   *)
Job == [step : Steps, user : Users, cid : Nat, holdings : Values,
        legs : Seq(Leg), next : Nat, executed : SUBSET Nat, rid : Nat]

NoJob == [step |-> "idle"]

(* A plan has fewer legs than there are assets.                            *)
NoFills == [k \in Assets |-> 0]

Idle(w) == job[w] = NoJob

At(w, step) == job[w].step = step

Return(w) == job' = [job EXCEPT ![w] = NoJob]

GoTo(w, step) == job' = [job EXCEPT ![w].step = step]

Init ==
  /\ wallet \in [Users -> InitialWallets]
  /\ portfolio \in [Users -> [cid : {0}, holdings : InitialHoldings,
                              target : Targets, mode : Modes, active : {TRUE}]]
  /\ requests = <<>>
  /\ fills = <<>>
  /\ logs = {}
  /\ mocked \in MockModes
  /\ answers = {}
  /\ rewardTxs = [u \in Users |-> 0]
  /\ job = [w \in Workers |-> NoJob]
  /\ envSteps = 0

---------------------------------------------------------------------------
(* Steps of executeRebalance.                                              *)

(***************************************************************************)
(* Fetch the portfolio and plan.  A contract id that is no longer active,  *)
(* an empty plan ("Already balanced") and a fee budget that is too small   *)
(* return without changing anything.                                       *)
(***************************************************************************)
Start(w, u) ==
  LET p == portfolio[u]
      plan == PlanSwapLegs(p.holdings, p.target)
  IN
  /\ Idle(w)
  /\ plan # <<>>
  /\ Len(requests) < MaxRequests
  /\ job' = [job EXCEPT ![w] =
               [step |-> "initiate", user |-> u, cid |-> p.cid,
                holdings |-> p.holdings, legs |-> plan, next |-> 1,
                executed |-> {}, rid |-> 0]]
  /\ UNCHANGED <<ledgerVars, clientVars, venueVars, rewardTxs, envSteps>>

(* The assertions of the InitiateRebalance choice.                         *)
InitiateAllowed(u) ==
  /\ portfolio[u].active
  /\ portfolio[u].mode = "DriftThreshold"
       => MaxDrift(portfolio[u].holdings, portfolio[u].target) >= DriftThreshold

InitiateCommits(w) ==
  LET u == job[w].user IN
  /\ portfolio[u].cid = job[w].cid
  /\ InitiateAllowed(u)
  /\ Len(requests) < MaxRequests
  /\ portfolio' = [portfolio EXCEPT ![u].cid = @ + 1]
  /\ requests' = Append(requests, [user |-> u, status |-> "Pending"])
  /\ fills' = Append(fills, NoFills)
  /\ UNCHANGED logs

LedgerUnchanged == UNCHANGED <<ledgerVars, fills>>

(* A throw here finds thisRequestCid still null: nothing is cleaned up.    *)
Initiate(w) ==
  /\ At(w, "initiate")
  /\ \/ /\ InitiateCommits(w)
        /\ job' = [job EXCEPT ![w].step = "setLegs", ![w].cid = @ + 1,
                              ![w].rid = Len(requests) + 1]
     \/ InitiateCommits(w) /\ Return(w)
     \/ LedgerUnchanged /\ Return(w)
  /\ UNCHANGED <<clientVars, wallet, rewardTxs, envSteps>>

WithStatus(r, status) == [requests EXCEPT ![r].status = status]

SetStatus(r, status) ==
  /\ requests' = WithStatus(r, status)
  /\ UNCHANGED <<portfolio, fills, logs>>

(* thisRequestCid is assigned only once the response has arrived.          *)
SetSwapLegs(w) ==
  LET commits == /\ requests[job[w].rid].status = "Pending"
                 /\ SetStatus(job[w].rid, "Executing")
  IN
  /\ At(w, "setLegs")
  /\ \/ commits /\ GoTo(w, "swap")
     \/ commits /\ Return(w)
     \/ LedgerUnchanged /\ Return(w)
  /\ UNCHANGED <<clientVars, wallet, rewardTxs, envSteps>>

(***************************************************************************)
(* The swap loop.  The venue is the Cantex sidecar, whose client makes up  *)
(* to two attempts at a swap, or Temple, whose client makes three; an      *)
(* attempt that times out may have been executed.  A Temple order is       *)
(* immediate-or-cancel: it may be filled in part or not at all, and is     *)
(* answered all the same.  The engine takes every answer for a swap of the *)
(* whole input.                                                            *)
(***************************************************************************)

(* What n executions of an order for the given value may sell together.    *)
Sold(venue, n, value) == IF venue = "temple" THEN n..(n * value) ELSE {n * value}

(* The answers a venue may give to its last attempt, when n of its         *)
(* attempts were executed and sold v together.                             *)
MayAnswer(venue, n, v, value) ==
  {o \in Outcomes :
     \/ o = "filled" /\ n > 0 /\ v >= value + n - 1
     \/ o = "partial" /\ venue = "temple" /\ n > 0 /\ v < n * value
     \/ o = "rejected" /\ venue = "temple" /\ n < SwapAttempts[venue]}

(* What an answer says an order bought, in units of the value it sells.    *)
Outputs(outcome, value) ==
  CASE outcome = "partial"  -> 1..(value - 1)
    [] outcome = "rejected" -> {0}
    [] OTHER                -> {value}

CurrentLeg(w) == job[w].legs[job[w].next]

AfterLeg(w, executed) ==
  LET last == job[w].next = Len(job[w].legs) IN
  job' = [job EXCEPT
    ![w].next = @ + 1,
    ![w].executed = executed,
    ![w].step = IF ~last THEN "swap"
                ELSE IF executed = {} THEN "failSkipped" ELSE "complete"]

(* The fills when the venue executes leg k of request r n times more.      *)
WithFills(r, k, n) ==
  LET counts == [fills[r] EXCEPT ![k] = @ + n]
  IN  [fills EXCEPT ![r] = counts]

(* What is held after a leg sold v.                                        *)
Swapped(held, leg, v) ==
  LET sold == [held EXCEPT ![leg.from] = @ - v]
  IN  [sold EXCEPT ![leg.to] = @ + v]

Fill_Overdraws(w, n, v) ==
  /\ wallet' = [wallet EXCEPT ![job[w].user] = Swapped(@, CurrentLeg(w), v)]
  /\ fills' = WithFills(job[w].rid, job[w].next, n)

(* The venue executes the current leg of w n times, selling v in all.      *)
Fill(w, n, v) ==
  LET u == job[w].user
      leg == CurrentLeg(w)
  IN
  /\ wallet[u][leg.from] >= v
  /\ wallet' = [wallet EXCEPT ![u] = Swapped(@, leg, v)]
  /\ fills' = WithFills(job[w].rid, job[w].next, n)

(* The router returns: the leg goes to executedLegs.                       *)
Answered(w, outcome) ==
  /\ \/ outcome = "filled" /\ UNCHANGED envSteps
     \/ outcome # "filled" /\ envSteps < MaxEnvSteps /\ envSteps' = envSteps + 1
  /\ \E output \in Outputs(outcome, CurrentLeg(w).value) :
       answers' = answers \union {[request |-> job[w].rid, leg |-> job[w].next,
                                   outcome |-> outcome, output |-> output]}
  /\ AfterLeg(w, job[w].executed \union {job[w].next})

(* The quote is outside the slippage tolerance.                            *)
SkipLeg(w) ==
  /\ At(w, "swap")
  /\ AfterLeg(w, job[w].executed)
  /\ UNCHANGED <<ledgerVars, clientVars, venueVars, rewardTxs, envSteps>>

(* A mocked client answers, and nothing is executed.                       *)
MockSwap(w) == Fill(w, 0, 0) /\ Answered(w, "mocked")

VenueSwap_GoesOn(w, venue) ==
  LET value == CurrentLeg(w).value IN
  \E n \in 0..SwapAttempts[venue] : \E v \in Sold(venue, n, value) :
    /\ Fill(w, n, v)
    /\ \/ \E o \in MayAnswer(venue, n, v, value) : Answered(w, o)
       \/ /\ UNCHANGED <<answers, envSteps>>
          /\ AfterLeg(w, job[w].executed \union {job[w].next})

(* A call without an answer throws, whatever was executed.                 *)
VenueSwap(w, venue) ==
  LET value == CurrentLeg(w).value IN
  \E n \in 0..SwapAttempts[venue] : \E v \in Sold(venue, n, value) :
    /\ Fill(w, n, v)
    /\ \/ \E o \in MayAnswer(venue, n, v, value) : Answered(w, o)
       \/ UNCHANGED <<answers, envSteps>> /\ GoTo(w, "cleanup")

SwapLeg(w) ==
  /\ At(w, "swap")
  /\ \E venue \in Venues :
       \/ venue \in mocked /\ MockSwap(w)
       \/ venue \notin mocked /\ VenueSwap(w, venue)
  /\ UNCHANGED <<ledgerVars, mocked, rewardTxs>>

(* Every leg was skipped: FailRebalance, and a throw goes to the catch.    *)
FailSkipped(w) ==
  LET commits == /\ requests[job[w].rid].status = "Executing"
                 /\ SetStatus(job[w].rid, "Failed")
  IN
  /\ At(w, "failSkipped")
  /\ \/ commits /\ Return(w)
     \/ commits /\ GoTo(w, "cleanup")
     \/ LedgerUnchanged /\ GoTo(w, "cleanup")
  /\ UNCHANGED <<clientVars, wallet, rewardTxs, envSteps>>

(* CompleteRebalance archives the request and creates the RebalanceLog.    *)
Complete(w) ==
  LET r == job[w].rid
      commits == /\ requests[r].status = "Executing"
                 /\ requests' = WithStatus(r, "Archived")
                 /\ logs' = logs \union {[request |-> r, legs |-> job[w].executed]}
                 /\ UNCHANGED <<portfolio, fills>>
  IN
  /\ At(w, "complete")
  /\ \/ commits /\ GoTo(w, "query")
     \/ commits /\ GoTo(w, "cleanup")
     \/ LedgerUnchanged /\ GoTo(w, "cleanup")
  /\ UNCHANGED <<clientVars, wallet, rewardTxs, envSteps>>

AnswersTo(r) == {a \in answers : a.request = r}

OutputOf(r, k) == (CHOOSE a \in AnswersTo(r) : a.leg = k).output

(* What is held after a leg that is answered with an output.               *)
Credited(held, leg, output) ==
  LET sold == [held EXCEPT ![leg.from] = Max({0, @ - leg.value})]
  IN  [sold EXCEPT ![leg.to] = @ + output]

(* computeUpdatedHoldings: the snapshot with the answered legs applied,    *)
(* each at its whole input and the output its answer stated.               *)
ComputedHoldings(w) ==
  FoldLeftDomain(LAMBDA h, k : IF k \in job[w].executed
                               THEN Credited(h, job[w].legs[k], OutputOf(job[w].rid, k))
                               ELSE h,
                 job[w].holdings, job[w].legs)

(* The holdings to record: the real ones when the token service answers,   *)
(* the computed ones otherwise; no price at all is a throw.                *)
QueryHoldings(w) ==
  /\ At(w, "query")
  /\ \/ \E h \in {wallet[job[w].user], ComputedHoldings(w)} :
          job' = [job EXCEPT ![w].step = "sync", ![w].holdings = h]
     \/ GoTo(w, "cleanup")
  /\ UNCHANGED <<ledgerVars, clientVars, venueVars, rewardTxs, envSteps>>

(* SyncHoldings on the portfolio created by InitiateRebalance.             *)
SyncHoldings(w) ==
  LET u == job[w].user
      commits == /\ portfolio[u].cid = job[w].cid
                 /\ TotalValue(job[w].holdings) <= MaxPortfolioCC
                 /\ portfolio' = [portfolio EXCEPT
                      ![u].cid = @ + 1, ![u].holdings = job[w].holdings]
                 /\ UNCHANGED <<requests, fills, logs>>
  IN
  /\ At(w, "sync")
  /\ \/ commits /\ GoTo(w, "record")
     \/ commits /\ GoTo(w, "cleanup")
     \/ LedgerUnchanged /\ GoTo(w, "cleanup")
  /\ UNCHANGED <<clientVars, wallet, rewardTxs, envSteps>>

(* The rewards engine is told of the rebalance, at best effort.            *)
Record(w) ==
  /\ At(w, "record")
  /\ \E n \in {0, 1} :
       rewardTxs' = [rewardTxs EXCEPT ![job[w].user] = @ + n]
  /\ Return(w)
  /\ UNCHANGED <<ledgerVars, clientVars, venueVars, envSteps>>

Cleanup_AnyInFlight(w) ==
  /\ At(w, "cleanup")
  /\ \/ \E r \in DOMAIN requests : /\ requests[r].status \in {"Pending", "Executing"}
                                   /\ SetStatus(r, "Failed")
     \/ LedgerUnchanged
  /\ Return(w)
  /\ UNCHANGED <<clientVars, wallet, rewardTxs, envSteps>>

Cleanup_AnyStatus(w) ==
  /\ At(w, "cleanup")
  /\ SetStatus(job[w].rid, "Failed")
  /\ Return(w)
  /\ UNCHANGED <<clientVars, wallet, rewardTxs, envSteps>>

Cleanup_UntilAccepted(w) ==
  /\ At(w, "cleanup")
  /\ requests[job[w].rid].status = "Executing"
  /\ SetStatus(job[w].rid, "Failed")
  /\ Return(w)
  /\ UNCHANGED <<clientVars, wallet, rewardTxs, envSteps>>

(* The catch block: FailRebalance on the request this call holds.          *)
Cleanup(w) ==
  /\ At(w, "cleanup")
  /\ \/ /\ requests[job[w].rid].status = "Executing"
        /\ SetStatus(job[w].rid, "Failed")
     \/ LedgerUnchanged
  /\ Return(w)
  /\ UNCHANGED <<clientVars, wallet, rewardTxs, envSteps>>

Step(w) ==
  \/ Initiate(w) \/ SetSwapLegs(w) \/ SkipLeg(w) \/ SwapLeg(w)
  \/ FailSkipped(w) \/ Complete(w) \/ QueryHoldings(w) \/ SyncHoldings(w)
  \/ Record(w) \/ Cleanup(w)

---------------------------------------------------------------------------
(* The environment: choices of the users on their own portfolio, each of   *)
(* which replaces the contract, and crashes of the backend process.        *)

UserChoice(u, changed) ==
  /\ envSteps < MaxEnvSteps
  /\ envSteps' = envSteps + 1
  /\ portfolio' = [portfolio EXCEPT ![u] = [changed EXCEPT !.cid = @ + 1]]
  /\ UNCHANGED <<requests, logs, clientVars, venueVars, rewardTxs, job>>

UpdateTargets(u, t) == UserChoice(u, [portfolio[u] EXCEPT !.target = t])

UpdateTriggerMode(u, m) == UserChoice(u, [portfolio[u] EXCEPT !.mode = m])

SetActive(u, a) == UserChoice(u, [portfolio[u] EXCEPT !.active = a])

UpdateMetadata(u) == UserChoice(u, portfolio[u])

(* The process restarts with no call in flight and nothing to resume.      *)
Crash ==
  /\ envSteps < MaxEnvSteps
  /\ envSteps' = envSteps + 1
  /\ \E w \in Workers : ~Idle(w)
  /\ job' = [w \in Workers |-> NoJob]
  /\ UNCHANGED <<ledgerVars, clientVars, venueVars, rewardTxs>>

Environment ==
  \/ \E u \in Users, t \in Targets : UpdateTargets(u, t)
  \/ \E u \in Users, m \in Modes : UpdateTriggerMode(u, m)
  \/ \E u \in Users, a \in BOOLEAN : SetActive(u, a)
  \/ \E u \in Users : UpdateMetadata(u)
  \/ Crash

Next ==
  \/ \E w \in Workers, u \in Users : Start(w, u)
  \/ \E w \in Workers : Step(w)
  \/ Environment

Spec == Init /\ [][Next]_vars

(* Every await of a running call settles: ledger and venue calls time out. *)
StepFairness == \A w \in Workers : WF_vars(Step(w))

FairSpec == Spec /\ StepFairness

---------------------------------------------------------------------------
(* Properties.                                                             *)

TypeOK ==
  /\ portfolio \in [Users -> PortfolioContract]
  /\ requests \in Seq(Request)
  /\ fills \in Seq([Assets -> Nat])
  /\ Len(fills) = Len(requests)
  /\ logs \subseteq [request : Nat, legs : SUBSET Nat]
  /\ mocked \subseteq Venues
  /\ answers \subseteq Answer
  /\ wallet \in [Users -> Values]
  /\ rewardTxs \in [Users -> Nat]
  /\ job \in [Workers -> Job \union {NoJob}]
  /\ envSteps \in 0..MaxEnvSteps

(* The request a call works on is its own and in the state its step        *)
(* expects: no interleaving of calls, users and crashes makes two calls    *)
(* share a request or lets one settle the request of another.              *)
HoldsRequest(w) == job[w].step \notin {"idle", "initiate"}

RequestsAreExclusive ==
  \A w \in Workers : HoldsRequest(w) =>
    /\ job[w].rid \in DOMAIN requests
    /\ requests[job[w].rid].user = job[w].user
    /\ At(w, "setLegs") => requests[job[w].rid].status = "Pending"
    /\ job[w].step \in {"swap", "failSkipped", "complete"}
         => requests[job[w].rid].status = "Executing"
    /\ job[w].step \in {"query", "sync", "record"}
         => requests[job[w].rid].status = "Archived"
    /\ \A v \in Workers \ {w} : HoldsRequest(v) => job[v].rid # job[w].rid

(* The audit trail is what the venues answered: there is a log exactly for *)
(* the archived requests, and it lists the legs a venue reported back on,  *)
(* all of them and no other (a leg whose swap threw is in no log).         *)
LogsMatchAnswers ==
  /\ \A l \in logs : /\ l.request \in DOMAIN requests
                     /\ requests[l.request].status = "Archived"
                     /\ l.legs # {}
                     /\ l.legs = {a.leg : a \in AnswersTo(l.request)}
  /\ \A r \in DOMAIN requests :
       requests[r].status = "Archived" => \E l \in logs : l.request = r

(* An answer is backed by an execution on behalf of its request, unless it *)
(* is Temple's rejection or a mocked client's invention: those two are in  *)
(* the logs with nothing behind them, and nothing else is.                 *)
AnswersAreBacked ==
  \A a \in answers :
    /\ a.request \in DOMAIN fills
    /\ a.leg \in Assets
    /\ a.outcome \in {"filled", "partial"} => fills[a.request][a.leg] > 0
    /\ a.outcome = "mocked" => mocked # {}

(* A leg of a request is answered once: no call goes back to a leg.        *)
AnswersAreUnique ==
  \A a, b \in answers : a.request = b.request /\ a.leg = b.leg => a = b

(* A user is credited at most once per logged rebalance.                   *)
RewardsAreEarned ==
  \A u \in Users :
    rewardTxs[u] <= Cardinality({l \in logs : requests[l.request].user = u})

(* Swaps are executed only for a request the ledger shows as Executing:    *)
(* never for one another call has failed or completed meanwhile.           *)
SwapsUnderExecutingRequest ==
  [][\A r \in DOMAIN requests :
       fills'[r] # fills[r] => requests[r].status = "Executing"]_vars

(* A settled request stays settled: a failed or completed rebalance is     *)
(* never resumed, retried or logged a second time.                         *)
SettledStaysSettled ==
  [][\A r \in DOMAIN requests :
       requests[r].status \in {"Failed", "Archived"}
         => requests'[r] = requests[r]]_vars

(* Every call of executeRebalance returns, whatever fails on its way.      *)
CallsReturn == \A w \in Workers : ~Idle(w) ~> Idle(w)

(* What is logged, and what a user is credited with, is what the venues    *)
(* answered, and exactly the rejections and the mocked answers among them  *)
(* have nothing behind them (the swap loop of executeRebalance,            *)
(* SmartRouter.executeSwap, recordTransaction and CompleteRebalance).      *)
RecordsAreBacked ==
  /\ RewardsAreEarned
  /\ LogsMatchAnswers
  /\ AnswersAreBacked
  /\ AnswersAreUnique

---------------------------------------------------------------------------
(* Claims of the repository the code does not meet.                        *)

(* cantex-sidecar.ts: "/swap and /transfer must never be retried".         *)
NoLegIsFilledTwice ==
  \A r \in DOMAIN fills : \A k \in DOMAIN fills[r] : fills[r][k] <= 1

(* rebalance.ts: thisRequestCid is declared outside the try "so the catch  *)
(* block can FailRebalance the EXACT request we initiated": a call that    *)
(* returns does not leave the request it initiated Pending.                *)
FailsTheRequestItInitiated ==
  [][\A w \in Workers :
       HoldsRequest(w) /\ job'[w] = NoJob
         => requests'[job[w].rid].status # "Pending"]_vars
===========================================================================
