-------------------------- MODULE RebalanceProofs --------------------------
(***************************************************************************)
(* Proofs about Rebalance, for any number of users, calls, assets and      *)
(* requests: calls never share a request, a settled request stays settled, *)
(* the venue is only asked to swap for a request that is Executing, what   *)
(* is logged was answered, and what is credited was logged.                *)
(*                                                                         *)
(* The first part needs nothing of a plan: its legs, the holdings and the  *)
(* wallets are left untyped, and a call's record is described by its shape.*)
(* The second part is about types and records, and rests on what plans are.*)
(***************************************************************************)
EXTENDS Rebalance, SwapPlanProofs

JobFields(j) ==
  j = [step |-> j.step, user |-> j.user, cid |-> j.cid, holdings |-> j.holdings,
       legs |-> j.legs, next |-> j.next, executed |-> j.executed, rid |-> j.rid]

JobShape ==
  /\ job = [w \in Workers |-> job[w]]
  /\ \A w \in Workers : job[w] # NoJob =>
       /\ JobFields(job[w])
       /\ job[w].step \in Steps
       /\ job[w].user \in Users

LedgerShape ==
  /\ requests \in Seq(Request)
  /\ fills \in Seq([Assets -> Nat])
  /\ Len(fills) = Len(requests)

IInv == JobShape /\ LedgerShape /\ RequestsAreExclusive

LEMMA InitIInv == Init => IInv
<1> SUFFICES ASSUME Init
             PROVE  IInv
  OBVIOUS
<1>1. JobShape
  BY DEF Init, JobShape
<1>2. LedgerShape
  BY DEF Init, LedgerShape
<1>3. RequestsAreExclusive
  BY DEF Init, RequestsAreExclusive, HoldsRequest, NoJob
<1> QED BY <1>1, <1>2, <1>3 DEF IInv

LEMMA NoJobIsIdle == NoJob.step = "idle"
  BY DEF NoJob

(* Setting the status of one request.                                      *)
LEMMA StatusUpdate ==
  ASSUME LedgerShape, NEW r \in DOMAIN requests, NEW status \in Statuses
  PROVE  /\ WithStatus(r, status) \in Seq(Request)
         /\ Len(WithStatus(r, status)) = Len(requests)
         /\ DOMAIN WithStatus(r, status) = DOMAIN requests
         /\ WithStatus(r, status)[r].status = status
         /\ \A q \in DOMAIN requests :
              /\ WithStatus(r, status)[q].user = requests[q].user
              /\ q # r => WithStatus(r, status)[q] = requests[q]
<1> DEFINE new == [user |-> requests[r].user, status |-> status]
<1>1. requests[r] \in Request
  BY DEF LedgerShape
<1>2. [requests[r] EXCEPT !.status = status] = new
  BY <1>1 DEF Request
<1>3. new \in Request
  BY <1>1 DEF Request
<1>4. WithStatus(r, status) = [requests EXCEPT ![r] = new]
  BY <1>2 DEF WithStatus
<1> HIDE DEF new
<1>5. /\ WithStatus(r, status) \in Seq(Request)
      /\ Len(WithStatus(r, status)) = Len(requests)
      /\ DOMAIN WithStatus(r, status) = DOMAIN requests
  BY <1>3, <1>4 DEF LedgerShape
<1>6. /\ WithStatus(r, status)[r] = new
      /\ \A q \in DOMAIN requests : q # r => WithStatus(r, status)[q] = requests[q]
  BY <1>4 DEF LedgerShape
<1> QED BY <1>5, <1>6 DEF new

(* What RequestsAreExclusive says of the status a step expects.            *)
StatusFits(step, status) ==
  /\ step = "setLegs" => status = "Pending"
  /\ step \in {"swap", "failSkipped", "complete"} => status = "Executing"
  /\ step \in {"query", "sync", "record"} => status = "Archived"

(* The job j that a call goes on with after a step of its own.             *)
Continues(w, j) ==
  /\ JobFields(j)
  /\ j.step \in Steps \ {"initiate"}
  /\ j.user = job[w].user
  /\ j.rid = job[w].rid

(* A step of a call that holds a request, which returns or continues, and  *)
(* sets at most the status of that request, preserves the invariant.       *)
LEMMA OwnStep ==
  ASSUME IInv, NEW w \in Workers, HoldsRequest(w),
         NEW j, job' = [job EXCEPT ![w] = j],
         \/ j = NoJob
         \/ Continues(w, j) /\ StatusFits(j.step, requests'[j.rid].status),
         \/ requests' = requests
         \/ \E status \in Statuses :
              requests' = WithStatus(job[w].rid, status),
         fills' \in Seq([Assets -> Nat]), Len(fills') = Len(fills)
  PROVE  IInv'
<1>1. job[w].rid \in DOMAIN requests /\ job[w] # NoJob
  BY NoJobIsIdle DEF IInv, RequestsAreExclusive, HoldsRequest
<1>2. LedgerShape' /\ DOMAIN requests' = DOMAIN requests
  <2>1. CASE requests' = requests
    BY <2>1 DEF IInv, LedgerShape
  <2>2. ASSUME NEW status \in Statuses,
               requests' = WithStatus(job[w].rid, status)
        PROVE  LedgerShape' /\ DOMAIN requests' = DOMAIN requests
    BY <1>1, <2>2, StatusUpdate DEF IInv, LedgerShape
  <2> QED BY <2>1, <2>2
<1>3. \A r \in DOMAIN requests :
        /\ requests'[r].user = requests[r].user
        /\ r # job[w].rid => requests'[r] = requests[r]
  BY <1>1, StatusUpdate DEF IInv, LedgerShape
<1>4. job'[w] = j /\ \A v \in Workers \ {w} : job'[v] = job[v]
  BY DEF IInv, JobShape
<1>5. JobShape'
  BY <1>1, <1>4 DEF IInv, JobShape, Continues
<1>6. RequestsAreExclusive'
  <2>1. \A v \in Workers : HoldsRequest(v)' =>
          HoldsRequest(v) /\ job'[v].rid = job[v].rid /\ job'[v].user = job[v].user
    BY <1>4, NoJobIsIdle DEF HoldsRequest, Continues
  <2>2. \A v \in Workers : HoldsRequest(v)' =>
          StatusFits(job'[v].step, requests'[job'[v].rid].status)
    <3>1. ASSUME NEW v \in Workers \ {w}, HoldsRequest(v)'
          PROVE  StatusFits(job'[v].step, requests'[job'[v].rid].status)
      BY <1>3, <1>4, <2>1, <3>1
      DEF IInv, RequestsAreExclusive, At, StatusFits
    <3>2. HoldsRequest(w)' => StatusFits(job'[w].step, requests'[job'[w].rid].status)
      BY <1>4, NoJobIsIdle DEF HoldsRequest
    <3> QED BY <3>1, <3>2
  <2>3. \A v \in Workers : HoldsRequest(v)' =>
          /\ job'[v].rid \in DOMAIN requests'
          /\ requests'[job'[v].rid].user = job'[v].user
          /\ \A u \in Workers \ {v} : HoldsRequest(u)' => job'[u].rid # job'[v].rid
    BY <1>2, <1>3, <2>1 DEF IInv, RequestsAreExclusive
  <2> QED BY <2>2, <2>3 DEF RequestsAreExclusive, At, StatusFits
<1> QED BY <1>2, <1>5, <1>6 DEF IInv

---------------------------------------------------------------------------
(* How the steps of a call change its job.                                 *)

(* The job of w at a step s, with what the swaps of it have come to.       *)
Moved(w, s, next, executed, holdings) ==
  [step |-> s, user |-> job[w].user, cid |-> job[w].cid, holdings |-> holdings,
   legs |-> job[w].legs, next |-> next, executed |-> executed, rid |-> job[w].rid]

Moves(w, s, next, executed, holdings) ==
  job' = [job EXCEPT ![w] = Moved(w, s, next, executed, holdings)]

LEMMA GoToMoves ==
  ASSUME JobShape, NEW w \in Workers, job[w] # NoJob, NEW s, GoTo(w, s)
  PROVE  Moves(w, s, job[w].next, job[w].executed, job[w].holdings)
<1>1. JobFields(job[w])
  BY DEF JobShape
<1>2. [job[w] EXCEPT !.step = s]
        = Moved(w, s, job[w].next, job[w].executed, job[w].holdings)
  BY <1>1 DEF JobFields, Moved
<1> QED BY <1>2 DEF GoTo, Moves

LEMMA ThreeFields ==
  ASSUME NEW r, JobFields(r), NEW next, NEW executed, NEW step
  PROVE  [r EXCEPT !.next = next, !.executed = executed, !.step = step]
           = [step |-> step, user |-> r.user, cid |-> r.cid,
              holdings |-> r.holdings, legs |-> r.legs, next |-> next,
              executed |-> executed, rid |-> r.rid]
<1> DEFINE r1 == [r EXCEPT !.next = next]
           r2 == [r1 EXCEPT !.executed = executed]
<1>1. r1 = [step |-> r.step, user |-> r.user, cid |-> r.cid,
            holdings |-> r.holdings, legs |-> r.legs, next |-> next,
            executed |-> r.executed, rid |-> r.rid]
  BY DEF JobFields
<1> HIDE DEF r1
<1>2. r2 = [step |-> r.step, user |-> r.user, cid |-> r.cid,
            holdings |-> r.holdings, legs |-> r.legs, next |-> next,
            executed |-> executed, rid |-> r.rid]
  BY <1>1
<1> HIDE DEF r2
<1>3. [r2 EXCEPT !.step = step]
        = [step |-> step, user |-> r.user, cid |-> r.cid,
           holdings |-> r.holdings, legs |-> r.legs, next |-> next,
           executed |-> executed, rid |-> r.rid]
  BY <1>2
<1> QED BY <1>3 DEF r1, r2

LEMMA InitiatedFields ==
  ASSUME NEW r, JobFields(r), NEW cid, NEW rid, NEW step
  PROVE  [r EXCEPT !.step = step, !.cid = cid, !.rid = rid]
           = [step |-> step, user |-> r.user, cid |-> cid,
              holdings |-> r.holdings, legs |-> r.legs, next |-> r.next,
              executed |-> r.executed, rid |-> rid]
<1> DEFINE r1 == [r EXCEPT !.step = step]
           r2 == [r1 EXCEPT !.cid = cid]
<1>1. r1 = [step |-> step, user |-> r.user, cid |-> r.cid,
            holdings |-> r.holdings, legs |-> r.legs, next |-> r.next,
            executed |-> r.executed, rid |-> r.rid]
  BY DEF JobFields
<1> HIDE DEF r1
<1>2. r2 = [step |-> step, user |-> r.user, cid |-> cid,
            holdings |-> r.holdings, legs |-> r.legs, next |-> r.next,
            executed |-> r.executed, rid |-> r.rid]
  BY <1>1
<1> HIDE DEF r2
<1>3. [r2 EXCEPT !.rid = rid]
        = [step |-> step, user |-> r.user, cid |-> cid,
           holdings |-> r.holdings, legs |-> r.legs, next |-> r.next,
           executed |-> r.executed, rid |-> rid]
  BY <1>2
<1> QED BY <1>3 DEF r1, r2

(* Where the swap loop goes on, once the legs executed are known.          *)
StepAfterLeg(w, executed) ==
  IF ~(job[w].next = Len(job[w].legs)) THEN "swap"
  ELSE IF executed = {} THEN "failSkipped" ELSE "complete"

LEMMA AfterLegMoves ==
  ASSUME JobShape, NEW w \in Workers, job[w] # NoJob, NEW executed,
         AfterLeg(w, executed)
  PROVE  Moves(w, StepAfterLeg(w, executed), job[w].next + 1, executed, job[w].holdings)
<1> DEFINE s == StepAfterLeg(w, executed)
           n == job[w].next + 1
<1>1. JobFields(job[w])
  BY DEF JobShape
<1>2. job' = [job EXCEPT ![w] = [job[w] EXCEPT !.next = n, !.executed = executed,
                                              !.step = s]]
  BY DEF AfterLeg, StepAfterLeg
<1> HIDE DEF s, n
<1>3. [job[w] EXCEPT !.next = n, !.executed = executed, !.step = s]
        = Moved(w, s, n, executed, job[w].holdings)
  BY <1>1, ThreeFields, Zenon DEF Moved
<1>4. Moves(w, s, n, executed, job[w].holdings)
  BY <1>2, <1>3, Zenon DEF Moves
<1> QED BY <1>4 DEF s, n

LEMMA HoldingsMove ==
  ASSUME JobShape, NEW w \in Workers, job[w] # NoJob, NEW h,
         job' = [job EXCEPT ![w].step = "sync", ![w].holdings = h]
  PROVE  Moves(w, "sync", job[w].next, job[w].executed, h)
<1> DEFINE j1 == [job[w] EXCEPT !.step = "sync"]
<1>1. JobFields(job[w])
  BY DEF JobShape
<1>2. job' = [job EXCEPT ![w] = [j1 EXCEPT !.holdings = h]]
  OBVIOUS
<1>3. j1 = Moved(w, "sync", job[w].next, job[w].executed, job[w].holdings)
  BY <1>1 DEF JobFields, Moved
<1> HIDE DEF j1
<1>4. [j1 EXCEPT !.holdings = h] = Moved(w, "sync", job[w].next, job[w].executed, h)
  BY <1>3 DEF Moved
<1> QED BY <1>2, <1>4, Zenon DEF Moves

(* The job of w goes on as some j at the step s.                           *)
GoesOnAt(w, s) ==
  \E j : job' = [job EXCEPT ![w] = j] /\ Continues(w, j) /\ j.step = s

LEMMA MovesGoOn ==
  ASSUME NEW w \in Workers, NEW s \in Steps \ {"initiate"}, NEW next, NEW executed,
         NEW holdings, Moves(w, s, next, executed, holdings)
  PROVE  GoesOnAt(w, s)
<1> DEFINE j == Moved(w, s, next, executed, holdings)
<1>1. Continues(w, j) /\ j.step = s
  BY DEF Moved, Continues, JobFields
<1> QED BY <1>1, Zenon DEF Moves, GoesOnAt

LEMMA GoToGoesOn ==
  ASSUME JobShape, NEW w \in Workers, HoldsRequest(w),
         NEW s \in Steps \ {"initiate"}, GoTo(w, s)
  PROVE  GoesOnAt(w, s)
<1>1. job[w] # NoJob
  BY NoJobIsIdle DEF HoldsRequest
<1> QED BY <1>1, GoToMoves, MovesGoOn

LEMMA AfterLegGoesOn ==
  ASSUME JobShape, NEW w \in Workers, HoldsRequest(w), NEW executed,
         AfterLeg(w, executed)
  PROVE  \E s \in {"swap", "failSkipped", "complete"} : GoesOnAt(w, s)
<1>1. job[w] # NoJob
  BY NoJobIsIdle DEF HoldsRequest
<1>2. StepAfterLeg(w, executed) \in {"swap", "failSkipped", "complete"}
  BY DEF StepAfterLeg
<1>3. GoesOnAt(w, StepAfterLeg(w, executed))
  BY <1>1, <1>2, AfterLegMoves, MovesGoOn DEF Steps
<1> QED BY <1>2, <1>3

LEMMA HoldingsGoOn ==
  ASSUME JobShape, NEW w \in Workers, HoldsRequest(w), NEW h,
         job' = [job EXCEPT ![w].step = "sync", ![w].holdings = h]
  PROVE  GoesOnAt(w, "sync")
<1>1. job[w] # NoJob
  BY NoJobIsIdle DEF HoldsRequest
<1> QED BY <1>1, HoldingsMove, MovesGoOn DEF Steps

---------------------------------------------------------------------------
(* Each step of a call preserves the invariant.                            *)

(* The cases of OwnStep: the call returns or goes on, and its request      *)
(* keeps its status or takes a new one.                                    *)
LEMMA QuietStep ==
  ASSUME IInv, NEW w \in Workers, HoldsRequest(w), UNCHANGED requests,
         \/ Return(w)
         \/ \E s \in Steps \ {"initiate"} :
              GoesOnAt(w, s) /\ StatusFits(s, requests[job[w].rid].status),
         fills' \in Seq([Assets -> Nat]), Len(fills') = Len(fills)
  PROVE  IInv'
<1>1. CASE Return(w)
  BY <1>1, OwnStep DEF Return
<1>2. ASSUME NEW s \in Steps \ {"initiate"},
             GoesOnAt(w, s), StatusFits(s, requests[job[w].rid].status)
      PROVE  IInv'
  <2>1. PICK j : job' = [job EXCEPT ![w] = j] /\ Continues(w, j) /\ j.step = s
    BY <1>2 DEF GoesOnAt
  <2>2. StatusFits(j.step, requests'[j.rid].status)
    BY <1>2, <2>1 DEF Continues
  <2> QED BY <2>1, <2>2, OwnStep
<1> QED BY <1>1, <1>2

LEMMA StatusStep ==
  ASSUME IInv, NEW w \in Workers, HoldsRequest(w), NEW status \in Statuses,
         requests' = WithStatus(job[w].rid, status), UNCHANGED fills,
         \/ Return(w)
         \/ \E s \in Steps \ {"initiate"} :
              GoesOnAt(w, s) /\ StatusFits(s, status)
  PROVE  IInv'
<1>1. requests'[job[w].rid].status = status
  BY StatusUpdate DEF IInv, RequestsAreExclusive
<1>2. fills' \in Seq([Assets -> Nat]) /\ Len(fills') = Len(fills)
  BY DEF IInv, LedgerShape
<1>3. CASE Return(w)
  BY <1>2, <1>3, OwnStep DEF Return
<1>4. ASSUME NEW s \in Steps \ {"initiate"}, GoesOnAt(w, s), StatusFits(s, status)
      PROVE  IInv'
  <2>1. PICK j : job' = [job EXCEPT ![w] = j] /\ Continues(w, j) /\ j.step = s
    BY <1>4 DEF GoesOnAt
  <2>2. StatusFits(j.step, requests'[j.rid].status)
    BY <1>1, <1>4, <2>1 DEF Continues
  <2> QED BY <1>2, <2>1, <2>2, OwnStep
<1> QED BY <1>3, <1>4
(* A job that holds no request: nothing to keep apart.                     *)
LEMMA WithoutRequest ==
  ASSUME IInv, NEW w \in Workers, NEW j, job' = [job EXCEPT ![w] = j],
         \/ j = NoJob
         \/ JobFields(j) /\ j.step = "initiate" /\ j.user \in Users,
         LedgerShape',
         \A r \in DOMAIN requests : r \in DOMAIN requests' /\ requests'[r] = requests[r]
  PROVE  IInv'
<1>1. job'[w] = j /\ \A v \in Workers \ {w} : job'[v] = job[v]
  BY DEF IInv, JobShape
<1>2. JobShape'
  BY <1>1 DEF IInv, JobShape, Steps
<1>3. \A v \in Workers : HoldsRequest(v)' => v # w /\ HoldsRequest(v)
  BY <1>1, NoJobIsIdle DEF HoldsRequest
<1>4. RequestsAreExclusive'
  BY <1>1, <1>3 DEF IInv, RequestsAreExclusive, At
<1> QED BY <1>2, <1>4 DEF IInv

LEMMA StartIInv ==
  ASSUME IInv, NEW w \in Workers, NEW u \in Users, Start(w, u)
  PROVE  IInv'
<1> DEFINE j == [step |-> "initiate", user |-> u, cid |-> portfolio[u].cid,
                 holdings |-> portfolio[u].holdings,
                 legs |-> PlanSwapLegs(portfolio[u].holdings, portfolio[u].target),
                 next |-> 1, executed |-> {}, rid |-> 0]
<1>1. job' = [job EXCEPT ![w] = j]
  BY DEF Start
<1>2. JobFields(j) /\ j.step = "initiate" /\ j.user \in Users
  BY DEF JobFields
<1>3. LedgerShape' /\ UNCHANGED requests
  BY DEF Start, ledgerVars, venueVars, IInv, LedgerShape
<1> HIDE DEF j
<1> QED BY <1>1, <1>2, <1>3, WithoutRequest

(* A request created by w, which goes on to its swap legs.                 *)
LEMMA InitiateIInv ==
  ASSUME IInv, NEW w \in Workers, Initiate(w)
  PROVE  IInv'
<1>1. job[w] # NoJob /\ JobFields(job[w]) /\ job[w].user \in Users
  BY NoJobIsIdle DEF Initiate, At, IInv, JobShape
<1>2. CASE LedgerUnchanged /\ Return(w)
  <2>1. LedgerShape' /\ UNCHANGED requests
    BY <1>2 DEF LedgerUnchanged, ledgerVars, IInv, LedgerShape
  <2> QED BY <1>2, <2>1, WithoutRequest DEF Return
<1>3. ASSUME InitiateCommits(w)
      PROVE  /\ LedgerShape'
             /\ Len(requests') = Len(requests) + 1
             /\ requests'[Len(requests) + 1]
                  = [user |-> job[w].user, status |-> "Pending"]
             /\ \A r \in DOMAIN requests :
                  r \in DOMAIN requests' /\ requests'[r] = requests[r]
  <2> DEFINE new == [user |-> job[w].user, status |-> "Pending"]
  <2>1. new \in Request
    BY <1>1 DEF Request, Statuses
  <2>2. requests' = Append(requests, new) /\ fills' = Append(fills, NoFills)
    BY <1>3 DEF InitiateCommits
  <2>3. NoFills \in [Assets -> Nat]
    BY DEF NoFills
  <2> HIDE DEF new
  <2>4. fills' \in Seq([Assets -> Nat]) /\ Len(fills') = Len(fills) + 1
    BY <2>2, <2>3 DEF IInv, LedgerShape
  <2>5. requests' \in Seq(Request) /\ Len(requests') = Len(requests) + 1
    BY <2>1, <2>2 DEF IInv, LedgerShape
  <2>6. requests'[Len(requests) + 1] = new
    BY <2>1, <2>2 DEF IInv, LedgerShape
  <2>7. \A r \in DOMAIN requests : r \in DOMAIN requests' /\ requests'[r] = requests[r]
    BY <2>1, <2>2 DEF IInv, LedgerShape
  <2> QED BY <2>4, <2>5, <2>6, <2>7 DEF new, IInv, LedgerShape
<1>4. CASE InitiateCommits(w) /\ Return(w)
  BY <1>3, <1>4, WithoutRequest DEF Return
<1>5. CASE /\ InitiateCommits(w)
           /\ job' = [job EXCEPT ![w].step = "setLegs", ![w].cid = @ + 1,
                                 ![w].rid = Len(requests) + 1]
  <2> DEFINE c == job[w].cid + 1
             r == Len(requests) + 1
             j == [step |-> "setLegs", user |-> job[w].user, cid |-> c,
                   holdings |-> job[w].holdings, legs |-> job[w].legs,
                   next |-> job[w].next, executed |-> job[w].executed, rid |-> r]
  <2>1. job' = [job EXCEPT ![w] = [job[w] EXCEPT !.step = "setLegs", !.cid = c,
                                                !.rid = r]]
    BY <1>5
  <2> HIDE DEF c, r
  <2>2. [job[w] EXCEPT !.step = "setLegs", !.cid = c, !.rid = r] = j
    BY <1>1, InitiatedFields, Zenon
  <2>3. job' = [job EXCEPT ![w] = j]
    BY <2>1, <2>2, Zenon
  <2>4. job'[w] = j /\ \A v \in Workers \ {w} : job'[v] = job[v]
    BY <2>3 DEF IInv, JobShape
  <2>5. JobShape'
    <3>1. JobFields(j) /\ j.step \in Steps /\ j.user \in Users
      BY <1>1 DEF JobFields, Steps
    <3>2. job' = [v \in Workers |-> job'[v]]
      BY <2>3 DEF IInv, JobShape
    <3> QED BY <2>4, <3>1, <3>2 DEF IInv, JobShape
  <2>6. r \in DOMAIN requests' /\ r \notin DOMAIN requests
    BY <1>3, <1>5 DEF r, IInv, LedgerShape
  <2>7. requests'[r] = [user |-> job[w].user, status |-> "Pending"]
    BY <1>3, <1>5 DEF r
  <2>8. \A v \in Workers \ {w} : HoldsRequest(v)' =>
          /\ HoldsRequest(v)
          /\ job'[v].rid # r
          /\ job'[v].rid \in DOMAIN requests'
          /\ requests'[job'[v].rid] = requests[job[v].rid]
    <3> SUFFICES ASSUME NEW v \in Workers \ {w}, HoldsRequest(v)'
                 PROVE  /\ HoldsRequest(v)
                        /\ job'[v].rid # r
                        /\ job'[v].rid \in DOMAIN requests'
                        /\ requests'[job'[v].rid] = requests[job[v].rid]
      OBVIOUS
    <3>1. HoldsRequest(v) /\ job'[v].rid = job[v].rid
      BY <2>4 DEF HoldsRequest
    <3>2. job[v].rid \in DOMAIN requests
      BY <3>1 DEF IInv, RequestsAreExclusive
    <3> QED BY <1>3, <1>5, <2>6, <3>1, <3>2
  <2>9. RequestsAreExclusive'
    <3>1. ASSUME NEW v \in Workers \ {w}, HoldsRequest(v)'
          PROVE  /\ job'[v].rid \in DOMAIN requests'
                 /\ requests'[job'[v].rid].user = job'[v].user
                 /\ At(v, "setLegs")' => requests'[job'[v].rid].status = "Pending"
                 /\ job'[v].step \in {"swap", "failSkipped", "complete"}
                      => requests'[job'[v].rid].status = "Executing"
                 /\ job'[v].step \in {"query", "sync", "record"}
                      => requests'[job'[v].rid].status = "Archived"
                 /\ \A u \in Workers \ {v} :
                      HoldsRequest(u)' => job'[u].rid # job'[v].rid
      BY <2>4, <2>8, <3>1 DEF IInv, RequestsAreExclusive, At
    <3>2. /\ job'[w].rid \in DOMAIN requests'
          /\ requests'[job'[w].rid].user = job'[w].user
          /\ At(w, "setLegs")' => requests'[job'[w].rid].status = "Pending"
          /\ job'[w].step \notin {"swap", "failSkipped", "complete",
                                  "query", "sync", "record"}
          /\ \A u \in Workers \ {w} :
               HoldsRequest(u)' => job'[u].rid # job'[w].rid
      BY <2>4, <2>6, <2>7, <2>8 DEF At
    <3> QED BY <3>1, <3>2 DEF RequestsAreExclusive
  <2> QED BY <1>3, <1>5, <2>5, <2>9 DEF IInv
<1> QED BY <1>2, <1>4, <1>5 DEF Initiate

(* Executing a leg n times more.                                           *)
LEMMA FillsUpdate ==
  ASSUME LedgerShape, NEW r \in DOMAIN fills, NEW k, NEW n \in Nat
  PROVE  /\ WithFills(r, k, n) \in Seq([Assets -> Nat])
         /\ Len(WithFills(r, k, n)) = Len(fills)
         /\ \A q \in DOMAIN fills : q # r => WithFills(r, k, n)[q] = fills[q]
<1> DEFINE counts == [fills[r] EXCEPT ![k] = fills[r][k] + n]
<1>1. fills[r] \in [Assets -> Nat]
  BY DEF LedgerShape
<1>2. counts \in [Assets -> Nat]
  <2>1. CASE k \in Assets
    BY <1>1, <2>1
  <2>2. CASE k \notin Assets
    BY <1>1, <2>2
  <2> QED BY <2>1, <2>2
<1>3. WithFills(r, k, n) = [fills EXCEPT ![r] = counts]
  BY DEF WithFills
<1> HIDE DEF counts
<1> QED BY <1>2, <1>3 DEF LedgerShape

(* The steps of a call that holds a request.                               *)
(* What a swap does: the venue executes some orders, and then the leg is   *)
(* answered or the call throws.                                            *)
LEMMA SwapLegParts ==
  ASSUME NEW w \in Workers, SwapLeg(w)
  PROVE  \E n, v :
           /\ n \in Nat /\ Fill(w, n, v)
           /\ CurrentLeg(w) \in Leg => v \in Nat
           /\ \/ UNCHANGED <<answers, envSteps>> /\ GoTo(w, "cleanup")
              \/ \E o \in Outcomes :
                   /\ Answered(w, o)
                   /\ o \in {"filled", "partial"} => n > 0
                   /\ o = "mocked" => mocked # {}
<1>1. PICK venue \in Venues :
        \/ venue \in mocked /\ MockSwap(w)
        \/ venue \notin mocked /\ VenueSwap(w, venue)
  BY DEF SwapLeg
<1>2. CASE venue \in mocked /\ MockSwap(w)
  <2>1. Fill(w, 0, 0) /\ Answered(w, "mocked") /\ mocked # {}
    BY <1>2 DEF MockSwap
  <2> QED BY <2>1 DEF Outcomes
<1>3. CASE VenueSwap(w, venue)
  <2> DEFINE value == CurrentLeg(w).value
  <2>0. PICK n \in 0..SwapAttempts[venue] : \E v \in Sold(venue, n, value) :
          /\ Fill(w, n, v)
          /\ \/ \E o \in MayAnswer(venue, n, v, value) : Answered(w, o)
             \/ UNCHANGED <<answers, envSteps>> /\ GoTo(w, "cleanup")
    BY <1>3 DEF VenueSwap
  <2>1. PICK v \in Sold(venue, n, value) :
          /\ Fill(w, n, v)
          /\ \/ \E o \in MayAnswer(venue, n, v, value) : Answered(w, o)
             \/ UNCHANGED <<answers, envSteps>> /\ GoTo(w, "cleanup")
    BY <2>0
  <2>2. n \in Nat
    BY ConstantsAssumption
  <2>3. CurrentLeg(w) \in Leg => v \in Nat
    <3> SUFFICES ASSUME CurrentLeg(w) \in Leg
                 PROVE  v \in Nat
      OBVIOUS
    <3>1. value \in Nat
      BY DEF Leg
    <3> HIDE DEF value
    <3>2. v \in n..(n * value) \/ v = n * value
      BY <2>1 DEF Sold
    <3>3. n * value \in Nat
      BY <2>2, <3>1
    <3> QED BY <2>2, <3>2, <3>3
  <2>4. ASSUME NEW o \in MayAnswer(venue, n, v, value)
        PROVE  o \in Outcomes /\ (o \in {"filled", "partial"} => n > 0) /\ o # "mocked"
    BY <2>4 DEF MayAnswer
  <2> HIDE DEF value
  <2> QED BY <2>1, <2>2, <2>3, <2>4
<1> QED BY <1>1, <1>2, <1>3

LEMMA HoldingStepIInv ==
  ASSUME IInv, NEW w \in Workers,
         \/ SetSwapLegs(w) \/ SkipLeg(w) \/ SwapLeg(w) \/ FailSkipped(w)
         \/ Complete(w) \/ QueryHoldings(w) \/ SyncHoldings(w) \/ Record(w)
         \/ Cleanup(w)
  PROVE  IInv'
<1> DEFINE status == requests[job[w].rid].status
<1> USE DEF IInv
<1>1. HoldsRequest(w)
  BY DEF HoldsRequest, At, SetSwapLegs, SkipLeg, SwapLeg, FailSkipped, Complete,
         QueryHoldings, SyncHoldings, Record, Cleanup
<1>2. UNCHANGED fills => fills' \in Seq([Assets -> Nat]) /\ Len(fills') = Len(fills)
  BY DEF LedgerShape
<1>3. ASSUME NEW s \in Steps \ {"initiate"}, GoTo(w, s)
      PROVE  GoesOnAt(w, s)
  BY <1>1, <1>3, GoToGoesOn
<1>4. StatusFits(job[w].step, status)
  BY <1>1 DEF RequestsAreExclusive, At, StatusFits
<1>5. \A t : StatusFits("cleanup", t)
  BY DEF StatusFits
<1>6. "cleanup" \in Steps \ {"initiate"}
  BY DEF Steps
<1>7. ASSUME LedgerUnchanged, Return(w) \/ GoTo(w, "cleanup")
      PROVE  IInv'
  BY <1>1, <1>2, <1>3, <1>5, <1>6, <1>7, QuietStep DEF LedgerUnchanged, ledgerVars
<1>8. ASSUME NEW t \in Statuses, SetStatus(job[w].rid, t),
             Return(w) \/ GoTo(w, "cleanup")
      PROVE  IInv'
  BY <1>1, <1>3, <1>5, <1>6, <1>8, StatusStep DEF SetStatus
<1>9. CASE SetSwapLegs(w)
  <2>1. ASSUME SetStatus(job[w].rid, "Executing"), GoTo(w, "swap")
        PROVE  IInv'
    <3>1. GoesOnAt(w, "swap") /\ StatusFits("swap", "Executing")
      BY <1>3, <2>1 DEF Steps, StatusFits
    <3> QED BY <1>1, <2>1, <3>1, StatusStep DEF SetStatus, Statuses, Steps
  <2> QED BY <1>7, <1>8, <1>9, <2>1 DEF SetSwapLegs, Statuses
<1>10. CASE FailSkipped(w)
  BY <1>7, <1>8, <1>10 DEF FailSkipped, Statuses
<1>11. CASE Cleanup(w)
  BY <1>7, <1>8, <1>11 DEF Cleanup, Statuses
<1>12. CASE Complete(w)
  <2>1. ASSUME requests' = WithStatus(job[w].rid, "Archived"), UNCHANGED fills,
               GoTo(w, "query") \/ GoTo(w, "cleanup")
        PROVE  IInv'
    <3>1. \E s \in {"query", "cleanup"} :
             GoesOnAt(w, s) /\ StatusFits(s, "Archived")
      BY <1>3, <2>1 DEF Steps, StatusFits
    <3> QED BY <1>1, <2>1, <3>1, StatusStep DEF Statuses, Steps
  <2> QED BY <1>7, <1>12, <2>1 DEF Complete
<1>13. ASSUME UNCHANGED <<requests, fills>>,
              NEW s \in Steps \ {"initiate"}, GoesOnAt(w, s), StatusFits(s, status)
       PROVE  IInv'
  BY <1>1, <1>2, <1>13, QuietStep
<1>14. ASSUME NEW executed, AfterLeg(w, executed), At(w, "swap")
       PROVE  \E s \in Steps \ {"initiate"} : GoesOnAt(w, s) /\ StatusFits(s, status)
  <2>1. PICK s \in {"swap", "failSkipped", "complete"} : GoesOnAt(w, s)
    BY <1>1, <1>14, AfterLegGoesOn
  <2>2. StatusFits(s, status)
    BY <1>4, <1>14 DEF At, StatusFits
  <2> QED BY <2>1, <2>2 DEF Steps
<1>15. CASE SkipLeg(w)
  BY <1>13, <1>14, <1>15 DEF SkipLeg, ledgerVars, venueVars
<1>16. CASE SwapLeg(w)
  <2>1. PICK n, v :
          /\ n \in Nat /\ Fill(w, n, v)
          /\ (\E executed : AfterLeg(w, executed)) \/ GoTo(w, "cleanup")
    BY <1>16, SwapLegParts DEF Answered
  <2>2. fills' \in Seq([Assets -> Nat]) /\ Len(fills') = Len(fills)
    <3>1. job[w].rid \in DOMAIN fills
      BY <1>1 DEF LedgerShape, RequestsAreExclusive
    <3>2. fills' = WithFills(job[w].rid, job[w].next, n)
      BY <2>1, Zenon DEF Fill
    <3> QED BY <2>1, <3>1, <3>2, FillsUpdate
  <2>3. UNCHANGED requests /\ At(w, "swap")
    BY <1>16 DEF SwapLeg, ledgerVars
  <2>4. \E s \in Steps \ {"initiate"} : GoesOnAt(w, s) /\ StatusFits(s, status)
    BY <1>3, <1>5, <1>6, <1>14, <2>1, <2>3
  <2> QED BY <1>1, <2>2, <2>3, <2>4, QuietStep
<1>17. CASE QueryHoldings(w)
  <2>1. UNCHANGED <<requests, fills>> /\ StatusFits("sync", status)
    BY <1>4, <1>17 DEF QueryHoldings, ledgerVars, venueVars, At, StatusFits
  <2>2. ASSUME NEW h, job' = [job EXCEPT ![w].step = "sync", ![w].holdings = h]
        PROVE  GoesOnAt(w, "sync")
    BY <1>1, <2>2, HoldingsGoOn
  <2> QED BY <1>3, <1>5, <1>6, <1>13, <1>17, <2>1, <2>2 DEF QueryHoldings, Steps
<1>18. CASE SyncHoldings(w)
  <2>1. StatusFits("record", status)
    BY <1>4, <1>18 DEF SyncHoldings, At, StatusFits
  <2> QED BY <1>3, <1>5, <1>6, <1>7, <1>13, <1>18, <2>1 DEF SyncHoldings, Steps
<1>19. CASE Record(w)
  BY <1>1, <1>2, <1>19, QuietStep DEF Record, ledgerVars, venueVars
<1> QED BY <1>9, <1>10, <1>11, <1>12, <1>15, <1>16, <1>17, <1>18, <1>19

(* The invariant is inductive.                                             *)
LEMMA NextIInv == IInv /\ [Next]_vars => IInv'
<1> SUFFICES ASSUME IInv, [Next]_vars
             PROVE  IInv'
  OBVIOUS
<1>1. ASSUME NEW w \in Workers, NEW u \in Users, Start(w, u)
      PROVE  IInv'
  BY <1>1, StartIInv
<1>2. ASSUME NEW w \in Workers, Step(w)
      PROVE  IInv'
  BY <1>2, InitiateIInv, HoldingStepIInv DEF Step
<1>3. ASSUME UNCHANGED <<requests, fills, job>>
      PROVE  IInv'
  BY <1>3 DEF IInv, JobShape, LedgerShape, RequestsAreExclusive, HoldsRequest, At
<1>4. CASE Environment
  <2>1. CASE Crash
    <3>1. JobShape' /\ LedgerShape'
      BY <2>1 DEF Crash, ledgerVars, venueVars, IInv, JobShape, LedgerShape
    <3>2. RequestsAreExclusive'
      BY <2>1, NoJobIsIdle DEF Crash, RequestsAreExclusive, HoldsRequest
    <3> QED BY <3>1, <3>2 DEF IInv
  <2>2. ASSUME NEW u, NEW p, UserChoice(u, p)
        PROVE  IInv'
    BY <1>3, <2>2 DEF UserChoice, venueVars
  <2> QED BY <1>4, <2>1, <2>2
          DEF Environment, UpdateTargets, UpdateTriggerMode, SetActive, UpdateMetadata
<1>5. CASE UNCHANGED vars
  BY <1>3, <1>5 DEF vars
<1> QED BY <1>1, <1>2, <1>4, <1>5 DEF Next

LEMMA Invariance == Spec => []IInv
  BY InitIInv, NextIInv, PTL DEF Spec

(* No two calls ever work on one request, and each finds its own in the    *)
(* status its next step needs, for any number of calls, users and crashes. *)
THEOREM ExclusiveRequests == Spec => []RequestsAreExclusive
<1>1. IInv => RequestsAreExclusive
  BY DEF IInv
<1> QED BY <1>1, Invariance, PTL

---------------------------------------------------------------------------
(* Action properties.                                                      *)

Closed(r) == requests[r].status \in {"Failed", "Archived"}

LEMMA StatusKeepsClosed ==
  ASSUME IInv, NEW w \in Workers, HoldsRequest(w), ~Closed(job[w].rid),
         NEW status \in Statuses, requests' = WithStatus(job[w].rid, status),
         NEW r \in DOMAIN requests, Closed(r)
  PROVE  requests'[r] = requests[r]
  BY StatusUpdate DEF IInv, RequestsAreExclusive

LEMMA StepKeepsClosed ==
  ASSUME IInv, [Next]_vars, NEW r \in DOMAIN requests, Closed(r)
  PROVE  requests'[r] = requests[r]
<1>1. ASSUME NEW w \in Workers, Initiate(w)
      PROVE  requests'[r] = requests[r]
  <2>1. CASE InitiateCommits(w)
    <3>1. JobFields(job[w]) /\ job[w].user \in Users
      BY <1>1, NoJobIsIdle DEF Initiate, At, IInv, JobShape
    <3>2. [user |-> job[w].user, status |-> "Pending"] \in Request
      BY <3>1 DEF Request, Statuses
    <3> QED BY <2>1, <3>2 DEF InitiateCommits, IInv, LedgerShape
  <2>2. CASE UNCHANGED requests
    BY <2>2
  <2> QED BY <1>1, <2>1, <2>2 DEF Initiate, LedgerUnchanged, ledgerVars
<1>2. ASSUME NEW w \in Workers, HoldsRequest(w),
             \/ UNCHANGED requests
             \/ /\ requests[job[w].rid].status \in {"Pending", "Executing"}
                /\ \E status \in Statuses : requests' = WithStatus(job[w].rid, status)
      PROVE  requests'[r] = requests[r]
  BY <1>2, StatusKeepsClosed DEF Closed
<1>3. ASSUME NEW w \in Workers, SetSwapLegs(w) \/ FailSkipped(w) \/ Complete(w) \/ Cleanup(w)
      PROVE  requests'[r] = requests[r]
  BY <1>2, <1>3
  DEF SetSwapLegs, FailSkipped, Complete, Cleanup, SetStatus, LedgerUnchanged,
      ledgerVars, HoldsRequest, At, Statuses
<1>4. ASSUME NEW w \in Workers,
             SkipLeg(w) \/ SwapLeg(w) \/ QueryHoldings(w) \/ SyncHoldings(w) \/ Record(w)
      PROVE  requests'[r] = requests[r]
  BY <1>4
  DEF SkipLeg, SwapLeg, QueryHoldings, SyncHoldings, Record, LedgerUnchanged, ledgerVars
<1>5. ASSUME NEW w \in Workers, Step(w)
      PROVE  requests'[r] = requests[r]
  BY <1>1, <1>3, <1>4, <1>5 DEF Step
<1>6. ASSUME \/ \E w \in Workers, u \in Users : Start(w, u)
             \/ Environment
             \/ UNCHANGED vars
      PROVE  requests'[r] = requests[r]
  BY <1>6
  DEF Start, Environment, UpdateTargets, UpdateTriggerMode, SetActive,
      UpdateMetadata, UserChoice, Crash, ledgerVars, vars
<1> QED BY <1>5, <1>6 DEF Next

(* A failed or completed rebalance is never resumed or settled again.      *)
THEOREM SettledForGood == Spec => SettledStaysSettled
<1>1. IInv /\ [Next]_vars =>
        [\A r \in DOMAIN requests :
           requests[r].status \in {"Failed", "Archived"}
             => requests'[r] = requests[r]]_vars
  BY StepKeepsClosed DEF Closed
<1> QED BY <1>1, Invariance, PTL DEF Spec, SettledStaysSettled

LEMMA StepFillsExecuting ==
  ASSUME IInv, [Next]_vars, NEW r \in DOMAIN requests, fills'[r] # fills[r]
  PROVE  requests[r].status = "Executing"
<1>1. ASSUME NEW w \in Workers, SwapLeg(w)
      PROVE  requests[r].status = "Executing"
  <2>1. PICK n, v : n \in Nat /\ Fill(w, n, v)
    BY <1>1, SwapLegParts
  <2>2. fills' = WithFills(job[w].rid, job[w].next, n)
    BY <2>1, Zenon DEF Fill
  <2>3. /\ job[w].rid \in DOMAIN requests
        /\ requests[job[w].rid].status = "Executing"
    BY <1>1 DEF SwapLeg, At, HoldsRequest, IInv, RequestsAreExclusive
  <2>4. r = job[w].rid
    <3>1. r \in DOMAIN fills /\ job[w].rid \in DOMAIN fills
      BY <2>3 DEF IInv, LedgerShape
    <3>2. r # job[w].rid => WithFills(job[w].rid, job[w].next, n)[r] = fills[r]
      BY <2>1, <3>1, FillsUpdate DEF IInv
    <3> QED BY <2>2, <3>2
  <2> QED BY <2>3, <2>4
<1>2. ASSUME NEW w \in Workers, Initiate(w)
      PROVE  UNCHANGED fills[r]
  <2>1. NoFills \in [Assets -> Nat]
    BY DEF NoFills
  <2>2. CASE fills' = Append(fills, NoFills)
    BY <2>1, <2>2 DEF IInv, LedgerShape
  <2> QED BY <1>2, <2>2 DEF Initiate, InitiateCommits, LedgerUnchanged
<1>3. ASSUME NEW w \in Workers, Step(w), ~SwapLeg(w), ~Initiate(w)
      PROVE  UNCHANGED fills
  BY <1>3
  DEF Step, SetSwapLegs, SkipLeg, FailSkipped, Complete, QueryHoldings,
      SyncHoldings, Record, Cleanup, SetStatus, LedgerUnchanged, venueVars
<1>4. ASSUME \/ \E w \in Workers, u \in Users : Start(w, u)
             \/ Environment
             \/ UNCHANGED vars
      PROVE  UNCHANGED fills
  BY <1>4
  DEF Start, Environment, UpdateTargets, UpdateTriggerMode, SetActive,
      UpdateMetadata, UserChoice, Crash, venueVars, vars
<1> QED BY <1>1, <1>2, <1>3, <1>4 DEF Next

(* The venue swaps only on behalf of a request that is Executing.          *)
THEOREM SwapsAreAuthorised == Spec => SwapsUnderExecutingRequest
<1>1. IInv /\ [Next]_vars =>
        [\A r \in DOMAIN requests :
           fills'[r] # fills[r] => requests[r].status = "Executing"]_vars
  BY StepFillsExecuting
<1> QED BY <1>1, Invariance, PTL DEF Spec, SwapsUnderExecutingRequest

---------------------------------------------------------------------------
(* Types, and what the records rest on.                                    *)

Valued ==
  /\ portfolio \in [Users -> PortfolioContract]
  /\ wallet \in [Users -> Values]
  /\ rewardTxs \in [Users -> Nat]
  /\ job \in [Workers -> Job \union {NoJob}]
  /\ logs \in SUBSET [request : Nat, legs : SUBSET Nat]
  /\ IsFiniteSet(logs)
  /\ mocked \subseteq Venues
  /\ answers \subseteq Answer
  /\ envSteps \in 0..MaxEnvSteps

(* A call has a plan, is at one of its legs while it swaps, and holds as   *)
(* executed the legs of its request that were answered.                    *)
JobIsBacked(w) ==
  job[w] # NoJob =>
    /\ job[w].legs # <<>> /\ Len(job[w].legs) < NumAssets
    /\ job[w].step \in {"initiate", "setLegs", "swap"}
         => job[w].next \in 1..Len(job[w].legs)
    /\ job[w].step = "initiate" => job[w].executed = {}
    /\ job[w].step # "initiate"
         => /\ job[w].executed \subseteq Assets
            /\ job[w].executed = {a.leg : a \in AnswersTo(job[w].rid)}
    /\ job[w].step \in {"setLegs", "swap"}
         => \A k \in job[w].executed : k < job[w].next
    /\ job[w].step = "complete" => job[w].executed # {}

JobsAreBacked == \A w \in Workers : JobIsBacked(w)

(* Calls that may yet tell the rewards engine of their request.            *)
MayRecord(w) == job[w].step \in {"query", "sync", "record"}

(* The logs of user u that no call may yet record.                         *)
Creditable(u) ==
  {l \in logs : /\ requests[l.request].user = u
                /\ \A w \in Workers : MayRecord(w) => job[w].rid # l.request}

CreditsAreEarned ==
  \A u \in Users : rewardTxs[u] <= Cardinality(Creditable(u))

BackedIInv ==
  /\ Valued
  /\ JobsAreBacked
  /\ LogsMatchAnswers
  /\ AnswersAreBacked
  /\ AnswersAreUnique
  /\ CreditsAreEarned

LEMMA BackedInit == Init => BackedIInv
<1> SUFFICES ASSUME Init PROVE BackedIInv
  OBVIOUS
<1>1. /\ InitialWallets \subseteq Values /\ InitialHoldings \subseteq Values
      /\ Targets \subseteq Values /\ MaxEnvSteps \in Nat
  BY ConstantsAssumption
<1>2. wallet \in [Users -> Values] /\ rewardTxs \in [Users -> Nat]
  BY <1>1 DEF Init
<1>3. portfolio \in [Users -> PortfolioContract]
  <2>1. [cid : {0}, holdings : InitialHoldings, target : Targets, mode : Modes,
         active : {TRUE}] \subseteq PortfolioContract
    <3>1. {0} \subseteq Nat /\ {TRUE} \subseteq BOOLEAN
      OBVIOUS
    <3> QED BY <1>1, <3>1 DEF PortfolioContract
  <2> QED BY <2>1 DEF Init
<1>4. job \in [Workers -> Job \union {NoJob}] /\ \A w \in Workers : job[w] = NoJob
  BY DEF Init
<1>5. /\ logs \in SUBSET [request : Nat, legs : SUBSET Nat] /\ IsFiniteSet(logs)
      /\ envSteps \in 0..MaxEnvSteps /\ mocked \subseteq Venues /\ answers \subseteq Answer
  BY <1>1, ConstantsAssumption, FS_EmptySet DEF Init
<1>6. Valued
  BY <1>2, <1>3, <1>4, <1>5 DEF Valued
<1>7. JobsAreBacked
  BY <1>4 DEF JobsAreBacked, JobIsBacked
<1>8. LogsMatchAnswers /\ AnswersAreBacked /\ AnswersAreUnique
  BY DEF Init, LogsMatchAnswers, AnswersAreBacked, AnswersAreUnique
<1>9. CreditsAreEarned
  <2>1. \A u \in Users : Creditable(u) = {} /\ rewardTxs[u] = 0
    BY DEF Init, Creditable
  <2> QED BY <2>1, FS_EmptySet DEF CreditsAreEarned
<1> QED BY <1>6, <1>7, <1>8, <1>9 DEF BackedIInv

---------------------------------------------------------------------------
(* The venue's count of what it executed.                                  *)

FillsGrow ==
  \A r \in DOMAIN fills :
    r \in DOMAIN fills' /\ \A k \in Assets : fills'[r][k] >= fills[r][k]

LEMMA WithFillsGrow ==
  ASSUME LedgerShape, NEW r \in DOMAIN fills, NEW k \in Assets, NEW n \in Nat,
         fills' = WithFills(r, k, n)
  PROVE  /\ FillsGrow
         /\ fills'[r][k] = fills[r][k] + n
<1> DEFINE counts == [fills[r] EXCEPT ![k] = fills[r][k] + n]
<1>1. fills \in Seq([Assets -> Nat]) /\ fills[r] \in [Assets -> Nat]
  BY DEF LedgerShape
<1>2. \A q \in DOMAIN fills, a \in Assets : fills[q][a] \in Nat
  BY <1>1
<1>3. fills' = [fills EXCEPT ![r] = counts]
  BY DEF WithFills
<1>4. counts[k] = fills[r][k] + n /\ \A a \in Assets : counts[a] >= fills[r][a]
  BY <1>1, <1>2
<1> HIDE DEF counts
<1>5. DOMAIN fills' = DOMAIN fills /\ fills'[r] = counts
  BY <1>1, <1>3
<1>6. \A q \in DOMAIN fills : q # r => fills'[q] = fills[q]
  BY <1>1, <1>3
<1>7. \A q \in DOMAIN fills, a \in Assets : fills'[q][a] >= fills[q][a]
  BY <1>2, <1>4, <1>5, <1>6
<1> QED BY <1>4, <1>5, <1>7 DEF FillsGrow

LEMMA FillsStay ==
  ASSUME LedgerShape, UNCHANGED fills
  PROVE  FillsGrow
<1>1. \A q \in DOMAIN fills, a \in Assets : fills[q][a] \in Nat
  BY DEF LedgerShape
<1> QED BY <1>1 DEF FillsGrow

LEMMA NewFillsGrow ==
  ASSUME LedgerShape, fills' = Append(fills, NoFills)
  PROVE  FillsGrow
<1>1. fills \in Seq([Assets -> Nat]) /\ NoFills \in [Assets -> Nat]
  BY DEF LedgerShape, NoFills
<1>2. \A q \in DOMAIN fills : q \in DOMAIN fills' /\ fills'[q] = fills[q]
  BY <1>1
<1>3. \A q \in DOMAIN fills, a \in Assets : fills[q][a] \in Nat
  BY <1>1
<1> QED BY <1>2, <1>3 DEF FillsGrow

---------------------------------------------------------------------------
(* What the venues answered.                                               *)

(* The answers to r after a step.                                          *)
NextAnswersTo(r) == {a \in answers' : a.request = r}

AnswersStay(r) == NextAnswersTo(r) = AnswersTo(r)

(* At most one answer comes in, to request r.                              *)
OnlyAnswers(r) ==
  answers \subseteq answers' /\ \A a \in answers' \ answers : a.request = r

LEMMA QuietAnswers ==
  ASSUME UNCHANGED answers
  PROVE  (\A r : AnswersStay(r)) /\ (\A r : OnlyAnswers(r))
  BY DEF AnswersStay, NextAnswersTo, AnswersTo, OnlyAnswers

LEMMA OtherAnswers ==
  ASSUME NEW r, OnlyAnswers(r), NEW q, q # r
  PROVE  AnswersStay(q)
  BY DEF AnswersStay, NextAnswersTo, AnswersTo, OnlyAnswers

LEMMA OthersAreNotAnswered ==
  ASSUME IInv, NEW w \in Workers, HoldsRequest(w), OnlyAnswers(job[w].rid)
  PROVE  \A v \in Workers : v # w /\ HoldsRequest(v) => AnswersStay(job[v].rid)
<1>1. \A v \in Workers : v # w /\ HoldsRequest(v) => job[v].rid # job[w].rid
  BY DEF IInv, RequestsAreExclusive
<1> QED BY <1>1, OtherAnswers

---------------------------------------------------------------------------
(* What a step does to the jobs.                                           *)

JobsStayBacked ==
  job' \in [Workers -> Job \union {NoJob}] /\ JobsAreBacked' /\ FillsGrow

LEMMA PrimedAnswers ==
  ASSUME NEW v \in Workers, NEW j, job'[v] = j
  PROVE  {a.leg : a \in AnswersTo(job[v].rid)}' = {a.leg : a \in NextAnswersTo(j.rid)}
  BY DEF AnswersTo, NextAnswersTo

LEMMA OtherJobs ==
  ASSUME IInv, JobsAreBacked, NEW v \in Workers, job'[v] = job[v],
         HoldsRequest(v) => AnswersStay(job[v].rid)
  PROVE  JobIsBacked(v)'
<1>1. job[v] # NoJob /\ job[v].step # "initiate" => HoldsRequest(v)
  BY DEF IInv, JobShape, Steps, HoldsRequest
<1>2. job[v] # NoJob /\ job[v].step # "initiate"
        => {a.leg : a \in NextAnswersTo(job[v].rid)} = {a.leg : a \in AnswersTo(job[v].rid)}
  BY <1>1 DEF AnswersStay
<1> QED BY <1>2, PrimedAnswers DEF JobsAreBacked, JobIsBacked

LEMMA OwnReturn ==
  ASSUME IInv, IInv', Valued, JobsAreBacked, FillsGrow, NEW w \in Workers, Return(w),
         UNCHANGED answers
  PROVE  JobsStayBacked
<1>1. job' = [job EXCEPT ![w] = NoJob]
  BY DEF Return
<1>2. \A v \in Workers : v # w => job'[v] = job[v]
  BY <1>1 DEF Valued
<1>3. job'[w] = NoJob
  BY <1>1 DEF Valued
<1>4. job' \in [Workers -> Job \union {NoJob}]
  BY <1>1 DEF Valued
<1>5. JobIsBacked(w)'
  BY <1>3 DEF JobIsBacked
<1>6. \A v \in Workers : v # w => JobIsBacked(v)'
  BY <1>2, OtherJobs, QuietAnswers
<1> QED BY <1>4, <1>5, <1>6 DEF JobsStayBacked, JobsAreBacked

LEMMA OwnMove ==
  ASSUME IInv, IInv', Valued, JobsAreBacked, FillsGrow, NEW w \in Workers,
         HoldsRequest(w),
         NEW s \in Steps \ {"initiate"}, NEW next \in Nat, NEW executed \in SUBSET Assets,
         NEW holdings \in Values, Moves(w, s, next, executed, holdings),
         s \in {"setLegs", "swap"} => next \in 1..Len(job[w].legs),
         OnlyAnswers(job[w].rid),
         executed = {a.leg : a \in NextAnswersTo(job[w].rid)},
         s \in {"setLegs", "swap"} => \A k \in executed : k < next,
         s = "complete" => executed # {}
  PROVE  JobsStayBacked
<1> DEFINE j == Moved(w, s, next, executed, holdings)
<1>1. job[w] \in Job /\ job[w] # NoJob
  BY NoJobIsIdle DEF Valued, HoldsRequest
<1>2. Assets \subseteq Nat
  BY AssetsAreFinite
<1>3. j \in Job
  BY <1>1, <1>2 DEF Moved, Job
<1>4. /\ j.step = s /\ j.legs = job[w].legs /\ j.next = next /\ j.executed = executed
      /\ j.rid = job[w].rid
  BY DEF Moved
<1>5. job' = [job EXCEPT ![w] = j]
  BY DEF Moves
<1> HIDE DEF j
<1>6. job'[w] = j /\ \A v \in Workers : v # w => job'[v] = job[v]
  BY <1>5 DEF Valued
<1>7. job' \in [Workers -> Job \union {NoJob}]
  BY <1>3, <1>5 DEF Valued
<1>8. JobIsBacked(w)'
  <2>1. {a.leg : a \in AnswersTo(job[w].rid)}' = executed
    BY <1>4, <1>6, PrimedAnswers
  <2> QED BY <1>1, <1>4, <1>6, <2>1 DEF JobsAreBacked, JobIsBacked
<1>9. \A v \in Workers : v # w => JobIsBacked(v)'
  BY <1>6, OtherJobs, OthersAreNotAnswered
<1> QED BY <1>7, <1>8, <1>9 DEF JobsStayBacked, JobsAreBacked

(* A step that leaves the answers alone and changes no leg.                *)
LEMMA QuietMove ==
  ASSUME IInv, IInv', Valued, JobsAreBacked, FillsGrow, NEW w \in Workers,
         HoldsRequest(w),
         NEW s \in Steps \ {"initiate", "setLegs", "complete"},
         s = "swap" => At(w, "setLegs"),
         NEW holdings \in Values,
         Moves(w, s, job[w].next, job[w].executed, holdings),
         UNCHANGED answers
  PROVE  JobsStayBacked
<1>1. job[w] \in Job /\ job[w] # NoJob /\ job[w].step # "initiate"
  BY NoJobIsIdle DEF Valued, HoldsRequest
<1>2. job[w].next \in Nat
  BY <1>1 DEF Job
<1>3. /\ job[w].executed \in SUBSET Assets
      /\ job[w].executed = {a.leg : a \in AnswersTo(job[w].rid)}
      /\ At(w, "setLegs") => job[w].next \in 1..Len(job[w].legs)
      /\ At(w, "setLegs") => \A k \in job[w].executed : k < job[w].next
  BY <1>1 DEF JobsAreBacked, JobIsBacked, At
<1>4. OnlyAnswers(job[w].rid)
  BY QuietAnswers
<1>5. job[w].executed = {a.leg : a \in NextAnswersTo(job[w].rid)}
  BY <1>3, QuietAnswers DEF AnswersStay
<1>6. s \in Steps \ {"initiate"} /\ s # "complete"
  OBVIOUS
<1>7. s \in {"setLegs", "swap"} => /\ job[w].next \in 1..Len(job[w].legs)
                                  /\ \A k \in job[w].executed : k < job[w].next
  BY <1>3
<1> QED BY <1>2, <1>3, <1>4, <1>5, <1>6, <1>7, OwnMove

---------------------------------------------------------------------------
(* Wallets and holdings.                                                   *)

LEMMA AppliedIsValued ==
  ASSUME NEW h \in Values, NEW leg \in Leg, NEW output \in Nat
  PROVE  Credited(h, leg, output) \in Values
<1>1. /\ leg.from \in Assets /\ leg.to \in Assets /\ leg.value \in Nat
      /\ h[leg.from] \in Nat
  BY DEF Leg, Values
<1>2. Max({0, h[leg.from] - leg.value}) \in Nat
  <2> DEFINE d == h[leg.from] - leg.value
  <2>1. d \in Int
    BY <1>1
  <2> HIDE DEF d
  <2>2. \E x \in {0, d} : \A y \in {0, d} : x >= y
    BY <2>1
  <2>3. /\ Max({0, d}) \in {0, d}
        /\ \A y \in {0, d} : Max({0, d}) >= y
    BY <2>2 DEF Max
  <2>4. Max({0, d}) >= 0
    BY <2>3
  <2>5. Max({0, d}) \in Nat
    BY <2>1, <2>3, <2>4
  <2> QED BY <2>5 DEF d
<1> DEFINE h1 == [h EXCEPT ![leg.from] = Max({0, h[leg.from] - leg.value})]
<1>3. h1 \in Values
  BY <1>1, <1>2 DEF Values
<1>4. Credited(h, leg, output) = [h1 EXCEPT ![leg.to] = @ + output]
  BY DEF Credited
<1> HIDE DEF h1
<1>5. h1[leg.to] + output \in Nat
  BY <1>1, <1>3 DEF Values
<1> QED BY <1>1, <1>3, <1>4, <1>5 DEF Values

(* The holdings after some legs of a plan.                                 *)
LEMMA ComputedIsValued ==
  ASSUME NEW w \in Workers, job[w] \in Job,
         \A k \in job[w].executed : OutputOf(job[w].rid, k) \in Nat
  PROVE  ComputedHoldings(w) \in Values
<1> DEFINE legs == job[w].legs
           base == job[w].holdings
           order == [i \in DOMAIN legs |-> i]
           S == DOMAIN legs
           out(k) == OutputOf(job[w].rid, k)
           op(h, k) == IF k \in job[w].executed THEN Credited(h, legs[k], out(k)) ELSE h
           Def(g) == [s \in SUBSET S |->
                        IF s = {} THEN base ELSE op(g[s \ {Max(s)}], order[Max(s)])]
           c == [s \in SUBSET S |-> Max(s)]
           M == [p \in S \X Values |-> op(p[2], p[1])]
<1>1. legs \in Seq(Leg) /\ base \in Values
  BY DEF Job
<1>2. PICK n \in Nat : n = Len(legs) /\ S = 1..n
  BY <1>1
<1>3. IsFiniteSet(S)
  BY <1>2, FS_Interval
<1>4. \A s \in SUBSET S : s # {} => Max(s) \in s /\ c[s] = Max(s)
  <2>1. ASSUME NEW s \in SUBSET S, s # {} PROVE Max(s) \in s
    <3>1. s \in SUBSET Int /\ \A x \in s : x <= n
      BY <1>2
    <3>2. \E x \in s : \A y \in s : x >= y
      <4>1. n \in Int
        OBVIOUS
      <4> QED BY <2>1, <3>1, <4>1, GreatestBelow, Zenon
    <3> QED BY <3>2 DEF Max
  <2> QED BY <2>1
<1>5. \A k \in S, h \in Values : op(h, k) \in Values
  BY <1>1, AppliedIsValued
<1>6. DOMAIN order = S /\ \A k \in S : order[k] = k
  OBVIOUS
<1>7. ComputedHoldings(w) = (CHOOSE g : g = Def(g))[S]
  BY <1>6, Zenon DEF ComputedHoldings, FoldLeftDomain, FoldLeft, MapThenFoldSet
<1> HIDE DEF op, out, S, order, legs, base
<1>8. M \in [S \X Values -> Values]
  BY <1>5
<1>9. PICK g \in [SUBSET S -> Values] : Recursive(g, SUBSET S, base, c, M)
  <2>1. \A s \in SUBSET S : s # {} => c[s] \in s
    BY <1>4
  <2> HIDE DEF M, c
  <2> QED BY <1>1, <1>3, <1>8, <2>1, RecursiveFunctionExists, Zenon
<1>10. g = Def(g)
  <2>1. ASSUME NEW s \in SUBSET S, s # {}
        PROVE  M[<<c[s], g[s \ {c[s]}]>>] = op(g[s \ {Max(s)}], order[Max(s)])
    <3>1. Max(s) \in s /\ c[s] = Max(s)
      BY <1>4, <2>1
    <3>2. Max(s) \in S /\ g[s \ {Max(s)}] \in Values /\ order[Max(s)] = Max(s)
      BY <1>6, <1>9, <3>1
    <3> HIDE DEF c
    <3> QED BY <3>1, <3>2
  <2> HIDE DEF M, c
  <2> QED BY <1>9, <2>1 DEF Recursive
<1>11. PICK h : h = Def(h) /\ h[S] = ComputedHoldings(w)
  <2>1. (CHOOSE f : f = Def(f)) = Def(CHOOSE f : f = Def(f))
    <3> HIDE DEF Def
    <3> QED BY <1>10
  <2> QED BY <1>7, <2>1
<1>12. \A s \in SUBSET S : h[s] \in Values
  <2> DEFINE T == {s \in SUBSET S : h[s] \in Values}
  <2>1. ASSUME NEW s \in SUBSET S, \A t \in SUBSET s : t # s => t \in T
        PROVE  s \in T
    <3>1. h[s] = IF s = {} THEN base ELSE op(h[s \ {Max(s)}], order[Max(s)])
      BY <1>11
    <3>2. CASE s # {}
      <4>1. s \ {Max(s)} \in T /\ Max(s) \in S
        BY <1>4, <2>1, <3>2
      <4> QED BY <1>5, <1>6, <3>1, <3>2, <4>1
    <3> QED BY <1>1, <3>1, <3>2
  <2>2. \A s \in SUBSET S : s \in T
    <3> HIDE DEF T
    <3> QED BY <1>3, <2>1, SubsetInduction
  <2> QED BY <2>2
<1> QED BY <1>11, <1>12

LEMMA FilledWallet ==
  ASSUME Valued, NEW w \in Workers, job[w] \in Job, NEW n \in Nat, NEW x \in Nat,
         Fill(w, n, x), job[w].next \in 1..Len(job[w].legs)
  PROVE  wallet' \in [Users -> Values]
<1> DEFINE u == job[w].user
           leg == CurrentLeg(w)
           v == wallet[u]
           v1 == [v EXCEPT ![leg.from] = @ - x]
           v2 == [v1 EXCEPT ![leg.to] = @ + x]
<1>1. u \in Users /\ leg \in Leg
  BY DEF CurrentLeg, Job
<1>2. leg.from \in Assets /\ leg.to \in Assets /\ leg.value \in Nat
  BY <1>1 DEF Leg
<1>3. v \in Values
  BY <1>1 DEF Valued
<1>4. wallet[u][leg.from] >= x
  BY DEF Fill
<1>5. wallet' = [wallet EXCEPT ![u] = v2]
  BY DEF Fill, Swapped
<1> HIDE DEF leg
<1>7. v[leg.from] - x \in Nat
  <2>1. v[leg.from] \in Nat
    BY <1>2, <1>3 DEF Values
  <2> QED BY <1>4, <2>1
<1>8. v1 \in Values
  BY <1>2, <1>3, <1>7 DEF Values
<1> HIDE DEF v1
<1>9. v2 \in Values
  <2>1. v1[leg.to] + x \in Nat
    BY <1>2, <1>8 DEF Values
  <2> QED BY <1>8, <2>1 DEF Values
<1> HIDE DEF v2, u
<1> QED BY <1>1, <1>5, <1>9 DEF Valued

---------------------------------------------------------------------------
(* The jobs stay backed, step by step.                                     *)

LEMMA StartJobs ==
  ASSUME IInv, IInv', Valued, JobsAreBacked, NEW w \in Workers, NEW u \in Users, Start(w, u)
  PROVE  JobsStayBacked
<1> DEFINE plan == PlanSwapLegs(portfolio[u].holdings, portfolio[u].target)
           j == [step |-> "initiate", user |-> u, cid |-> portfolio[u].cid,
                 holdings |-> portfolio[u].holdings, legs |-> plan,
                 next |-> 1, executed |-> {}, rid |-> 0]
<1>1. /\ portfolio[u].cid \in Nat /\ portfolio[u].holdings \in Values
      /\ portfolio[u].target \in Values
  BY DEF Valued, PortfolioContract
<1>2. Values \subseteq Orders
  BY DEF Values, Orders
<1>3. plan \in Seq(Leg) /\ Len(plan) < NumAssets
  BY <1>1, <1>2, PlanIsWellFormed
<1>4. plan # <<>> /\ UNCHANGED fills /\ job' = [job EXCEPT ![w] = j]
  BY DEF Start, venueVars
<1>5. 1 \in 1..Len(plan)
  <2>1. Len(plan) \in Nat /\ Len(plan) # 0
    BY <1>3, <1>4, EmptySeq, LenProperties
  <2> HIDE DEF plan
  <2> QED BY <2>1
<1> HIDE DEF plan
<1>6. j \in Job
  BY <1>1, <1>3 DEF Job, Steps
<1>7. /\ j.legs = plan /\ j.next = 1 /\ j.executed = {} /\ j.step = "initiate"
  OBVIOUS
<1> HIDE DEF j
<1>8. job'[w] = j /\ \A v \in Workers : v # w => job'[v] = job[v]
  BY <1>4 DEF Valued
<1>9. job' \in [Workers -> Job \union {NoJob}]
  BY <1>4, <1>6 DEF Valued
<1>10. JobIsBacked(w)'
  BY <1>3, <1>4, <1>5, <1>7, <1>8 DEF JobIsBacked
<1>11. FillsGrow
  BY <1>4, FillsStay DEF IInv
<1>12. \A v \in Workers : v # w => JobIsBacked(v)'
  BY <1>8, OtherJobs, QuietAnswers DEF Start, clientVars
<1> QED BY <1>9, <1>10, <1>11, <1>12 DEF JobsStayBacked, JobsAreBacked

LEMMA InitiateJobs ==
  ASSUME IInv, IInv', Valued, JobsAreBacked, AnswersAreBacked, NEW w \in Workers,
         Initiate(w)
  PROVE  JobsStayBacked
<1>1. job[w] \in Job /\ job[w] # NoJob /\ job[w].step = "initiate"
  BY NoJobIsIdle DEF Initiate, At, Valued
<1>2. FillsGrow
  <2>1. UNCHANGED fills \/ fills' = Append(fills, NoFills)
    BY DEF Initiate, InitiateCommits, LedgerUnchanged
  <2> QED BY <2>1, FillsStay, NewFillsGrow DEF IInv
<1>3. CASE Return(w)
  BY <1>2, <1>3, OwnReturn DEF Initiate, clientVars
<1>4. CASE /\ InitiateCommits(w)
           /\ job' = [job EXCEPT ![w].step = "setLegs", ![w].cid = @ + 1,
                                 ![w].rid = Len(requests) + 1]
  <2> DEFINE c == job[w].cid + 1
             r == Len(requests) + 1
             j == [step |-> "setLegs", user |-> job[w].user, cid |-> c,
                   holdings |-> job[w].holdings, legs |-> job[w].legs,
                   next |-> job[w].next, executed |-> job[w].executed, rid |-> r]
  <2>1. job' = [job EXCEPT ![w] = [job[w] EXCEPT !.step = "setLegs", !.cid = c,
                                                !.rid = r]]
    BY <1>4
  <2>2. c \in Nat /\ r \in Nat
    BY <1>1 DEF Job, IInv, LedgerShape
  <2> HIDE DEF c, r
  <2>3. [job[w] EXCEPT !.step = "setLegs", !.cid = c, !.rid = r] = j
    <3>1. JobFields(job[w])
      BY <1>1 DEF IInv, JobShape
    <3> QED BY <3>1, InitiatedFields, Zenon
  <2>4. job' = [job EXCEPT ![w] = j]
    BY <2>1, <2>3, Zenon
  <2>5. j \in Job
    BY <1>1, <2>2 DEF Job, Steps
  <2>6. /\ j.legs = job[w].legs /\ j.next = job[w].next /\ j.executed = job[w].executed
        /\ j.step = "setLegs"
    OBVIOUS
  <2> HIDE DEF j
  <2>7. job'[w] = j /\ \A v \in Workers : v # w => job'[v] = job[v]
    BY <2>4 DEF Valued
  <2>8. job' \in [Workers -> Job \union {NoJob}]
    BY <2>4, <2>5 DEF Valued
  <2>9. JobIsBacked(w)'
    <3>1. UNCHANGED answers
      BY DEF Initiate, clientVars
    <3>2. r \notin DOMAIN fills
      BY DEF r, IInv, LedgerShape
    <3>3. NextAnswersTo(r) = {}
      BY <3>1, <3>2 DEF AnswersAreBacked, NextAnswersTo
    <3>4. j.rid = r /\ job[w].executed = {}
      BY <1>1 DEF j, JobsAreBacked, JobIsBacked
    <3>5. {a.leg : a \in AnswersTo(job[w].rid)}' = {}
      BY <2>7, <3>3, <3>4, PrimedAnswers
    <3> QED BY <1>1, <2>6, <2>7, <3>4, <3>5 DEF JobsAreBacked, JobIsBacked
  <2>10. \A v \in Workers : v # w => JobIsBacked(v)'
    BY <2>7, OtherJobs, QuietAnswers DEF Initiate, clientVars
  <2> QED BY <1>2, <2>8, <2>9, <2>10 DEF JobsStayBacked, JobsAreBacked
<1> QED BY <1>3, <1>4 DEF Initiate

(* The one answer a swap may add.                                          *)
NewAnswer(w, o, output) ==
  [request |-> job[w].rid, leg |-> job[w].next, outcome |-> o, output |-> output]

LEMMA SwapJobs ==
  ASSUME IInv, IInv', Valued, JobsAreBacked, NEW w \in Workers, SkipLeg(w) \/ SwapLeg(w)
  PROVE  JobsStayBacked /\ wallet' \in [Users -> Values]
<1>1. /\ job[w] \in Job /\ job[w] # NoJob /\ job[w].step = "swap" /\ HoldsRequest(w)
      /\ JobShape
  BY NoJobIsIdle DEF SkipLeg, SwapLeg, At, Valued, HoldsRequest, IInv
<1>2. /\ job[w].next \in 1..Len(job[w].legs) /\ Len(job[w].legs) < NumAssets
      /\ job[w].executed \subseteq Assets
      /\ job[w].executed = {a.leg : a \in AnswersTo(job[w].rid)}
      /\ \A k \in job[w].executed : k < job[w].next
  BY <1>1 DEF JobsAreBacked, JobIsBacked
<1>3. PICK n \in Nat : n = Len(job[w].legs)
  BY <1>1 DEF Job
<1>4. PICK m \in Nat : m = job[w].next
  BY <1>1 DEF Job
<1>5. /\ m \in Assets /\ m \in 1..n /\ m + 1 \in Nat
      /\ job[w].next # Len(job[w].legs) => m + 1 \in 1..n
  <2>1. n < NumAssets /\ NumAssets \in Nat /\ Assets = 1..NumAssets /\ m \in 1..n
    BY <1>2, <1>3, <1>4, AssetsAreFinite
  <2> QED BY <1>3, <1>4, <2>1
<1>6. job[w].holdings \in Values /\ job[w].rid \in DOMAIN fills
  BY <1>1 DEF Job, IInv, RequestsAreExclusive, LedgerShape
<1>7. ASSUME NEW executed \in SUBSET Assets, FillsGrow, AfterLeg(w, executed),
             OnlyAnswers(job[w].rid),
             executed = {a.leg : a \in NextAnswersTo(job[w].rid)},
             executed \subseteq job[w].executed \union {m}
      PROVE  JobsStayBacked
  <2> DEFINE s == StepAfterLeg(w, executed)
  <2>1. Moves(w, s, job[w].next + 1, executed, job[w].holdings)
    BY <1>1, <1>7, AfterLegMoves
  <2>2. /\ s \in Steps \ {"initiate"} /\ s # "setLegs"
        /\ s = "swap" => job[w].next + 1 \in 1..Len(job[w].legs)
        /\ s = "complete" => executed # {}
    BY <1>3, <1>4, <1>5 DEF StepAfterLeg, Steps
  <2>3. job[w].next + 1 \in Nat
    BY <1>4
  <2>4. \A k \in executed : k < job[w].next + 1
    <3> SUFFICES ASSUME NEW k \in executed PROVE k < job[w].next + 1
      OBVIOUS
    <3>1. k \in Nat
      BY <1>7, AssetsAreFinite
    <3>2. k = m \/ k < m
      BY <1>2, <1>4, <1>7
    <3> QED BY <1>4, <3>1, <3>2
  <2> HIDE DEF s
  <2> QED BY <1>1, <1>6, <1>7, <2>1, <2>2, <2>3, <2>4, OwnMove
<1>8. CASE SkipLeg(w)
  <2>1. /\ FillsGrow /\ AfterLeg(w, job[w].executed) /\ UNCHANGED wallet
        /\ UNCHANGED answers
    BY <1>8, FillsStay DEF SkipLeg, venueVars, clientVars, IInv
  <2>2. OnlyAnswers(job[w].rid) /\ NextAnswersTo(job[w].rid) = AnswersTo(job[w].rid)
    BY <2>1, QuietAnswers DEF AnswersStay
  <2> QED BY <1>2, <1>7, <2>1, <2>2 DEF Valued
<1>9. CASE SwapLeg(w)
  <2>1. PICK x, v :
          /\ x \in Nat /\ Fill(w, x, v)
          /\ CurrentLeg(w) \in Leg => v \in Nat
          /\ \/ UNCHANGED <<answers, envSteps>> /\ GoTo(w, "cleanup")
             \/ \E o \in Outcomes :
                  /\ Answered(w, o)
                  /\ o \in {"filled", "partial"} => x > 0
                  /\ o = "mocked" => mocked # {}
    BY <1>9, SwapLegParts
  <2>2. FillsGrow
    <3>1. fills' = WithFills(job[w].rid, m, x)
      BY <1>4, <2>1, Zenon DEF Fill
    <3> QED BY <1>5, <1>6, <2>1, <3>1, WithFillsGrow DEF IInv
  <2>3. wallet' \in [Users -> Values]
    <3>1. CurrentLeg(w) \in Leg
      BY <1>1, <1>2 DEF CurrentLeg, Job
    <3> QED BY <1>1, <1>2, <2>1, <3>1, FilledWallet
  <2>4. ASSUME NEW o \in Outcomes, Answered(w, o)
        PROVE  JobsStayBacked
    <3> DEFINE executed == job[w].executed \union {job[w].next}
    <3>7. PICK output : answers' = answers \union {NewAnswer(w, o, output)}
      BY <2>4 DEF Answered, NewAnswer
    <3> DEFINE a == NewAnswer(w, o, output)
    <3>1. /\ answers' = answers \union {a}
          /\ a.request = job[w].rid /\ a.leg = job[w].next
      BY <3>7 DEF NewAnswer
    <3> HIDE DEF a
    <3>2. OnlyAnswers(job[w].rid)
      BY <3>1 DEF OnlyAnswers
    <3>3. NextAnswersTo(job[w].rid) = AnswersTo(job[w].rid) \union {a}
      BY <3>1 DEF AnswersTo, NextAnswersTo
    <3>4. executed = {b.leg : b \in NextAnswersTo(job[w].rid)}
      BY <1>2, <3>1, <3>3
    <3>5. executed \in SUBSET Assets /\ executed \subseteq job[w].executed \union {m}
      BY <1>2, <1>4, <1>5
    <3>6. AfterLeg(w, executed)
      BY <2>4, Zenon DEF Answered
    <3> HIDE DEF executed
    <3> QED BY <1>7, <2>2, <3>2, <3>4, <3>5, <3>6
  <2>5. CASE UNCHANGED answers /\ GoTo(w, "cleanup")
    <3>1. Moves(w, "cleanup", job[w].next, job[w].executed, job[w].holdings)
      BY <1>1, <2>5, GoToMoves
    <3> QED BY <1>1, <1>6, <2>2, <2>3, <2>5, <3>1, QuietMove DEF Steps
  <2> QED BY <2>1, <2>3, <2>4, <2>5
<1> QED BY <1>8, <1>9

LEMMA OtherStepJobs ==
  ASSUME IInv, IInv', Valued, JobsAreBacked, NEW w \in Workers,
         \/ SetSwapLegs(w) \/ FailSkipped(w) \/ Complete(w) \/ QueryHoldings(w)
         \/ SyncHoldings(w) \/ Record(w) \/ Cleanup(w)
  PROVE  JobsStayBacked
<1>1. HoldsRequest(w)
  BY DEF HoldsRequest, At, SetSwapLegs, FailSkipped, Complete, QueryHoldings,
         SyncHoldings, Record, Cleanup
<1>2. FillsGrow /\ UNCHANGED answers
  <2>1. UNCHANGED <<fills, answers>>
    BY DEF SetSwapLegs, FailSkipped, Complete, QueryHoldings, SyncHoldings, Record,
           Cleanup, SetStatus, LedgerUnchanged, venueVars, clientVars
  <2> QED BY <2>1, FillsStay DEF IInv
<1>3. job[w] \in Job /\ job[w] # NoJob /\ job[w].holdings \in Values /\ JobShape
  BY <1>1, NoJobIsIdle DEF HoldsRequest, Valued, Job, IInv
<1>4. ASSUME NEW s \in Steps \ {"initiate", "setLegs", "complete"}, GoTo(w, s),
             s = "swap" => At(w, "setLegs")
      PROVE  JobsStayBacked
  <2>1. Moves(w, s, job[w].next, job[w].executed, job[w].holdings)
    BY <1>3, <1>4, GoToMoves
  <2> QED BY <1>1, <1>2, <1>3, <1>4, <2>1, QuietMove
<1>5. CASE Return(w)
  BY <1>2, <1>5, OwnReturn
<1>6. CASE GoTo(w, "cleanup") \/ GoTo(w, "query") \/ GoTo(w, "record")
  BY <1>4, <1>6 DEF Steps
<1>7. CASE SetSwapLegs(w) /\ GoTo(w, "swap")
  BY <1>4, <1>7 DEF SetSwapLegs, Steps
<1>8. ASSUME NEW h \in Values, job' = [job EXCEPT ![w].step = "sync", ![w].holdings = h]
      PROVE  JobsStayBacked
  <2>1. Moves(w, "sync", job[w].next, job[w].executed, h)
    BY <1>3, <1>8, HoldingsMove
  <2> QED BY <1>1, <1>2, <2>1, QuietMove DEF Steps
<1>9. CASE QueryHoldings(w)
  <2>1. job[w].executed = {a.leg : a \in AnswersTo(job[w].rid)}
    BY <1>3, <1>9 DEF QueryHoldings, At, JobsAreBacked, JobIsBacked
  <2>2. ASSUME NEW k \in job[w].executed
        PROVE  OutputOf(job[w].rid, k) \in Nat
    <3>1. \E a \in AnswersTo(job[w].rid) : a.leg = k
      BY <2>1
    <3>2. (CHOOSE a \in AnswersTo(job[w].rid) : a.leg = k) \in answers
      BY <3>1 DEF AnswersTo
    <3> QED BY <3>2 DEF OutputOf, Valued, Answer
  <2>3. wallet[job[w].user] \in Values /\ ComputedHoldings(w) \in Values
    BY <1>3, <2>2, ComputedIsValued DEF Job, Valued
  <2> QED BY <1>6, <1>8, <1>9, <2>3 DEF QueryHoldings
<1> QED BY <1>5, <1>6, <1>7, <1>9
        DEF SetSwapLegs, FailSkipped, Complete, SyncHoldings, Record, Cleanup

LEMMA NextJobs ==
  ASSUME IInv, IInv', Valued, JobsAreBacked, AnswersAreBacked, [Next]_vars
  PROVE  JobsStayBacked /\ wallet' \in [Users -> Values]
<1>1. ASSUME UNCHANGED <<job, fills, wallet, answers>>
      PROVE  JobsStayBacked /\ wallet' \in [Users -> Values]
  <2>1. FillsGrow
    BY <1>1, FillsStay DEF IInv
  <2>2. \A v \in Workers : JobIsBacked(v)'
    BY <1>1, OtherJobs, QuietAnswers
  <2> QED BY <1>1, <2>1, <2>2 DEF JobsStayBacked, JobsAreBacked, Valued
<1>2. ASSUME NEW w \in Workers, NEW u \in Users, Start(w, u)
      PROVE  JobsStayBacked /\ wallet' \in [Users -> Values]
  BY <1>2, StartJobs DEF Start, venueVars, Valued
<1>3. ASSUME NEW w \in Workers, Step(w)
      PROVE  JobsStayBacked /\ wallet' \in [Users -> Values]
  <2>1. ASSUME ~SkipLeg(w), ~SwapLeg(w)
        PROVE  UNCHANGED wallet
    BY <1>3, <2>1 DEF Step, Initiate, SetSwapLegs, FailSkipped, Complete, QueryHoldings,
                      SyncHoldings, Record, Cleanup, venueVars
  <2> QED BY <1>3, <2>1, InitiateJobs, SwapJobs, OtherStepJobs DEF Step, Valued
<1>4. CASE Crash
  <2>1. UNCHANGED wallet /\ job' = [w \in Workers |-> NoJob] /\ FillsGrow
    BY <1>4, FillsStay DEF Crash, venueVars, IInv
  <2> QED BY <2>1 DEF JobsStayBacked, JobsAreBacked, JobIsBacked, Valued
<1>5. ASSUME NEW u, NEW p, UserChoice(u, p)
      PROVE  JobsStayBacked /\ wallet' \in [Users -> Values]
  BY <1>1, <1>5 DEF UserChoice, venueVars, clientVars
<1>6. CASE Environment
  BY <1>4, <1>5, <1>6 DEF Environment, UpdateTargets, UpdateTriggerMode, SetActive,
                          UpdateMetadata
<1>7. CASE UNCHANGED vars
  BY <1>1, <1>7 DEF vars
<1> QED BY <1>2, <1>3, <1>6, <1>7 DEF Next

---------------------------------------------------------------------------
(* Portfolios, logs and rewards.                                           *)

LEMMA PortfolioFields ==
  ASSUME NEW p \in PortfolioContract, NEW cid \in Nat
  PROVE  /\ [p EXCEPT !.cid = cid] \in PortfolioContract
         /\ \A h \in Values :
              [p EXCEPT !.cid = cid, !.holdings = h] \in PortfolioContract
  BY DEF PortfolioContract

LEMMA NextPortfolios ==
  ASSUME IInv, Valued, [Next]_vars
  PROVE  portfolio' \in [Users -> PortfolioContract] /\ envSteps' \in 0..MaxEnvSteps
<1>1. MaxEnvSteps \in Nat /\ Targets \subseteq Values
  BY ConstantsAssumption
<1>2. /\ portfolio \in [Users -> PortfolioContract] /\ envSteps \in 0..MaxEnvSteps
      /\ \A u \in Users : portfolio[u].cid + 1 \in Nat
  BY DEF Valued, PortfolioContract
<1>3. ASSUME NEW w \in Workers, InitiateCommits(w), At(w, "initiate")
      PROVE  portfolio' \in [Users -> PortfolioContract]
  <2>1. job[w].user \in Users
    BY <1>3, NoJobIsIdle DEF At, Valued, Job
  <2>2. portfolio' = [portfolio EXCEPT ![job[w].user] =
                        [portfolio[job[w].user] EXCEPT !.cid = portfolio[job[w].user].cid + 1]]
    BY <1>3 DEF InitiateCommits
  <2> QED BY <1>2, <2>1, <2>2, PortfolioFields
<1>4. ASSUME NEW w \in Workers, SyncHoldings(w)
      PROVE  portfolio' \in [Users -> PortfolioContract]
  <2>1. job[w].user \in Users /\ job[w].holdings \in Values
    BY <1>4, NoJobIsIdle DEF SyncHoldings, At, Valued, Job
  <2>2. PICK u \in Users, h \in Values, n \in Nat :
          u = job[w].user /\ h = job[w].holdings /\ n = portfolio[u].cid + 1
    BY <1>2, <2>1
  <2>3. \/ UNCHANGED portfolio
        \/ portfolio' = [portfolio EXCEPT ![u].cid = n, ![u].holdings = h]
    BY <1>4, <2>2 DEF SyncHoldings, LedgerUnchanged, ledgerVars
  <2>4. [portfolio EXCEPT ![u].cid = n, ![u].holdings = h]
          \in [Users -> PortfolioContract]
    <3> DEFINE p == [portfolio[u] EXCEPT !.cid = n, !.holdings = h]
    <3>1. [portfolio EXCEPT ![u].cid = n, ![u].holdings = h] = [portfolio EXCEPT ![u] = p]
      BY <1>2
    <3>2. p \in PortfolioContract
      BY <1>2, PortfolioFields
    <3> HIDE DEF p
    <3> QED BY <1>2, <3>1, <3>2
  <2> QED BY <1>2, <2>3, <2>4
<1>5. ASSUME NEW w \in Workers, Step(w)
      PROVE  portfolio' \in [Users -> PortfolioContract] /\ envSteps' \in 0..MaxEnvSteps
  <2>1. envSteps' \in 0..MaxEnvSteps
    <3>1. CASE SwapLeg(w)
      <4>1. UNCHANGED envSteps \/ (envSteps < MaxEnvSteps /\ envSteps' = envSteps + 1)
        BY <3>1, SwapLegParts DEF Answered
      <4> QED BY <1>1, <1>2, <4>1
    <3>2. CASE ~SwapLeg(w)
      <4>1. UNCHANGED envSteps
        BY <1>5, <3>2 DEF Step, Initiate, SetSwapLegs, SkipLeg, FailSkipped, Complete,
                          QueryHoldings, SyncHoldings, Record, Cleanup
      <4> QED BY <1>2, <4>1
    <3> QED BY <3>1, <3>2
  <2>2. \/ UNCHANGED portfolio \/ SyncHoldings(w)
        \/ InitiateCommits(w) /\ At(w, "initiate")
    BY <1>5 DEF Step, Initiate, SetSwapLegs, SkipLeg, SwapLeg, FailSkipped, Complete,
                QueryHoldings, Record, Cleanup, SetStatus, LedgerUnchanged, ledgerVars
  <2> QED BY <1>2, <1>3, <1>4, <2>1, <2>2
<1>6. ASSUME NEW w \in Workers, NEW u \in Users, Start(w, u)
      PROVE  UNCHANGED <<portfolio, envSteps>>
  BY <1>6 DEF Start, ledgerVars
<1>7. ASSUME NEW u \in Users, NEW p \in PortfolioContract, UserChoice(u, p)
      PROVE  portfolio' \in [Users -> PortfolioContract] /\ envSteps' \in 0..MaxEnvSteps
  <2>1. p.cid + 1 \in Nat
    BY DEF PortfolioContract
  <2>2. [p EXCEPT !.cid = p.cid + 1] \in PortfolioContract
    BY <2>1, PortfolioFields
  <2>3. portfolio' = [portfolio EXCEPT ![u] = [p EXCEPT !.cid = p.cid + 1]]
    BY <1>7 DEF UserChoice
  <2>4. envSteps' \in 0..MaxEnvSteps
    BY <1>1, <1>2, <1>7 DEF UserChoice
  <2> QED BY <1>2, <2>2, <2>3, <2>4
<1>8. CASE Environment
  <2>1. \A u \in Users, t \in Targets : [portfolio[u] EXCEPT !.target = t] \in PortfolioContract
    BY <1>1, <1>2 DEF PortfolioContract
  <2>2. \A u \in Users, m \in Modes : [portfolio[u] EXCEPT !.mode = m] \in PortfolioContract
    BY <1>2 DEF PortfolioContract
  <2>3. \A u \in Users, a \in BOOLEAN : [portfolio[u] EXCEPT !.active = a] \in PortfolioContract
    BY <1>2 DEF PortfolioContract
  <2>4. CASE Crash
    BY <1>1, <1>2, <2>4 DEF Crash, ledgerVars
  <2> QED BY <1>2, <1>7, <1>8, <2>1, <2>2, <2>3, <2>4
          DEF Environment, UpdateTargets, UpdateTriggerMode, SetActive, UpdateMetadata
<1>9. CASE UNCHANGED vars
  BY <1>2, <1>9 DEF vars
<1> QED BY <1>2, <1>5, <1>6, <1>8, <1>9 DEF Next

(* CompleteRebalance commits, whether or not the call learns of it.        *)
Completes(w) ==
  /\ At(w, "complete")
  /\ requests[job[w].rid].status = "Executing"
  /\ requests' = WithStatus(job[w].rid, "Archived")
  /\ logs' = logs \union {[request |-> job[w].rid, legs |-> job[w].executed]}
  /\ UNCHANGED <<answers, rewardTxs>>

(* The calls that may tell of their request were there before the step, or *)
(* have just completed it.                                                 *)
CallsGoOn ==
  \A v \in Workers : MayRecord(v)' =>
    /\ job'[v].rid = job[v].rid
    /\ MayRecord(v) \/ Completes(v)

ArchivedBefore ==
  \A r \in DOMAIN requests' : requests'[r].status = "Archived" =>
    r \in DOMAIN requests /\ requests[r].status = "Archived"

LEMMA ReturnGoesOn ==
  ASSUME Valued, NEW w \in Workers, Return(w)
  PROVE  CallsGoOn
<1>1. \A v \in Workers : job'[v] = IF v = w THEN NoJob ELSE job[v]
  BY DEF Return, Valued
<1> QED BY <1>1, NoJobIsIdle DEF CallsGoOn, MayRecord

LEMMA MoveGoesOn ==
  ASSUME Valued, NEW w \in Workers, NEW s, NEW next, NEW executed, NEW holdings,
         Moves(w, s, next, executed, holdings),
         s \in {"query", "sync", "record"} => MayRecord(w) \/ Completes(w)
  PROVE  CallsGoOn
<1> DEFINE j == Moved(w, s, next, executed, holdings)
<1>1. j.step = s /\ j.rid = job[w].rid
  BY DEF Moved
<1>2. job' = [job EXCEPT ![w] = j]
  BY DEF Moves
<1> HIDE DEF j
<1>3. \A v \in Workers : job'[v] = IF v = w THEN j ELSE job[v]
  BY <1>2 DEF Valued
<1> QED BY <1>1, <1>3 DEF CallsGoOn, MayRecord

LEMMA NewStatus ==
  ASSUME IInv, NEW r \in DOMAIN requests, NEW status \in Statuses,
         requests' = WithStatus(r, status), status # "Archived"
  PROVE  ArchivedBefore
<1>1. /\ DOMAIN requests' = DOMAIN requests
      /\ requests'[r].status = status
      /\ \A q \in DOMAIN requests : q # r => requests'[q] = requests[q]
  BY StatusUpdate DEF IInv
<1> QED BY <1>1 DEF ArchivedBefore

LEMMA StepLogs ==
  ASSUME IInv, Valued, NEW w \in Workers, Step(w)
  PROVE  /\ CallsGoOn
         /\ UNCHANGED rewardTxs \/ Record(w)
         /\ Completes(w) \/ (UNCHANGED logs /\ ArchivedBefore)
<1>1. job[w] # NoJob /\ JobShape /\ (job[w].step # "initiate" => HoldsRequest(w))
  BY NoJobIsIdle
  DEF Step, Initiate, SetSwapLegs, SkipLeg, SwapLeg, FailSkipped, Complete, QueryHoldings,
      SyncHoldings, Record, Cleanup, At, HoldsRequest, IInv
<1>2. job[w].step # "initiate" => job[w].rid \in DOMAIN requests
  BY <1>1 DEF IInv, RequestsAreExclusive
<1>3. UNCHANGED requests => ArchivedBefore
  BY DEF ArchivedBefore
<1>4. ASSUME NEW s, GoTo(w, s),
             s \in {"query", "sync", "record"} => MayRecord(w) \/ Completes(w)
      PROVE  CallsGoOn
  <2>1. Moves(w, s, job[w].next, job[w].executed, job[w].holdings)
    BY <1>1, <1>4, GoToMoves
  <2> QED BY <1>4, <2>1, MoveGoesOn
<1>5. GoTo(w, "cleanup") => CallsGoOn
  BY <1>4
<1>6. Return(w) => CallsGoOn
  BY ReturnGoesOn
<1>7. ASSUME NEW status \in Statuses, status # "Archived", SetStatus(job[w].rid, status),
             job[w].step # "initiate"
      PROVE  UNCHANGED logs /\ ArchivedBefore
  BY <1>2, <1>7, NewStatus DEF SetStatus
<1>8. CASE Initiate(w)
  <2>1. UNCHANGED <<logs, rewardTxs>>
    BY <1>8 DEF Initiate, InitiateCommits, LedgerUnchanged, ledgerVars
  <2>2. ArchivedBefore
    <3>1. CASE InitiateCommits(w)
      <4> DEFINE new == [user |-> job[w].user, status |-> "Pending"]
      <4>1. requests \in Seq(Request) /\ requests' = Append(requests, new)
        BY <3>1 DEF InitiateCommits, IInv, LedgerShape
      <4>2. \A r \in DOMAIN requests' :
               \/ r \in DOMAIN requests /\ requests'[r] = requests[r]
               \/ requests'[r] = new
        BY <4>1, AppendProperties
      <4> QED BY <4>2 DEF ArchivedBefore
    <3>2. CASE LedgerUnchanged
      BY <1>3, <3>2 DEF LedgerUnchanged, ledgerVars
    <3> QED BY <1>8, <3>1, <3>2 DEF Initiate
  <2>3. CASE Return(w)
    BY <1>6, <2>1, <2>2, <2>3
  <2>4. CASE job' = [job EXCEPT ![w].step = "setLegs", ![w].cid = @ + 1,
                                ![w].rid = Len(requests) + 1]
    <3>1. \A v \in Workers \ {w} : job'[v] = job[v]
      BY <2>4 DEF Valued
    <3>2. job'[w].step = "setLegs"
      <4>1. job[w] \in Job
        BY <1>1 DEF Valued
      <4> QED BY <2>4, <4>1 DEF Valued, Job
    <3>3. CallsGoOn
      BY <3>1, <3>2 DEF CallsGoOn, MayRecord
    <3> QED BY <2>1, <2>2, <3>3
  <2> QED BY <1>8, <2>3, <2>4 DEF Initiate
<1>9. CASE SetSwapLegs(w)
  <2>1. GoTo(w, "swap") => CallsGoOn
    BY <1>4
  <2>2. job[w].step # "initiate" /\ UNCHANGED rewardTxs
    BY <1>9 DEF SetSwapLegs, At
  <2> QED BY <1>3, <1>6, <1>7, <1>9, <2>1, <2>2
          DEF SetSwapLegs, LedgerUnchanged, ledgerVars, Statuses
<1>10. ASSUME NEW executed, AfterLeg(w, executed)
       PROVE  CallsGoOn
  <2>1. Moves(w, StepAfterLeg(w, executed), job[w].next + 1, executed, job[w].holdings)
    BY <1>1, <1>10, AfterLegMoves
  <2>2. StepAfterLeg(w, executed) \notin {"query", "sync", "record"}
    BY DEF StepAfterLeg
  <2> QED BY <2>1, <2>2, MoveGoesOn
<1>11. CASE SkipLeg(w) \/ SwapLeg(w)
  <2>1. UNCHANGED <<ledgerVars, rewardTxs>>
    BY <1>11 DEF SkipLeg, SwapLeg
  <2>2. ASSUME NEW o, Answered(w, o)
        PROVE  CallsGoOn
    BY <1>10, <2>2, Zenon DEF Answered
  <2>3. CallsGoOn
    BY <1>5, <1>10, <1>11, <2>2, SwapLegParts DEF SkipLeg
  <2> QED BY <1>3, <2>1, <2>3 DEF ledgerVars
<1>12. CASE FailSkipped(w)
  <2>1. job[w].step # "initiate" /\ UNCHANGED rewardTxs
    BY <1>12 DEF FailSkipped, At
  <2> QED BY <1>3, <1>5, <1>6, <1>7, <1>12, <2>1
          DEF FailSkipped, LedgerUnchanged, ledgerVars, Statuses
<1>13. CASE Complete(w)
  <2>1. CASE Completes(w) /\ GoTo(w, "query")
    BY <1>4, <2>1 DEF Completes
  <2>2. CASE Completes(w) /\ GoTo(w, "cleanup")
    BY <1>5, <2>2 DEF Completes
  <2>3. CASE LedgerUnchanged /\ GoTo(w, "cleanup")
    BY <1>3, <1>5, <1>13, <2>3 DEF Complete, LedgerUnchanged, ledgerVars
  <2> QED BY <1>13, <2>1, <2>2, <2>3 DEF Complete, Completes, clientVars
<1>14. CASE QueryHoldings(w)
  <2>1. MayRecord(w) /\ UNCHANGED <<logs, requests, rewardTxs>>
    BY <1>14 DEF QueryHoldings, At, MayRecord, ledgerVars
  <2>2. ASSUME NEW h, job' = [job EXCEPT ![w].step = "sync", ![w].holdings = h]
        PROVE  CallsGoOn
    BY <1>1, <2>1, <2>2, HoldingsMove, MoveGoesOn
  <2> QED BY <1>3, <1>5, <1>14, <2>1, <2>2 DEF QueryHoldings
<1>15. CASE SyncHoldings(w)
  <2>1. MayRecord(w) /\ UNCHANGED <<logs, requests, rewardTxs>>
    BY <1>15 DEF SyncHoldings, At, MayRecord, LedgerUnchanged, ledgerVars
  <2>2. GoTo(w, "record") => CallsGoOn
    BY <1>4, <2>1
  <2> QED BY <1>3, <1>5, <1>15, <2>1, <2>2 DEF SyncHoldings
<1>16. CASE Record(w)
  BY <1>3, <1>6, <1>16 DEF Record, ledgerVars
<1>17. CASE Cleanup(w)
  <2>1. job[w].step # "initiate" /\ UNCHANGED rewardTxs
    BY <1>17 DEF Cleanup, At
  <2> QED BY <1>3, <1>6, <1>7, <1>17, <2>1
          DEF Cleanup, LedgerUnchanged, ledgerVars, Statuses
<1> QED BY <1>8, <1>9, <1>11, <1>12, <1>13, <1>14, <1>15, <1>16, <1>17 DEF Step

LEMMA NextLogs ==
  ASSUME IInv, Valued, [Next]_vars
  PROVE  /\ CallsGoOn
         /\ UNCHANGED rewardTxs \/ \E w \in Workers : Record(w)
         /\ \/ \E w \in Workers : Completes(w)
            \/ UNCHANGED logs /\ ArchivedBefore
<1>1. ASSUME UNCHANGED <<requests, logs, rewardTxs>>,
             UNCHANGED job \/ (\A w \in Workers : ~MayRecord(w)')
      PROVE  CallsGoOn /\ ArchivedBefore
  BY <1>1 DEF CallsGoOn, ArchivedBefore, MayRecord
<1>2. ASSUME NEW w \in Workers, NEW u \in Users, Start(w, u)
      PROVE  UNCHANGED <<logs, rewardTxs>> /\ CallsGoOn /\ ArchivedBefore
  <2>1. UNCHANGED <<requests, logs, rewardTxs>>
    BY <1>2 DEF Start, ledgerVars
  <2>2. job'[w].step = "initiate" /\ \A v \in Workers \ {w} : job'[v] = job[v]
    BY <1>2 DEF Start, Valued
  <2> QED BY <2>1, <2>2 DEF CallsGoOn, MayRecord, ArchivedBefore
<1>3. CASE Crash
  <2>1. UNCHANGED <<requests, logs, rewardTxs>> /\ \A w \in Workers : ~MayRecord(w)'
    BY <1>3, NoJobIsIdle DEF Crash, ledgerVars, MayRecord
  <2> QED BY <1>1, <2>1
<1>4. ASSUME NEW u, NEW p, UserChoice(u, p)
      PROVE  UNCHANGED <<logs, rewardTxs>> /\ CallsGoOn /\ ArchivedBefore
  BY <1>1, <1>4 DEF UserChoice
<1>5. CASE UNCHANGED vars
  BY <1>1, <1>5 DEF vars
<1>6. CASE Environment
  BY <1>3, <1>4, <1>6 DEF Environment, UpdateTargets, UpdateTriggerMode, SetActive,
                          UpdateMetadata, Crash, ledgerVars
<1> QED BY <1>2, <1>5, <1>6, StepLogs DEF Next

LEMMA OldRequests ==
  ASSUME IInv, IInv', [Next]_vars, FillsGrow, LogsMatchAnswers, NEW l \in logs
  PROVE  /\ l.request \in DOMAIN requests /\ l.request \in DOMAIN requests'
         /\ requests'[l.request] = requests[l.request]
         /\ requests[l.request].status = "Archived"
<1>1. l.request \in DOMAIN requests /\ requests[l.request].status = "Archived"
  BY DEF LogsMatchAnswers
<1>2. l.request \in DOMAIN fills
  BY <1>1 DEF IInv, LedgerShape
<1>3. l.request \in DOMAIN requests'
  <2>1. l.request \in DOMAIN fills'
    BY <1>2 DEF FillsGrow
  <2> QED BY <2>1 DEF IInv, LedgerShape
<1> QED BY <1>1, <1>3, StepKeepsClosed DEF Closed

(* The answers only change by a swap.                                      *)
LEMMA NextIsQuiet ==
  ASSUME [Next]_vars
  PROVE  /\ UNCHANGED mocked
         /\ UNCHANGED answers \/ \E w \in Workers : SwapLeg(w)
<1>1. ASSUME NEW w \in Workers, NEW u \in Users, Start(w, u)
      PROVE  UNCHANGED <<mocked, answers>>
  BY <1>1 DEF Start, clientVars
<1>2. ASSUME NEW w \in Workers, Step(w)
      PROVE  UNCHANGED mocked /\ (UNCHANGED answers \/ SwapLeg(w))
  BY <1>2 DEF Step, Initiate, SetSwapLegs, SkipLeg, SwapLeg, FailSkipped, Complete,
              QueryHoldings, SyncHoldings, Record, Cleanup, clientVars
<1>3. CASE Environment
  BY <1>3 DEF Environment, UpdateTargets, UpdateTriggerMode, SetActive, UpdateMetadata,
              UserChoice, Crash, clientVars
<1>4. CASE UNCHANGED vars
  BY <1>4 DEF vars, clientVars
<1> QED BY <1>1, <1>2, <1>3, <1>4 DEF Next

LEMMA SwapAnswer ==
  ASSUME Valued, JobsAreBacked, NEW w \in Workers, SwapLeg(w), ~UNCHANGED answers
  PROVE  \E o, output, n, v :
           /\ o \in Outcomes /\ output \in Nat /\ n \in Nat
           /\ Fill(w, n, v)
           /\ answers' = answers \union {NewAnswer(w, o, output)}
           /\ o \in {"filled", "partial"} => n > 0
           /\ o = "mocked" => mocked # {}
<1>1. PICK n, v, o :
        /\ n \in Nat /\ o \in Outcomes
        /\ Fill(w, n, v) /\ Answered(w, o)
        /\ o \in {"filled", "partial"} => n > 0
        /\ o = "mocked" => mocked # {}
  BY SwapLegParts
<1>2. PICK output \in Outputs(o, CurrentLeg(w).value) :
        answers' = answers \union {NewAnswer(w, o, output)}
  BY <1>1 DEF Answered, NewAnswer
<1>3. CurrentLeg(w).value \in Nat
  <2>1. job[w] # NoJob /\ job[w] \in Job /\ job[w].step = "swap"
    BY NoJobIsIdle DEF SwapLeg, At, Valued
  <2>2. job[w].next \in 1..Len(job[w].legs)
    BY <2>1 DEF JobsAreBacked, JobIsBacked
  <2>3. CurrentLeg(w) \in Leg
    BY <2>1, <2>2 DEF CurrentLeg, Job
  <2> QED BY <2>3 DEF Leg
<1>4. output \in Nat
  <2> DEFINE value == CurrentLeg(w).value
  <2>1. value \in Nat
    BY <1>3
  <2>2. output \in Outputs(o, value)
    BY <1>2
  <2> HIDE DEF value
  <2>3. output \in 1..(value - 1) \/ output = 0 \/ output = value
    BY <2>2 DEF Outputs
  <2> QED BY <2>1, <2>3
<1> QED BY <1>1, <1>2, <1>4

LEMMA NextAnswerTypes ==
  ASSUME Valued, JobsAreBacked, [Next]_vars
  PROVE  mocked' \subseteq Venues /\ answers' \subseteq Answer
<1>1. mocked' \subseteq Venues /\ answers \subseteq Answer
  BY NextIsQuiet DEF Valued
<1>2. ASSUME NEW w \in Workers, SwapLeg(w), ~UNCHANGED answers
      PROVE  answers' \subseteq Answer
  <2>1. PICK o \in Outcomes, output \in Nat :
          answers' = answers \union {NewAnswer(w, o, output)}
    BY <1>2, SwapAnswer
  <2>2. job[w].rid \in Nat /\ job[w].next \in Nat
    BY <1>2, NoJobIsIdle DEF SwapLeg, At, Valued, Job
  <2> QED BY <1>1, <2>1, <2>2 DEF NewAnswer, Answer
<1> QED BY <1>1, <1>2, NextIsQuiet

LEMMA NextAnswers ==
  ASSUME IInv, Valued, JobsAreBacked, AnswersAreBacked, AnswersAreUnique, FillsGrow,
         IInv', [Next]_vars
  PROVE  AnswersAreBacked' /\ AnswersAreUnique'
<1>1. ASSUME NEW a \in answers
      PROVE  /\ a.request \in DOMAIN fills'
             /\ a.leg \in Assets
             /\ a.outcome \in {"filled", "partial"} => fills'[a.request][a.leg] > 0
             /\ a.outcome = "mocked" => mocked' # {}
  <2>1. PICK r \in DOMAIN fills, k \in Assets : r = a.request /\ k = a.leg
    BY DEF AnswersAreBacked
  <2>2. r \in DOMAIN fills' /\ fills'[r][k] >= fills[r][k]
    BY DEF FillsGrow
  <2>3. fills[r][k] \in Nat /\ fills'[r][k] \in Nat
    BY <2>2 DEF IInv, LedgerShape
  <2>4. a.outcome \in {"filled", "partial"} => fills[r][k] > 0
    BY <2>1 DEF AnswersAreBacked
  <2>5. a.outcome = "mocked" => mocked' # {}
    BY NextIsQuiet DEF AnswersAreBacked
  <2> QED BY <2>1, <2>2, <2>3, <2>4, <2>5
<1>2. CASE UNCHANGED answers
  BY <1>1, <1>2 DEF AnswersAreBacked, AnswersAreUnique
<1>3. ASSUME NEW w \in Workers, SwapLeg(w), ~UNCHANGED answers
      PROVE  AnswersAreBacked' /\ AnswersAreUnique'
  <2>1. PICK o, output, n, v :
          /\ o \in Outcomes /\ output \in Nat /\ n \in Nat
          /\ Fill(w, n, v)
          /\ answers' = answers \union {NewAnswer(w, o, output)}
          /\ o \in {"filled", "partial"} => n > 0
          /\ o = "mocked" => mocked # {}
    BY <1>3, SwapAnswer
  <2> DEFINE new == NewAnswer(w, o, output)
  <2>2. new.request = job[w].rid /\ new.leg = job[w].next /\ new.outcome = o
    BY DEF NewAnswer
  <2>3. /\ job[w] # NoJob /\ job[w] \in Job /\ job[w].step = "swap" /\ HoldsRequest(w)
    BY <1>3, NoJobIsIdle DEF SwapLeg, At, Valued, HoldsRequest
  <2>4. job[w].rid \in DOMAIN fills
    BY <2>3 DEF IInv, RequestsAreExclusive, LedgerShape
  <2>5. /\ job[w].next \in 1..Len(job[w].legs) /\ Len(job[w].legs) < NumAssets
        /\ job[w].executed = {a.leg : a \in AnswersTo(job[w].rid)}
        /\ \A k \in job[w].executed : k < job[w].next
    BY <2>3 DEF JobsAreBacked, JobIsBacked
  <2>6. PICK m \in Nat, len \in Nat : m = job[w].next /\ len = Len(job[w].legs)
    BY <2>3 DEF Job
  <2>7. m \in Assets
    <3>1. m \in 1..len /\ len < NumAssets /\ NumAssets \in Nat /\ Assets = 1..NumAssets
      BY <2>5, <2>6, AssetsAreFinite
    <3> QED BY <2>6, <3>1
  <2>8. FillsGrow /\ fills'[job[w].rid][m] = fills[job[w].rid][m] + n
    <3>1. fills' = WithFills(job[w].rid, m, n)
      BY <2>1, <2>6, Zenon DEF Fill
    <3> QED BY <2>1, <2>4, <2>7, <3>1, WithFillsGrow DEF IInv
  <2>9. /\ new.request \in DOMAIN fills'
        /\ new.leg \in Assets
        /\ new.outcome \in {"filled", "partial"} => fills'[new.request][new.leg] > 0
        /\ new.outcome = "mocked" => mocked' # {}
    <3>1. fills[job[w].rid][m] \in Nat /\ job[w].rid \in DOMAIN fills'
      BY <2>4, <2>7, <2>8 DEF IInv, LedgerShape, FillsGrow
    <3>2. o \in {"filled", "partial"} => fills'[job[w].rid][m] > 0
      BY <2>1, <2>8, <3>1
    <3> HIDE DEF new
    <3> QED BY <2>1, <2>2, <2>6, <2>7, <3>1, <3>2, NextIsQuiet
  <2>10. \A a \in answers : ~(a.request = new.request /\ a.leg = new.leg)
    <3> SUFFICES ASSUME NEW a \in answers, a.request = new.request, a.leg = new.leg
                 PROVE  FALSE
      OBVIOUS
    <3>1. a.leg \in job[w].executed
      BY <2>2, <2>5 DEF AnswersTo
    <3>2. m < m
      BY <2>2, <2>5, <2>6, <3>1
    <3> QED BY <2>6, <3>2
  <2>11. answers' = answers \union {new}
    BY <2>1
  <2> HIDE DEF new
  <2>12. AnswersAreBacked'
    BY <1>1, <2>9, <2>11 DEF AnswersAreBacked
  <2>13. AnswersAreUnique'
    BY <2>10, <2>11 DEF AnswersAreUnique
  <2> QED BY <2>12, <2>13
<1> QED BY <1>2, <1>3, NextIsQuiet

LEMMA NextLogsMatch ==
  ASSUME IInv, IInv', Valued, JobsAreBacked, LogsMatchAnswers, JobsStayBacked, [Next]_vars
  PROVE  LogsMatchAnswers' /\ logs \subseteq logs'
<1>1. FillsGrow
  BY DEF JobsStayBacked
<1>2. ASSUME NEW r \in DOMAIN requests, requests[r].status = "Archived"
      PROVE  AnswersStay(r)
  <2>1. CASE UNCHANGED answers
    BY <2>1, QuietAnswers
  <2>2. ASSUME NEW w \in Workers, SwapLeg(w), ~UNCHANGED answers
        PROVE  AnswersStay(r)
    <3>1. requests[job[w].rid].status = "Executing"
      BY <2>2 DEF SwapLeg, At, HoldsRequest, IInv, RequestsAreExclusive
    <3>2. OnlyAnswers(job[w].rid)
      BY <2>2, SwapAnswer DEF OnlyAnswers, NewAnswer
    <3> QED BY <1>2, <3>1, <3>2, OtherAnswers
  <2> QED BY <2>1, <2>2, NextIsQuiet
<1>3. ASSUME NEW l \in logs
      PROVE  /\ l.request \in DOMAIN requests'
             /\ requests'[l.request].status = "Archived"
             /\ l.legs # {}
             /\ l.legs = {a.leg : a \in NextAnswersTo(l.request)}
  <2>1. /\ l.request \in DOMAIN requests /\ l.request \in DOMAIN requests'
        /\ requests'[l.request].status = "Archived"
        /\ requests[l.request].status = "Archived"
    BY <1>1, OldRequests
  <2>2. l.legs # {} /\ l.legs = {a.leg : a \in AnswersTo(l.request)}
    BY DEF LogsMatchAnswers
  <2>3. NextAnswersTo(l.request) = AnswersTo(l.request)
    BY <1>2, <2>1 DEF AnswersStay
  <2> QED BY <2>1, <2>2, <2>3
<1>4. CASE UNCHANGED logs /\ ArchivedBefore
  <2>1. \A r \in DOMAIN requests' :
           requests'[r].status = "Archived" => \E l \in logs' : l.request = r
    BY <1>4 DEF ArchivedBefore, LogsMatchAnswers
  <2>2. \A l \in logs' : /\ l.request \in DOMAIN requests'
                         /\ requests'[l.request].status = "Archived"
                         /\ l.legs # {}
                         /\ l.legs = {a.leg : a \in NextAnswersTo(l.request)}
    BY <1>3, <1>4
  <2> QED BY <1>4, <2>1, <2>2 DEF LogsMatchAnswers, AnswersTo, NextAnswersTo
<1>5. ASSUME NEW w \in Workers, Completes(w)
      PROVE  LogsMatchAnswers' /\ logs \subseteq logs'
  <2> DEFINE r == job[w].rid
             new == [request |-> r, legs |-> job[w].executed]
  <2>1. /\ job[w] # NoJob /\ HoldsRequest(w) /\ job[w].step = "complete"
    BY <1>5, NoJobIsIdle DEF Completes, At, HoldsRequest
  <2>2. r \in DOMAIN requests
    BY <2>1 DEF IInv, RequestsAreExclusive
  <2>3. /\ DOMAIN requests' = DOMAIN requests
        /\ requests'[r].status = "Archived"
        /\ \A q \in DOMAIN requests : q # r => requests'[q] = requests[q]
    BY <1>5, <2>2, StatusUpdate DEF Completes, IInv, Statuses
  <2>4. /\ job[w].executed # {}
        /\ job[w].executed = {a.leg : a \in AnswersTo(r)}
    BY <2>1 DEF JobsAreBacked, JobIsBacked
  <2>5. NextAnswersTo(r) = AnswersTo(r)
    BY <1>5, QuietAnswers DEF Completes, AnswersStay
  <2>6. logs' = logs \union {new}
    BY <1>5 DEF Completes
  <2>7. ASSUME NEW l \in logs'
        PROVE  /\ l.request \in DOMAIN requests'
               /\ requests'[l.request].status = "Archived"
               /\ l.legs # {}
               /\ l.legs = {a.leg : a \in NextAnswersTo(l.request)}
    <3>1. CASE l \in logs
      BY <1>3, <3>1
    <3>2. CASE l = new
      <4>1. new.request = r /\ new.legs = job[w].executed
        OBVIOUS
      <4> HIDE DEF new
      <4> QED BY <2>2, <2>3, <2>4, <2>5, <3>2, <4>1
    <3> QED BY <2>6, <3>1, <3>2
  <2>8. ASSUME NEW q \in DOMAIN requests', requests'[q].status = "Archived"
        PROVE  \E l \in logs' : l.request = q
    <3>1. CASE q = r
      <4>1. new \in logs' /\ new.request = r
        BY <2>6
      <4> QED BY <3>1, <4>1
    <3>2. CASE q # r
      BY <2>3, <2>6, <2>8, <3>2 DEF LogsMatchAnswers
    <3> QED BY <3>1, <3>2
  <2> HIDE DEF new
  <2> QED BY <2>6, <2>7, <2>8 DEF LogsMatchAnswers, AnswersTo, NextAnswersTo
<1> QED BY <1>4, <1>5, NextLogs

LEMMA NextLogTypes ==
  ASSUME IInv, Valued, JobsAreBacked, [Next]_vars
  PROVE  /\ logs' \in SUBSET [request : Nat, legs : SUBSET Nat]
         /\ IsFiniteSet(logs')
         /\ rewardTxs' \in [Users -> Nat]
<1>1. logs \in SUBSET [request : Nat, legs : SUBSET Nat] /\ IsFiniteSet(logs)
  BY DEF Valued
<1>2. ASSUME NEW w \in Workers, Completes(w)
      PROVE  /\ logs' \in SUBSET [request : Nat, legs : SUBSET Nat]
             /\ IsFiniteSet(logs')
  <2>1. job[w].rid \in Nat /\ job[w].executed \in SUBSET Nat
    BY <1>2, NoJobIsIdle DEF Completes, At, Valued, Job
  <2>2. logs' = logs \union {[request |-> job[w].rid, legs |-> job[w].executed]}
    BY <1>2 DEF Completes
  <2> DEFINE new == [request |-> job[w].rid, legs |-> job[w].executed]
  <2>3. new \in [request : Nat, legs : SUBSET Nat]
    BY <2>1
  <2> HIDE DEF new
  <2>4. IsFiniteSet(logs \union {new})
    BY <1>1, FS_AddElement
  <2> QED BY <1>1, <2>2, <2>3, <2>4 DEF new
<1>3. ASSUME NEW w \in Workers, Record(w)
      PROVE  rewardTxs' \in [Users -> Nat]
  <2>1. PICK n \in {0, 1} : rewardTxs' = [rewardTxs EXCEPT ![job[w].user] = @ + n]
    BY <1>3 DEF Record
  <2>2. job[w].user \in Users /\ rewardTxs \in [Users -> Nat]
    BY <1>3, NoJobIsIdle DEF Record, At, Valued, Job
  <2>3. rewardTxs[job[w].user] + n \in Nat
    BY <2>2
  <2> QED BY <2>1, <2>2, <2>3
<1> QED BY <1>1, <1>2, <1>3, NextLogs DEF Valued

---------------------------------------------------------------------------
(* Rewards.                                                                *)

LEMMA CreditableIsFinite ==
  ASSUME IsFiniteSet(logs), NEW u
  PROVE  IsFiniteSet(Creditable(u)) /\ Cardinality(Creditable(u)) \in Nat
<1>1. Creditable(u) \in SUBSET logs
  BY DEF Creditable
<1> QED BY <1>1, FS_Subset, FS_CardinalityType

LEMMA CreditableStays ==
  ASSUME IInv, IInv', [Next]_vars, FillsGrow, LogsMatchAnswers, CallsGoOn,
         logs \subseteq logs', NEW u \in Users
  PROVE  Creditable(u) \subseteq Creditable(u)'
<1> SUFFICES ASSUME NEW l \in Creditable(u)
             PROVE  l \in Creditable(u)'
  OBVIOUS
<1>1. /\ l \in logs /\ l \in logs' /\ requests[l.request].user = u
      /\ \A w \in Workers : MayRecord(w) => job[w].rid # l.request
  BY DEF Creditable
<1>2. requests'[l.request] = requests[l.request] /\ requests[l.request].status = "Archived"
  BY <1>1, OldRequests
<1>3. ASSUME NEW w \in Workers, MayRecord(w)'
      PROVE  job'[w].rid # l.request
  BY <1>1, <1>2, <1>3 DEF CallsGoOn, Completes
<1> QED BY <1>1, <1>2, <1>3 DEF Creditable

LEMMA NextCredits ==
  ASSUME IInv, IInv', Valued, Valued', JobsStayBacked, LogsMatchAnswers, CreditsAreEarned,
         logs \subseteq logs', [Next]_vars
  PROVE  CreditsAreEarned'
<1>1. ASSUME NEW u \in Users
      PROVE  /\ Creditable(u) \subseteq Creditable(u)'
             /\ IsFiniteSet(Creditable(u)') /\ Cardinality(Creditable(u)') \in Nat
             /\ IsFiniteSet(Creditable(u)) /\ Cardinality(Creditable(u)) \in Nat
             /\ rewardTxs[u] \in Nat
             /\ rewardTxs[u] <= Cardinality(Creditable(u))
             /\ Cardinality(Creditable(u)) <= Cardinality(Creditable(u)')
  <2>1. Creditable(u) \subseteq Creditable(u)'
    BY NextLogs, CreditableStays DEF JobsStayBacked
  <2>2. /\ IsFiniteSet(Creditable(u)') /\ Cardinality(Creditable(u)') \in Nat
        /\ IsFiniteSet(Creditable(u)) /\ Cardinality(Creditable(u)) \in Nat
    <3>1. IsFiniteSet(logs) /\ IsFiniteSet(logs')
      BY DEF Valued
    <3>2. Creditable(u)' \in SUBSET logs' /\ Creditable(u) \in SUBSET logs
      BY DEF Creditable
    <3> QED BY <3>1, <3>2, FS_Subset, FS_CardinalityType
  <2>3. rewardTxs[u] \in Nat /\ rewardTxs[u] <= Cardinality(Creditable(u))
    BY DEF Valued, CreditsAreEarned
  <2>4. Cardinality(Creditable(u)) <= Cardinality(Creditable(u)')
    BY <2>1, <2>2, FS_Subset
  <2> QED BY <2>1, <2>2, <2>3, <2>4
<1>2. ASSUME NEW u \in Users, rewardTxs'[u] = rewardTxs[u]
      PROVE  rewardTxs'[u] <= Cardinality(Creditable(u)')
  BY <1>1, <1>2
<1>3. ASSUME NEW w \in Workers, Record(w), NEW u \in Users
      PROVE  rewardTxs'[u] <= Cardinality(Creditable(u)')
  <2>1. PICK n \in {0, 1} : rewardTxs' = [rewardTxs EXCEPT ![job[w].user] = @ + n]
    BY <1>3 DEF Record
  <2>2. CASE u # job[w].user
    <3>1. rewardTxs'[u] = rewardTxs[u]
      BY <2>1, <2>2 DEF Valued
    <3> QED BY <1>2, <3>1
  <2>3. CASE u = job[w].user
    <3>1. /\ MayRecord(w) /\ HoldsRequest(w) /\ At(w, "record")
          /\ UNCHANGED <<requests, logs>> /\ Return(w)
      BY <1>3 DEF Record, At, MayRecord, HoldsRequest, ledgerVars
    <3>2. /\ job[w].rid \in DOMAIN requests
          /\ requests[job[w].rid].user = u
          /\ requests[job[w].rid].status = "Archived"
          /\ \A v \in Workers \ {w} : HoldsRequest(v) => job[v].rid # job[w].rid
      BY <2>3, <3>1 DEF IInv, RequestsAreExclusive, At
    <3>3. PICK l \in logs : l.request = job[w].rid
      BY <3>2 DEF LogsMatchAnswers
    <3>4. l \notin Creditable(u)
      BY <3>1, <3>3 DEF Creditable
    <3>5. \A v \in Workers : MayRecord(v)' => v # w /\ HoldsRequest(v) /\ job'[v] = job[v]
      <4>1. \A v \in Workers : job'[v] = IF v = w THEN NoJob ELSE job[v]
        BY <3>1 DEF Return, Valued
      <4> QED BY <4>1, NoJobIsIdle DEF MayRecord, HoldsRequest
    <3>6. l \in Creditable(u)'
      BY <3>1, <3>2, <3>3, <3>5 DEF Creditable
    <3>7. Cardinality(Creditable(u)) < Cardinality(Creditable(u)')
      <4>1. Creditable(u) \in SUBSET (Creditable(u)') /\ Creditable(u) # Creditable(u)'
        BY <1>1, <3>4, <3>6
      <4>2. Cardinality(Creditable(u)') = Cardinality(Creditable(u))
              => Creditable(u)' = Creditable(u)
        BY <1>1, <4>1, FS_Subset
      <4> QED BY <1>1, <4>1, <4>2
    <3>8. rewardTxs'[u] = rewardTxs[u] + n
      BY <2>1, <2>3 DEF Valued
    <3> QED BY <1>1, <3>7, <3>8
  <2> QED BY <2>2, <2>3
<1>4. ASSUME NEW u \in Users
      PROVE  rewardTxs'[u] <= Cardinality(Creditable(u)')
  BY <1>2, <1>3, NextLogs
<1> QED BY <1>4 DEF CreditsAreEarned

---------------------------------------------------------------------------

LEMMA NextBacked == IInv /\ BackedIInv /\ [Next]_vars => BackedIInv'
<1> SUFFICES ASSUME IInv, BackedIInv, [Next]_vars
             PROVE  BackedIInv'
  OBVIOUS
<1>1. IInv'
  BY NextIInv
<1>2. JobsStayBacked /\ wallet' \in [Users -> Values]
  BY <1>1, NextJobs DEF BackedIInv
<1>3. Valued'
  BY <1>2, NextPortfolios, NextLogTypes, NextAnswerTypes DEF BackedIInv, Valued, JobsStayBacked
<1>4. LogsMatchAnswers' /\ logs \subseteq logs'
  BY <1>1, <1>2, NextLogsMatch DEF BackedIInv
<1>5. CreditsAreEarned'
  BY <1>1, <1>2, <1>3, <1>4, NextCredits DEF BackedIInv
<1>6. AnswersAreBacked' /\ AnswersAreUnique'
  BY <1>1, <1>2, NextAnswers DEF BackedIInv, JobsStayBacked
<1> QED BY <1>2, <1>3, <1>4, <1>5, <1>6 DEF BackedIInv, JobsStayBacked

LEMMA BackedInvariance == Spec => []BackedIInv
  BY Invariance, BackedInit, NextBacked, PTL DEF Spec

(* Every reachable state has its types; in particular no account is        *)
(* overdrawn and a call's plan has fewer legs than there are assets.       *)
THEOREM TypesAreKept == Spec => []TypeOK
<1>1. IInv /\ BackedIInv => TypeOK
  BY DEF IInv, LedgerShape, BackedIInv, Valued, TypeOK
<1> QED BY <1>1, Invariance, BackedInvariance, PTL

(* There is a log exactly for what was completed, it lists the legs the    *)
(* venues answered, an answer has an execution behind it unless it is a    *)
(* rejection or a mocked client's, no leg of a request is answered twice,  *)
(* and no user is credited more often than a log of the user.              *)
THEOREM RecordsStayBacked == Spec => []RecordsAreBacked
<1>1. IInv /\ BackedIInv => RecordsAreBacked
  <2> SUFFICES ASSUME IInv, BackedIInv PROVE RewardsAreEarned
    BY DEF BackedIInv, RecordsAreBacked
  <2>1. ASSUME NEW u \in Users
        PROVE  rewardTxs[u] <= Cardinality({l \in logs : requests[l.request].user = u})
    <3> DEFINE mine == {l \in logs : requests[l.request].user = u}
    <3>1. mine \in SUBSET logs /\ Creditable(u) \in SUBSET mine
      BY DEF Creditable
    <3>2. IsFiniteSet(logs) /\ rewardTxs[u] \in Nat
          /\ rewardTxs[u] <= Cardinality(Creditable(u))
      BY DEF BackedIInv, Valued, CreditsAreEarned
    <3>3. IsFiniteSet(mine) /\ Cardinality(mine) \in Nat
      BY <3>1, <3>2, FS_Subset, FS_CardinalityType
    <3> HIDE DEF mine
    <3>4. Cardinality(Creditable(u)) <= Cardinality(mine) /\ Cardinality(Creditable(u)) \in Nat
      BY <3>1, <3>3, FS_Subset, FS_CardinalityType
    <3>5. rewardTxs[u] <= Cardinality(mine)
      BY <3>2, <3>3, <3>4
    <3> QED BY <3>5 DEF mine
  <2> QED BY <2>1 DEF RewardsAreEarned
<1> QED BY <1>1, Invariance, BackedInvariance, PTL
===========================================================================
