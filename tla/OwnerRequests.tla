---------------------------- MODULE OwnerRequests ----------------------------
(***************************************************************************)
(* What owners ask of their portfolios and schedules (backend/src/routes,  *)
(* portfolio.ts and dca.ts).                                               *)
(*                                                                         *)
(* A contract is never changed: a choice archives it and creates the next  *)
(* one, with an id of its own.  A request names the id of a contract, looks*)
(* it up among the active ones, and then exercises a choice on that id;    *)
(* meanwhile another request or an engine may have replaced the contract.  *)
(* The ledger may refuse a command, and its answer may be lost.            *)
(***************************************************************************)
EXTENDS Naturals, Sequences, FiniteSets

CONSTANTS
  Requests,
  Backend,      \* what replaces contracts besides the requests
  Values,       \* of targets, trigger modes, amounts and frequencies
  MaxContracts  \* bound

ConstantsAssumption == Backend \notin Requests /\ MaxContracts \in Nat

VARIABLES
  contracts,  \* every contract there was, by id: terms, parent and maker
  archived,   \* ids
  proposals,  \* the requests whose PortfolioProposal is open
  requests    \* what each request is doing, or what it answered

ledgerVars == <<contracts, archived, proposals>>
vars == <<ledgerVars, requests>>

None == 0

Idle == [step |-> "idle"]

Init ==
  /\ contracts = <<>> /\ archived = {} /\ proposals = {}
  /\ requests = [r \in Requests |-> Idle]

Active == DOMAIN contracts \ archived

Answers(r, step, id) ==
  requests' = [requests EXCEPT ![r] = [@ EXCEPT !.step = step, !.told = id]]

Fails(r) == Answers(r, "failed", None)

Create(terms, parent, maker) ==
  /\ Len(contracts) < MaxContracts
  /\ contracts' = Append(contracts, [terms |-> terms, parent |-> parent, maker |-> maker])

NewId == Len(contracts) + 1

(* The ledger refuses the command, or accepts it and the route answers with*)
(* id, or accepts it and the answer of the ledger is lost.                 *)
Command(r, effect, id) ==
  \/ effect /\ (Answers(r, "ok", id) \/ Fails(r))
  \/ Fails(r) /\ UNCHANGED ledgerVars

---------------------------------------------------------------------------
(* New portfolios and schedules.                                           *)

PortfolioTerms(v) == [targets |-> v, triggerMode |-> v, isActive |-> TRUE]

ScheduleTerms(v) == [amount |-> v, frequency |-> v, isActive |-> TRUE]

Begins(r, step, terms) ==
  /\ requests[r] = Idle
  /\ requests' = [requests EXCEPT ![r] =
       [step |-> step, named |-> None, terms |-> terms, told |-> None]]
  /\ UNCHANGED <<contracts, archived>>

(* POST /api/portfolio: the proposal of the platform, if the ledger takes  *)
(* it and says so, is then accepted as the user.                           *)
ProposePortfolio(r) ==
  \E v \in Values, step \in {"accept", "failed"} :
    /\ Begins(r, step, PortfolioTerms(v))
    /\ proposals' \in {proposals \union {r}} \union (IF step = "failed" THEN {proposals} ELSE {})

(* POST /from-template answers when the proposal is made: the targets of   *)
(* the template are shown to the user and stored nowhere.                  *)
FromTemplate(r) ==
  /\ \E v \in Values : Begins(r, "proposed", PortfolioTerms(v))
  /\ proposals' = proposals \union {r}

AcceptProposal(r) ==
  /\ requests[r].step = "accept"
  /\ Command(r,
       /\ Create(requests[r].terms, None, r)
       /\ proposals' = proposals \ {r}
       /\ UNCHANGED archived, NewId)

(* POST /api/dca                                                           *)
CreateSchedule(r) ==
  /\ requests[r] = Idle
  /\ \E v \in Values, step \in {"ok", "failed"} :
       /\ requests' = [requests EXCEPT ![r] =
            [step |-> step, named |-> None, terms |-> ScheduleTerms(v),
             told |-> IF step = "ok" THEN NewId ELSE None]]
       /\ \/ Create(ScheduleTerms(v), None, r)
          \/ step = "failed" /\ UNCHANGED contracts
  /\ UNCHANGED <<archived, proposals>>

---------------------------------------------------------------------------
(* Changes: the route finds the contract, and goes on to exercise.         *)

Terms(id) == contracts[id].terms

Find(r, id, field, value) ==
  /\ requests[r] = Idle
  /\ id \in Active
  /\ requests' = [requests EXCEPT ![r] =
       [step |-> "exercise", named |-> id, field |-> field, value |-> value, told |-> None]]
  /\ UNCHANGED ledgerVars

IsSchedule(id) == "amount" \in DOMAIN Terms(id)

Sets(r, id, field) ==
  /\ field \in DOMAIN Terms(id)
  /\ \E v \in Values : Find(r, id, field, v)

UpdateTargets(r, id) == Sets(r, id, "targets")
UpdateTriggerMode(r, id) == Sets(r, id, "triggerMode")
UpdateAmount(r, id) == Sets(r, id, "amount")
UpdateFrequency(r, id) == Sets(r, id, "frequency")

(* POST /:id/deactivate, and DELETE, which does the same.                  *)
Deactivate(r, id) == ~IsSchedule(id) /\ Find(r, id, "isActive", FALSE)
Activate(r, id) == ~IsSchedule(id) /\ Find(r, id, "isActive", TRUE)

(* A schedule is only paused if it runs, and only resumed if it does not.  *)
Pause(r, id) == IsSchedule(id) /\ Terms(id).isActive /\ Find(r, id, "isActive", FALSE)
Resume(r, id) == IsSchedule(id) /\ ~Terms(id).isActive /\ Find(r, id, "isActive", TRUE)

(* CancelDCA leaves no contract.                                           *)
Cancel(r, id) == IsSchedule(id) /\ Find(r, id, "cancelled", TRUE)

(* Three of the routes answer with the id they were asked about.           *)
Told(r) ==
  LET asked == requests[r] IN
  IF asked.field = "cancelled" THEN None
  ELSE IF ~IsSchedule(asked.named) /\ asked.field # "targets" THEN asked.named
  ELSE NewId

Exercise_OnLatest(r) ==
  LET asked == requests[r] IN
  /\ asked.step = "exercise"
  /\ \E id \in Active :
       /\ asked.field \in DOMAIN Terms(id) \union {"cancelled"}
       /\ IF asked.field = "cancelled" THEN UNCHANGED contracts
          ELSE Create([Terms(id) EXCEPT ![asked.field] = asked.value], id, r)
       /\ archived' = archived \union {id}
       /\ UNCHANGED proposals
       /\ Answers(r, "ok", Told(r))

(* The choice is exercised on the id that was named.                       *)
Exercise(r) ==
  LET asked == requests[r]
      id == asked.named
  IN
  /\ asked.step = "exercise"
  /\ Command(r,
       /\ id \in Active
       /\ IF asked.field = "cancelled" THEN UNCHANGED contracts
          ELSE Create([Terms(id) EXCEPT ![asked.field] = asked.value], id, r)
       /\ archived' = archived \union {id}
       /\ UNCHANGED proposals, Told(r))

(* An engine replaces a contract, and keeps what its owner has set.        *)
Replace(id) ==
  /\ id \in Active
  /\ Create(Terms(id), id, Backend)
  /\ archived' = archived \union {id}
  /\ UNCHANGED <<proposals, requests>>

Next ==
  \/ \E r \in Requests :
       \/ ProposePortfolio(r) \/ FromTemplate(r) \/ AcceptProposal(r) \/ CreateSchedule(r)
       \/ \E id \in DOMAIN contracts :
            \/ UpdateTargets(r, id) \/ UpdateTriggerMode(r, id)
            \/ Deactivate(r, id) \/ Activate(r, id)
            \/ UpdateAmount(r, id) \/ UpdateFrequency(r, id)
            \/ Pause(r, id) \/ Resume(r, id) \/ Cancel(r, id)
       \/ Exercise(r)
  \/ \E id \in DOMAIN contracts : Replace(id)

Spec == Init /\ [][Next]_vars

---------------------------------------------------------------------------
(* Properties.                                                             *)

TypeOK ==
  /\ Len(contracts) <= MaxContracts
  /\ archived \subseteq DOMAIN contracts
  /\ proposals \subseteq Requests
  /\ \A id \in DOMAIN contracts :
       /\ contracts[id].parent \in 0..(id - 1)
       /\ contracts[id].maker \in Requests \union {Backend}
  /\ \A r \in Requests :
       requests[r].step \in {"idle", "accept", "proposed", "exercise", "ok", "failed"}

MadeBy(r) == {id \in DOMAIN contracts : contracts[id].maker = r}

(* An owner's change was made to the very contract the request named, and  *)
(* changed nothing in it but what was asked for: nothing an engine or      *)
(* another request did in between is overwritten, and a schedule is paused *)
(* only if it ran, although that was checked before.                       *)
ChangesAreAsked ==
  \A r \in Requests : \A id \in MadeBy(r) :
    contracts[id].parent # None =>
      LET asked == requests[r] IN
      /\ contracts[id].parent = asked.named
      /\ Terms(id) = [Terms(asked.named) EXCEPT ![asked.field] = asked.value]
      /\ asked.field = "isActive" /\ IsSchedule(id) =>
           Terms(asked.named).isActive = ~asked.value

(* A contract has one successor at most, and none while it is active.      *)
HistoryIsLinear ==
  \A id, other \in DOMAIN contracts :
    contracts[id].parent # None =>
      /\ contracts[id].parent \in archived
      /\ contracts[other].parent = contracts[id].parent => other = id

(* A request that was acknowledged has done exactly what it says: it made  *)
(* one contract, or cancelled the one it named; and one that failed may    *)
(* have, but never twice.                                                  *)
AcknowledgedOnce ==
  \A r \in Requests :
    LET request == requests[r] IN
    /\ Cardinality(MadeBy(r)) <= 1
    /\ request.step = "ok" =>
         IF request.named # None /\ request.field = "cancelled"
         THEN request.named \in archived /\ MadeBy(r) = {}
         ELSE /\ MadeBy(r) # {}
              /\ request.told \in MadeBy(r) \union {request.named}
    /\ r \in proposals => MadeBy(r) = {}

(* What the owners asked for is done once, to the contract they saw, or is *)
(* reported as failed (the choices exercised by portfolio.ts and dca.ts).  *)
OwnersAreObeyed == ChangesAreAsked /\ HistoryIsLinear /\ AcknowledgedOnce
===========================================================================
