---------------------------- MODULE WritesProofs ----------------------------
(***************************************************************************)
(* Proofs about what the backend writes to the ledger, for every value of  *)
(* the constants: the requests of owners, transfers and swaps, commands    *)
(* and their deduplication, the bridge, the plans of a rebalance, and the  *)
(* markers of the featured app.                                            *)
(*                                                                         *)
(* Each part is proved by an invariant of its own over the state it keeps, *)
(* and the steps of the other parts leave that state alone, so the theorems*)
(* hold of WritesSpec as it is checked.                                    *)
(***************************************************************************)
EXTENDS MCLedgerWrites, SwapPlanProofs

---------------------------------------------------------------------------
(* The terms of portfolios and of schedules.                               *)
OwnerTerms ==
  [targets : Values, triggerMode : Values, isActive : BOOLEAN] \union
  [amount : Values, frequency : Values, isActive : BOOLEAN]

OwnerContract ==
  [terms : OwnerTerms, parent : Nat, maker : HttpRequests \union {Backend}]

FieldNames ==
  {"targets", "triggerMode", "amount", "frequency", "isActive", "cancelled"}

(* What a field of the terms may be set to.                                *)
FieldValues(field) == IF field = "isActive" THEN BOOLEAN ELSE Values

(* A request that makes a contract anew, and one that changes a contract.  *)
NewRequest ==
  [step : {"accept", "proposed", "ok", "failed"}, named : {0}, terms : OwnerTerms, told : Nat]

ChangeRequest ==
  [step : {"exercise", "ok", "failed"}, named : Nat \ {0}, field : FieldNames,
   value : Values \union BOOLEAN, told : Nat]

OwnersHaveTypes ==
  /\ contracts \in Seq(OwnerContract)
  /\ asked \in [HttpRequests -> {Owners!Idle} \union NewRequest \union ChangeRequest]
  /\ Owners!TypeOK

(* What is known of one request.  While it may still make a contract it has*)
(* made none, its proposal is open only if it is for a new contract, and   *)
(* what was checked when it found its contract stays true of it.           *)
RequestIsObeyed(r) ==
  /\ asked[r].step \in {"idle", "accept", "proposed", "exercise"} => Owners!MadeBy(r) = {}
  /\ r \in proposals => asked[r] \in NewRequest /\ Owners!MadeBy(r) = {}
  /\ asked[r] \in ChangeRequest =>
       /\ asked[r].named \in DOMAIN contracts
       /\ \/ asked[r].field = "cancelled"
          \/ /\ asked[r].field \in DOMAIN Owners!Terms(asked[r].named)
             /\ asked[r].value \in FieldValues(asked[r].field)
       /\ asked[r].field = "isActive" /\ Owners!IsSchedule(asked[r].named) =>
            Owners!Terms(asked[r].named).isActive = ~asked[r].value
  /\ \A id, other \in Owners!MadeBy(r) : id = other
  /\ \A id \in Owners!MadeBy(r) : contracts[id].parent # 0 =>
       /\ asked[r] \in ChangeRequest
       /\ contracts[id].parent = asked[r].named
       /\ asked[r].field \in DOMAIN Owners!Terms(asked[r].named)
       /\ Owners!Terms(id)
            = [Owners!Terms(asked[r].named) EXCEPT ![asked[r].field] = asked[r].value]
  /\ asked[r].step = "ok" =>
       IF asked[r].named # 0 /\ asked[r].field = "cancelled"
       THEN asked[r].named \in archived /\ Owners!MadeBy(r) = {}
       ELSE /\ Owners!MadeBy(r) # {}
            /\ asked[r].told \in Owners!MadeBy(r) \union {asked[r].named}

OwnersIInv ==
  /\ OwnersHaveTypes
  /\ Owners!HistoryIsLinear
  /\ \A r \in HttpRequests : RequestIsObeyed(r)

---------------------------------------------------------------------------
LEMMA OwnersCount == \A S : Owners!Cardinality(S) = Cardinality(S)
  BY DEF Owners!Cardinality, Cardinality

LEMMA TermsOfAField ==
  ASSUME NEW t \in OwnerTerms, NEW f \in DOMAIN t, NEW v \in FieldValues(f)
  PROVE  /\ [t EXCEPT ![f] = v] \in OwnerTerms
         /\ DOMAIN [t EXCEPT ![f] = v] = DOMAIN t
<1>1. CASE t \in [targets : Values, triggerMode : Values, isActive : BOOLEAN]
  <2>1. f \in {"targets", "triggerMode", "isActive"}
    BY <1>1
  <2> QED BY <1>1, <2>1 DEF OwnerTerms, FieldValues
<1>2. CASE t \in [amount : Values, frequency : Values, isActive : BOOLEAN]
  <2>1. f \in {"amount", "frequency", "isActive"}
    BY <1>2
  <2> QED BY <1>2, <2>1 DEF OwnerTerms, FieldValues
<1> QED BY <1>1, <1>2 DEF OwnerTerms

(* A contract is added at the end, and the others stay as they are.        *)
LEMMA ContractIsAdded ==
  ASSUME OwnersIInv, NEW t \in OwnerTerms, NEW parent \in 0..Len(contracts),
         NEW maker \in HttpRequests \union {Backend}, Owners!Create(t, parent, maker)
  PROVE  /\ Len(contracts) \in Nat
         /\ Owners!NewId = Len(contracts) + 1
         /\ contracts' \in Seq(OwnerContract)
         /\ Len(contracts') = Len(contracts) + 1 /\ Len(contracts') <= MaxContracts
         /\ DOMAIN contracts = 1..Len(contracts)
         /\ DOMAIN contracts' = DOMAIN contracts \union {Owners!NewId}
         /\ Owners!NewId \notin DOMAIN contracts
         /\ contracts'[Owners!NewId] = [terms |-> t, parent |-> parent, maker |-> maker]
         /\ \A id \in DOMAIN contracts : contracts'[id] = contracts[id]
<1> DEFINE new == [terms |-> t, parent |-> parent, maker |-> maker]
<1>1. contracts \in Seq(OwnerContract)
  BY DEF OwnersIInv, OwnersHaveTypes
<1>2. new \in OwnerContract
  BY <1>1 DEF OwnerContract
<1>3. contracts' = Append(contracts, new) /\ Len(contracts) < MaxContracts /\ MaxContracts \in Nat
  BY OwnersAssumption DEF Owners!Create, Owners!ConstantsAssumption
<1> HIDE DEF new
<1>4. /\ contracts' \in Seq(OwnerContract)
      /\ Len(contracts') = Len(contracts) + 1
      /\ DOMAIN contracts = 1..Len(contracts)
      /\ DOMAIN contracts' = 1..(Len(contracts) + 1)
      /\ Len(contracts) \in Nat
      /\ contracts'[Len(contracts) + 1] = new
      /\ \A id \in 1..Len(contracts) : contracts'[id] = contracts[id]
  BY <1>1, <1>2, <1>3
<1> QED BY <1>3, <1>4 DEF new, Owners!NewId

(* What is known of a request stays true while others act.                 *)
LEMMA RequestStays ==
  ASSUME OwnersIInv, NEW r \in HttpRequests,
         asked'[r] = asked[r],
         DOMAIN contracts \subseteq DOMAIN contracts',
         \A id \in DOMAIN contracts : contracts'[id] = contracts[id],
         \A id \in DOMAIN contracts' \ DOMAIN contracts : contracts'[id].maker # r,
         archived \subseteq archived',
         r \in proposals' => r \in proposals
  PROVE  RequestIsObeyed(r)'
<1>1. Owners!MadeBy(r)' = Owners!MadeBy(r)
  BY DEF Owners!MadeBy
<1>2. \A id \in DOMAIN contracts : Owners!Terms(id)' = Owners!Terms(id)
  BY DEF Owners!Terms
<1>3. Owners!MadeBy(r) \subseteq DOMAIN contracts
  BY DEF Owners!MadeBy
<1>4. RequestIsObeyed(r)
  BY DEF OwnersIInv
<1>5. asked[r] \in ChangeRequest => asked[r].named \in DOMAIN contracts
  BY <1>4 DEF RequestIsObeyed
<1>6. asked[r] \in ChangeRequest =>
        (Owners!IsSchedule(asked[r].named)' <=> Owners!IsSchedule(asked[r].named))
  BY <1>2, <1>5 DEF Owners!IsSchedule
<1> QED BY <1>1, <1>2, <1>3, <1>4, <1>5, <1>6 DEF RequestIsObeyed

(* What a step that adds a contract does to the history and to the types.  *)
LEMMA HistoryGoesOn ==
  ASSUME OwnersIInv, NEW t \in OwnerTerms, NEW parent \in {0} \union Owners!Active,
         NEW maker \in HttpRequests \union {Backend}, Owners!Create(t, parent, maker),
         archived' = IF parent = 0 THEN archived ELSE archived \union {parent}
  PROVE  /\ Owners!HistoryIsLinear'
         /\ contracts' \in Seq(OwnerContract) /\ Len(contracts') <= MaxContracts
         /\ archived' \subseteq DOMAIN contracts'
         /\ \A id \in DOMAIN contracts' :
              /\ contracts'[id].parent \in 0..(id - 1)
              /\ contracts'[id].maker \in HttpRequests \union {Backend}
         /\ DOMAIN contracts \subseteq DOMAIN contracts'
         /\ \A id \in DOMAIN contracts : contracts'[id] = contracts[id]
         /\ DOMAIN contracts' \ DOMAIN contracts = {Owners!NewId}
         /\ contracts'[Owners!NewId] = [terms |-> t, parent |-> parent, maker |-> maker]
         /\ archived \subseteq archived'
<1>1. /\ archived \subseteq DOMAIN contracts
      /\ \A id \in DOMAIN contracts :
           /\ contracts[id].parent \in 0..(id - 1)
           /\ contracts[id].maker \in HttpRequests \union {Backend}
  BY DEF OwnersIInv, OwnersHaveTypes, Owners!TypeOK
<1>2. contracts \in Seq(OwnerContract)
  BY DEF OwnersIInv, OwnersHaveTypes
<1>3. parent \in 0..Len(contracts)
  BY <1>2 DEF Owners!Active
<1>4. /\ Len(contracts) \in Nat
      /\ Owners!NewId = Len(contracts) + 1
      /\ contracts' \in Seq(OwnerContract)
      /\ Len(contracts') = Len(contracts) + 1 /\ Len(contracts') <= MaxContracts
      /\ DOMAIN contracts = 1..Len(contracts)
      /\ DOMAIN contracts' = DOMAIN contracts \union {Owners!NewId}
      /\ Owners!NewId \notin DOMAIN contracts
      /\ contracts'[Owners!NewId] = [terms |-> t, parent |-> parent, maker |-> maker]
      /\ \A id \in DOMAIN contracts : contracts'[id] = contracts[id]
  BY <1>3, ContractIsAdded
<1>5. \A id \in DOMAIN contracts' :
        /\ contracts'[id].parent \in 0..(id - 1)
        /\ contracts'[id].maker \in HttpRequests \union {Backend}
  BY <1>1, <1>3, <1>4
<1>6. /\ archived' \subseteq DOMAIN contracts' /\ archived \subseteq archived'
      /\ parent # 0 => parent \in archived' /\ parent \notin archived
  BY <1>1, <1>3, <1>4 DEF Owners!Active
<1>7. ASSUME NEW id \in DOMAIN contracts', NEW other \in DOMAIN contracts',
             contracts'[id].parent # 0
      PROVE  /\ contracts'[id].parent \in archived'
             /\ contracts'[other].parent = contracts'[id].parent => other = id
  <2>1. \A i \in DOMAIN contracts : contracts[i].parent # 0 => contracts[i].parent \in archived
    BY DEF OwnersIInv, Owners!HistoryIsLinear, Owners!None
  <2>2. contracts'[Owners!NewId].parent = parent
    BY <1>4
  <2>3. CASE id \in DOMAIN contracts /\ other \in DOMAIN contracts
    BY <1>4, <1>6, <1>7, <2>3 DEF OwnersIInv, Owners!HistoryIsLinear, Owners!None
  <2>4. CASE id = Owners!NewId
    BY <1>4, <1>6, <1>7, <2>1, <2>2, <2>4
  <2>5. CASE id \in DOMAIN contracts /\ other = Owners!NewId
    BY <1>4, <1>6, <1>7, <2>1, <2>2, <2>5
  <2> QED BY <1>4, <2>3, <2>4, <2>5
<1>8. Owners!HistoryIsLinear'
  BY <1>7 DEF Owners!HistoryIsLinear, Owners!None
<1> QED BY <1>4, <1>5, <1>6, <1>8

(* A step of one request.                                                  *)
LEMMA OneRequestMoves ==
  ASSUME OwnersIInv, NEW r \in HttpRequests,
         NEW new \in NewRequest \union ChangeRequest,
         asked' = [asked EXCEPT ![r] = new],
         contracts' \in Seq(OwnerContract), Len(contracts') <= MaxContracts,
         archived' \subseteq DOMAIN contracts',
         \A id \in DOMAIN contracts' :
              /\ contracts'[id].parent \in 0..(id - 1)
              /\ contracts'[id].maker \in HttpRequests \union {Backend},
         DOMAIN contracts \subseteq DOMAIN contracts',
         \A id \in DOMAIN contracts : contracts'[id] = contracts[id],
         \A id \in DOMAIN contracts' \ DOMAIN contracts : contracts'[id].maker = r,
         archived \subseteq archived',
         proposals' \subseteq proposals \union {r},
         Owners!HistoryIsLinear', RequestIsObeyed(r)'
  PROVE  OwnersIInv'
<1>1. asked'[r] = new /\ \A q \in HttpRequests \ {r} : asked'[q] = asked[q]
  BY DEF OwnersIInv, OwnersHaveTypes
<1>2. \A q \in HttpRequests : RequestIsObeyed(q)'
  BY <1>1, RequestStays
<1>3. asked' \in [HttpRequests -> {Owners!Idle} \union NewRequest \union ChangeRequest]
  BY DEF OwnersIInv, OwnersHaveTypes
<1>4. \A q \in HttpRequests :
        asked'[q].step \in {"idle", "accept", "proposed", "exercise", "ok", "failed"}
  <2>1. new.step \in {"idle", "accept", "proposed", "exercise", "ok", "failed"}
    BY DEF NewRequest, ChangeRequest
  <2> QED BY <1>1, <2>1 DEF OwnersIInv, OwnersHaveTypes, Owners!TypeOK
<1>5. proposals' \subseteq HttpRequests
  BY DEF OwnersIInv, OwnersHaveTypes, Owners!TypeOK
<1>6. OwnersHaveTypes'
  BY <1>3, <1>4, <1>5 DEF OwnersHaveTypes, Owners!TypeOK
<1> QED BY <1>2, <1>6 DEF OwnersIInv

(* ... that leaves the contracts alone.                                    *)
LEMMA RequestMovesAlone ==
  ASSUME OwnersIInv, NEW r \in HttpRequests,
         NEW new \in NewRequest \union ChangeRequest,
         asked' = [asked EXCEPT ![r] = new],
         UNCHANGED <<contracts, archived>>,
         proposals' \subseteq proposals \union {r},
         RequestIsObeyed(r)'
  PROVE  OwnersIInv'
<1>1. /\ contracts \in Seq(OwnerContract) /\ Len(contracts) <= MaxContracts
      /\ archived \subseteq DOMAIN contracts
      /\ \A id \in DOMAIN contracts :
              /\ contracts[id].parent \in 0..(id - 1)
              /\ contracts[id].maker \in HttpRequests \union {Backend}
      /\ Owners!HistoryIsLinear
  BY DEF OwnersIInv, OwnersHaveTypes, Owners!TypeOK
<1>2. Owners!HistoryIsLinear'
  BY <1>1 DEF Owners!HistoryIsLinear
<1> QED BY <1>1, <1>2, OneRequestMoves

LEMMA OwnerTermsAreMade ==
  ASSUME NEW v \in Values
  PROVE  /\ Owners!PortfolioTerms(v) \in OwnerTerms
         /\ Owners!ScheduleTerms(v) \in OwnerTerms
  BY DEF OwnerTerms, Owners!PortfolioTerms, Owners!ScheduleTerms

(* The two kinds of requests, told apart.                                  *)
LEMMA NewIsNoChange ==
  /\ \A q \in NewRequest : q.named = 0 /\ q \notin ChangeRequest /\ q # Owners!Idle
  /\ \A q \in ChangeRequest : q.named # 0 /\ q \notin NewRequest /\ q # Owners!Idle
  /\ Owners!Idle.step = "idle" /\ Owners!Idle \notin NewRequest \union ChangeRequest
  BY DEF NewRequest, ChangeRequest, Owners!Idle

LEMMA ProposeStep ==
  ASSUME OwnersIInv, NEW r \in HttpRequests,
         Owners!ProposePortfolio(r) \/ Owners!FromTemplate(r)
  PROVE  OwnersIInv'
<1>1. PICK v \in Values, step \in {"accept", "failed", "proposed"} :
        /\ Owners!Begins(r, step, Owners!PortfolioTerms(v))
        /\ proposals' \subseteq proposals \union {r}
  BY DEF Owners!ProposePortfolio, Owners!FromTemplate
<1> DEFINE new == [step |-> step, named |-> 0, terms |-> Owners!PortfolioTerms(v), told |-> 0]
<1>2. new \in NewRequest /\ new.step = step
  BY OwnerTermsAreMade DEF NewRequest
<1>3. /\ asked[r] = Owners!Idle
      /\ asked' = [asked EXCEPT ![r] = new]
      /\ UNCHANGED <<contracts, archived>>
  BY <1>1 DEF Owners!Begins, Owners!None
<1> HIDE DEF new
<1>4. asked'[r] = new
  BY <1>3 DEF OwnersIInv, OwnersHaveTypes
<1>5. Owners!MadeBy(r) = {}
  BY <1>3, NewIsNoChange DEF OwnersIInv, RequestIsObeyed
<1>6. Owners!MadeBy(r)' = {}
  BY <1>3, <1>5 DEF Owners!MadeBy
<1>7. RequestIsObeyed(r)'
  BY <1>2, <1>4, <1>6, NewIsNoChange DEF RequestIsObeyed
<1> QED BY <1>1, <1>2, <1>3, <1>7, RequestMovesAlone

(* A request ends, with id or with an error.                               *)
LEMMA AnswersEnd ==
  ASSUME OwnersIInv, NEW r \in HttpRequests, asked[r] # Owners!Idle,
         NEW step \in {"ok", "failed"}, NEW id \in Nat, Owners!Answers(r, step, id)
  PROVE  LET new == asked'[r] IN
         /\ asked' = [asked EXCEPT ![r] = new]
         /\ new.step = step /\ new.told = id /\ new.named = asked[r].named
         /\ asked[r] \in NewRequest => new \in NewRequest
         /\ asked[r] \in ChangeRequest =>
              /\ new \in ChangeRequest
              /\ new.field = asked[r].field /\ new.value = asked[r].value
<1> DEFINE new == [asked[r] EXCEPT !.step = step, !.told = id]
<1>1. asked \in [HttpRequests -> {Owners!Idle} \union NewRequest \union ChangeRequest]
  BY DEF OwnersIInv, OwnersHaveTypes
<1>2. asked' = [asked EXCEPT ![r] = new]
  BY DEF Owners!Answers
<1>3. asked'[r] = new
  BY <1>1, <1>2
<1>4. CASE asked[r] \in NewRequest
  <2>1. new \in NewRequest /\ new.step = step /\ new.told = id /\ new.named = asked[r].named
    BY <1>4 DEF NewRequest
  <2> HIDE DEF new
  <2> QED BY <1>2, <1>3, <1>4, <2>1, NewIsNoChange
<1>5. CASE asked[r] \in ChangeRequest
  <2>1. /\ new \in ChangeRequest /\ new.step = step /\ new.told = id
        /\ new.named = asked[r].named /\ new.field = asked[r].field
        /\ new.value = asked[r].value
    BY <1>5 DEF ChangeRequest
  <2> HIDE DEF new
  <2> QED BY <1>2, <1>3, <1>5, <2>1, NewIsNoChange
<1> QED BY <1>1, <1>4, <1>5

(* The ledger has refused, or nothing is known of what it did.             *)
LEMMA FailsStep ==
  ASSUME OwnersIInv, NEW r \in HttpRequests, asked[r] # Owners!Idle,
         Owners!Fails(r), UNCHANGED <<contracts, archived, proposals>>
  PROVE  OwnersIInv'
<1>1. /\ asked' = [asked EXCEPT ![r] = asked'[r]]
      /\ asked'[r].step = "failed" /\ asked'[r].named = asked[r].named
      /\ asked[r] \in NewRequest => asked'[r] \in NewRequest
      /\ asked[r] \in ChangeRequest =>
              /\ asked'[r] \in ChangeRequest
              /\ asked'[r].field = asked[r].field /\ asked'[r].value = asked[r].value
  BY AnswersEnd DEF Owners!Fails, Owners!None
<1>2. asked[r] \in NewRequest \union ChangeRequest /\ RequestIsObeyed(r)
  BY DEF OwnersIInv, OwnersHaveTypes
<1>3. Owners!MadeBy(r)' = Owners!MadeBy(r)
  BY DEF Owners!MadeBy
<1>4. \A id : /\ Owners!Terms(id)' = Owners!Terms(id)
              /\ Owners!IsSchedule(id)' <=> Owners!IsSchedule(id)
  BY DEF Owners!Terms, Owners!IsSchedule
<1>5. RequestIsObeyed(r)'
  BY <1>1, <1>2, <1>3, <1>4, NewIsNoChange DEF RequestIsObeyed
<1> QED BY <1>1, <1>2, <1>5, RequestMovesAlone

LEMMA AcceptStep ==
  ASSUME OwnersIInv, NEW r \in HttpRequests, Owners!AcceptProposal(r)
  PROVE  OwnersIInv'
<1>1. asked[r].step = "accept" /\ asked[r] # Owners!Idle
  BY NewIsNoChange DEF Owners!AcceptProposal
<1>2. asked[r] \in NewRequest /\ asked[r].terms \in OwnerTerms
  BY <1>1 DEF OwnersIInv, OwnersHaveTypes, NewRequest, ChangeRequest
<1>3. CASE Owners!Fails(r) /\ UNCHANGED Owners!ledgerVars
  BY <1>1, <1>3, FailsStep DEF Owners!ledgerVars
<1>4. CASE /\ Owners!Create(asked[r].terms, 0, r)
           /\ proposals' = proposals \ {r}
           /\ UNCHANGED archived
           /\ Owners!Answers(r, "ok", Owners!NewId) \/ Owners!Fails(r)
  <2>1. /\ Owners!HistoryIsLinear'
        /\ contracts' \in Seq(OwnerContract) /\ Len(contracts') <= MaxContracts
        /\ archived' \subseteq DOMAIN contracts'
        /\ \A id \in DOMAIN contracts' :
              /\ contracts'[id].parent \in 0..(id - 1)
              /\ contracts'[id].maker \in HttpRequests \union {Backend}
        /\ DOMAIN contracts \subseteq DOMAIN contracts'
        /\ \A id \in DOMAIN contracts : contracts'[id] = contracts[id]
        /\ DOMAIN contracts' \ DOMAIN contracts = {Owners!NewId}
        /\ contracts'[Owners!NewId] = [terms |-> asked[r].terms, parent |-> 0, maker |-> r]
        /\ archived \subseteq archived'
    BY <1>2, <1>4, HistoryGoesOn
  <2>2. Owners!NewId \in Nat
    BY DEF Owners!NewId, OwnersIInv, OwnersHaveTypes
  <2>3. PICK step \in {"ok", "failed"}, told \in Nat :
          /\ Owners!Answers(r, step, told)
          /\ step = "ok" => told = Owners!NewId
    BY <1>4, <2>2 DEF Owners!Fails, Owners!None
  <2>4. /\ asked' = [asked EXCEPT ![r] = asked'[r]]
        /\ asked'[r].step = step /\ asked'[r].told = told /\ asked'[r].named = 0
        /\ asked'[r] \in NewRequest
    BY <1>1, <1>2, <2>3, AnswersEnd, NewIsNoChange
  <2>5. Owners!MadeBy(r) = {}
    BY <1>1 DEF OwnersIInv, RequestIsObeyed
  <2>6. Owners!MadeBy(r)' = {Owners!NewId}
    BY <2>1, <2>5 DEF Owners!MadeBy
  <2>7. RequestIsObeyed(r)'
    BY <1>4, <2>1, <2>3, <2>4, <2>6, NewIsNoChange DEF RequestIsObeyed
  <2>8. \A id \in DOMAIN contracts' \ DOMAIN contracts : contracts'[id].maker = r
    BY <2>1
  <2>9. proposals' \subseteq proposals \union {r}
    BY <1>4
  <2> QED BY <2>1, <2>4, <2>7, <2>8, <2>9, OneRequestMoves
<1> QED BY <1>3, <1>4 DEF Owners!AcceptProposal, Owners!Command, Owners!None

LEMMA CreateScheduleStep ==
  ASSUME OwnersIInv, NEW r \in HttpRequests, Owners!CreateSchedule(r)
  PROVE  OwnersIInv'
<1>1. PICK v \in Values, step \in {"ok", "failed"} :
        /\ asked' = [asked EXCEPT ![r] =
             [step |-> step, named |-> 0, terms |-> Owners!ScheduleTerms(v),
              told |-> IF step = "ok" THEN Owners!NewId ELSE 0]]
        /\ \/ Owners!Create(Owners!ScheduleTerms(v), 0, r)
           \/ step = "failed" /\ UNCHANGED contracts
  BY DEF Owners!CreateSchedule, Owners!None
<1> DEFINE told == IF step = "ok" THEN Owners!NewId ELSE 0
           new == [step |-> step, named |-> 0, terms |-> Owners!ScheduleTerms(v), told |-> told]
<1>2. asked[r] = Owners!Idle /\ UNCHANGED <<archived, proposals>>
  BY DEF Owners!CreateSchedule
<1>3. Owners!NewId \in Nat
  BY DEF Owners!NewId, OwnersIInv, OwnersHaveTypes
<1>4. /\ new \in NewRequest /\ new.step = step /\ new.told = told /\ new.named = 0
      /\ asked' = [asked EXCEPT ![r] = new]
  BY <1>1, <1>3, OwnerTermsAreMade DEF NewRequest
<1> HIDE DEF new
<1>5. asked'[r] = new
  BY <1>4 DEF OwnersIInv, OwnersHaveTypes
<1>6. Owners!MadeBy(r) = {} /\ r \notin proposals
  BY <1>2, NewIsNoChange DEF OwnersIInv, RequestIsObeyed
<1>7. CASE step = "failed" /\ UNCHANGED contracts
  <2>1. Owners!MadeBy(r)' = {}
    BY <1>6, <1>7 DEF Owners!MadeBy
  <2>2. RequestIsObeyed(r)'
    BY <1>2, <1>4, <1>5, <1>6, <1>7, <2>1, NewIsNoChange DEF RequestIsObeyed
  <2> QED BY <1>2, <1>4, <1>7, <2>2, RequestMovesAlone
<1>8. CASE Owners!Create(Owners!ScheduleTerms(v), 0, r)
  <2>1. /\ Owners!HistoryIsLinear'
        /\ contracts' \in Seq(OwnerContract) /\ Len(contracts') <= MaxContracts
        /\ archived' \subseteq DOMAIN contracts'
        /\ \A id \in DOMAIN contracts' :
              /\ contracts'[id].parent \in 0..(id - 1)
              /\ contracts'[id].maker \in HttpRequests \union {Backend}
        /\ DOMAIN contracts \subseteq DOMAIN contracts'
        /\ \A id \in DOMAIN contracts : contracts'[id] = contracts[id]
        /\ DOMAIN contracts' \ DOMAIN contracts = {Owners!NewId}
        /\ contracts'[Owners!NewId]
             = [terms |-> Owners!ScheduleTerms(v), parent |-> 0, maker |-> r]
        /\ archived \subseteq archived'
    BY <1>2, <1>8, OwnerTermsAreMade, HistoryGoesOn
  <2>2. Owners!MadeBy(r)' = {Owners!NewId}
    BY <1>6, <2>1 DEF Owners!MadeBy
  <2>3. RequestIsObeyed(r)'
    BY <1>2, <1>4, <1>5, <1>6, <2>1, <2>2, NewIsNoChange DEF RequestIsObeyed
  <2>4. \A id \in DOMAIN contracts' \ DOMAIN contracts : contracts'[id].maker = r
    BY <2>1
  <2> QED BY <1>2, <1>4, <2>1, <2>3, <2>4, OneRequestMoves
<1> QED BY <1>1, <1>7, <1>8

(* A route has found its contract.                                         *)
LEMMA FindStep ==
  ASSUME OwnersIInv, NEW r \in HttpRequests, NEW id \in DOMAIN contracts,
         NEW field \in FieldNames, NEW value \in Values \union BOOLEAN,
         Owners!Find(r, id, field, value),
         \/ field = "cancelled"
         \/ field \in DOMAIN Owners!Terms(id) /\ value \in FieldValues(field),
         field = "isActive" /\ Owners!IsSchedule(id) => Owners!Terms(id).isActive = ~value
  PROVE  OwnersIInv'
<1> DEFINE new == [step |-> "exercise", named |-> id, field |-> field, value |-> value,
                   told |-> 0]
<1>1. id \in Nat \ {0}
  BY DEF OwnersIInv, OwnersHaveTypes
<1>2. /\ new \in ChangeRequest /\ new.step = "exercise" /\ new.named = id
      /\ new.field = field /\ new.value = value
  BY <1>1 DEF ChangeRequest
<1>3. /\ asked[r] = Owners!Idle
      /\ asked' = [asked EXCEPT ![r] = new]
      /\ UNCHANGED <<contracts, archived, proposals>>
  BY DEF Owners!Find, Owners!None, Owners!ledgerVars
<1> HIDE DEF new
<1>4. asked'[r] = new
  BY <1>3 DEF OwnersIInv, OwnersHaveTypes
<1>5. Owners!MadeBy(r) = {} /\ r \notin proposals
  BY <1>3, NewIsNoChange DEF OwnersIInv, RequestIsObeyed
<1>6. Owners!MadeBy(r)' = {}
  BY <1>3, <1>5 DEF Owners!MadeBy
<1>7. /\ Owners!Terms(id)' = Owners!Terms(id)
      /\ Owners!IsSchedule(id)' <=> Owners!IsSchedule(id)
  BY <1>3 DEF Owners!Terms, Owners!IsSchedule
<1>8. RequestIsObeyed(r)'
  BY <1>2, <1>3, <1>4, <1>5, <1>6, <1>7 DEF RequestIsObeyed
<1> QED BY <1>2, <1>3, <1>8, RequestMovesAlone

LEMMA ContractsHaveTerms ==
  ASSUME OwnersIInv, NEW id \in DOMAIN contracts
  PROVE  /\ Owners!Terms(id) \in OwnerTerms /\ id \in Nat \ {0}
         /\ Owners!Terms(id).isActive \in BOOLEAN
         /\ "isActive" \in DOMAIN Owners!Terms(id)
<1>1. contracts[id] \in OwnerContract /\ id \in Nat \ {0}
  BY DEF OwnersIInv, OwnersHaveTypes
<1>2. Owners!Terms(id) \in OwnerTerms
  BY <1>1 DEF Owners!Terms, OwnerContract
<1> QED BY <1>1, <1>2 DEF OwnerTerms

LEMMA RoutesStep ==
  ASSUME OwnersIInv, NEW r \in HttpRequests, NEW id \in DOMAIN contracts,
         \/ Owners!UpdateTargets(r, id) \/ Owners!UpdateTriggerMode(r, id)
         \/ Owners!UpdateAmount(r, id) \/ Owners!UpdateFrequency(r, id)
         \/ Owners!Deactivate(r, id) \/ Owners!Activate(r, id)
         \/ Owners!Pause(r, id) \/ Owners!Resume(r, id) \/ Owners!Cancel(r, id)
  PROVE  OwnersIInv'
<1>1. CASE \E field \in {"targets", "triggerMode", "amount", "frequency"} :
             Owners!Sets(r, id, field)
  <2>1. PICK field \in {"targets", "triggerMode", "amount", "frequency"}, v \in Values :
          field \in DOMAIN Owners!Terms(id) /\ Owners!Find(r, id, field, v)
    BY <1>1 DEF Owners!Sets
  <2>2. field # "isActive" /\ field \in FieldNames
    BY DEF FieldNames
  <2>3. v \in FieldValues(field)
    BY <2>2 DEF FieldValues
  <2> QED BY <2>1, <2>2, <2>3, FindStep
<1>2. CASE \E value \in BOOLEAN :
             /\ Owners!Find(r, id, "isActive", value)
             /\ Owners!IsSchedule(id) => Owners!Terms(id).isActive = ~value
  <2>1. \A value \in BOOLEAN : value \in FieldValues("isActive")
    BY DEF FieldValues
  <2>2. PICK value \in BOOLEAN :
             /\ Owners!Find(r, id, "isActive", value)
             /\ Owners!IsSchedule(id) => Owners!Terms(id).isActive = ~value
    BY <1>2
  <2>3. "isActive" \in DOMAIN Owners!Terms(id)
    BY ContractsHaveTerms
  <2>4. /\ value \in Values \union BOOLEAN /\ value \in FieldValues("isActive")
        /\ "isActive" \in FieldNames
    BY <2>1 DEF FieldNames
  <2> QED BY <2>2, <2>3, <2>4, FindStep
<1>3. CASE Owners!Find(r, id, "cancelled", TRUE)
  <2>1. TRUE \in Values \union BOOLEAN /\ "cancelled" \in FieldNames
    BY DEF FieldNames
  <2> QED BY <1>3, <2>1, FindStep
<1>4. Owners!Terms(id).isActive \in BOOLEAN
  BY ContractsHaveTerms
<1>5. ASSUME Owners!Deactivate(r, id) \/ Owners!Pause(r, id)
      PROVE  /\ Owners!Find(r, id, "isActive", FALSE)
             /\ Owners!IsSchedule(id) => Owners!Terms(id).isActive = ~FALSE
  BY <1>4, <1>5 DEF Owners!Deactivate, Owners!Pause
<1>6. ASSUME Owners!Activate(r, id) \/ Owners!Resume(r, id)
      PROVE  /\ Owners!Find(r, id, "isActive", TRUE)
             /\ Owners!IsSchedule(id) => Owners!Terms(id).isActive = ~TRUE
  BY <1>4, <1>6 DEF Owners!Activate, Owners!Resume
<1>7. CASE Owners!Deactivate(r, id) \/ Owners!Pause(r, id)
  BY <1>2, <1>5, <1>7
<1>8. CASE Owners!Activate(r, id) \/ Owners!Resume(r, id)
  BY <1>2, <1>6, <1>8
<1>9. CASE Owners!Cancel(r, id)
  BY <1>3, <1>9 DEF Owners!Cancel
<1> QED BY <1>1, <1>7, <1>8, <1>9 DEF Owners!UpdateTargets, Owners!UpdateTriggerMode,
           Owners!UpdateAmount, Owners!UpdateFrequency

(* The ledger cancels the schedule that was named.                         *)
LEMMA CancelledStep ==
  ASSUME OwnersIInv, NEW r \in HttpRequests,
         asked[r].step = "exercise", asked[r].field = "cancelled",
         asked[r].named \in Owners!Active,
         UNCHANGED <<contracts, proposals>>, archived' = archived \union {asked[r].named},
         Owners!Answers(r, "ok", Owners!Told(r)) \/ Owners!Fails(r)
  PROVE  OwnersIInv'
<1>1. asked[r] \in ChangeRequest /\ asked[r] # Owners!Idle
  BY NewIsNoChange DEF OwnersIInv, OwnersHaveTypes, NewRequest
<1>2. Owners!Told(r) = 0
  BY DEF Owners!Told, Owners!None
<1>3. PICK step \in {"ok", "failed"} : Owners!Answers(r, step, 0)
  BY <1>2 DEF Owners!Fails, Owners!None
<1>4. /\ asked' = [asked EXCEPT ![r] = asked'[r]]
      /\ asked'[r].step = step /\ asked'[r].named = asked[r].named
      /\ asked'[r] \in ChangeRequest
      /\ asked'[r].field = asked[r].field /\ asked'[r].value = asked[r].value
  BY <1>1, <1>3, AnswersEnd
<1>5. Owners!MadeBy(r) = {} /\ RequestIsObeyed(r)
  BY DEF OwnersIInv, RequestIsObeyed
<1>6. Owners!MadeBy(r)' = {}
  BY <1>5 DEF Owners!MadeBy
<1>7. \A id : /\ Owners!Terms(id)' = Owners!Terms(id)
              /\ Owners!IsSchedule(id)' <=> Owners!IsSchedule(id)
  BY DEF Owners!Terms, Owners!IsSchedule
<1>8. r \notin proposals
  BY <1>1, <1>5, NewIsNoChange DEF RequestIsObeyed
<1>9. RequestIsObeyed(r)'
  BY <1>1, <1>4, <1>5, <1>6, <1>7, <1>8, NewIsNoChange DEF RequestIsObeyed
<1>10. /\ contracts \in Seq(OwnerContract) /\ Len(contracts) <= MaxContracts
       /\ archived' \subseteq DOMAIN contracts
       /\ \A id \in DOMAIN contracts :
              /\ contracts[id].parent \in 0..(id - 1)
              /\ contracts[id].maker \in HttpRequests \union {Backend}
  BY DEF OwnersIInv, OwnersHaveTypes, Owners!TypeOK, Owners!Active
<1>11. Owners!HistoryIsLinear'
  BY DEF OwnersIInv, Owners!HistoryIsLinear
<1> QED BY <1>1, <1>4, <1>9, <1>10, <1>11, OneRequestMoves

(* The ledger changes the contract that was named.                         *)
LEMMA ChangedStep ==
  ASSUME OwnersIInv, NEW r \in HttpRequests,
         asked[r].step = "exercise", asked[r].field # "cancelled",
         asked[r].named \in Owners!Active,
         Owners!Create([Owners!Terms(asked[r].named) EXCEPT ![asked[r].field] = asked[r].value],
                       asked[r].named, r),
         UNCHANGED proposals, archived' = archived \union {asked[r].named},
         Owners!Answers(r, "ok", Owners!Told(r)) \/ Owners!Fails(r)
  PROVE  OwnersIInv'
<1>0. PICK id, terms :
         /\ id = asked[r].named
         /\ terms = [Owners!Terms(id) EXCEPT ![asked[r].field] = asked[r].value]
  OBVIOUS
<1>1. asked[r] \in ChangeRequest /\ asked[r] # Owners!Idle
  BY NewIsNoChange DEF OwnersIInv, OwnersHaveTypes, NewRequest
<1>2. Owners!MadeBy(r) = {} /\ RequestIsObeyed(r)
  BY DEF OwnersIInv, RequestIsObeyed
<1>3. /\ id \in DOMAIN contracts /\ id # 0 /\ id \in Nat
      /\ asked[r].field \in DOMAIN Owners!Terms(id)
      /\ asked[r].value \in FieldValues(asked[r].field)
  BY <1>1, <1>2, <1>0, ContractsHaveTerms DEF RequestIsObeyed
<1>4. terms \in OwnerTerms
  BY <1>3, <1>0, ContractsHaveTerms, TermsOfAField
<1>5. Owners!Create(terms, id, r) /\ id \in Owners!Active
  BY <1>0
<1>6. /\ Owners!HistoryIsLinear'
      /\ contracts' \in Seq(OwnerContract) /\ Len(contracts') <= MaxContracts
      /\ archived' \subseteq DOMAIN contracts'
      /\ \A i \in DOMAIN contracts' :
              /\ contracts'[i].parent \in 0..(i - 1)
              /\ contracts'[i].maker \in HttpRequests \union {Backend}
      /\ DOMAIN contracts \subseteq DOMAIN contracts'
      /\ \A i \in DOMAIN contracts : contracts'[i] = contracts[i]
      /\ DOMAIN contracts' \ DOMAIN contracts = {Owners!NewId}
      /\ contracts'[Owners!NewId] = [terms |-> terms, parent |-> id, maker |-> r]
      /\ archived \subseteq archived'
  BY <1>0, <1>3, <1>4, <1>5, HistoryGoesOn
<1>7. Owners!MadeBy(r)' = {Owners!NewId}
  BY <1>2, <1>6 DEF Owners!MadeBy
<1>8. Owners!NewId \in Nat /\ Owners!Told(r) \in {id, Owners!NewId}
  BY <1>0 DEF Owners!NewId, Owners!Told, OwnersIInv, OwnersHaveTypes
<1>9. PICK step \in {"ok", "failed"}, told \in Nat :
        /\ Owners!Answers(r, step, told)
        /\ step = "ok" => told \in {id, Owners!NewId}
  BY <1>3, <1>8 DEF Owners!Fails, Owners!None
<1>10. /\ asked' = [asked EXCEPT ![r] = asked'[r]]
       /\ asked'[r].step = step /\ asked'[r].told = told /\ asked'[r].named = id
       /\ asked'[r] \in ChangeRequest
       /\ asked'[r].field = asked[r].field /\ asked'[r].value = asked[r].value
  BY <1>1, <1>9, <1>0, AnswersEnd
<1>11. contracts'[id].terms = contracts[id].terms
  BY <1>3, <1>6
<1>12. /\ contracts'[Owners!NewId].parent = id
       /\ contracts'[Owners!NewId].terms = terms
  BY <1>6
<1>13. r \notin proposals
  BY <1>1, <1>2, NewIsNoChange DEF RequestIsObeyed
<1>15. id \in DOMAIN contracts'
  BY <1>3, <1>6
<1>17. RequestIsObeyed(r)'
  <2>1. \A i \in Owners!MadeBy(r)' : i = Owners!NewId
    BY <1>7
  <2>2. \A i : Owners!Terms(i)' = contracts'[i].terms
    BY DEF Owners!Terms
  <2>3. asked[r].field = "isActive" /\ Owners!IsSchedule(id) =>
            Owners!Terms(id).isActive = ~asked[r].value
    BY <1>1, <1>2, <1>0 DEF RequestIsObeyed
  <2>5. Owners!Terms(id)' = Owners!Terms(id)
    BY <1>11 DEF Owners!Terms
  <2>6. Owners!IsSchedule(id)' => Owners!IsSchedule(id)
    BY <2>5 DEF Owners!IsSchedule
  <2>7. asked'[r].named = id /\ asked'[r].field # "cancelled"
    BY <1>10
  <2>8. \A i \in Owners!MadeBy(r)' : Owners!Terms(i)' = terms
    BY <1>7, <1>12, <2>2
  <2>9. /\ id \in DOMAIN contracts'
        /\ asked'[r].field \in DOMAIN Owners!Terms(id)'
        /\ asked'[r].value \in FieldValues(asked'[r].field)
        /\ asked'[r].field = "isActive" /\ Owners!IsSchedule(id)' =>
             Owners!Terms(id)'.isActive = ~asked'[r].value
    BY <1>3, <1>10, <1>15, <2>3, <2>5, <2>6
  <2>10. \A i \in Owners!MadeBy(r)' :
           /\ contracts'[i].parent = id
           /\ Owners!Terms(i)'
                = [Owners!Terms(id)' EXCEPT ![asked'[r].field] = asked'[r].value]
    BY <1>3, <1>10, <1>12, <1>0, <2>1, <2>5, <2>8
  <2>4. asked'[r].step # "idle" /\ asked'[r].step # "accept" /\ asked'[r].step # "proposed"
        /\ asked'[r].step # "exercise"
    BY <1>10
  <2>11. asked'[r].step = "ok" => asked'[r].told \in {Owners!NewId, asked'[r].named}
    BY <1>9, <1>10
  <2>12. r \notin proposals'
    BY <1>13
  <2> QED BY <1>7, <1>10, <2>1, <2>4, <2>7, <2>9, <2>10, <2>11, <2>12 DEF RequestIsObeyed
<1>18. \A i \in DOMAIN contracts' \ DOMAIN contracts : contracts'[i].maker = r
  BY <1>6
<1> QED BY <1>6, <1>10, <1>17, <1>18, OneRequestMoves

LEMMA ExerciseStep ==
  ASSUME OwnersIInv, NEW r \in HttpRequests, Owners!Exercise(r)
  PROVE  OwnersIInv'
<1>1. asked[r].step = "exercise" /\ asked[r] # Owners!Idle
  BY NewIsNoChange DEF Owners!Exercise
<1>2. CASE Owners!Fails(r) /\ UNCHANGED Owners!ledgerVars
  BY <1>1, <1>2, FailsStep DEF Owners!ledgerVars
<1> DEFINE effect ==
      /\ asked[r].named \in Owners!Active
      /\ IF asked[r].field = "cancelled" THEN UNCHANGED contracts
         ELSE Owners!Create([Owners!Terms(asked[r].named)
                               EXCEPT ![asked[r].field] = asked[r].value],
                            asked[r].named, r)
      /\ archived' = archived \union {asked[r].named}
      /\ UNCHANGED proposals
<1>3. CASE effect /\ (Owners!Answers(r, "ok", Owners!Told(r)) \/ Owners!Fails(r))
  BY <1>1, <1>3, CancelledStep, ChangedStep
<1> QED BY <1>2, <1>3 DEF Owners!Exercise, Owners!Command

LEMMA ReplaceStep ==
  ASSUME OwnersIInv, NEW id \in DOMAIN contracts, Owners!Replace(id)
  PROVE  OwnersIInv'
<1>1. /\ id \in Owners!Active /\ id # 0
      /\ Owners!Create(Owners!Terms(id), id, Backend)
      /\ archived' = archived \union {id}
      /\ UNCHANGED <<proposals, asked>>
  BY ContractsHaveTerms DEF Owners!Replace
<1>2. Owners!Terms(id) \in OwnerTerms
  BY ContractsHaveTerms
<1>3. /\ Owners!HistoryIsLinear'
      /\ contracts' \in Seq(OwnerContract) /\ Len(contracts') <= MaxContracts
      /\ archived' \subseteq DOMAIN contracts'
      /\ \A i \in DOMAIN contracts' :
              /\ contracts'[i].parent \in 0..(i - 1)
              /\ contracts'[i].maker \in HttpRequests \union {Backend}
      /\ DOMAIN contracts \subseteq DOMAIN contracts'
      /\ \A i \in DOMAIN contracts : contracts'[i] = contracts[i]
      /\ DOMAIN contracts' \ DOMAIN contracts = {Owners!NewId}
      /\ contracts'[Owners!NewId] = [terms |-> Owners!Terms(id), parent |-> id, maker |-> Backend]
      /\ archived \subseteq archived'
  BY <1>1, <1>2, HistoryGoesOn
<1>4. \A r \in HttpRequests : \A i \in DOMAIN contracts' \ DOMAIN contracts :
        contracts'[i].maker # r
  BY <1>3, OwnersAssumption DEF Owners!ConstantsAssumption
<1>5. \A r \in HttpRequests : RequestIsObeyed(r)'
  BY <1>1, <1>3, <1>4, RequestStays
<1>6. OwnersHaveTypes'
  BY <1>1, <1>3 DEF OwnersIInv, OwnersHaveTypes, Owners!TypeOK
<1> QED BY <1>3, <1>5, <1>6 DEF OwnersIInv

LEMMA OwnersStart ==
  ASSUME Owners!Init
  PROVE  OwnersIInv
<1>1. /\ contracts = <<>> /\ archived = {} /\ proposals = {}
      /\ asked = [r \in HttpRequests |-> Owners!Idle]
      /\ MaxContracts \in Nat
  BY OwnersAssumption DEF Owners!Init, Owners!ConstantsAssumption
<1>2. contracts \in Seq(OwnerContract) /\ Len(contracts) = 0 /\ DOMAIN contracts = {}
  BY <1>1
<1>3. \A r \in HttpRequests : RequestIsObeyed(r)
  BY <1>1, <1>2, NewIsNoChange DEF RequestIsObeyed, Owners!MadeBy
<1>4. OwnersHaveTypes
  BY <1>1, <1>2, NewIsNoChange DEF OwnersHaveTypes, Owners!TypeOK
<1> QED BY <1>2, <1>3, <1>4 DEF OwnersIInv, Owners!HistoryIsLinear

LEMMA OwnersGoOn ==
  ASSUME OwnersIInv, [Owners!Next]_ownerVars
  PROVE  OwnersIInv'
<1>1. CASE UNCHANGED ownerVars
  <2>1. \A r \in HttpRequests : RequestIsObeyed(r)'
    BY <1>1, RequestStays DEF ownerVars
  <2>2. OwnersHaveTypes' /\ Owners!HistoryIsLinear'
    BY <1>1 DEF ownerVars, OwnersIInv, OwnersHaveTypes, Owners!TypeOK, Owners!HistoryIsLinear
  <2> QED BY <2>1, <2>2 DEF OwnersIInv
<1>2. CASE Owners!Next
  BY <1>2, ProposeStep, AcceptStep, CreateScheduleStep, RoutesStep, ExerciseStep, ReplaceStep
     DEF Owners!Next
<1> QED BY <1>1, <1>2

(* The per-request facts say what the property of the run says.            *)
LEMMA OwnersAreObeyedThen ==
  ASSUME OwnersIInv
  PROVE  Owners!TypeOK /\ Owners!OwnersAreObeyed
<1>1. \A r \in HttpRequests : RequestIsObeyed(r)
  BY DEF OwnersIInv
<1>2. Owners!ChangesAreAsked
  <2>1. ASSUME NEW r \in HttpRequests, NEW id \in Owners!MadeBy(r), contracts[id].parent # 0
        PROVE  /\ contracts[id].parent = asked[r].named
               /\ Owners!Terms(id)
                    = [Owners!Terms(asked[r].named) EXCEPT ![asked[r].field] = asked[r].value]
               /\ asked[r].field = "isActive" /\ Owners!IsSchedule(id) =>
                    Owners!Terms(asked[r].named).isActive = ~asked[r].value
    <3>1. /\ asked[r] \in ChangeRequest
          /\ contracts[id].parent = asked[r].named
          /\ asked[r].field \in DOMAIN Owners!Terms(asked[r].named)
          /\ Owners!Terms(id)
               = [Owners!Terms(asked[r].named) EXCEPT ![asked[r].field] = asked[r].value]
      BY <1>1, <2>1 DEF RequestIsObeyed
    <3>2. asked[r].field = "isActive" /\ Owners!IsSchedule(asked[r].named) =>
            Owners!Terms(asked[r].named).isActive = ~asked[r].value
      BY <1>1, <3>1 DEF RequestIsObeyed
    <3>3. Owners!IsSchedule(id) => Owners!IsSchedule(asked[r].named)
      BY <3>1 DEF Owners!IsSchedule
    <3> QED BY <3>1, <3>2, <3>3
  <2> QED BY <2>1 DEF Owners!ChangesAreAsked, Owners!None
<1>3. Owners!AcknowledgedOnce
  <2>1. ASSUME NEW r \in HttpRequests PROVE Owners!Cardinality(Owners!MadeBy(r)) <= 1
    <3>1. CASE Owners!MadeBy(r) = {}
      BY <3>1, OwnersCount, FS_EmptySet
    <3>2. CASE \E id : Owners!MadeBy(r) = {id}
      BY <3>2, OwnersCount, FS_Singleton
    <3>3. \A id, other \in Owners!MadeBy(r) : id = other
      BY <1>1 DEF RequestIsObeyed
    <3> QED BY <3>1, <3>2, <3>3
  <2> QED BY <1>1, <2>1 DEF Owners!AcknowledgedOnce, RequestIsObeyed, Owners!None
<1> QED BY <1>2, <1>3 DEF OwnersIInv, OwnersHaveTypes, Owners!OwnersAreObeyed

(* Whatever part moves, what the owners asked for is done once, to the     *)
(* contract they saw, or is reported as failed (routes/portfolio.ts and    *)
(* routes/dca.ts).                                                         *)
THEOREM OwnersObeyed == WritesSpec => []OwnersAreObeyed
<1>1. WritesInit => OwnersIInv
  BY OwnersStart DEF WritesInit
<1>2. OwnersIInv /\ [WritesNext]_writeVars => OwnersIInv'
  <2>1. [WritesNext]_writeVars => [Owners!Next]_ownerVars
    BY DEF WritesNext, writeVars
  <2> QED BY <2>1, OwnersGoOn
<1>3. OwnersIInv => OwnersAreObeyed
  BY OwnersAreObeyedThen DEF OwnersAreObeyed
<1> QED BY <1>1, <1>2, <1>3, PTL DEF WritesSpec

---------------------------------------------------------------------------
(* Transfers and swaps.                                                    *)

(* What is known of a send, and of a swap, at each of their steps.         *)
SendIsTrue(s) ==
  /\ sends[s] \in {"new", "transfer"} => requests[s] = "none"
  /\ sends[s] \in {"create", "ok"} /\ mode = "network" => s \in instructed
  /\ sends[s] = "ok" => requests[s] # "none"
  /\ transferLogs[s] = IF requests[s] = "approved" THEN 1 ELSE 0
  /\ sends[s] = "create" => requests[s] = "none"

SwapIsTrue(w) ==
  /\ swaps[w].step \in {"new", "swap"} => delivered[w] = 0
  /\ swaps[w].step \in {"new", "swap", "log"} => swapLogs[w] = {}
  /\ swaps[w].step = "log" => delivered[w] = swaps[w].buy /\ delivered[w] \in Amounts
  /\ swaps[w].step = "ok" => swapLogs[w] = {swaps[w].buy}
  /\ swapLogs[w] \subseteq {delivered[w]}
  /\ \A amount \in swapLogs[w] : amount >= MinBuyAmount

SwapStates == [step : Transfers!SwapSteps, buy : Amounts \union {0}]

TransfersIInv ==
  /\ Transfers!TypeOK
  /\ swaps \in [Swaps -> SwapStates]
  /\ \A s \in Sends : SendIsTrue(s)
  /\ \A w \in Swaps : SwapIsTrue(w)

LEMMA TransfersStart ==
  ASSUME Transfers!Init
  PROVE  TransfersIInv
  BY DEF Transfers!Init, TransfersIInv, Transfers!TypeOK, SendIsTrue, SwapIsTrue,
         SwapStates, Transfers!SwapSteps, Transfers!SendSteps

LEMMA SendMoves ==
  ASSUME TransfersIInv, NEW s \in Sends,
         \/ Transfers!Send(s) \/ Transfers!CreateCIP56Transfer(s)
         \/ Transfers!CreateTransferRequest(s)
         \/ Transfers!Approve(s) \/ Transfers!Reject(s) \/ Transfers!Withdraw(s)
  PROVE  TransfersIInv'
<1>1. /\ UNCHANGED <<mode, swaps, delivered, swapRequests, swapLogs>>
      /\ sends \in [Sends -> Transfers!SendSteps] /\ instructed \subseteq Sends
      /\ requests \in [Sends -> {"none", "pending", "approved", "rejected", "withdrawn"}]
      /\ transferLogs \in [Sends -> Nat]
  BY DEF Transfers!Send, Transfers!CreateCIP56Transfer, Transfers!CreateTransferRequest,
         Transfers!Approve, Transfers!Reject, Transfers!Withdraw, Transfers!swapVars,
         Transfers!sendVars, TransfersIInv, Transfers!TypeOK
<1>2. /\ sends' \in [Sends -> Transfers!SendSteps] /\ instructed' \subseteq Sends
      /\ requests' \in [Sends -> {"none", "pending", "approved", "rejected", "withdrawn"}]
      /\ transferLogs' \in [Sends -> Nat]
  BY <1>1 DEF Transfers!Send, Transfers!CreateCIP56Transfer, Transfers!CreateTransferRequest,
         Transfers!Approve, Transfers!Reject, Transfers!Withdraw, Transfers!SendGoesTo,
         Transfers!SendSteps
<1>3. ASSUME NEW other \in Sends PROVE SendIsTrue(other)'
  <2>1. CASE other = s
    BY <1>1, <2>1 DEF Transfers!Send, Transfers!CreateCIP56Transfer,
         Transfers!CreateTransferRequest, Transfers!Approve, Transfers!Reject,
         Transfers!Withdraw, Transfers!SendGoesTo, SendIsTrue, TransfersIInv
  <2>2. CASE other # s
    BY <1>1, <2>2 DEF Transfers!Send, Transfers!CreateCIP56Transfer,
         Transfers!CreateTransferRequest, Transfers!Approve, Transfers!Reject,
         Transfers!Withdraw, Transfers!SendGoesTo, SendIsTrue, TransfersIInv
  <2> QED BY <2>1, <2>2
<1> QED BY <1>1, <1>2, <1>3 DEF TransfersIInv, Transfers!TypeOK, SwapIsTrue

LEMMA SwapMoves ==
  ASSUME TransfersIInv, NEW w \in Swaps,
         \/ Transfers!CreateSwapRequest(w) \/ Transfers!ExecuteAtVenue(w)
         \/ Transfers!ExecuteSwap(w) \/ Transfers!CancelSwap(w)
  PROVE  TransfersIInv'
<1>1. /\ UNCHANGED <<mode, sends, instructed, requests, transferLogs>>
      /\ swaps \in [Swaps -> SwapStates]
      /\ delivered \in [Swaps -> Amounts \union {0}]
      /\ swapRequests \in [Swaps -> {"none", "pending", "executed", "cancelled"}]
      /\ swapLogs \in [Swaps -> SUBSET Amounts]
  BY DEF Transfers!CreateSwapRequest, Transfers!ExecuteAtVenue, Transfers!ExecuteSwap,
         Transfers!CancelSwap, Transfers!sendVars, TransfersIInv, Transfers!TypeOK
<1>2. SwapIsTrue(w)
  BY DEF TransfersIInv
<1>3. /\ swaps' \in [Swaps -> SwapStates]
      /\ delivered' \in [Swaps -> Amounts \union {0}]
      /\ swapRequests' \in [Swaps -> {"none", "pending", "executed", "cancelled"}]
      /\ swapLogs' \in [Swaps -> SUBSET Amounts]
  <2>1. CASE Transfers!CreateSwapRequest(w)
    <3>1. swaps' \in [Swaps -> SwapStates]
      BY <1>1, <2>1 DEF Transfers!CreateSwapRequest, Transfers!SwapFails, SwapStates,
                        Transfers!SwapSteps
    <3>2. swapRequests' \in [Swaps -> {"none", "pending", "executed", "cancelled"}]
      BY <1>1, <2>1 DEF Transfers!CreateSwapRequest
    <3> QED BY <1>1, <2>1, <3>1, <3>2 DEF Transfers!CreateSwapRequest
  <2>2. CASE Transfers!ExecuteAtVenue(w)
    BY <1>1, <2>2 DEF Transfers!ExecuteAtVenue, Transfers!SwapFails, SwapStates,
                      Transfers!SwapSteps
  <2>3. CASE Transfers!ExecuteSwap(w)
    <3>1. swaps' \in [Swaps -> SwapStates]
      BY <1>1, <2>3 DEF Transfers!ExecuteSwap, Transfers!SwapFails, SwapStates,
                        Transfers!SwapSteps
    <3>2. swapRequests' \in [Swaps -> {"none", "pending", "executed", "cancelled"}]
      BY <1>1, <2>3 DEF Transfers!ExecuteSwap
    <3>3. swaps[w].buy \in Amounts
      BY <1>2, <2>3 DEF Transfers!ExecuteSwap, SwapIsTrue
    <3>4. swapLogs' \in [Swaps -> SUBSET Amounts]
      BY <1>1, <2>3, <3>3 DEF Transfers!ExecuteSwap
    <3> QED BY <1>1, <2>3, <3>1, <3>2, <3>4 DEF Transfers!ExecuteSwap
  <2>4. CASE Transfers!CancelSwap(w)
    BY <1>1, <2>4 DEF Transfers!CancelSwap
  <2> QED BY <2>1, <2>2, <2>3, <2>4
<1>4. SwapIsTrue(w)'
  <2>1. CASE Transfers!CreateSwapRequest(w)
    <3>1. swaps[w].step = "new" /\ UNCHANGED <<delivered, swapLogs>>
      BY <2>1 DEF Transfers!CreateSwapRequest
    <3>2. swaps'[w].step \in {"swap", "failed"}
      BY <1>1, <2>1 DEF Transfers!CreateSwapRequest, Transfers!SwapFails, SwapStates
    <3> QED BY <1>2, <3>1, <3>2 DEF SwapIsTrue
  <2>2. CASE Transfers!ExecuteAtVenue(w)
    BY <1>1, <1>2, <2>2 DEF Transfers!ExecuteAtVenue, Transfers!SwapFails, SwapStates,
                      SwapIsTrue
  <2>3. CASE Transfers!ExecuteSwap(w)
    <3>1. swaps[w].step = "log" /\ UNCHANGED delivered
      BY <2>3 DEF Transfers!ExecuteSwap
    <3>2. CASE swapLogs' = swapLogs /\ swaps'[w].step = "failed"
      BY <1>2, <3>1, <3>2 DEF SwapIsTrue
    <3>3. CASE /\ swapLogs' = [swapLogs EXCEPT ![w] = @ \union {swaps[w].buy}]
               /\ swaps[w].buy >= MinBuyAmount
               /\ swaps'[w].step \in {"ok", "failed"}
               /\ swaps'[w].step = "ok" => swaps'[w].buy = swaps[w].buy
      <4>1. swapLogs'[w] = {swaps[w].buy}
        BY <1>1, <1>2, <3>1, <3>3 DEF SwapIsTrue
      <4> QED BY <1>2, <3>1, <3>3, <4>1 DEF SwapIsTrue
    <3>4. swaps' = [swaps EXCEPT ![w].step = "ok"] =>
            swaps'[w].step = "ok" /\ swaps'[w].buy = swaps[w].buy
      BY <1>1 DEF SwapStates
    <3>5. Transfers!SwapFails(w) => swaps'[w].step = "failed"
      BY <1>1 DEF Transfers!SwapFails
    <3> QED BY <2>3, <3>2, <3>3, <3>4, <3>5 DEF Transfers!ExecuteSwap
  <2>4. CASE Transfers!CancelSwap(w)
    BY <1>1, <1>2, <2>4 DEF Transfers!CancelSwap, SwapIsTrue
  <2> QED BY <2>1, <2>2, <2>3, <2>4
<1>5. ASSUME NEW other \in Swaps \ {w} PROVE SwapIsTrue(other)'
  <2>1. /\ swaps'[other] = swaps[other] /\ delivered'[other] = delivered[other]
        /\ swapLogs'[other] = swapLogs[other]
    BY <1>1 DEF Transfers!CreateSwapRequest, Transfers!ExecuteAtVenue, Transfers!ExecuteSwap,
                Transfers!CancelSwap, Transfers!SwapFails
  <2> QED BY <2>1 DEF SwapIsTrue, TransfersIInv
<1>6. \A other \in Swaps :
        swaps'[other].step \in Transfers!SwapSteps /\ swaps'[other].buy \in Amounts \union {0}
  BY <1>3 DEF SwapStates
<1> QED BY <1>1, <1>3, <1>4, <1>5, <1>6 DEF TransfersIInv, Transfers!TypeOK, SendIsTrue

LEMMA TransfersGoOn ==
  ASSUME TransfersIInv, [Transfers!Next]_transferVars
  PROVE  TransfersIInv'
<1>1. CASE UNCHANGED transferVars
  BY <1>1 DEF transferVars, TransfersIInv, Transfers!TypeOK, SendIsTrue, SwapIsTrue
<1>2. CASE Transfers!Next
  BY <1>2, SendMoves, SwapMoves DEF Transfers!Next
<1> QED BY <1>1, <1>2

LEMMA TransfersAreTrueThen ==
  ASSUME TransfersIInv
  PROVE  Transfers!TransfersAreTrue
<1>1. Transfers!AcknowledgedSendsAreWhole
  BY DEF TransfersIInv, SendIsTrue, Transfers!AcknowledgedSendsAreWhole
<1>2. \A w \in Swaps : \A amount \in swapLogs[w] : amount > 0
  BY TransfersAssumption DEF TransfersIInv, Transfers!TypeOK, Transfers!ConstantsAssumption
<1> QED BY <1>1, <1>2 DEF TransfersIInv, SwapIsTrue, Transfers!SwapLogsAreTrue,
           Transfers!TransfersAreTrue

(* What the service and the logs on the ledger say of a transfer or a swap *)
(* is what happened to it, whatever was lost or cancelled meanwhile        *)
(* (token-transfer.ts).                                                    *)
THEOREM TransfersTold == WritesSpec => []TransfersAreTrue
<1>1. WritesInit => TransfersIInv
  BY TransfersStart DEF WritesInit
<1>2. TransfersIInv /\ [WritesNext]_writeVars => TransfersIInv'
  <2>1. [WritesNext]_writeVars => [Transfers!Next]_transferVars
    BY DEF WritesNext, writeVars
  <2> QED BY <2>1, TransfersGoOn
<1>3. TransfersIInv => TransfersAreTrue
  BY TransfersAreTrueThen DEF TransfersAreTrue
<1> QED BY <1>1, <1>2, <1>3, PTL DEF WritesSpec

---------------------------------------------------------------------------
(* Submissions.                                                            *)

CacheEntry == [key : Keys, id : Nat \ {0}, expires : Nat]
IssuedId == [key : Keys, at : Nat]
Submission == [step : {"sent", "backoff"}, key : Keys, id : Nat \ {0}, attempt : Nat]

(* An id that may still be asked for is in the cache.                      *)
IsCached(i) ==
  issued[i].at + Ttl > now /\ i \notin forgotten =>
    \E n \in DOMAIN store :
      store[n] = [key |-> issued[i].key, id |-> i, expires |-> issued[i].at + Ttl]

CacheIInv ==
  /\ store \in Seq(CacheEntry) /\ Len(store) <= MaxSize
  /\ issued \in Seq(IssuedId)
  /\ acknowledged \in Seq(Nat) /\ Len(acknowledged) = Len(issued)
  /\ now \in Nat
  /\ ran \union forgotten \subseteq DOMAIN issued
  /\ \A n \in DOMAIN store : store[n].id \in DOMAIN issued
  /\ \A n, m \in DOMAIN store : store[n].key = store[m].key => n = m
  /\ Commands!AcknowledgedOnce
  /\ \A i \in DOMAIN issued : IsCached(i)
  /\ \A i, j \in DOMAIN issued : i < j /\ issued[i].key = issued[j].key =>
       issued[j].at >= issued[i].at + Ttl \/ i \in forgotten

CommandsIInv ==
  /\ CacheIInv
  /\ submitting \in [Callers -> {Commands!Idle} \union Submission]
  /\ sent \subseteq [caller : Callers, id : Nat \ {0}, attempt : Nat]
  /\ \A c \in Callers : submitting[c] # Commands!Idle => submitting[c].id \in DOMAIN issued
  /\ \A r \in sent : r.id \in DOMAIN issued

LEMMA CommandsStart ==
  ASSUME Commands!Init
  PROVE  CommandsIInv
<1>1. store = <<>> /\ issued = <<>> /\ acknowledged = <<>> /\ now = 0
  BY DEF Commands!Init
<1>2. /\ store \in Seq(CacheEntry) /\ issued \in Seq(IssuedId) /\ acknowledged \in Seq(Nat)
      /\ Len(store) = 0 /\ Len(acknowledged) = Len(issued)
      /\ DOMAIN store = {} /\ DOMAIN issued = {}
  BY <1>1
<1> QED BY <1>1, <1>2, CommandsAssumption
        DEF Commands!Init, CommandsIInv, CacheIInv, Commands!AcknowledgedOnce,
            Commands!ConstantsAssumption

(* What removing one element of a sequence leaves.                         *)
LEMMA ElementIsRemoved ==
  ASSUME NEW S, NEW s \in Seq(S), NEW i \in DOMAIN s
  PROVE  /\ Commands!RemoveAt(s, i) \in Seq(S)
         /\ Len(Commands!RemoveAt(s, i)) = Len(s) - 1
         /\ \A n \in 1..(Len(s) - 1) :
              Commands!RemoveAt(s, i)[n] = IF n < i THEN s[n] ELSE s[n + 1]
<1>1. Len(s) \in Nat /\ DOMAIN s = 1..Len(s) /\ i \in 1..Len(s)
  OBVIOUS
<1>2. /\ SubSeq(s, 1, i - 1) \in Seq(S) /\ Len(SubSeq(s, 1, i - 1)) = i - 1
      /\ \A n \in 1..(i - 1) : SubSeq(s, 1, i - 1)[n] = s[n]
  BY <1>1, SubSeqProperties
<1>3. /\ SubSeq(s, i + 1, Len(s)) \in Seq(S) /\ Len(SubSeq(s, i + 1, Len(s))) = Len(s) - i
      /\ \A n \in 1..(Len(s) - i) : SubSeq(s, i + 1, Len(s))[n] = s[i + n]
  BY <1>1, SubSeqProperties
<1> DEFINE before == SubSeq(s, 1, i - 1)  after == SubSeq(s, i + 1, Len(s))
<1>4. Commands!RemoveAt(s, i) = before \o after
  BY DEF Commands!RemoveAt
<1> HIDE DEF before, after
<1>5. /\ before \in Seq(S) /\ Len(before) = i - 1 /\ \A n \in 1..(i - 1) : before[n] = s[n]
      /\ after \in Seq(S) /\ Len(after) = Len(s) - i
      /\ \A n \in 1..(Len(s) - i) : after[n] = s[i + n]
  BY <1>2, <1>3 DEF before, after
<1>6. /\ before \o after \in Seq(S)
      /\ Len(before \o after) = Len(before) + Len(after)
      /\ \A n \in 1..(Len(before) + Len(after)) :
           (before \o after)[n] = IF n <= Len(before) THEN before[n] ELSE after[n - Len(before)]
  BY <1>5, ConcatProperties
<1>7. ASSUME NEW n \in 1..(Len(s) - 1)
      PROVE  (before \o after)[n] = IF n < i THEN s[n] ELSE s[n + 1]
  <2>1. CASE n < i
    BY <1>1, <1>5, <1>6, <2>1
  <2>2. CASE ~(n < i)
    <3>1. n - (i - 1) \in 1..(Len(s) - i) /\ i + (n - (i - 1)) = n + 1
      BY <1>1, <2>2
    <3>2. Len(before) = i - 1 /\ Len(after) = Len(s) - i
      BY <1>5
    <3>3. n \in 1..(Len(before) + Len(after)) /\ ~(n <= Len(before))
      BY <1>1, <2>2, <3>2
    <3>4. (before \o after)[n] = after[n - Len(before)]
      BY <1>6, <3>3
    <3>5. (before \o after)[n] = after[n - (i - 1)]
      BY <3>2, <3>4
    <3> QED BY <1>5, <2>2, <3>1, <3>5
  <2> QED BY <2>1, <2>2
<1> QED BY <1>1, <1>4, <1>5, <1>6, <1>7

(* The entries and ids are moved and added by idFor so that no id is lost  *)
(* but the ones counted as forgotten.                                      *)
LEMMA ReuseKeepsIds ==
  ASSUME CacheIInv, NEW key \in Keys, Commands!Reuse(key)
  PROVE  /\ store' \in Seq(CacheEntry) /\ Len(store') = Len(store)
         /\ \A n \in DOMAIN store' : \E m \in DOMAIN store : store'[n] = store[m]
         /\ \A m \in DOMAIN store : \E n \in DOMAIN store' : store'[n] = store[m]
         /\ \A n, m \in DOMAIN store' : store'[n].key = store'[m].key => n = m
<1>1. PICK i \in DOMAIN store : store' = Append(Commands!RemoveAt(store, i), store[i])
  BY DEF Commands!Reuse
<1> DEFINE rest == Commands!RemoveAt(store, i)
<1>2. store \in Seq(CacheEntry) /\ Len(store) \in Nat /\ DOMAIN store = 1..Len(store)
  BY DEF CacheIInv
<1>9. Len(store) \in Nat /\ i \in 1..Len(store)
  BY <1>2
<1>3. /\ rest \in Seq(CacheEntry) /\ Len(rest) = Len(store) - 1
      /\ \A n \in 1..(Len(store) - 1) : rest[n] = IF n < i THEN store[n] ELSE store[n + 1]
  BY <1>2, ElementIsRemoved
<1> HIDE DEF rest
<1>4. /\ store' \in Seq(CacheEntry) /\ Len(store') = Len(store)
      /\ DOMAIN store' = 1..Len(store)
      /\ store'[Len(store)] = store[i]
      /\ \A n \in 1..(Len(store) - 1) : store'[n] = rest[n]
  <2>1. store' = Append(rest, store[i]) /\ store[i] \in CacheEntry
    BY <1>1, <1>2 DEF rest
  <2>2. /\ store' \in Seq(CacheEntry) /\ Len(store') = Len(rest) + 1
        /\ store'[Len(rest) + 1] = store[i]
        /\ \A n \in 1..Len(rest) : store'[n] = rest[n]
    BY <1>3, <2>1, AppendProperties
  <2> QED BY <1>2, <1>3, <2>2
<1>5. \A n \in 1..Len(store) :
        store'[n] = IF n = Len(store) THEN store[i]
                    ELSE IF n < i THEN store[n] ELSE store[n + 1]
  <2>1. ASSUME NEW n \in 1..Len(store), n # Len(store)
        PROVE  store'[n] = IF n < i THEN store[n] ELSE store[n + 1]
    <3>1. n \in 1..(Len(store) - 1)
      BY <1>9, <2>1
    <3> QED BY <1>3, <1>4, <3>1
  <2> QED BY <1>4, <2>1
<1>6. ASSUME NEW m \in DOMAIN store PROVE \E n \in DOMAIN store' : store'[n] = store[m]
  <2>1. CASE m = i
    <3>1. Len(store) \in DOMAIN store' /\ store'[Len(store)] = store[m]
      BY <1>4, <1>9, <2>1
    <3> QED BY <3>1
  <2>2. CASE m < i
    <3>1. m \in 1..Len(store) /\ m # Len(store)
      BY <1>2, <2>2
    <3> QED BY <1>4, <1>5, <2>2, <3>1
  <2>3. CASE m > i
    <3>1. m - 1 \in 1..Len(store) /\ m - 1 # Len(store) /\ ~(m - 1 < i) /\ (m - 1) + 1 = m
      BY <1>2, <2>3
    <3> QED BY <1>4, <1>5, <3>1
  <2> QED BY <1>2, <2>1, <2>2, <2>3
<1>7. \A n \in DOMAIN store' : \E m \in DOMAIN store : store'[n] = store[m]
  <2>1. ASSUME NEW n \in 1..Len(store) PROVE \E m \in 1..Len(store) : store'[n] = store[m]
    <3>1. n = Len(store) \/ n + 1 \in 1..Len(store)
      BY <1>9
    <3> QED BY <1>9, <1>5, <3>1
  <2> QED BY <1>2, <1>4, <2>1
<1>8. ASSUME NEW n \in DOMAIN store', NEW m \in DOMAIN store', store'[n].key = store'[m].key
      PROVE  n = m
  <2>1. \A a, b \in DOMAIN store : store[a].key = store[b].key => a = b
    BY DEF CacheIInv
  <2> DEFINE from(a) == IF a = Len(store) THEN i ELSE IF a < i THEN a ELSE a + 1
  <2>2. ASSUME NEW a \in DOMAIN store'
        PROVE  from(a) \in DOMAIN store /\ store'[a] = store[from(a)]
    <3>1. a \in 1..Len(store)
      BY <1>4
    <3>2. from(a) \in 1..Len(store)
      BY <1>9, <3>1
    <3> QED BY <1>2, <1>5, <3>1, <3>2
  <2>3. from(n) = from(m)
    <3> HIDE DEF from
    <3> QED BY <1>8, <2>1, <2>2
  <2>4. n \in Int /\ m \in Int /\ i \in Int /\ Len(store) \in Int
        /\ n <= Len(store) /\ m <= Len(store)
    BY <1>2, <1>4
  <2> QED BY <2>3, <2>4
<1> QED BY <1>4, <1>6, <1>7, <1>8

LEMMA ReuseStep ==
  ASSUME CacheIInv, NEW key \in Keys, Commands!Reuse(key), UNCHANGED <<ran, now>>
  PROVE  CacheIInv' /\ DOMAIN issued' = DOMAIN issued
<1>1. /\ store' \in Seq(CacheEntry) /\ Len(store') = Len(store)
      /\ \A n \in DOMAIN store' : \E m \in DOMAIN store : store'[n] = store[m]
      /\ \A m \in DOMAIN store : \E n \in DOMAIN store' : store'[n] = store[m]
      /\ \A n, m \in DOMAIN store' : store'[n].key = store'[m].key => n = m
  BY ReuseKeepsIds
<1>2. UNCHANGED <<issued, forgotten, acknowledged, ran, now>>
  BY DEF Commands!Reuse
<1>3. ASSUME NEW i \in DOMAIN issued PROVE IsCached(i)'
  <2>1. IsCached(i)
    BY DEF CacheIInv
  <2> QED BY <1>1, <1>2, <2>1 DEF IsCached
<1>4. Commands!AcknowledgedOnce'
  BY <1>2 DEF CacheIInv, Commands!AcknowledgedOnce
<1>5. \A n \in DOMAIN store' : store'[n].id \in DOMAIN issued
  BY <1>1 DEF CacheIInv
<1> QED BY <1>1, <1>2, <1>3, <1>4, <1>5 DEF CacheIInv

LEMMA IssueStep ==
  ASSUME CacheIInv, NEW key \in Keys, Commands!Issue(key), UNCHANGED <<ran, now>>
  PROVE  CacheIInv' /\ DOMAIN issued \subseteq DOMAIN issued'
<1>30. PICK full \in BOOLEAN : full <=> Len(store) >= MaxSize
  OBVIOUS
<1>0. PICK kept, id, entry, last, size :
        /\ size = Len(store)
        /\ full <=> size >= MaxSize
        /\ kept = IF full THEN Tail(store) ELSE store
        /\ last = Len(issued)
        /\ id = last + 1
        /\ entry = [key |-> key, id |-> id, expires |-> now + Ttl]
  BY <1>30
<1>22. size \in Nat /\ MaxSize \in Nat \ {0} /\ last \in Nat /\ id = last + 1
  BY <1>0, CommandsAssumption DEF CacheIInv, Commands!ConstantsAssumption
<1>1. /\ ~ \E i \in DOMAIN store : store[i].key = key /\ Commands!Live(store[i])
      /\ store' = IF \E i \in DOMAIN kept : kept[i].key = key
                  THEN [i \in DOMAIN kept |-> IF kept[i].key = key THEN entry ELSE kept[i]]
                  ELSE Append(kept, entry)
      /\ issued' = Append(issued, [key |-> key, at |-> now])
      /\ acknowledged' = Append(acknowledged, 0)
      /\ forgotten' = forgotten \union
                        IF full /\ Commands!Live(store[1]) THEN {store[1].id} ELSE {}
  BY <1>0 DEF Commands!Issue
<1>2. /\ store \in Seq(CacheEntry) /\ Len(store) = size /\ DOMAIN store = 1..size
      /\ issued \in Seq(IssuedId) /\ last \in Nat /\ DOMAIN issued = 1..last
      /\ acknowledged \in Seq(Nat) /\ Len(acknowledged) = last
      /\ now \in Nat /\ Ttl \in Nat \ {0} /\ MaxSize \in Nat \ {0}
      /\ size <= MaxSize
  BY <1>0, CommandsAssumption DEF CacheIInv, Commands!ConstantsAssumption
<1>3. /\ issued' \in Seq(IssuedId) /\ Len(issued') = id /\ DOMAIN issued' = 1..id
      /\ issued'[id] = [key |-> key, at |-> now]
      /\ \A i \in 1..last : issued'[i] = issued[i]
  <2>1. [key |-> key, at |-> now] \in IssuedId
    BY <1>2 DEF IssuedId
  <2> QED BY <1>0, <1>1, <1>2, <2>1, AppendProperties
<1>4. /\ acknowledged' \in Seq(Nat) /\ Len(acknowledged') = id
      /\ acknowledged'[id] = 0
      /\ \A i \in 1..last : acknowledged'[i] = acknowledged[i]
  BY <1>0, <1>1, <1>2, AppendProperties
<1>5. entry \in CacheEntry /\ entry.key = key /\ entry.id = id /\ entry.expires = now + Ttl
  BY <1>0, <1>2 DEF CacheEntry
(* What is kept of the cache.                                              *)
<1>6. PICK shift \in {0, 1} :
        /\ shift = (IF full THEN 1 ELSE 0)
        /\ kept \in Seq(CacheEntry) /\ Len(kept) = size - shift
        /\ \A n \in 1..(size - shift) : kept[n] = store[n + shift]
  <2>1. CASE full
    <3>1. size > 0
      BY <1>0, <1>22, <2>1
    <3>3. store # <<>>
      BY <1>2, <3>1
    <3>2. /\ Tail(store) \in Seq(CacheEntry) /\ Len(Tail(store)) = size - 1
          /\ \A n \in 1..Len(Tail(store)) : Tail(store)[n] = store[n + 1]
      BY <1>2, <3>3, HeadTailProperties
    <3> QED BY <1>0, <2>1, <3>2
  <2>2. CASE ~full
    BY <1>0, <1>2, <2>2
  <2> QED BY <2>1, <2>2
<1>7. Len(kept) \in Nat /\ DOMAIN kept = 1..Len(kept) /\ Len(kept) < MaxSize
  <2>1. Len(kept) = size - shift /\ size <= MaxSize /\ (shift = 0 => size < MaxSize)
        /\ (shift = 1 => size > 0)
    BY <1>0, <1>2, <1>6, <1>22
  <2>2. Len(kept) < MaxSize
    BY <1>22, <2>1
  <2> QED BY <1>6, <2>2
<1>8. \A n \in DOMAIN kept : n + shift \in DOMAIN store /\ kept[n] = store[n + shift]
  <2>1. \A n \in 1..(size - shift) : n + shift \in 1..size
    BY <1>22
  <2> QED BY <1>2, <1>6, <1>7, <2>1
<1>9. \A n, m \in DOMAIN kept : kept[n].key = kept[m].key => n = m
  <2>1. \A n, m \in DOMAIN store : store[n].key = store[m].key => n = m
    BY DEF CacheIInv
  <2>2. \A n, m \in DOMAIN kept : n + shift = m + shift => n = m
    BY <1>7
  <2> QED BY <1>8, <2>1, <2>2
<1>10. \A m \in DOMAIN store : m \notin 1..shift => \E n \in DOMAIN kept : kept[n] = store[m]
  <2>1. ASSUME NEW m \in DOMAIN store, m \notin 1..shift
        PROVE  m - shift \in DOMAIN kept /\ kept[m - shift] = store[m]
    <3>1. m - shift \in 1..(size - shift) /\ (m - shift) + shift = m
      BY <1>2, <2>1
    <3> QED BY <1>6, <1>7, <3>1
  <2> QED BY <2>1
(* What the cache is then.                                                 *)
<1>11. /\ store' \in Seq(CacheEntry) /\ Len(store') <= MaxSize
       /\ \A n \in DOMAIN store' :
            store'[n] = entry \/ \E m \in DOMAIN kept : store'[n] = kept[m]
       /\ \A m \in DOMAIN kept : kept[m].key # key =>
            \E n \in DOMAIN store' : store'[n] = kept[m]
       /\ \E n \in DOMAIN store' : store'[n] = entry
       /\ \A n, m \in DOMAIN store' : store'[n].key = store'[m].key => n = m
  <2>1. CASE \E i \in DOMAIN kept : kept[i].key = key
    <3>1. store' = [i \in DOMAIN kept |-> IF kept[i].key = key THEN entry ELSE kept[i]]
      BY <1>1, <2>1
    <3>2. store' \in Seq(CacheEntry) /\ Len(store') = Len(kept) /\ DOMAIN store' = DOMAIN kept
      <4>1. \A i \in 1..Len(kept) : store'[i] \in CacheEntry
        BY <1>5, <1>6, <1>7, <3>1
      <4> QED BY <1>7, <3>1, <4>1, IsASeq
    <3>3. \A n \in DOMAIN kept : store'[n].key = kept[n].key
      BY <1>5, <3>1
    <3>4. /\ \A m \in DOMAIN kept : kept[m].key # key =>
                 \E n \in DOMAIN store' : store'[n] = kept[m]
          /\ \E n \in DOMAIN store' : store'[n] = entry
          /\ \A n \in DOMAIN store' :
               store'[n] = entry \/ \E m \in DOMAIN kept : store'[n] = kept[m]
      BY <2>1, <3>1, <3>2
    <3>5. \A n, m \in DOMAIN store' : store'[n].key = store'[m].key => n = m
      BY <1>9, <3>2, <3>3
    <3>6. Len(store') <= MaxSize
      BY <1>7, <1>22, <3>2
    <3> QED BY <3>2, <3>4, <3>5, <3>6
  <2>2. CASE ~ \E i \in DOMAIN kept : kept[i].key = key
    <3>1. /\ store' \in Seq(CacheEntry) /\ Len(store') = Len(kept) + 1
          /\ store'[Len(kept) + 1] = entry
          /\ \A n \in 1..Len(kept) : store'[n] = kept[n]
      <4>1. store' = Append(kept, entry)
        BY <1>1, <2>2
      <4> QED BY <1>5, <1>6, <4>1, AppendProperties
    <3>2. DOMAIN store' = DOMAIN kept \union {Len(kept) + 1}
      BY <1>7, <3>1
    <3>3. \A n \in DOMAIN kept : store'[n].key # key
      BY <1>7, <2>2, <3>1
    <3>4. Len(store') <= MaxSize
      BY <1>2, <1>7, <3>1
    <3> QED BY <1>5, <1>7, <1>9, <3>1, <3>2, <3>3, <3>4
  <2> QED BY <2>1, <2>2
<1>12. \A n \in DOMAIN store' : store'[n].id \in DOMAIN issued'
  <2>1. \A m \in DOMAIN kept : kept[m].id \in 1..last
    BY <1>2, <1>8 DEF CacheIInv
  <2>2. 1..last \subseteq 1..id /\ id \in 1..id
    BY <1>22
  <2> QED BY <1>3, <1>5, <1>11, <2>1, <2>2
<1>13. DOMAIN issued \subseteq DOMAIN issued' /\ DOMAIN issued' = DOMAIN issued \union {id}
       /\ id \notin DOMAIN issued
  BY <1>0, <1>2, <1>3
<1>14. ran' \union forgotten' \subseteq DOMAIN issued'
  <2>1. full => 1 \in DOMAIN store
    BY <1>0, <1>2
  <2>2. full => store[1].id \in DOMAIN issued
    BY <2>1 DEF CacheIInv
  <2> QED BY <1>1, <1>13, <2>2 DEF CacheIInv
<1>15. Commands!AcknowledgedOnce'
  <2>1. \A i \in 1..last : acknowledged[i] <= IF i \in ran THEN 1 ELSE 0
    BY <1>2 DEF CacheIInv, Commands!AcknowledgedOnce
  <2>2. \A i \in DOMAIN issued' : acknowledged'[i] <= IF i \in ran THEN 1 ELSE 0
    BY <1>2, <1>4, <1>13, <2>1
  <2> QED BY <2>2 DEF Commands!AcknowledgedOnce
(* An id that would still be asked for, if it was not dropped now, is one  *)
(* of another key.                                                         *)
<1>16. ASSUME NEW i \in DOMAIN issued, issued[i].at + Ttl > now, i \notin forgotten'
       PROVE  /\ issued[i].key # key
              /\ \E n \in DOMAIN kept :
                   kept[n] = [key |-> issued[i].key, id |-> i, expires |-> issued[i].at + Ttl]
  <2>1. PICK n \in DOMAIN store :
          store[n] = [key |-> issued[i].key, id |-> i, expires |-> issued[i].at + Ttl]
    BY <1>1, <1>16 DEF CacheIInv, IsCached
  <2>2. Commands!Live(store[n]) /\ store[n].key = issued[i].key /\ store[n].id = i
    BY <1>16, <2>1 DEF Commands!Live
  <2>3. n \notin 1..shift
    BY <1>1, <1>6, <1>16, <2>2
  <2> QED BY <1>1, <1>10, <2>1, <2>2, <2>3
<1>17. ASSUME NEW i \in DOMAIN issued' PROVE IsCached(i)'
  <2>1. CASE i = id
    BY <1>0, <1>3, <1>5, <1>11, <2>1 DEF IsCached
  <2>2. CASE i \in DOMAIN issued
    <3>1. issued'[i] = issued[i] /\ UNCHANGED now
      BY <1>2, <1>3, <2>2
    <3>2. ASSUME issued[i].at + Ttl > now, i \notin forgotten'
          PROVE  \E n \in DOMAIN store' :
                   store'[n] = [key |-> issued[i].key, id |-> i, expires |-> issued[i].at + Ttl]
      <4>1. PICK n \in DOMAIN kept :
              kept[n] = [key |-> issued[i].key, id |-> i, expires |-> issued[i].at + Ttl]
        BY <1>16, <2>2, <3>2
      <4>2. kept[n].key # key
        BY <1>16, <2>2, <3>2, <4>1
      <4> QED BY <1>11, <4>1, <4>2
    <3> QED BY <3>1, <3>2 DEF IsCached
  <2> QED BY <1>13, <2>1, <2>2
<1>18. ASSUME NEW i \in DOMAIN issued', NEW j \in DOMAIN issued', i < j,
              issued'[i].key = issued'[j].key, i \notin forgotten'
       PROVE  issued'[j].at >= issued'[i].at + Ttl
  <2>1. i \in DOMAIN issued
    BY <1>0, <1>2, <1>3, <1>18
  <2>2. CASE j = id
    <3>1. issued'[j].at = now /\ issued'[j].key = key /\ issued'[i] = issued[i]
      BY <1>2, <1>3, <2>1, <2>2
    <3>2. issued[i].at \in Nat
      <4>1. issued[i] \in IssuedId
        BY <1>2, <2>1
      <4> QED BY <4>1 DEF IssuedId
    <3> QED BY <1>2, <1>16, <1>18, <2>1, <3>1, <3>2
  <2>3. CASE j \in DOMAIN issued
    BY <1>1, <1>2, <1>3, <1>18, <2>1, <2>3 DEF CacheIInv
  <2> QED BY <1>13, <2>2, <2>3
<1>19. Len(acknowledged') = Len(issued')
  BY <1>3, <1>4
<1>20. now' \in Nat
  BY <1>2
<1>21. CacheIInv'
  BY <1>3, <1>4, <1>11, <1>12, <1>14, <1>15, <1>17, <1>18, <1>19, <1>20 DEF CacheIInv
<1> QED BY <1>13, <1>21

(* The call of a caller changes, and nothing is sent but its request.      *)
LEMMA CallChanges ==
  ASSUME CommandsIInv, CacheIInv', DOMAIN issued \subseteq DOMAIN issued',
         NEW c \in Callers, NEW new \in {Commands!Idle} \union Submission,
         submitting' = [submitting EXCEPT ![c] = new],
         new = Commands!Idle \/ new.id \in DOMAIN issued',
         \A r \in sent' : \/ r \in sent
                         \/ /\ r \in [caller : Callers, id : Nat \ {0}, attempt : Nat]
                            /\ r.id \in DOMAIN issued'
  PROVE  CommandsIInv'
<1>1. submitting' \in [Callers -> {Commands!Idle} \union Submission]
  BY DEF CommandsIInv
<1>2. \A d \in Callers : submitting'[d] # Commands!Idle => submitting'[d].id \in DOMAIN issued'
  BY DEF CommandsIInv
<1> QED BY <1>1, <1>2 DEF CommandsIInv

(* No call changes.                                                        *)
LEMMA CallsStay ==
  ASSUME CommandsIInv, CacheIInv', DOMAIN issued \subseteq DOMAIN issued',
         UNCHANGED submitting, sent' \subseteq sent
  PROVE  CommandsIInv'
  BY DEF CommandsIInv

LEMMA CacheStays ==
  ASSUME CacheIInv, UNCHANGED <<store, issued, forgotten, ran, acknowledged, now>>
  PROVE  CacheIInv' /\ DOMAIN issued' = DOMAIN issued
<1>1. \A i \in DOMAIN issued : IsCached(i)'
  BY DEF CacheIInv, IsCached
<1> QED BY <1>1 DEF CacheIInv, Commands!AcknowledgedOnce

LEMMA SubmissionsAreNotIdle ==
  /\ \A call \in Submission : call # Commands!Idle
  /\ Commands!Idle.step = "idle"
  BY DEF Submission, Commands!Idle

LEMMA SendsStep ==
  ASSUME CommandsIInv, CacheIInv', DOMAIN issued \subseteq DOMAIN issued',
         NEW c \in Callers, NEW key \in Keys, NEW id \in DOMAIN issued', NEW attempt \in Nat,
         Commands!Send(c, key, id, attempt)
  PROVE  CommandsIInv'
<1> DEFINE new == [step |-> "sent", key |-> key, id |-> id, attempt |-> attempt]
           request == [caller |-> c, id |-> id, attempt |-> attempt]
<1>1. id \in Nat \ {0}
  BY DEF CacheIInv
<1>2. new \in Submission /\ new.id = id
  BY <1>1 DEF Submission
<1>3. request \in [caller : Callers, id : Nat \ {0}, attempt : Nat] /\ request.id = id
  BY <1>1
<1>4. submitting' = [submitting EXCEPT ![c] = new] /\ sent' = sent \union {request}
  BY DEF Commands!Send
<1> HIDE DEF new, request
<1> QED BY <1>2, <1>3, <1>4, CallChanges

LEMMA SubmitStep ==
  ASSUME CommandsIInv, NEW c \in Callers, NEW key \in Keys, Commands!Submit(c, key)
  PROVE  CommandsIInv'
<1>1. CacheIInv' /\ DOMAIN issued \subseteq DOMAIN issued'
  BY ReuseStep, IssueStep DEF Commands!Submit, Commands!IdFor, CommandsIInv
<1>2. CASE UNCHANGED <<submitting, sent>>
  BY <1>1, <1>2, CallsStay
<1>3. CASE \E i \in DOMAIN store' :
             store'[i].key = key /\ Commands!Send(c, key, store'[i].id, 0)
  <2>1. PICK i \in DOMAIN store' : Commands!Send(c, key, store'[i].id, 0)
    BY <1>3
  <2>2. store'[i].id \in DOMAIN issued'
    BY <1>1 DEF CacheIInv
  <2> QED BY <1>1, <2>1, <2>2, SendsStep
<1> QED BY <1>2, <1>3 DEF Commands!Submit

LEMMA FetchEndsStep ==
  ASSUME CommandsIInv, NEW c \in Callers,
         Commands!FetchFails(c) \/ Commands!TimesOut(c)
  PROVE  CommandsIInv'
<1>1. CacheIInv' /\ DOMAIN issued' = DOMAIN issued
  BY CacheStays DEF CommandsIInv, Commands!FetchFails, Commands!TimesOut, Commands!cacheVars
<1>2. /\ submitting[c] \in Submission /\ submitting[c].id \in DOMAIN issued
      /\ UNCHANGED sent
  BY SubmissionsAreNotIdle
     DEF CommandsIInv, Commands!FetchFails, Commands!TimesOut, Commands!At
<1> DEFINE waiting == [submitting[c] EXCEPT !.step = "backoff"]
<1>3. waiting \in Submission /\ waiting.id = submitting[c].id
  BY <1>2 DEF Submission
<1>4. \/ submitting' = [submitting EXCEPT ![c] = Commands!Idle]
      \/ submitting' = [submitting EXCEPT ![c] = waiting]
  BY DEF Commands!FetchFails, Commands!TimesOut, Commands!Return
<1> HIDE DEF waiting
<1> QED BY <1>1, <1>2, <1>3, <1>4, CallChanges

LEMMA RetryStep ==
  ASSUME CommandsIInv, NEW c \in Callers, Commands!Retry(c)
  PROVE  CommandsIInv'
<1>1. CacheIInv' /\ DOMAIN issued' = DOMAIN issued
  BY CacheStays DEF CommandsIInv, Commands!Retry, Commands!cacheVars
<1>2. submitting[c] \in Submission /\ submitting[c].id \in DOMAIN issued
  BY SubmissionsAreNotIdle DEF CommandsIInv, Commands!Retry, Commands!At
<1>3. submitting[c].key \in Keys /\ submitting[c].attempt + 1 \in Nat
  BY <1>2 DEF Submission
<1> QED BY <1>1, <1>2, <1>3, SendsStep DEF Commands!Retry

(* The ledger runs an id it has not run, and perhaps is heard.             *)
LEMMA RunStep ==
  ASSUME CacheIInv, NEW id \in DOMAIN issued \ ran,
         UNCHANGED <<store, issued, forgotten, now>>, ran' = ran \union {id},
         \/ UNCHANGED acknowledged
         \/ acknowledged' = [acknowledged EXCEPT ![id] = @ + 1]
  PROVE  CacheIInv' /\ DOMAIN issued' = DOMAIN issued
<1>1. ASSUME NEW i \in DOMAIN issued PROVE IsCached(i)'
  BY DEF CacheIInv, IsCached
<1>2. /\ acknowledged \in Seq(Nat) /\ Len(acknowledged) = Len(issued)
      /\ DOMAIN acknowledged = DOMAIN issued
      /\ \A i \in DOMAIN issued : acknowledged[i] \in Nat
      /\ \A i \in DOMAIN issued : acknowledged[i] <= IF i \in ran THEN 1 ELSE 0
  BY DEF CacheIInv, Commands!AcknowledgedOnce
<1>3. acknowledged' \in Seq(Nat) /\ Len(acknowledged') = Len(issued)
  <2>1. CASE UNCHANGED acknowledged
    BY <1>2, <2>1
  <2>2. CASE acknowledged' = [acknowledged EXCEPT ![id] = acknowledged[id] + 1]
    <3>1. acknowledged[id] + 1 \in Nat /\ id \in 1..Len(acknowledged)
      BY <1>2
    <3>2. \A i \in 1..Len(acknowledged) : acknowledged'[i] \in Nat
      BY <1>2, <2>2, <3>1
    <3>3. acknowledged' \in Seq(Nat) /\ Len(acknowledged') = Len(acknowledged)
      BY <1>2, <2>2, <3>1, ExceptSeq
    <3> QED BY <1>2, <3>3
  <2> QED BY <2>1, <2>2
<1>4. ASSUME NEW i \in DOMAIN issued
      PROVE  acknowledged'[i] <= IF i \in ran' THEN 1 ELSE 0
  BY <1>2
<1>5. Commands!AcknowledgedOnce'
  BY <1>4 DEF Commands!AcknowledgedOnce
<1> QED BY <1>1, <1>3, <1>5 DEF CacheIInv

LEMMA ArriveStep ==
  ASSUME CommandsIInv, NEW r \in sent, Commands!Arrive(r) \/ Commands!Lost(r)
  PROVE  CommandsIInv'
<1>1. r.id \in DOMAIN issued /\ r.caller \in Callers /\ sent' \subseteq sent
  BY DEF CommandsIInv, Commands!Arrive, Commands!Lost
<1>2. CacheIInv' /\ DOMAIN issued' = DOMAIN issued
  <2>1. UNCHANGED <<store, issued, forgotten, now>>
    BY DEF Commands!Arrive, Commands!Lost, Commands!cacheVars
  <2>2. CASE UNCHANGED <<ran, acknowledged>>
    BY <2>1, <2>2, CacheStays DEF CommandsIInv
  <2>3. CASE /\ r.id \notin ran /\ ran' = ran \union {r.id}
             /\ \/ UNCHANGED acknowledged
                \/ acknowledged' = [acknowledged EXCEPT ![r.id] = @ + 1]
    BY <1>1, <2>1, <2>3, RunStep DEF CommandsIInv
  <2> QED BY <2>2, <2>3 DEF Commands!Arrive, Commands!Lost, Commands!Refused,
             Commands!Accepted, Commands!AcceptedUnheard
<1>3. \/ UNCHANGED submitting
      \/ submitting' = [submitting EXCEPT ![r.caller] = Commands!Idle]
  BY DEF Commands!Arrive, Commands!Lost, Commands!Refused, Commands!Accepted,
         Commands!AcceptedUnheard, Commands!Return
<1> QED BY <1>1, <1>2, <1>3, CallChanges, CallsStay

LEMMA ClockStep ==
  ASSUME CommandsIInv, Commands!Clock
  PROVE  CommandsIInv'
<1>1. now \in Nat /\ now' = now + 1 /\ Ttl \in Nat
  BY CommandsAssumption DEF Commands!Clock, CommandsIInv, CacheIInv, Commands!ConstantsAssumption
<1>2. UNCHANGED <<store, issued, forgotten, submitting, sent, ran, acknowledged>>
  BY DEF Commands!Clock, Commands!cacheVars, Commands!callVars
<1>3. ASSUME NEW i \in DOMAIN issued PROVE IsCached(i)'
  <2>1. issued[i] \in IssuedId /\ IsCached(i)
    BY DEF CommandsIInv, CacheIInv
  <2>2. issued[i].at \in Nat
    BY <2>1 DEF IssuedId
  <2> QED BY <1>1, <1>2, <2>1, <2>2 DEF IsCached
<1>4. CacheIInv'
  BY <1>1, <1>2, <1>3 DEF CommandsIInv, CacheIInv, Commands!AcknowledgedOnce
<1> QED BY <1>2, <1>4, CallsStay

LEMMA CommandsGoOn ==
  ASSUME CommandsIInv, [Commands!Next]_commandVars
  PROVE  CommandsIInv'
<1>1. CASE UNCHANGED commandVars
  <2>1. CacheIInv' /\ DOMAIN issued' = DOMAIN issued
    BY <1>1, CacheStays DEF CommandsIInv, commandVars
  <2> QED BY <1>1, <2>1, CallsStay DEF commandVars
<1>2. CASE Commands!Next
  BY <1>2, SubmitStep, FetchEndsStep, RetryStep, ArriveStep, ClockStep DEF Commands!Next
<1> QED BY <1>1, <1>2

LEMMA SubmissionsAreExactThen ==
  ASSUME CommandsIInv
  PROVE  Commands!TypeOK /\ Commands!SubmissionsAreExact
<1>1. /\ ran \subseteq DOMAIN issued
      /\ \A n \in DOMAIN store : store[n] \in CacheEntry /\ store[n].id \in DOMAIN issued
      /\ acknowledged \in [DOMAIN issued -> Nat]
  BY DEF CommandsIInv, CacheIInv
<1>2. Commands!RunsAreSpaced
  BY <1>1 DEF CommandsIInv, CacheIInv, Commands!RunsAreSpaced
<1>3. Commands!TypeOK
  BY <1>1 DEF CommandsIInv, CacheIInv, Commands!TypeOK, CacheEntry
<1> QED BY <1>2, <1>3 DEF CommandsIInv, CacheIInv, Commands!SubmissionsAreExact

(* A command is run once for as long as the cache promises, and of all the *)
(* calls that share one at most one is told that it succeeded, which it    *)
(* then did (command-dedup.ts and ledger.ts).                              *)
THEOREM SubmissionsExact == WritesSpec => []SubmissionsAreExact
<1>1. WritesInit => CommandsIInv
  BY CommandsStart DEF WritesInit
<1>2. CommandsIInv /\ [WritesNext]_writeVars => CommandsIInv'
  <2>1. [WritesNext]_writeVars => [Commands!Next]_commandVars
    BY DEF WritesNext, writeVars
  <2> QED BY <2>1, CommandsGoOn
<1>3. CommandsIInv => SubmissionsAreExact
  BY SubmissionsAreExactThen DEF SubmissionsAreExact
<1> QED BY <1>1, <1>2, <1>3, PTL DEF WritesSpec

---------------------------------------------------------------------------
(* The bridge.                                                             *)

LEMMA BridgeSums ==
  \A f, S : Bridges!SumFunctionOnSet(f, S) = SumFunctionOnSet(f, S)
BY Zenon DEF Bridges!SumFunctionOnSet, SumFunctionOnSet, Bridges!FoldFunctionOnSet,
             FoldFunctionOnSet, Bridges!MapThenFoldSet, MapThenFoldSet

DepositStates ==
  [status : {"unknown", "pending_approval", "awaiting_finality", "attested", "completed"},
   attestation : Nat]

WithdrawalStates ==
  [status : {"unknown", "pending", "burning"}, step : {"none", "select", "burn", "done"},
   selected : SUBSET Nat]

PollStates ==
  [step : {"idle", "query", "match"}, pending : SUBSET Deposits, found : SUBSET Nat]

BridgeHasTypes ==
  /\ Bridges!TypeOK
  /\ deposits \in [Deposits -> DepositStates]
  /\ withdrawals \in [Withdrawals -> WithdrawalStates]
  /\ polls \in [Polls -> PollStates]
  /\ claims \in [Deposits -> {"none", "mint"}]

(* A deposit that is attested or being claimed has its attestation, and one*)
(* that is completed was minted from an attestation of its own.            *)
DepositIsBacked(d) ==
  deposits[d].status \in {"attested", "completed"} \/ claims[d] = "mint" =>
    deposits[d].attestation \in DOMAIN attestations

(* The holdings selected for a burn cover it as long as they are there.    *)
WithdrawalIsBacked(w) ==
  /\ withdrawals[w].status = "burning" => w \in burned
  /\ withdrawals[w].step = "burn" => withdrawals[w].selected \subseteq DOMAIN wallet
  /\ withdrawals[w].step = "burn" /\ withdrawals[w].selected \subseteq Bridges!Usable =>
       LET hs == withdrawals[w].selected IN
       /\ Bridges!Funds(hs) >= Amount[w]
       /\ \A h \in hs : Bridges!Funds(hs \ {h}) < Amount[w]

BridgeIInv ==
  /\ BridgeHasTypes
  /\ Bridges!CompletedDepositsAreMinted
  /\ \A d \in Deposits : DepositIsBacked(d)
  /\ \A p \in Polls : polls[p].found \subseteq DOMAIN attestations
  /\ \A w \in Withdrawals : WithdrawalIsBacked(w)

LEMMA BridgeConstants ==
  /\ Deposits \subseteq Nat \ {0}
  /\ \A x \in Deposits \union Withdrawals : Amount[x] \in Nat \ {0}
  /\ Wallet \in Seq(Nat) /\ MaxRestarts \in Nat
<1>1. \A S : Bridges!Cardinality(S) = Cardinality(S) /\ (Bridges!IsFiniteSet(S) <=> IsFiniteSet(S))
  BY DEF Bridges!Cardinality, Cardinality, Bridges!IsFiniteSet, IsFiniteSet
<1>2. IsFiniteSet(Deposits) /\ Deposits = 1..Cardinality(Deposits)
  BY <1>1, BridgesAssumption DEF Bridges!ConstantsAssumption
<1>3. Cardinality(Deposits) \in Nat
  BY <1>2, FS_CardinalityType
<1> QED BY <1>2, <1>3, BridgesAssumption DEF Bridges!ConstantsAssumption

(* Steps that touch no deposit, no claim and no attestation, and steps that*)
(* touch no withdrawal and no holding.                                     *)
LEMMA DepositsStay ==
  ASSUME BridgeIInv, UNCHANGED <<deposits, claims, attestations, minted>>
  PROVE  /\ Bridges!CompletedDepositsAreMinted'
         /\ \A d \in Deposits : DepositIsBacked(d)'
  BY DEF BridgeIInv, Bridges!CompletedDepositsAreMinted, DepositIsBacked

LEMMA WithdrawalsStay ==
  ASSUME BridgeIInv, UNCHANGED <<withdrawals, wallet, burned>>
  PROVE  \A w \in Withdrawals : WithdrawalIsBacked(w)'
  BY DEF BridgeIInv, WithdrawalIsBacked, Bridges!Usable, Bridges!Funds

(* Holdings are only archived and added.                                   *)
LEMMA SelectionsStay ==
  ASSUME BridgeIInv, NEW w \in Withdrawals, withdrawals'[w] = withdrawals[w],
         burned \subseteq burned',
         \A h \in DOMAIN wallet : h \in DOMAIN wallet' /\ wallet'[h] \in {0, wallet[h]}
  PROVE  WithdrawalIsBacked(w)'
<1>1. WithdrawalIsBacked(w)
  BY DEF BridgeIInv
<1>2. CASE withdrawals[w].step = "burn" /\ withdrawals[w].selected \subseteq Bridges!Usable'
  <2>1. PICK hs : hs = withdrawals[w].selected
    OBVIOUS
  <2>2. hs \subseteq DOMAIN wallet
    BY <1>1, <1>2, <2>1 DEF WithdrawalIsBacked
  <2>3. \A h \in hs : wallet'[h] = wallet[h] /\ wallet'[h] > 0
    BY <1>2, <2>1, <2>2 DEF Bridges!Usable
  <2>4. hs \subseteq Bridges!Usable
    BY <2>2, <2>3 DEF Bridges!Usable
  <2>5. \A s \in SUBSET hs : SumFunctionOnSet(wallet', s) = SumFunctionOnSet(wallet, s)
    BY <2>3, SumOfEqual
  <2>6. \A s \in SUBSET hs : Bridges!Funds(s)' = Bridges!Funds(s)
    BY <2>5, BridgeSums DEF Bridges!Funds
  <2> QED BY <1>1, <1>2, <2>1, <2>2, <2>4, <2>6 DEF WithdrawalIsBacked
<1>3. CASE ~ (withdrawals[w].step = "burn" /\ withdrawals[w].selected \subseteq Bridges!Usable')
  BY <1>1, <1>3 DEF WithdrawalIsBacked
<1> QED BY <1>2, <1>3

LEMMA BridgeStart ==
  ASSUME Bridges!Init
  PROVE  BridgeIInv
<1>1. BridgeHasTypes
  BY BridgeConstants DEF Bridges!Init, BridgeHasTypes, Bridges!TypeOK, DepositStates,
     WithdrawalStates, PollStates, Bridges!Unknown, Bridges!NoPoll, Bridges!NoRequest,
     Bridges!None
<1>2. \A w \in Withdrawals : WithdrawalIsBacked(w)
  BY DEF Bridges!Init, WithdrawalIsBacked, Bridges!NoRequest
<1>3. \A d \in Deposits : DepositIsBacked(d) /\ deposits[d].status = "unknown"
  BY DEF Bridges!Init, DepositIsBacked, Bridges!Unknown
<1>4. \A p \in Polls : polls[p].found = {}
  BY DEF Bridges!Init, Bridges!NoPoll
<1> QED BY <1>1, <1>2, <1>3, <1>4 DEF BridgeIInv, Bridges!CompletedDepositsAreMinted

(* What is external, and the steps of the polls that match nothing.        *)
LEMMA AgreementStep ==
  ASSUME BridgeIInv, Bridges!Onboard \/ Bridges!OperatorAccepts
  PROVE  BridgeIInv'
<1>1. /\ UNCHANGED <<attestations, minted, wallet, burned, deposits, withdrawals, claims,
                     polls, created>>
      /\ agreement' \in {"none", "requested", "agreed"}
  BY DEF Bridges!Onboard, Bridges!OperatorAccepts
<1>2. BridgeHasTypes'
  BY <1>1 DEF BridgeIInv, BridgeHasTypes, Bridges!TypeOK
<1> QED BY <1>1, <1>2, DepositsStay, WithdrawalsStay DEF BridgeIInv

LEMMA AttestStep ==
  ASSUME BridgeIInv, NEW d \in Deposits, Bridges!OperatorAttests(d)
  PROVE  BridgeIInv'
<1>1. /\ UNCHANGED <<agreement, minted, wallet, burned, deposits, withdrawals, claims,
                     polls, created>>
      /\ attestations' = Append(attestations, d)
  BY DEF Bridges!OperatorAttests
<1>2. attestations \in Seq(Deposits)
  BY DEF BridgeIInv, BridgeHasTypes, Bridges!TypeOK
<1>3. attestations' \in Seq(Deposits) /\ DOMAIN attestations \subseteq DOMAIN attestations'
  BY <1>1, <1>2, AppendProperties
<1>4. BridgeHasTypes'
  BY <1>1, <1>3 DEF BridgeIInv, BridgeHasTypes, Bridges!TypeOK
<1>5. /\ Bridges!CompletedDepositsAreMinted'
      /\ \A x \in Deposits : DepositIsBacked(x)'
      /\ \A p \in Polls : polls'[p].found \subseteq DOMAIN attestations'
  BY <1>1, <1>3 DEF BridgeIInv, Bridges!CompletedDepositsAreMinted, DepositIsBacked
<1> QED BY <1>1, <1>4, <1>5, WithdrawalsStay DEF BridgeIInv

(* The status of a deposit that is being made, or of which a transaction is*)
(* recorded.                                                               *)
LEMMA RecordStep ==
  ASSUME BridgeIInv, NEW d \in Deposits,
         UNCHANGED <<agreement, attestations, minted, wallet, burned, withdrawals, claims,
                     polls>>,
         created' \in {0} \union Deposits,
         NEW status \in {"pending_approval", "awaiting_finality"},
         deposits' = [deposits EXCEPT ![d].status = status]
  PROVE  BridgeIInv'
<1>1. deposits \in [Deposits -> DepositStates]
  BY DEF BridgeIInv, BridgeHasTypes
<1>2. /\ deposits' \in [Deposits -> DepositStates]
      /\ deposits'[d].status = status /\ deposits'[d].attestation = deposits[d].attestation
      /\ \A x \in Deposits \ {d} : deposits'[x] = deposits[x]
  BY <1>1 DEF DepositStates
<1>3. BridgeHasTypes'
  BY <1>2 DEF BridgeIInv, BridgeHasTypes, Bridges!TypeOK, DepositStates
<1>4. Bridges!CompletedDepositsAreMinted'
  BY <1>2 DEF BridgeIInv, Bridges!CompletedDepositsAreMinted
<1>5. \A x \in Deposits : DepositIsBacked(x)'
  BY <1>2 DEF BridgeIInv, DepositIsBacked
<1> QED BY <1>3, <1>4, <1>5, WithdrawalsStay DEF BridgeIInv

LEMMA DepositStep ==
  ASSUME BridgeIInv,
         \/ Bridges!CreateDeposit
         \/ \E d \in Deposits : Bridges!RecordBurnTx(d)
  PROVE  BridgeIInv'
<1>1. CASE Bridges!CreateDeposit
  <2>1. created + 1 \in Deposits /\ created' = created + 1
    BY <1>1 DEF Bridges!CreateDeposit
  <2>2. deposits' = [deposits EXCEPT ![created + 1].status = "pending_approval"]
    BY <1>1, <2>1 DEF Bridges!CreateDeposit
  <2>3. UNCHANGED <<agreement, attestations, minted, wallet, burned, withdrawals, claims, polls>>
    BY <1>1 DEF Bridges!CreateDeposit, Bridges!ledgerVars
  <2> QED BY <2>1, <2>2, <2>3, RecordStep
<1>2. CASE \E d \in Deposits : Bridges!RecordBurnTx(d)
  <2>1. PICK d \in Deposits : Bridges!RecordBurnTx(d)
    BY <1>2
  <2>2. created' \in {0} \union Deposits
    BY <2>1 DEF Bridges!RecordBurnTx, BridgeIInv, BridgeHasTypes, Bridges!TypeOK
  <2>3. UNCHANGED <<agreement, attestations, minted, wallet, burned, withdrawals, claims, polls>>
    BY <2>1 DEF Bridges!RecordBurnTx, Bridges!ledgerVars
  <2>4. deposits' = [deposits EXCEPT ![d].status = "awaiting_finality"]
    BY <2>1 DEF Bridges!RecordBurnTx
  <2> QED BY <2>2, <2>3, <2>4, RecordStep
<1> QED BY <1>1, <1>2

LEMMA PollStep ==
  ASSUME BridgeIInv, NEW p \in Polls, Bridges!StartPoll(p) \/ Bridges!QueryAttestations(p)
  PROVE  BridgeIInv'
<1>1. UNCHANGED <<agreement, attestations, minted, wallet, burned, deposits, withdrawals,
                  claims, created>>
  BY DEF Bridges!StartPoll, Bridges!QueryAttestations, Bridges!ledgerVars
<1>2. /\ polls \in [Polls -> PollStates]
      /\ \A q \in Polls : polls[q].found \subseteq DOMAIN attestations
      /\ DOMAIN attestations \subseteq Nat
  BY DEF BridgeIInv, BridgeHasTypes, Bridges!TypeOK
<1>3. /\ polls' \in [Polls -> PollStates]
      /\ \A q \in Polls : polls'[q].found \subseteq DOMAIN attestations
  <2>1. CASE Bridges!StartPoll(p)
    BY <1>2, <2>1 DEF Bridges!StartPoll, PollStates, Bridges!NoPoll
  <2>2. CASE Bridges!QueryAttestations(p)
    <3>1. PICK found \in {Bridges!Active, {}} :
            polls' = [polls EXCEPT ![p].step = "match", ![p].found = found]
      BY <2>2 DEF Bridges!QueryAttestations
    <3>2. found \subseteq DOMAIN attestations /\ found \subseteq Nat
      BY <1>2 DEF Bridges!Active
    <3> QED BY <1>2, <3>1, <3>2 DEF PollStates
  <2> QED BY <2>1, <2>2
<1>4. BridgeHasTypes'
  BY <1>1, <1>3 DEF BridgeIInv, BridgeHasTypes, Bridges!TypeOK
<1> QED BY <1>1, <1>3, <1>4, DepositsStay, WithdrawalsStay DEF BridgeIInv

(* The deposits after a poll: one that had no attestation may have got one *)
(* of those the poll has found.                                            *)
Attested(found) ==
  {ds \in [Deposits -> DepositStates] :
     \A d \in Deposits :
       \/ ds[d] = deposits[d]
       \/ /\ deposits[d].attestation = 0
          /\ ds[d].status = "attested" /\ ds[d].attestation \in found}

LEMMA LeastDeposit ==
  ASSUME NEW S \in SUBSET Deposits, S # {}
  PROVE  Bridges!Min(S) \in S
<1>1. S \subseteq Nat /\ \A x, y \in Nat : x <= y <=> x =< y
  BY BridgeConstants
<1>2. \E x \in S : \A y \in S : x <= y
  BY <1>1, LeastNatural
<1> QED BY <1>2 DEF Bridges!Min

LEMMA MarkAttestedStays ==
  ASSUME BridgeIInv, NEW waiting \in SUBSET Deposits, NEW found \in SUBSET DOMAIN attestations,
         NEW ds \in Attested(found), NEW a \in found
  PROVE  Bridges!MarkAttested(waiting, ds, a) \in Attested(found)
<1> DEFINE fit == {d \in waiting : Bridges!Matches(ds, d, a)}
           new == [status |-> "attested", attestation |-> a]
<1>1. CASE fit = {}
  BY <1>1 DEF Bridges!MarkAttested
<1>2. CASE fit # {}
  <2>1. PICK d \in fit : d = Bridges!Min(fit)
    BY <1>2, LeastDeposit
  <2>2. d \in Deposits /\ ds[d].attestation = 0
    BY <2>1 DEF Bridges!Matches, Bridges!None
  <2>3. a \in Nat \ {0}
    BY DEF BridgeIInv, BridgeHasTypes, Bridges!TypeOK
  <2>4. new \in DepositStates /\ new.status = "attested" /\ new.attestation = a
    BY <2>3 DEF DepositStates
  <2>5. \A x \in found : x # 0
    BY DEF BridgeIInv, BridgeHasTypes, Bridges!TypeOK
  <2>6. deposits[d].attestation = 0
    BY <2>2, <2>5 DEF Attested
  <2>7. Bridges!MarkAttested(waiting, ds, a) = [ds EXCEPT ![d] = new]
    BY <1>2, <2>1 DEF Bridges!MarkAttested
  <2> HIDE DEF new, fit
  <2>8. [ds EXCEPT ![d] = new] \in [Deposits -> DepositStates]
    BY <2>2, <2>4 DEF Attested
  <2>9. \A x \in Deposits : [ds EXCEPT ![d] = new][x] = IF x = d THEN new ELSE ds[x]
    BY DEF Attested
  <2> QED BY <2>2, <2>4, <2>6, <2>7, <2>8, <2>9 DEF Attested
<1> QED BY <1>1, <1>2

LEMMA MatchedDeposits ==
  ASSUME BridgeIInv, \E p \in Polls : Bridges!MatchAttestations(p)
  PROVE  \E p \in Polls : /\ deposits' \in Attested(polls[p].found)
                          /\ polls' = [polls EXCEPT ![p] = Bridges!NoPoll]
<1>0. PICK p \in Polls : Bridges!MatchAttestations(p)
  OBVIOUS
<1> DEFINE found == polls[p].found
           waiting == polls[p].pending
           D == Attested(found)
           c == [s \in SUBSET found |-> Bridges!Max(s)]
           M == [x \in found \X D |-> Bridges!MarkAttested(waiting, x[2], x[1])]
           Def(g) == [s \in SUBSET found |->
                        IF s = {} THEN deposits
                        ELSE Bridges!MarkAttested(waiting, g[s \ {Bridges!Max(s)}],
                                                  Bridges!Max(s))]
<1>1. /\ found \in SUBSET DOMAIN attestations /\ waiting \in SUBSET Deposits
      /\ deposits \in [Deposits -> DepositStates]
      /\ Len(attestations) \in Nat /\ DOMAIN attestations = 1..Len(attestations)
  BY DEF BridgeIInv, BridgeHasTypes, PollStates, Bridges!TypeOK
<1>2. IsFiniteSet(found)
  <2>1. IsFiniteSet(1..Len(attestations))
    BY <1>1, FS_Interval
  <2>2. found \in SUBSET (1..Len(attestations))
    BY <1>1
  <2> QED BY <2>1, <2>2, FS_Subset
<1>3. deposits \in D
  BY <1>1 DEF Attested
<1>4. \A s \in SUBSET found : s # {} => Bridges!Max(s) \in s /\ c[s] = Bridges!Max(s)
  <2>1. ASSUME NEW s \in SUBSET found, s # {} PROVE Bridges!Max(s) \in s
    <3>1. s \in SUBSET Int /\ \A x \in s : x <= Len(attestations)
      BY <1>1
    <3>2. PICK n \in Int : n = Len(attestations)
      <4>1. Len(attestations) \in Int
        BY <1>1
      <4> QED BY <4>1
    <3>3. \A x \in s : x <= n
      BY <3>1, <3>2
    <3>4. \E x \in s : \A y \in s : x >= y
      BY <2>1, <3>1, <3>3, GreatestBelow, Zenon
    <3> QED BY <3>4 DEF Bridges!Max
  <2> QED BY <2>1
<1>5. \A ds \in D, a \in found : Bridges!MarkAttested(waiting, ds, a) \in D
  BY <1>1, MarkAttestedStays
<1>6. M \in [found \X D -> D]
  <2> HIDE DEF found, waiting, D
  <2> QED BY <1>5
<1>7. PICK g \in [SUBSET found -> D] : Recursive(g, SUBSET found, deposits, c, M)
  <2>1. \A s \in SUBSET found : s # {} => c[s] \in s
    BY <1>4
  <2> HIDE DEF M, c, D, found
  <2> QED BY <1>2, <1>3, <1>6, <2>1, RecursiveFunctionExists, Zenon
<1>8. g = Def(g)
  <2>1. ASSUME NEW s \in SUBSET found, s # {}
        PROVE  M[<<c[s], g[s \ {c[s]}]>>] =
                 Bridges!MarkAttested(waiting, g[s \ {Bridges!Max(s)}], Bridges!Max(s))
    <3>1. c[s] = Bridges!Max(s) /\ c[s] \in found /\ s \ {c[s]} \in SUBSET found
      BY <1>4, <2>1
    <3>2. g[s \ {c[s]}] \in D
      BY <1>7, <3>1
    <3> HIDE DEF c, D, found, waiting
    <3> QED BY <3>1, <3>2
  <2> HIDE DEF M, c, D, found, waiting
  <2> QED BY <1>7, <2>1 DEF Recursive
<1>9. PICK h : h = Def(h) /\ h[found] = deposits'
  <2>1. (CHOOSE h : h = Def(h)) = Def(CHOOSE h : h = Def(h))
    <3> HIDE DEF Def
    <3> QED BY <1>8
  <2>2. deposits' = (CHOOSE h : h = Def(h))[found]
    BY <1>0, Zenon DEF Bridges!MatchAttestations, Bridges!MapThenFoldSet
  <2> QED BY <2>1, <2>2
<1>10. \A s \in SUBSET found : h[s] \in D
  <2> DEFINE T == {s \in SUBSET found : h[s] \in D}
  <2>1. ASSUME NEW s \in SUBSET found, \A t \in SUBSET s : t # s => t \in T
        PROVE  s \in T
    <3>1. h[s] = IF s = {} THEN deposits
                 ELSE Bridges!MarkAttested(waiting, h[s \ {Bridges!Max(s)}], Bridges!Max(s))
      <4> HIDE DEF found, waiting
      <4> QED BY <1>9
    <3>2. CASE s # {}
      <4>1. s \ {Bridges!Max(s)} \in T /\ Bridges!Max(s) \in found
        BY <1>4, <2>1, <3>2
      <4>2. h[s \ {Bridges!Max(s)}] \in D
        BY <4>1
      <4> HIDE DEF D, found, waiting
      <4> QED BY <1>5, <3>1, <3>2, <4>1, <4>2
    <3> HIDE DEF D, found, waiting
    <3> QED BY <1>3, <3>1, <3>2
  <2>2. \A s \in SUBSET found : s \in T
    <3> HIDE DEF T, found
    <3> QED BY <1>2, <2>1, SubsetInduction
  <2> QED BY <2>2
<1>11. deposits' \in Attested(polls[p].found)
  BY <1>9, <1>10
<1>12. polls' = [polls EXCEPT ![p] = Bridges!NoPoll]
  BY <1>0 DEF Bridges!MatchAttestations
<1> QED BY <1>11, <1>12

LEMMA AttestationsStep ==
  ASSUME BridgeIInv, \E p \in Polls : Bridges!MatchAttestations(p)
  PROVE  BridgeIInv'
<1>0. PICK p \in Polls : /\ deposits' \in Attested(polls[p].found)
                        /\ polls' = [polls EXCEPT ![p] = Bridges!NoPoll]
  BY MatchedDeposits
<1>1. UNCHANGED <<agreement, attestations, minted, wallet, burned, withdrawals, claims,
                  created>>
  BY DEF Bridges!MatchAttestations, Bridges!ledgerVars
<1>2. /\ polls \in [Polls -> PollStates]
      /\ \A q \in Polls : polls[q].found \subseteq DOMAIN attestations
      /\ DOMAIN attestations \subseteq Nat \ {0}
  BY DEF BridgeIInv, BridgeHasTypes, Bridges!TypeOK
<1>3. Bridges!NoPoll \in PollStates /\ Bridges!NoPoll.found = {}
  BY DEF Bridges!NoPoll, PollStates
<1>4. /\ polls' \in [Polls -> PollStates]
      /\ \A q \in Polls : polls'[q].found \subseteq DOMAIN attestations
  BY <1>0, <1>2, <1>3
<1>5. /\ deposits' \in [Deposits -> DepositStates]
      /\ \A d \in Deposits :
           \/ deposits'[d] = deposits[d]
           \/ /\ deposits[d].attestation = 0
              /\ deposits'[d].status = "attested"
              /\ deposits'[d].attestation \in DOMAIN attestations
  BY <1>0, <1>2 DEF Attested
<1>6. BridgeHasTypes'
  BY <1>1, <1>4, <1>5 DEF BridgeIInv, BridgeHasTypes, Bridges!TypeOK
<1>7. Bridges!CompletedDepositsAreMinted'
  BY <1>1, <1>5 DEF BridgeIInv, Bridges!CompletedDepositsAreMinted
<1>8. \A d \in Deposits : DepositIsBacked(d)'
  BY <1>1, <1>2, <1>5 DEF BridgeIInv, DepositIsBacked
<1> QED BY <1>1, <1>4, <1>6, <1>7, <1>8, WithdrawalsStay DEF BridgeIInv

LEMMA ClaimStep ==
  ASSUME BridgeIInv, NEW d \in Deposits, Bridges!Claim(d) \/ Bridges!MintFails(d)
  PROVE  BridgeIInv'
<1>1. UNCHANGED <<agreement, attestations, minted, wallet, burned, deposits, withdrawals,
                  polls, created>>
  BY DEF Bridges!Claim, Bridges!MintFails, Bridges!ledgerVars
<1>2. claims \in [Deposits -> {"none", "mint"}]
  BY DEF BridgeIInv, BridgeHasTypes
<1>3. /\ claims' \in [Deposits -> {"none", "mint"}]
      /\ \A x \in Deposits \ {d} : claims'[x] = claims[x]
      /\ claims'[d] = "mint" => deposits[d].status = "attested"
  BY <1>2 DEF Bridges!Claim, Bridges!MintFails
<1>4. BridgeHasTypes'
  BY <1>1, <1>3 DEF BridgeIInv, BridgeHasTypes, Bridges!TypeOK
<1>5. Bridges!CompletedDepositsAreMinted'
  BY <1>1 DEF BridgeIInv, Bridges!CompletedDepositsAreMinted
<1>6. \A x \in Deposits : DepositIsBacked(x)'
  BY <1>1, <1>3 DEF BridgeIInv, DepositIsBacked
<1> QED BY <1>1, <1>4, <1>5, <1>6, WithdrawalsStay DEF BridgeIInv

LEMMA MintStep ==
  ASSUME BridgeIInv, NEW d \in Deposits, Bridges!Mint(d)
  PROVE  BridgeIInv'
<1>1. PICK a : a = deposits[d].attestation
  OBVIOUS
<1>2. /\ UNCHANGED <<agreement, attestations, burned, withdrawals, polls, created>>
      /\ claims[d] = "mint" /\ claims' = [claims EXCEPT ![d] = "none"]
      /\ a \notin minted /\ minted' = minted \union {a}
      /\ wallet' = Append(wallet, Amount[attestations[a]])
      /\ \/ deposits' = [deposits EXCEPT ![d].status = "completed"]
         \/ deposits' = deposits
  BY <1>1 DEF Bridges!Mint, Bridges!MarkMinted
<1>3. /\ deposits \in [Deposits -> DepositStates] /\ claims \in [Deposits -> {"none", "mint"}]
      /\ attestations \in Seq(Deposits) /\ wallet \in Seq(Nat)
  BY DEF BridgeIInv, BridgeHasTypes, Bridges!TypeOK
<1>4. a \in DOMAIN attestations
  BY <1>1, <1>2 DEF BridgeIInv, DepositIsBacked
<1>5. Amount[attestations[a]] \in Nat
  <2>1. attestations[a] \in Deposits
    BY <1>3, <1>4
  <2> QED BY <2>1, BridgeConstants
<1>6. /\ wallet' \in Seq(Nat)
      /\ \A h \in DOMAIN wallet : h \in DOMAIN wallet' /\ wallet'[h] = wallet[h]
  BY <1>2, <1>3, <1>5, AppendProperties
<1>7. /\ deposits' \in [Deposits -> DepositStates] /\ claims' \in [Deposits -> {"none", "mint"}]
      /\ deposits'[d].attestation = a
      /\ \A x \in Deposits \ {d} : deposits'[x] = deposits[x]
      /\ \A x \in Deposits : claims'[x] = "mint" => claims[x] = "mint"
      /\ deposits'[d].status \in {deposits[d].status, "completed"}
  <2>1. CASE deposits' = [deposits EXCEPT ![d].status = "completed"]
    BY <1>1, <1>2, <1>3, <2>1 DEF DepositStates
  <2>2. CASE deposits' = deposits
    BY <1>1, <1>2, <1>3, <2>2
  <2> QED BY <1>2, <2>1, <2>2
<1>8. BridgeHasTypes'
  BY <1>2, <1>4, <1>6, <1>7 DEF BridgeIInv, BridgeHasTypes, Bridges!TypeOK, DepositStates,
     Bridges!None
<1>9. Bridges!CompletedDepositsAreMinted'
  BY <1>1, <1>2, <1>7 DEF BridgeIInv, Bridges!CompletedDepositsAreMinted
<1>10. \A x \in Deposits : DepositIsBacked(x)'
  BY <1>2, <1>4, <1>7 DEF BridgeIInv, DepositIsBacked
<1>11. \A w \in Withdrawals : WithdrawalIsBacked(w)'
  BY <1>2, <1>6, SelectionsStay
<1> QED BY <1>2, <1>8, <1>9, <1>10, <1>11 DEF BridgeIInv

(* The holdings selected cover the amount, and none of them is superfluous:*)
(* without the smallest they do not, and so without any other.             *)
LEMMA SelectionsAreTight ==
  ASSUME wallet \in Seq(Nat), NEW need \in Nat, NEW hs \in Bridges!Selections(need)
  PROVE  /\ hs \subseteq DOMAIN wallet /\ IsFiniteSet(hs)
         /\ Bridges!Funds(hs) >= need
         /\ \A h \in hs : Bridges!Funds(hs \ {h}) < need
<1>1. /\ hs \subseteq DOMAIN wallet /\ Bridges!Funds(hs) >= need
      /\ \E h \in hs : (\A k \in hs : wallet[h] <= wallet[k]) /\ Bridges!Funds(hs \ {h}) < need
  BY DEF Bridges!Selections, Bridges!Usable
<1>2. IsFiniteSet(hs) /\ \A h \in hs : wallet[h] \in Int
  <2>1. Len(wallet) \in Nat /\ DOMAIN wallet = 1..Len(wallet)
    OBVIOUS
  <2>2. IsFiniteSet(DOMAIN wallet)
    BY <2>1, FS_Interval
  <2>3. \A h \in hs : wallet[h] \in Int
    BY <1>1
  <2> QED BY <1>1, <2>2, <2>3, FS_Subset
<1>3. PICK h \in hs : (\A k \in hs : wallet[h] <= wallet[k]) /\ Bridges!Funds(hs \ {h}) < need
  BY <1>1
<1>4. ASSUME NEW k \in hs PROVE Bridges!Funds(hs \ {k}) < need
  <2>1. /\ Bridges!Funds(hs) = wallet[k] + Bridges!Funds(hs \ {k})
        /\ Bridges!Funds(hs) = wallet[h] + Bridges!Funds(hs \ {h})
    BY <1>2, SumSplits, BridgeSums DEF Bridges!Funds
  <2>2. \A s \in SUBSET hs : Bridges!Funds(s) \in Int
    <3>1. \A s \in SUBSET hs : IsFiniteSet(s)
      BY <1>2, FS_Subset
    <3> QED BY <1>2, <3>1, SumType, BridgeSums DEF Bridges!Funds
  <2>3. wallet[h] \in Int /\ wallet[k] \in Int /\ wallet[h] <= wallet[k]
    BY <1>2, <1>3
  <2>4. Bridges!Funds(hs \ {k}) \in Int /\ Bridges!Funds(hs \ {h}) \in Int
    BY <2>2
  <2> QED BY <1>3, <2>1, <2>3, <2>4
<1> QED BY <1>1, <1>2, <1>4

LEMMA RequestStep ==
  ASSUME BridgeIInv, NEW w \in Withdrawals,
         Bridges!CreateWithdrawal(w) \/ Bridges!SelectHoldings(w)
  PROVE  BridgeIInv'
<1>1. UNCHANGED <<agreement, attestations, minted, wallet, burned, deposits, claims, polls,
                  created>>
  BY DEF Bridges!CreateWithdrawal, Bridges!SelectHoldings, Bridges!ledgerVars
<1>2. withdrawals \in [Withdrawals -> WithdrawalStates] /\ wallet \in Seq(Nat)
  BY DEF BridgeIInv, BridgeHasTypes, Bridges!TypeOK
<1>3. \A h \in DOMAIN wallet : h \in DOMAIN wallet' /\ wallet'[h] = wallet[h]
  BY <1>1
<1>4. WithdrawalIsBacked(w)
  BY DEF BridgeIInv
<1>5. /\ withdrawals' \in [Withdrawals -> WithdrawalStates]
      /\ \A x \in Withdrawals \ {w} : withdrawals'[x] = withdrawals[x]
      /\ WithdrawalIsBacked(w)'
  <2>1. CASE Bridges!CreateWithdrawal(w)
    BY <1>2, <2>1 DEF Bridges!CreateWithdrawal, WithdrawalStates, WithdrawalIsBacked
  <2>2. CASE Bridges!SelectHoldings(w)
    <3>1. CASE Bridges!WithdrawalFails(w)
      BY <1>1, <1>2, <1>4, <2>2, <3>1 DEF Bridges!WithdrawalFails, WithdrawalStates,
         WithdrawalIsBacked
    <3>2. CASE ~ Bridges!WithdrawalFails(w)
      <4>1. PICK hs \in Bridges!Selections(Amount[w]) :
              withdrawals' = [withdrawals EXCEPT ![w].step = "burn", ![w].selected = hs]
        BY <2>2, <3>2 DEF Bridges!SelectHoldings
      <4>2. Amount[w] \in Nat
        BY BridgeConstants
      <4>3. /\ hs \subseteq DOMAIN wallet
            /\ Bridges!Funds(hs) >= Amount[w]
            /\ \A h \in hs : Bridges!Funds(hs \ {h}) < Amount[w]
        BY <1>2, <4>2, SelectionsAreTight
      <4>4. hs \in SUBSET Nat
        BY <1>2, <4>3
      <4>5. /\ withdrawals'[w].step = "burn" /\ withdrawals'[w].selected = hs
            /\ withdrawals'[w].status = withdrawals[w].status
            /\ \A x \in Withdrawals \ {w} : withdrawals'[x] = withdrawals[x]
            /\ withdrawals' \in [Withdrawals -> WithdrawalStates]
        <5> DEFINE r == [withdrawals[w] EXCEPT !.step = "burn", !.selected = hs]
        <5>1. withdrawals' = [withdrawals EXCEPT ![w] = r]
          BY <4>1
        <5>2. withdrawals[w] \in WithdrawalStates
          BY <1>2
        <5>3. /\ r \in WithdrawalStates /\ r.step = "burn" /\ r.selected = hs
              /\ r.status = withdrawals[w].status
          BY <4>4, <5>2 DEF WithdrawalStates
        <5> HIDE DEF r
        <5>4. withdrawals'[w] = r
          BY <1>2, <5>1
        <5>5. withdrawals' \in [Withdrawals -> WithdrawalStates]
          BY <1>2, <5>1, <5>3
        <5>6. \A x \in Withdrawals \ {w} : withdrawals'[x] = withdrawals[x]
          BY <1>2, <5>1
        <5> QED BY <5>3, <5>4, <5>5, <5>6
      <4>6. \A s : Bridges!Funds(s)' = Bridges!Funds(s)
        BY <1>1 DEF Bridges!Funds
      <4>7. WithdrawalIsBacked(w)'
        BY <1>1, <1>4, <4>3, <4>5, <4>6 DEF WithdrawalIsBacked
      <4> QED BY <4>5, <4>7
    <3> QED BY <3>1, <3>2
  <2> QED BY <2>1, <2>2
<1>6. \A x \in Withdrawals : WithdrawalIsBacked(x)'
  <2>1. ASSUME NEW x \in Withdrawals, x # w PROVE WithdrawalIsBacked(x)'
    BY <1>1, <1>3, <1>5, <2>1, SelectionsStay
  <2> QED BY <1>5, <2>1
<1>7. BridgeHasTypes'
  BY <1>1, <1>5 DEF BridgeIInv, BridgeHasTypes, Bridges!TypeOK, WithdrawalStates
<1> QED BY <1>1, <1>6, <1>7, DepositsStay DEF BridgeIInv

LEMMA BurnStep ==
  ASSUME BridgeIInv, NEW w \in Withdrawals, Bridges!Burn(w)
  PROVE  BridgeIInv'
<1>1. UNCHANGED <<agreement, attestations, minted, deposits, claims, polls, created>>
  BY DEF Bridges!Burn
<1>2. withdrawals \in [Withdrawals -> WithdrawalStates] /\ wallet \in Seq(Nat)
  BY DEF BridgeIInv, BridgeHasTypes, Bridges!TypeOK
<1>3. PICK hs : hs = withdrawals[w].selected
  OBVIOUS
<1>4. WithdrawalIsBacked(w) /\ withdrawals[w].step = "burn"
  BY DEF BridgeIInv, Bridges!Burn
<1>5. /\ wallet' \in Seq(Nat) /\ burned \subseteq burned' /\ burned' \subseteq burned \union {w}
      /\ \A h \in DOMAIN wallet : h \in DOMAIN wallet' /\ wallet'[h] \in {0, wallet[h]}
      /\ \/ Bridges!MarkWithdrawBurned(w) /\ w \in burned'
         \/ Bridges!WithdrawalFails(w)
  <2>1. CASE UNCHANGED <<wallet, burned>>
    BY <1>2, <2>1 DEF Bridges!Burn
  <2>2. CASE ~ UNCHANGED <<wallet, burned>>
    <3> DEFINE left == [h \in DOMAIN wallet |-> IF h \in hs THEN 0 ELSE wallet[h]]
               change == Bridges!Funds(hs) - Amount[w]
    <3>1. /\ hs \subseteq Bridges!Usable
          /\ wallet' = Append(left, change)
          /\ burned' = burned \union {w}
          /\ Bridges!MarkWithdrawBurned(w) \/ Bridges!WithdrawalFails(w)
      BY <1>3, <2>2 DEF Bridges!Burn
    <3>2. left \in Seq(Nat) /\ DOMAIN left = DOMAIN wallet
      <4>1. Len(wallet) \in Nat /\ DOMAIN wallet = 1..Len(wallet)
        BY <1>2
      <4>2. left \in [1..Len(wallet) -> Nat]
        BY <1>2, <4>1
      <4> QED BY <4>1, <4>2, IsASeq
    <3>3. change \in Nat
      <4>1. Bridges!Funds(hs) >= Amount[w] /\ hs \subseteq DOMAIN wallet
        BY <1>3, <1>4, <3>1 DEF WithdrawalIsBacked
      <4>2. IsFiniteSet(hs) /\ \A h \in hs : wallet[h] \in Int
        <5>1. Len(wallet) \in Nat /\ DOMAIN wallet = 1..Len(wallet)
          BY <1>2
        <5>2. IsFiniteSet(DOMAIN wallet)
          BY <5>1, FS_Interval
        <5>3. \A h \in hs : wallet[h] \in Int
          BY <1>2, <4>1
        <5> QED BY <4>1, <5>2, <5>3, FS_Subset
      <4>3. Bridges!Funds(hs) \in Int
        BY <4>2, SumType, BridgeSums DEF Bridges!Funds
      <4>4. Amount[w] \in Nat
        BY BridgeConstants
      <4> QED BY <4>1, <4>3, <4>4
    <3>4. \A h \in DOMAIN wallet : left[h] \in {0, wallet[h]}
      OBVIOUS
    <3> HIDE DEF left, change
    <3>5. /\ Append(left, change) \in Seq(Nat)
          /\ \A h \in DOMAIN left :
               h \in DOMAIN Append(left, change) /\ Append(left, change)[h] = left[h]
      BY <3>2, <3>3, AppendProperties
    <3> QED BY <3>1, <3>2, <3>4, <3>5
  <2> QED BY <2>1, <2>2
<1>6. /\ withdrawals' \in [Withdrawals -> WithdrawalStates]
      /\ \A x \in Withdrawals \ {w} : withdrawals'[x] = withdrawals[x]
      /\ WithdrawalIsBacked(w)'
  <2>1. CASE Bridges!MarkWithdrawBurned(w) /\ w \in burned'
    BY <1>2, <2>1 DEF Bridges!MarkWithdrawBurned, WithdrawalStates, WithdrawalIsBacked
  <2>2. CASE Bridges!WithdrawalFails(w)
    BY <1>2, <1>4, <1>5, <2>2 DEF Bridges!WithdrawalFails, WithdrawalStates,
       WithdrawalIsBacked
  <2> QED BY <1>5, <2>1, <2>2
<1>7. \A x \in Withdrawals : WithdrawalIsBacked(x)'
  <2>1. ASSUME NEW x \in Withdrawals, x # w PROVE WithdrawalIsBacked(x)'
    BY <1>5, <1>6, <2>1, SelectionsStay
  <2> QED BY <1>6, <2>1
<1>8. BridgeHasTypes'
  BY <1>1, <1>5, <1>6 DEF BridgeIInv, BridgeHasTypes, Bridges!TypeOK, WithdrawalStates
<1> QED BY <1>1, <1>7, <1>8, DepositsStay DEF BridgeIInv

LEMMA RestartStep ==
  ASSUME BridgeIInv, Bridges!Restart
  PROVE  BridgeIInv'
<1>1. /\ UNCHANGED <<agreement, attestations, minted, wallet, burned, created>>
      /\ deposits' = [d \in Deposits |-> Bridges!Unknown]
      /\ claims' = [d \in Deposits |-> "none"]
      /\ polls' = [p \in Polls |-> Bridges!NoPoll]
  BY DEF Bridges!Restart, Bridges!ledgerVars
<1>2. /\ withdrawals' \in [Withdrawals -> WithdrawalStates]
      /\ \A w \in Withdrawals : withdrawals'[w].status = "unknown" /\ withdrawals'[w].step # "burn"
  BY DEF Bridges!Restart, Bridges!NoRequest, WithdrawalStates
<1>3. BridgeHasTypes'
  BY <1>1, <1>2 DEF BridgeIInv, BridgeHasTypes, Bridges!TypeOK, DepositStates, PollStates,
     Bridges!Unknown, Bridges!NoPoll, Bridges!None, WithdrawalStates
<1>4. \A d \in Deposits : deposits'[d].status = "unknown" /\ claims'[d] = "none"
  BY <1>1 DEF Bridges!Unknown
<1>5. \A p \in Polls : polls'[p].found = {}
  BY <1>1 DEF Bridges!NoPoll
<1>6. Bridges!CompletedDepositsAreMinted' /\ \A d \in Deposits : DepositIsBacked(d)'
  BY <1>4 DEF Bridges!CompletedDepositsAreMinted, DepositIsBacked
<1>7. \A w \in Withdrawals : WithdrawalIsBacked(w)'
  BY <1>2 DEF WithdrawalIsBacked
<1> QED BY <1>3, <1>5, <1>6, <1>7 DEF BridgeIInv

LEMMA BridgeStays ==
  ASSUME BridgeIInv, UNCHANGED bridgeVars
  PROVE  BridgeIInv'
<1>1. UNCHANGED <<agreement, attestations, minted, wallet, burned, deposits, created,
                  withdrawals, claims, polls>>
  BY DEF bridgeVars
<1>2. BridgeHasTypes'
  BY <1>1 DEF BridgeIInv, BridgeHasTypes, Bridges!TypeOK
<1> QED BY <1>1, <1>2, DepositsStay, WithdrawalsStay DEF BridgeIInv

LEMMA BridgeGoesOn ==
  ASSUME BridgeIInv, [Bridges!Next]_bridgeVars
  PROVE  BridgeIInv'
<1>1. CASE Bridges!Onboard \/ Bridges!OperatorAccepts
  BY <1>1, AgreementStep
<1>2. CASE Bridges!CreateDeposit \/ \E d \in Deposits : Bridges!RecordBurnTx(d)
  BY <1>2, DepositStep
<1>3. CASE \E d \in Deposits : Bridges!OperatorAttests(d)
  BY <1>3, AttestStep
<1>4. CASE \E d \in Deposits : Bridges!Claim(d) \/ Bridges!MintFails(d)
  BY <1>4, ClaimStep
<1>5. CASE \E d \in Deposits : Bridges!Mint(d)
  BY <1>5, MintStep
<1>6. CASE \E p \in Polls : Bridges!StartPoll(p) \/ Bridges!QueryAttestations(p)
  BY <1>6, PollStep
<1>7. CASE \E p \in Polls : Bridges!MatchAttestations(p)
  BY <1>7, AttestationsStep
<1>8. CASE \E w \in Withdrawals : Bridges!CreateWithdrawal(w) \/ Bridges!SelectHoldings(w)
  BY <1>8, RequestStep
<1>9. CASE \E w \in Withdrawals : Bridges!Burn(w)
  BY <1>9, BurnStep
<1>10. CASE Bridges!Restart
  BY <1>10, RestartStep
<1>11. CASE UNCHANGED bridgeVars
  BY <1>11, BridgeStays
<1> QED BY <1>1, <1>2, <1>3, <1>4, <1>5, <1>6, <1>7, <1>8, <1>9, <1>10, <1>11
        DEF Bridges!Next

LEMMA BridgeIsBacked ==
  ASSUME BridgeIInv
  PROVE  StatusesAreBacked
  BY DEF BridgeIInv, StatusesAreBacked, Bridges!StatusesAreBacked,
         Bridges!BurnsAreCovered, WithdrawalIsBacked

(* What the bridge shows its users as completed was minted, from one       *)
(* attestation each, and what it shows as burning was burned from just the *)
(* holdings that it took (xreserve.ts and xreserve-client.ts).             *)
THEOREM BridgeBacked == WritesSpec => []StatusesAreBacked
<1>1. WritesInit => BridgeIInv
  BY BridgeStart DEF WritesInit
<1>2. BridgeIInv /\ [WritesNext]_writeVars => BridgeIInv'
  <2>1. [WritesNext]_writeVars => [Bridges!Next]_bridgeVars
    BY DEF WritesNext, writeVars
  <2> QED BY <2>1, BridgeGoesOn
<1>3. BridgeIInv => StatusesAreBacked
  BY BridgeIsBacked
<1> QED BY <1>1, <1>2, <1>3, PTL DEF WritesSpec

---------------------------------------------------------------------------
(* The plans of a rebalance.                                               *)

(* A wallet is as it was at first, or as one plan has left it.             *)
PlanIInv ==
  /\ holdings \in Orders /\ target \in Orders /\ rounds \in {0, 1}
  /\ \A a \in Assets : target[a] >= 0
  /\ rounds = 1 =>
       \E h \in Orders : /\ PlanSwapLegs(h, target) # <<>>
                         /\ holdings = ApplyLegs(h, PlanSwapLegs(h, target))

LEMMA PlansStart ==
  ASSUME Init
  PROVE  PlanIInv
<1>1. Total \in Nat /\ Slack \in Nat
  BY BoundsAssumption
<1>2. ASSUME NEW slack \in Nat, NEW v \in ValuesWithin(slack)
      PROVE  v \in Orders /\ \A a \in Assets : v[a] >= 0
  <2>1. v \in [Assets -> 0..(Total + slack)]
    BY DEF ValuesWithin
  <2>2. \A x \in 0..(Total + slack) : x \in Int /\ x >= 0
    BY <1>1
  <2> QED BY <2>1, <2>2 DEF Orders
<1>3. holdings \in ValuesWithin(0) /\ target \in ValuesWithin(Slack) /\ rounds = 0
  BY DEF Init, Portfolios, Wishes
<1> QED BY <1>1, <1>2, <1>3 DEF PlanIInv

LEMMA PlansGoOn ==
  ASSUME PlanIInv, [Next]_vars
  PROVE  PlanIInv'
<1>1. CASE Next
  <2>1. /\ rounds = 0 /\ rounds' = 1 /\ target' = target
        /\ PlanSwapLegs(holdings, target) # <<>>
        /\ holdings' = ApplyLegs(holdings, PlanSwapLegs(holdings, target))
    BY <1>1 DEF Next, Rebalance, Plan
  <2>2. holdings \in Orders /\ target \in Orders /\ \A a \in Assets : target[a] >= 0
    BY DEF PlanIInv
  <2>3. Settled(holdings', holdings, target)
    BY <2>1, <2>2, PlanSettles
  <2>4. holdings' \in Orders
    BY <2>3 DEF Settled
  <2> QED BY <2>1, <2>2, <2>4 DEF PlanIInv
<1>2. CASE UNCHANGED vars
  BY <1>2 DEF PlanIInv, vars
<1> QED BY <1>1, <1>2

LEMMA PlansOvershootNothing ==
  ASSUME PlanIInv
  PROVE  NeverOvershoots
<1>1. holdings \in Orders /\ target \in Orders /\ \A a \in Assets : target[a] >= 0
  BY DEF PlanIInv
<1>2. /\ \A a \in Assets : Sold(a) = SoldBy(Plan, a) /\ Bought(a) = BoughtBy(Plan, a)
      /\ Plan = PlanSwapLegs(holdings, target)
  BY DEF Sold, Bought, SoldBy, BoughtBy, Plan
<1>3. ASSUME NEW d \in Int
      PROVE  Max({0, d}) \in Int /\ Max({0, d}) >= 0 /\ Max({0, d}) >= d
  <2>1. Max({0, d}) = IF d >= 0 THEN d ELSE 0
    BY MaxOfTwo
  <2> QED BY <2>1
<1>4. ASSUME NEW done, NEW x \in Orders, NEW y \in Orders,
             WithinDue(done, Due(x, y), Overweight(x, y)), NEW a \in Assets
      PROVE  done[a] <= Max({0, x[a] - y[a]})
  <2>1. x[a] - y[a] \in Int /\ Due(x, y)[a] = x[a] - y[a] /\ done[a] \in Int
    BY <1>4, SidesAreSides DEF Orders, WithinDue
  <2>2. done[a] = 0 \/ done[a] <= x[a] - y[a]
    BY <1>4, <2>1 DEF WithinDue
  <2>3. PICK m \in Int : m = Max({0, x[a] - y[a]})
    BY <1>3, <2>1
  <2>4. m >= 0 /\ m >= x[a] - y[a]
    BY <1>3, <2>1, <2>3
  <2> QED BY <2>1, <2>2, <2>3, <2>4
<1>5. \A a \in Assets : holdings[a] - target[a] \in Int /\ target[a] - holdings[a] \in Int
  BY <1>1 DEF Orders
<1>6. CASE Plan = <<>>
  <2>1. \A a \in Assets : Sold(a) = 0 /\ Bought(a) = 0
    BY <1>2, <1>6, NoLegsSum
  <2> QED BY <1>3, <1>5, <2>1 DEF NeverOvershoots
<1>7. CASE Plan # <<>>
  <2>1. /\ WithinDue(SoldOf(Plan), Due(holdings, target), Overweight(holdings, target))
        /\ WithinDue(BoughtOf(Plan), Due(target, holdings), Overweight(target, holdings))
    BY <1>1, <1>2, <1>7, PlanSettles
  <2>2. \A a \in Assets : SoldOf(Plan)[a] = Sold(a) /\ BoughtOf(Plan)[a] = Bought(a)
    BY <1>2 DEF SoldOf, BoughtOf
  <2>3. \A a \in Assets : /\ SoldOf(Plan)[a] <= Max({0, holdings[a] - target[a]})
                          /\ BoughtOf(Plan)[a] <= Max({0, target[a] - holdings[a]})
    BY <1>1, <1>4, <2>1
  <2> QED BY <2>2, <2>3 DEF NeverOvershoots
<1> QED BY <1>6, <1>7

LEMMA PlansAreShort ==
  ASSUME PlanIInv
  PROVE  PlanIsShort
<1>1. holdings \in Orders /\ target \in Orders
  BY DEF PlanIInv
<1>2. /\ Plan # <<>> =>
           Len(Plan) < Len(Sells(holdings, target)) + Len(Buys(holdings, target))
      /\ \A k \in DOMAIN Plan : GoodLeg(Plan[k], holdings, target)
  BY <1>1, PlanIsWellFormed DEF Plan
<1> QED BY <1>2 DEF PlanIsShort, GoodLeg

LEMMA PlansSettle ==
  ASSUME PlanIInv
  PROVE  SettlesInOneRound /\ RebalanceReachesTarget
<1>1. CASE rounds = 1
  <2>1. PICK h \in Orders : /\ PlanSwapLegs(h, target) # <<>>
                            /\ holdings = ApplyLegs(h, PlanSwapLegs(h, target))
    BY <1>1 DEF PlanIInv
  <2>2. target \in Orders /\ \A a \in Assets : target[a] >= 0
    BY DEF PlanIInv
  <2>3. Settled(holdings, h, target)
    BY <2>1, <2>2, PlanSettles
  <2>4. SettlesInOneRound
    BY <2>2, <2>3, SettledPlansNothing DEF SettlesInOneRound, Plan
  <2>5. RebalanceReachesTarget
    BY <2>2, <2>3, SettledIsNear DEF RebalanceReachesTarget
  <2> QED BY <2>4, <2>5
<1>2. CASE rounds # 1
  BY <1>2 DEF SettlesInOneRound, RebalanceReachesTarget
<1> QED BY <1>1, <1>2

(* No plan trades more of an asset than it deviates from its target, each  *)
(* has fewer legs than assets to trade, and carrying one out leaves        *)
(* nothing to plan and, when the targets add up to the portfolio's value,  *)
(* every asset within what the planner ignores (planSwapLegs).             *)
THEOREM PlansStaySound == WritesSpec => []PlansAreSound
<1>1. WritesInit => PlanIInv
  BY PlansStart DEF WritesInit
<1>2. PlanIInv /\ [WritesNext]_writeVars => PlanIInv'
  <2>1. [WritesNext]_writeVars => [Next]_vars
    BY DEF WritesNext, writeVars
  <2> QED BY <2>1, PlansGoOn
<1>3. PlanIInv => PlansAreSound
  BY PlansOvershootNothing, PlansAreShort, PlansSettle DEF PlansAreSound
<1> QED BY <1>1, <1>2, <1>3, PTL DEF WritesSpec

---------------------------------------------------------------------------
(* The markers of the featured app.                                        *)

(* The markers that are still to be tried, when `at` of the array q were   *)
(* and those taken are in hand.                                            *)
Line(q, at, taken) ==
  {q[i] : i \in (at + 1)..Len(q)} \union {taken[i] : i \in 1..Len(taken)}

(* No marker is in the line twice, and what is taken was in the array.     *)
InOrder(q, at, taken) ==
  /\ q \in Seq(Activities) /\ taken \in Seq(Activities)
  /\ Len(q) <= Cap /\ at \in 0..Len(q) /\ Len(taken) <= at
  /\ \A i, j \in (at + 1)..Len(q) : q[i] = q[j] => i = j
  /\ \A i, j \in 1..Len(taken) : taken[i] = taken[j] => i = j
  /\ \A i \in (at + 1)..Len(q), j \in 1..Len(taken) : q[i] # taken[j]

LEMMA FeaturedConstants ==
  /\ Cap \in Nat \ {0} /\ MaxRetries \in Nat \ {0} /\ MaxConfigs \in Nat \ {0}
  /\ MaxCycles \in Nat
  /\ IsFiniteSet(Activities)
  /\ Activities \cap Retriers = {} /\ Activities \cap Admins = {} /\ Retriers \cap Admins = {}
<1>1. Featured!IsFiniteSet(Activities) <=> IsFiniteSet(Activities)
  BY DEF Featured!IsFiniteSet, IsFiniteSet
<1> QED BY <1>1, FeaturedAssumption DEF Featured!ConstantsAssumption

(* The array s is q with a at its end and without its first, or so.        *)
Shifted(q, a, longer, excess, s) ==
  /\ longer \in Seq(Activities) /\ Len(longer) = Len(q) + 1 /\ longer[Len(q) + 1] = a
  /\ \A i \in 1..Len(q) : longer[i] = q[i]
  /\ excess \in {0, 1}
  /\ s \in Seq(Activities) /\ Len(s) = Len(longer) - excess /\ Len(s) <= Cap
  /\ \A i \in 1..Len(s) : s[i] = longer[i + excess]

(* A marker that is pushed to the array joins the line, and the one that is*)
(* cut off in its place takes at most one from it.                         *)
LEMMA LineShifts ==
  ASSUME NEW q, NEW at, NEW taken, InOrder(q, at, taken),
         NEW a \in Activities, a \notin Line(q, at, taken),
         NEW longer, NEW excess, NEW s, Shifted(q, a, longer, excess, s)
  PROVE  /\ InOrder(s, at, taken)
         /\ Line(s, at, taken) \subseteq Line(q, at, taken) \union {a}
         /\ excess = 0 => Line(q, at, taken) \union {a} \subseteq Line(s, at, taken)
         /\ \E z : Line(q, at, taken) \union {a} \subseteq Line(s, at, taken) \union {z}
<1>1. /\ q \in Seq(Activities) /\ taken \in Seq(Activities)
      /\ Len(q) <= Cap /\ at \in 0..Len(q) /\ Len(taken) <= at
      /\ \A i, j \in (at + 1)..Len(q) : q[i] = q[j] => i = j
      /\ \A i, j \in 1..Len(taken) : taken[i] = taken[j] => i = j
      /\ \A i \in (at + 1)..Len(q), j \in 1..Len(taken) : q[i] # taken[j]
  BY DEF InOrder
<1>0. /\ longer \in Seq(Activities) /\ Len(longer) = Len(q) + 1 /\ longer[Len(q) + 1] = a
      /\ \A i \in 1..Len(q) : longer[i] = q[i]
      /\ excess \in {0, 1}
      /\ s \in Seq(Activities) /\ Len(s) = Len(longer) - excess /\ Len(s) <= Cap
      /\ \A i \in 1..Len(s) : s[i] = longer[i + excess]
  BY DEF Shifted
<1>2. Len(q) \in Nat /\ Len(s) \in Nat /\ Len(longer) \in Nat /\ at \in Nat
  BY <1>0, <1>1
<1>3. \A i \in (at + 1)..Len(q) :
        i \in 1..Len(q) /\ i \in (at + 1)..Len(longer) /\ longer[i] = q[i]
  BY <1>0, <1>1, <1>2
<1>4. \A i \in (at + 1)..Len(longer) : i \in (at + 1)..Len(q) \/ i = Len(q) + 1
  BY <1>0, <1>1, <1>2
<1>5. \A i \in (at + 1)..Len(q) : q[i] # a
  BY DEF Line
<1>6. \A i \in 1..Len(taken) : taken[i] # a
  BY DEF Line
<1>7. \A i, j \in (at + 1)..Len(longer) : longer[i] = longer[j] => i = j
  <2> TAKE i, j \in (at + 1)..Len(longer)
  <2>1. i \in (at + 1)..Len(q) /\ j \in (at + 1)..Len(q) => (longer[i] = longer[j] => i = j)
    BY <1>1, <1>3
  <2>2. i \in (at + 1)..Len(q) => longer[i] # a
    BY <1>3, <1>5
  <2>3. j \in (at + 1)..Len(q) => longer[j] # a
    BY <1>3, <1>5
  <2> QED BY <1>0, <1>4, <2>1, <2>2, <2>3
<1>8. \A i \in (at + 1)..Len(longer), j \in 1..Len(taken) : longer[i] # taken[j]
  BY <1>0, <1>1, <1>3, <1>4, <1>6
<1>9. \A i \in (at + 1)..Len(s) : i + excess \in (at + 1)..Len(longer) /\ s[i] = longer[i + excess]
  BY <1>0, <1>1, <1>2
<1>10. InOrder(s, at, taken)
  <2>1. ASSUME NEW i \in (at + 1)..Len(s), NEW j \in (at + 1)..Len(s), s[i] = s[j]
        PROVE  i = j
    <3>1. i + excess = j + excess
      BY <1>7, <1>9, <2>1
    <3> QED BY <1>0, <1>2, <3>1
  <2>2. ASSUME NEW i \in (at + 1)..Len(s), NEW j \in 1..Len(taken)
        PROVE  s[i] # taken[j]
    <3>1. i + excess \in (at + 1)..Len(longer) /\ s[i] = longer[i + excess]
      BY <1>9
    <3> QED BY <1>8, <3>1
  <2>3. at \in 0..Len(s)
    BY <1>0, <1>1, <1>2
  <2> QED BY <1>0, <1>1, <2>1, <2>2, <2>3 DEF InOrder
<1>11. {longer[i] : i \in (at + 1)..Len(longer)} = {q[i] : i \in (at + 1)..Len(q)} \union {a}
  <2>1. Len(q) + 1 \in (at + 1)..Len(longer)
    BY <1>0, <1>1, <1>2
  <2> QED BY <1>0, <1>3, <1>4, <2>1
<1>12. Line(longer, at, taken) = Line(q, at, taken) \union {a}
  BY <1>11 DEF Line
<1>13. Line(s, at, taken) \subseteq Line(longer, at, taken)
  <2>1. \A i \in (at + 1)..Len(s) : s[i] \in {longer[k] : k \in (at + 1)..Len(longer)}
    BY <1>9
  <2> QED BY <2>1 DEF Line
<1>14. \A i \in (at + 1 + excess)..Len(longer) :
         i \in (at + 1)..Len(longer) /\ longer[i] \in {s[k] : k \in (at + 1)..Len(s)}
  <2> TAKE i \in (at + 1 + excess)..Len(longer)
  <2>1. i \in (at + 1)..Len(longer) /\ i - excess \in (at + 1)..Len(s) /\ (i - excess) + excess = i
    BY <1>0, <1>2
  <2> QED BY <1>9, <2>1
<1>15. excess = 0 => Line(longer, at, taken) \subseteq Line(s, at, taken)
  <2>1. excess = 0 => at + 1 + excess = at + 1
    BY <1>0, <1>2
  <2> QED BY <1>14, <2>1 DEF Line
<1>16. Line(longer, at, taken) \subseteq Line(s, at, taken) \union {longer[at + 1]}
  <2>1. \A i \in (at + 1)..Len(longer) : i = at + 1 \/ i \in (at + 1 + excess)..Len(longer)
    BY <1>0, <1>2
  <2>2. \A i \in (at + 1)..Len(longer) :
          longer[i] \in {s[k] : k \in (at + 1)..Len(s)} \union {longer[at + 1]}
    BY <1>14, <2>1
  <2> QED BY <2>2 DEF Line
<1> QED BY <1>10, <1>12, <1>13, <1>15, <1>16

LEMMA RestOfSequence ==
  ASSUME NEW S, NEW u \in Seq(S), NEW e \in Nat, e <= Len(u)
  PROVE  /\ SubSeq(u, e + 1, Len(u)) \in Seq(S)
         /\ Len(SubSeq(u, e + 1, Len(u))) = Len(u) - e
         /\ \A i \in 1..(Len(u) - e) : SubSeq(u, e + 1, Len(u))[i] = u[i + e]
<1>1. \A i \in (e + 1)..Len(u) : u[i] \in S
  OBVIOUS
<1>2. e + 1 \in Int /\ Len(u) \in Int
  OBVIOUS
<1>3. /\ SubSeq(u, e + 1, Len(u)) \in Seq(S)
      /\ Len(SubSeq(u, e + 1, Len(u))) = IF e + 1 <= Len(u) THEN Len(u) - (e + 1) + 1 ELSE 0
      /\ \A i \in 1..(Len(u) - (e + 1) + 1) : SubSeq(u, e + 1, Len(u))[i] = u[(e + 1) + i - 1]
  BY <1>1, <1>2, SubSeqProperties
<1>4. Len(SubSeq(u, e + 1, Len(u))) = Len(u) - e
  BY <1>3
<1>5. ASSUME NEW i \in 1..(Len(u) - e) PROVE SubSeq(u, e + 1, Len(u))[i] = u[i + e]
  <2>1. i \in 1..(Len(u) - (e + 1) + 1) /\ (e + 1) + i - 1 = i + e
    BY <1>2
  <2> QED BY <1>3, <2>1
<1> QED BY <1>3, <1>4, <1>5

(* The array q becomes s when a is pushed to it and the oldest are cut off.*)
Pushed(q, a, excess, s) ==
  LET longer == Append(q, a) IN
  /\ excess = IF Len(longer) > Cap THEN Len(longer) - Cap ELSE 0
  /\ s = SubSeq(longer, excess + 1, Len(longer))

LEMMA MarkerJoinsLine ==
  ASSUME NEW q, NEW at, NEW taken, InOrder(q, at, taken),
         NEW a \in Activities, a \notin Line(q, at, taken),
         NEW excess, NEW s, Pushed(q, a, excess, s)
  PROVE  /\ InOrder(s, at, taken)
         /\ excess \in {0, 1}
         /\ Line(s, at, taken) \subseteq Line(q, at, taken) \union {a}
         /\ excess = 0 => Line(q, at, taken) \union {a} \subseteq Line(s, at, taken)
         /\ \E z : Line(q, at, taken) \union {a} \subseteq Line(s, at, taken) \union {z}
<1>1. q \in Seq(Activities) /\ Len(q) <= Cap /\ Len(q) \in Nat /\ Cap \in Nat
  BY FeaturedConstants DEF InOrder
<1>2. PICK longer : longer = Append(q, a)
  OBVIOUS
<1>3. /\ longer \in Seq(Activities) /\ Len(longer) = Len(q) + 1 /\ longer[Len(q) + 1] = a
      /\ \A i \in 1..Len(q) : longer[i] = q[i]
  BY <1>1, <1>2, AppendProperties
<1>4. excess \in {0, 1} /\ Len(longer) - excess <= Cap /\ excess \in Nat
      /\ excess <= Len(longer)
  BY <1>1, <1>2, <1>3 DEF Pushed
<1>5. s = SubSeq(longer, excess + 1, Len(longer))
  BY <1>2 DEF Pushed
<1>6. /\ SubSeq(longer, excess + 1, Len(longer)) \in Seq(Activities)
      /\ Len(SubSeq(longer, excess + 1, Len(longer))) = Len(longer) - excess
      /\ \A i \in 1..(Len(longer) - excess) :
           SubSeq(longer, excess + 1, Len(longer))[i] = longer[i + excess]
  BY <1>3, <1>4, RestOfSequence
<1>7. /\ s \in Seq(Activities) /\ Len(s) = Len(longer) - excess /\ Len(s) <= Cap
      /\ \A i \in 1..Len(s) : s[i] = longer[i + excess]
  BY <1>4, <1>5, <1>6
<1>8. /\ InOrder(s, at, taken)
      /\ Line(s, at, taken) \subseteq Line(q, at, taken) \union {a}
      /\ excess = 0 => Line(q, at, taken) \union {a} \subseteq Line(s, at, taken)
      /\ \E z : Line(q, at, taken) \union {a} \subseteq Line(s, at, taken) \union {z}
  <2>1. Shifted(q, a, longer, excess, s)
    BY <1>3, <1>4, <1>7 DEF Shifted
  <2> QED BY <2>1, LineShifts
<1> QED BY <1>4, <1>8

(* The next marker of the array is taken.                                  *)
TakesNext(q, at, taken, more) == more = Append(taken, q[at + 1])

LEMMA MarkerIsTaken ==
  ASSUME NEW q, NEW at, NEW taken, InOrder(q, at, taken), at < Len(q),
         NEW more, TakesNext(q, at, taken, more)
  PROVE  /\ InOrder(q, at + 1, more)
         /\ Line(q, at + 1, more) = Line(q, at, taken)
         /\ q[at + 1] \in Activities
<1>1. /\ q \in Seq(Activities) /\ taken \in Seq(Activities)
      /\ Len(q) <= Cap /\ at \in 0..Len(q) /\ Len(taken) <= at
      /\ \A i, j \in (at + 1)..Len(q) : q[i] = q[j] => i = j
      /\ \A i, j \in 1..Len(taken) : taken[i] = taken[j] => i = j
      /\ \A i \in (at + 1)..Len(q), j \in 1..Len(taken) : q[i] # taken[j]
  BY DEF InOrder
<1>2. at \in Nat /\ Len(q) \in Nat /\ Len(taken) \in Nat /\ at + 1 \in 1..Len(q)
      /\ at + 1 \in (at + 1)..Len(q)
  BY <1>1
<1>3. q[at + 1] \in Activities
  BY <1>1, <1>2
<1>4. /\ more \in Seq(Activities) /\ Len(more) = Len(taken) + 1
      /\ more[Len(taken) + 1] = q[at + 1]
      /\ \A i \in 1..Len(taken) : more[i] = taken[i]
  BY <1>1, <1>2, <1>3, AppendProperties DEF TakesNext
<1>5. \A i \in (at + 2)..Len(q) : i \in (at + 1)..Len(q) /\ i # at + 1
  BY <1>2
<1>6. \A i \in 1..Len(more) : i \in 1..Len(taken) \/ i = Len(taken) + 1
  BY <1>2, <1>4
<1>7. \A i, j \in 1..Len(more) : more[i] = more[j] => i = j
  BY <1>1, <1>2, <1>4, <1>6
<1>8. \A i \in (at + 2)..Len(q), j \in 1..Len(more) : q[i] # more[j]
  BY <1>1, <1>2, <1>4, <1>5, <1>6
<1>9. \A i, j \in (at + 2)..Len(q) : q[i] = q[j] => i = j
  BY <1>1, <1>5
<1>10. at + 1 + 1 = at + 2 /\ at + 1 \in 0..Len(q) /\ Len(more) <= at + 1
  BY <1>1, <1>2, <1>4
<1>11. InOrder(q, at + 1, more)
  BY <1>1, <1>4, <1>7, <1>8, <1>9, <1>10 DEF InOrder
<1>12. Line(q, at + 1, more) = Line(q, at, taken)
  <2>1. \A i \in (at + 1)..Len(q) : i = at + 1 \/ i \in (at + 2)..Len(q)
    BY <1>2
  <2>2. Len(taken) + 1 \in 1..Len(more) /\ \A i \in 1..Len(taken) : i \in 1..Len(more)
    BY <1>2, <1>4
  <2>3. {q[i] : i \in (at + 1)..Len(q)} = {q[at + 1]} \union {q[i] : i \in (at + 2)..Len(q)}
    BY <1>2, <1>5, <2>1
  <2>4. {more[i] : i \in 1..Len(more)} = {q[at + 1]} \union {taken[i] : i \in 1..Len(taken)}
    BY <1>4, <1>6, <2>2
  <2> QED BY <1>10, <2>3, <2>4 DEF Line
<1> QED BY <1>3, <1>11, <1>12

(* The marker that was tried last leaves the line.                         *)
LEMMA MarkerIsReleased ==
  ASSUME NEW q, NEW at, NEW rest \in Seq(Activities), NEW m \in Activities,
         InOrder(q, at, Append(rest, m))
  PROVE  /\ InOrder(q, at, rest)
         /\ m \notin Line(q, at, rest)
         /\ Line(q, at, Append(rest, m)) = Line(q, at, rest) \union {m}
<1> DEFINE taken == Append(rest, m)
<1>1. /\ Len(rest) \in Nat /\ Len(taken) = Len(rest) + 1 /\ taken[Len(rest) + 1] = m
      /\ \A i \in 1..Len(rest) : taken[i] = rest[i] /\ i \in 1..Len(taken) /\ i # Len(rest) + 1
      /\ Len(rest) + 1 \in 1..Len(taken)
      /\ \A i \in 1..Len(taken) : i \in 1..Len(rest) \/ i = Len(rest) + 1
  BY AppendProperties
<1>2. InOrder(q, at, taken)
  OBVIOUS
<1> HIDE DEF taken
<1>3. /\ q \in Seq(Activities) /\ Len(q) <= Cap /\ at \in 0..Len(q) /\ Len(taken) <= at
      /\ \A i, j \in (at + 1)..Len(q) : q[i] = q[j] => i = j
      /\ \A i, j \in 1..Len(taken) : taken[i] = taken[j] => i = j
      /\ \A i \in (at + 1)..Len(q), j \in 1..Len(taken) : q[i] # taken[j]
  BY <1>2 DEF InOrder
<1>4. /\ \A i, j \in 1..Len(rest) : rest[i] = rest[j] => i = j
      /\ \A i \in (at + 1)..Len(q), j \in 1..Len(rest) : q[i] # rest[j]
      /\ Len(rest) <= at
  BY <1>1, <1>3
<1>5. InOrder(q, at, rest)
  BY <1>3, <1>4 DEF InOrder
<1>6. m \notin Line(q, at, rest)
  BY <1>1, <1>3 DEF Line
<1>7. {taken[i] : i \in 1..Len(taken)} = {rest[i] : i \in 1..Len(rest)} \union {m}
  BY <1>1
<1>8. Line(q, at, taken) = Line(q, at, rest) \union {m}
  BY <1>7 DEF Line
<1> QED BY <1>5, <1>6, <1>8 DEF taken

(* What was taken is the new line, once all of the array has been tried.   *)
LEMMA LineIsReplaced ==
  ASSUME NEW q, NEW at, NEW taken, InOrder(q, at, taken), at + 1 > Len(q)
  PROVE  /\ InOrder(taken, 0, <<>>)
         /\ Line(taken, 0, <<>>) = Line(q, at, taken)
<1>1. /\ q \in Seq(Activities) /\ taken \in Seq(Activities)
      /\ Len(q) <= Cap /\ at \in 0..Len(q) /\ Len(taken) <= at
      /\ \A i, j \in 1..Len(taken) : taken[i] = taken[j] => i = j
  BY DEF InOrder
<1>2. Cap \in Nat /\ Len(q) \in Nat /\ Len(taken) \in Nat
  BY <1>1, FeaturedConstants
<1>3. (at + 1)..Len(q) = {} /\ (0 + 1) = 1 /\ Len(taken) <= Cap /\ 0 \in 0..Len(taken)
  BY <1>1, <1>2
<1>4. <<>> \in Seq(Activities) /\ Len(<<>>) = 0 /\ 1..0 = {}
  OBVIOUS
<1>5. InOrder(taken, 0, <<>>)
  BY <1>1, <1>3, <1>4 DEF InOrder
<1> QED BY <1>3, <1>4, <1>5 DEF Line

(* A set that gains at most one element has at most one element more.      *)
LEMMA OneMoreIsLost ==
  ASSUME NEW S \in SUBSET Activities, NEW T \in SUBSET Activities,
         NEW d \in Nat, Cardinality(S) <= d
  PROVE  /\ T \subseteq S => Cardinality(T) <= d
         /\ \A z : T \subseteq S \union {z} => Cardinality(T) <= d + 1
<1>1. IsFiniteSet(S) /\ IsFiniteSet(T) /\ Cardinality(S) \in Nat /\ Cardinality(T) \in Nat
  BY FeaturedConstants, FS_Subset, FS_CardinalityType
<1>2. T \subseteq S => Cardinality(T) <= Cardinality(S)
  BY <1>1, FS_Subset
<1>3. ASSUME NEW z, T \subseteq S \union {z} PROVE Cardinality(T) <= d + 1
  <2>1. IsFiniteSet(S \union {z}) /\ Cardinality(S \union {z}) <= Cardinality(S) + 1
        /\ Cardinality(S \union {z}) \in Nat
    <3>1. IsFiniteSet(S \union {z})
          /\ Cardinality(S \union {z}) = IF z \in S THEN Cardinality(S) ELSE Cardinality(S) + 1
      BY <1>1, FS_AddElement
    <3> QED BY <1>1, <3>1, FS_CardinalityType
  <2>2. Cardinality(T) <= Cardinality(S \union {z})
    BY <1>3, <2>1, FS_Subset
  <2> QED BY <1>1, <2>1, <2>2
<1> QED BY <1>1, <1>2, <1>3

---------------------------------------------------------------------------
(* The calls of the featured-app engine.                                   *)

Cid == [config : Nat, version : Nat]

MarkerCall ==
  [step : {"query", "absent", "found", "unknown", "exercise", "succeeded", "failed"},
   cid : Cid, marker : Activities \union Admins, array : Nat, at : Nat,
   remaining : Seq(Activities)]

(* What a call c of process p may be while there are the contracts ids and *)
(* the pending markers are the array top.                                  *)
CallFits(p, c, ids, top) ==
  /\ c \in {Featured!Waiting, Featured!Done} \union MarkerCall
  /\ c.step \in {"found", "exercise", "succeeded"} => c.cid.config \in ids
  /\ c \in MarkerCall =>
       IF p \in Retriers THEN c.marker \in Activities /\ c.array = top ELSE c.marker = p
  /\ p \in Retriers => c # Featured!Done

CallsFit ==
  /\ calls = [p \in Featured!Processes |-> calls[p]]
  /\ \A p \in Featured!Processes : CallFits(p, calls[p], DOMAIN configs, pending)

FeaturedHasTypes ==
  /\ configs \in Seq(Nat \ {0}) /\ Len(configs) <= MaxConfigs
  /\ cached \in Cid /\ (cached = Featured!None \/ cached.config \in DOMAIN configs)
  /\ heap \in Seq(Seq(Activities)) /\ Len(heap) >= 1 /\ pending = Len(heap)
  /\ recorded \in [Activities -> Nat]
  /\ retries \in [Activities -> Nat]
  /\ dropped \in Nat
  /\ unheard \subseteq Activities
  /\ CallsFit

LEMMA ProcessKinds ==
  Featured!Processes = Activities \union Retriers \union Admins
  BY DEF Featured!Processes

LEMMA CallKinds ==
  ASSUME NEW c
  PROVE  /\ c \in MarkerCall => c # Featured!Waiting /\ c # Featured!Done
                                /\ c.step \notin {"waiting", "done"}
         /\ c = Featured!Waiting => c.step = "waiting" /\ c # Featured!Done
         /\ c = Featured!Done => c.step = "done"
<1>1. Featured!Waiting.step = "waiting" /\ Featured!Done.step = "done"
  BY DEF Featured!Waiting, Featured!Done
<1>2. c \in MarkerCall => c.step \notin {"waiting", "done"}
  BY DEF MarkerCall
<1> QED BY <1>1, <1>2

(* One process goes on, and the others stay where they are.                *)
LEMMA OneGoesOn ==
  ASSUME CallsFit, NEW r, Retriers \subseteq {r},
         NEW p \in Featured!Processes, NEW c,
         calls' = [calls EXCEPT ![p] = c],
         DOMAIN configs \subseteq DOMAIN configs',
         CallFits(p, c, DOMAIN configs', pending'),
         pending' = pending \/ p \in Retriers
  PROVE  /\ CallsFit'
         /\ calls'[p] = c
         /\ \A q \in Featured!Processes : q # p => calls'[q] = calls[q]
<1>1. /\ calls = [q \in Featured!Processes |-> calls[q]]
      /\ \A q \in Featured!Processes : CallFits(q, calls[q], DOMAIN configs, pending)
  BY DEF CallsFit
<1>2. /\ calls' = [q \in Featured!Processes |-> calls'[q]]
      /\ calls'[p] = c
      /\ \A q \in Featured!Processes : q # p => calls'[q] = calls[q]
  BY <1>1
<1>3. ASSUME NEW q \in Featured!Processes, q # p
      PROVE  CallFits(q, calls[q], DOMAIN configs', pending')
  <2>1. CallFits(q, calls[q], DOMAIN configs, pending)
    BY <1>1
  <2>2. q \notin Retriers \/ pending' = pending
    BY <1>3
  <2> QED BY <2>1, <2>2 DEF CallFits
<1>4. ASSUME NEW q \in Featured!Processes
      PROVE  CallFits(q, calls'[q], DOMAIN configs', pending')
  BY <1>2, <1>3
<1>5. CallsFit'
  <2>1. ASSUME NEW q \in Featured!Processes
        PROVE  CallFits(q, calls[q], DOMAIN configs, pending)'
    <3>1. CallFits(q, calls'[q], DOMAIN configs', pending')
      BY <1>4
    <3> QED BY <3>1 DEF CallFits, Featured!Waiting, Featured!Done, MarkerCall, Cid
  <2> QED BY <1>2, <2>1 DEF CallsFit, Featured!Processes
<1> QED BY <1>2, <1>5

(* A new call asks for what it was made for.                               *)
AsksFor(w, m, array, at, rest) ==
  /\ w \in MarkerCall
  /\ w.marker = m /\ w.array = array /\ w.at = at /\ w.remaining = rest

LEMMA WorkingFits ==
  ASSUME NEW m \in Activities \union Admins, NEW array \in Nat, NEW at \in Nat,
         NEW rest \in Seq(Activities)
  PROVE  AsksFor(Featured!Working("query", m, array, at, rest), m, array, at, rest)
  BY DEF Featured!Working, MarkerCall, Featured!None, Cid, AsksFor

LEMMA RequestFits ==
  ASSUME NEW p, NEW c \in MarkerCall, NEW x, x = Featured!Request(c),
         cached' \in Cid, NEW ids, cached' = Featured!None \/ cached'.config \in ids,
         NEW top,
         IF p \in Retriers THEN c.marker \in Activities /\ c.array = top ELSE c.marker = p
  PROVE  /\ CallFits(p, x, ids, top)
         /\ x \in MarkerCall /\ x.step \in {"query", "exercise"}
         /\ x.marker = c.marker /\ x.array = c.array /\ x.at = c.at
         /\ x.remaining = c.remaining
<1>1. /\ x \in MarkerCall /\ x.step \in {"query", "exercise"}
      /\ x.marker = c.marker /\ x.array = c.array /\ x.at = c.at
      /\ x.remaining = c.remaining
      /\ x.step = "exercise" => x.cid = cached' /\ cached' # Featured!None
  <2>1. CASE cached' = Featured!None
    <3>1. PICK none \in Cid : none = Featured!None
      BY DEF Featured!None, Cid
    <3>2. x = [c EXCEPT !.step = "query", !.cid = none]
      BY <2>1, <3>1 DEF Featured!Request
    <3> QED BY <3>2 DEF MarkerCall
  <2>2. CASE cached' # Featured!None
    <3>1. x = [c EXCEPT !.step = "exercise", !.cid = cached']
      BY <2>2 DEF Featured!Request
    <3> QED BY <2>2, <3>1 DEF MarkerCall
  <2> QED BY <2>1, <2>2
<1> QED BY <1>1, CallKinds DEF CallFits

---------------------------------------------------------------------------
(* The line of the markers that are still to be tried, when the one process*)
(* that may be a retry cycle is r.                                         *)
Cycle(r) == IF r \in Retriers THEN calls[r] ELSE Featured!Waiting

Place(r) == IF Cycle(r) = Featured!Waiting THEN 0 ELSE Cycle(r).at

Taken(r) ==
  IF Cycle(r) = Featured!Waiting THEN <<>> ELSE Append(Cycle(r).remaining, Cycle(r).marker)

InLine(r) == Line(heap[pending], Place(r), Taken(r))

(* The cycle has recorded the marker a, and does not know yet.             *)
IsRecorded(r, a) == Cycle(r).step = "succeeded" /\ Cycle(r).marker = a

IsOpen(a) == calls[a].step \notin {"done", "succeeded"}

MayBeRecorded(r, a) == IsOpen(a) \/ (a \in InLine(r) /\ ~IsRecorded(r, a))

OutOfLine(r) ==
  {a \in Activities : calls[a] = Featured!Done /\ recorded[a] = 0 /\ a \notin InLine(r)}

MarkersFit(r) ==
  /\ InOrder(heap[pending], Place(r), Taken(r))
  /\ \A a \in InLine(r) : calls[a] = Featured!Done /\ retries[a] < MaxRetries
  /\ \A a \in Activities :
       /\ retries[a] <= MaxRetries
       /\ calls[a] # Featured!Done => retries[a] = 0
       /\ recorded[a] >= 1 /\ MayBeRecorded(r, a) => a \in unheard
       /\ recorded[a] > 1 => a \in unheard
  /\ \A p \in Activities \union Retriers :
       calls[p].step = "succeeded" => recorded[calls[p].marker] >= 1
  /\ Cardinality(OutOfLine(r)) <= dropped

LEMMA LineIsOfActivities ==
  ASSUME NEW q, NEW at, NEW taken, InOrder(q, at, taken)
  PROVE  Line(q, at, taken) \subseteq Activities
<1>1. /\ q \in Seq(Activities) /\ taken \in Seq(Activities) /\ at \in 0..Len(q)
  BY DEF InOrder
<1>2. \A i \in (at + 1)..Len(q) : i \in 1..Len(q)
  BY <1>1
<1> QED BY <1>1, <1>2 DEF Line

(* Steps that are none of the line's business.                             *)
LEMMA MarkersStay ==
  ASSUME NEW r, MarkersFit(r),
         UNCHANGED <<heap, pending, retries, dropped, unheard, recorded>>,
         Place(r)' = Place(r), Taken(r)' = Taken(r),
         \A a \in Activities : IsRecorded(r, a)' <=> IsRecorded(r, a),
         \A a \in Activities : /\ calls'[a] = Featured!Done <=> calls[a] = Featured!Done
                               /\ IsOpen(a)' <=> IsOpen(a),
         \A p \in Activities \union Retriers : calls'[p].step = "succeeded" =>
           calls[p].step = "succeeded" /\ calls'[p].marker = calls[p].marker
  PROVE  MarkersFit(r)'
<1>1. InLine(r)' = InLine(r)
  BY DEF InLine
<1>2. InLine(r) \subseteq Activities
  BY LineIsOfActivities DEF MarkersFit, InLine
<1>3. InOrder(heap[pending], Place(r), Taken(r))'
  BY DEF MarkersFit, InOrder
<1>4. \A a \in Activities : MayBeRecorded(r, a)' <=> MayBeRecorded(r, a)
  BY <1>1 DEF MayBeRecorded
<1>5. OutOfLine(r)' = OutOfLine(r)
  BY <1>1 DEF OutOfLine, Featured!Done
<1>6. \A a \in InLine(r)' : calls'[a] = Featured!Done /\ retries'[a] < MaxRetries
  BY <1>1, <1>2 DEF MarkersFit
<1>7. \A a \in Activities :
        /\ retries'[a] <= MaxRetries
        /\ calls'[a] # Featured!Done => retries'[a] = 0
        /\ recorded'[a] >= 1 /\ MayBeRecorded(r, a)' => a \in unheard'
        /\ recorded'[a] > 1 => a \in unheard'
  BY <1>4 DEF MarkersFit
<1>8. \A p \in Activities \union Retriers :
        calls'[p].step = "succeeded" => recorded'[calls'[p].marker] >= 1
  BY DEF MarkersFit
<1>9. Cardinality(OutOfLine(r)') <= dropped'
  BY <1>5 DEF MarkersFit
<1> QED BY <1>3, <1>6, <1>7, <1>8, <1>9 DEF MarkersFit, Featured!Done

(* A process at work has a call, and may change its step and its contract. *)
LEMMA AtWork ==
  ASSUME CallsFit, NEW p \in Featured!Processes,
         calls[p].step \notin {"waiting", "done"}
  PROVE  /\ calls[p] \in MarkerCall
         /\ CallFits(p, calls[p], DOMAIN configs, pending)
  BY CallKinds DEF CallsFit, CallFits

Moved(c, s, k) == [c EXCEPT !.step = s, !.cid = k]

LEMMA MovedFits ==
  ASSUME NEW p, NEW c \in MarkerCall, NEW ids, NEW others, NEW top, CallFits(p, c, others, top),
         NEW x \in MarkerCall, x.marker = c.marker, x.array = c.array,
         x.step \in {"found", "exercise", "succeeded"} => x.cid.config \in ids
  PROVE  CallFits(p, x, ids, top)
  BY CallKinds DEF CallFits

LEMMA StepAlone ==
  ASSUME NEW c \in MarkerCall, NEW s
  PROVE  [c EXCEPT !.step = s] = Moved(c, s, c.cid) /\ c.cid \in Cid
  BY DEF MarkerCall, Moved

(* Steps of the updates of the registration, and steps by which no marker  *)
(* is recorded, queued or given up.                                        *)
LEMMA OthersGoOn ==
  ASSUME FeaturedHasTypes, NEW r, Retriers \subseteq {r}, MarkersFit(r),
         UNCHANGED <<heap, pending, retries, dropped, unheard, recorded>>,
         NEW p \in Featured!Processes, NEW x, calls'[p] = x,
         \A q \in Featured!Processes : q # p => calls'[q] = calls[q],
         \/ p \in Admins
         \/ /\ calls[p] \in MarkerCall /\ x \in MarkerCall
            /\ calls[p].step # "succeeded" /\ x.step # "succeeded"
            /\ x.marker = calls[p].marker /\ x.at = calls[p].at
            /\ x.remaining = calls[p].remaining
         \/ /\ p \in Activities /\ calls[p] = Featured!Waiting
            /\ x \in MarkerCall /\ x.step # "succeeded"
  PROVE  MarkersFit(r)'
<1>1. /\ Activities \cap Retriers = {} /\ Activities \cap Admins = {} /\ Retriers \cap Admins = {}
      /\ Activities \subseteq Featured!Processes /\ Retriers \subseteq Featured!Processes
  BY FeaturedConstants, ProcessKinds
<1>2. Place(r)' = Place(r) /\ Taken(r)' = Taken(r)
      /\ \A a \in Activities : IsRecorded(r, a)' <=> IsRecorded(r, a)
  <2>1. CASE p \notin Retriers
    <3>1. Cycle(r)' = Cycle(r)
      BY <1>1, <2>1 DEF Cycle, Featured!Waiting
    <3> QED BY <3>1 DEF Place, Taken, IsRecorded, Featured!Waiting
  <2>2. CASE p \in Retriers
    <3>1. p = r /\ Cycle(r) = calls[p] /\ Cycle(r)' = x
      BY <2>2 DEF Cycle
    <3>2. /\ calls[p] \in MarkerCall /\ x \in MarkerCall
          /\ calls[p].step # "succeeded" /\ x.step # "succeeded"
          /\ x.marker = calls[p].marker /\ x.at = calls[p].at
          /\ x.remaining = calls[p].remaining
      BY <1>1, <2>2
    <3>3. calls[p] # Featured!Waiting /\ x # Featured!Waiting
      BY <3>2, CallKinds
    <3>4. Place(r) = calls[p].at /\ Taken(r) = Append(calls[p].remaining, calls[p].marker)
          /\ \A a : ~IsRecorded(r, a)
      BY <3>1, <3>2, <3>3 DEF Place, Taken, IsRecorded
    <3>5. Place(r)' = x.at /\ Taken(r)' = Append(x.remaining, x.marker)
          /\ \A a : ~IsRecorded(r, a)'
      BY <3>1, <3>2, <3>3 DEF Place, Taken, IsRecorded, Featured!Waiting
    <3> QED BY <3>2, <3>4, <3>5
  <2> QED BY <2>1, <2>2
<1>3. ASSUME NEW a \in Activities
      PROVE  /\ calls'[a] = Featured!Done <=> calls[a] = Featured!Done
             /\ IsOpen(a)' <=> IsOpen(a)
  BY <1>1, CallKinds DEF IsOpen
<1>4. ASSUME NEW q \in Activities \union Retriers, calls'[q].step = "succeeded"
      PROVE  calls[q].step = "succeeded" /\ calls'[q].marker = calls[q].marker
  BY <1>1, <1>4
<1> QED BY <1>2, <1>3, <1>4, MarkersStay

FeaturedIInv(r) == FeaturedHasTypes /\ MarkersFit(r)

LEMMA QueryConfigStep ==
  ASSUME NEW r, Retriers \subseteq {r}, FeaturedIInv(r),
         NEW p \in Featured!Processes,
         Featured!QueryConfig(p) \/ Featured!CreateConfig(p) \/ Featured!CreateFails(p)
         \/ Featured!ExerciseFails(p)
  PROVE  FeaturedIInv(r)'
<1>1. PICK c : c = calls[p]
  OBVIOUS
<1>2. c.step \in {"query", "absent", "exercise"}
  BY <1>1 DEF Featured!QueryConfig, Featured!CreateConfig, Featured!CreateFails,
              Featured!ExerciseFails, Featured!At
<1>3. FeaturedHasTypes /\ CallsFit
  BY DEF FeaturedIInv, FeaturedHasTypes
<1>4. c \in MarkerCall /\ CallFits(p, c, DOMAIN configs, pending)
  BY <1>1, <1>2, <1>3, AtWork
<1>6. UNCHANGED <<heap, pending, retries, dropped, unheard, recorded, cached>>
  BY DEF Featured!QueryConfig, Featured!CreateConfig, Featured!CreateFails,
         Featured!ExerciseFails, Featured!ledgerVars, Featured!queueVars
<1> DEFINE GoesTo(s, k) ==
             /\ s = "found" => k.config \in DOMAIN configs'
             /\ calls' = [calls EXCEPT ![p] = Moved(c, s, k)]
             /\ configs' \in Seq(Nat \ {0}) /\ Len(configs') <= MaxConfigs
             /\ DOMAIN configs \subseteq DOMAIN configs'
<1>7. PICK s \in {"absent", "found", "unknown", "failed"}, k \in Cid : GoesTo(s, k)
  <2>1. configs \in Seq(Nat \ {0}) /\ Len(configs) <= MaxConfigs /\ MaxConfigs \in Nat
    BY <1>3, FeaturedConstants DEF FeaturedHasTypes
  <2>2. ASSUME NEW s \in {"absent", "unknown", "failed"},
               calls' = [calls EXCEPT ![p] = [c EXCEPT !.step = s]], configs' = configs
        PROVE  GoesTo(s, c.cid) /\ c.cid \in Cid
    BY <1>4, <2>1, <2>2, StepAlone
  <2>3. CASE Featured!QueryConfig(p)
    <3>1. configs' = configs
      BY <2>3 DEF Featured!QueryConfig, Featured!ledgerVars
    <3>2. \/ calls' = [calls EXCEPT ![p] = [c EXCEPT !.step = "absent"]]
          \/ calls' = [calls EXCEPT ![p] = [c EXCEPT !.step = "unknown"]]
          \/ \E k \in DOMAIN configs :
               calls' = [calls EXCEPT
                          ![p] = Moved(c, "found", Featured!Current(k))]
      BY <1>1, <2>3 DEF Featured!QueryConfig, Featured!Goto, Moved
    <3>3. ASSUME NEW k \in DOMAIN configs
          PROVE  Featured!Current(k) \in Cid /\ Featured!Current(k).config = k
      BY <2>1 DEF Featured!Current, Cid
    <3>4. ASSUME NEW k \in DOMAIN configs,
                 calls' = [calls EXCEPT
                            ![p] = Moved(c, "found", Featured!Current(k))]
          PROVE  GoesTo("found", Featured!Current(k))
      BY <2>1, <3>1, <3>3, <3>4
    <3> HIDE DEF GoesTo
    <3> QED BY <2>2, <3>1, <3>2, <3>3, <3>4
  <2>4. CASE Featured!CreateConfig(p)
    <3>1. PICK n : n = Len(configs) + 1 /\ n \in Nat
      BY <2>1
    <3>2. configs' = Append(configs, 1) /\ Len(configs) < MaxConfigs
      BY <2>4 DEF Featured!CreateConfig
    <3>3. /\ configs' \in Seq(Nat \ {0}) /\ Len(configs') = n /\ n <= MaxConfigs
          /\ DOMAIN configs \subseteq DOMAIN configs' /\ n \in DOMAIN configs'
      BY <2>1, <3>1, <3>2, AppendProperties
    <3>4. PICK k : k = [config |-> n, version |-> 1]
      OBVIOUS
    <3>5. k \in Cid /\ k.config = n
      BY <3>1, <3>4 DEF Cid
    <3>6. calls' = [calls EXCEPT ![p] = Moved(c, "found", k)]
      BY <1>1, <2>4, <3>1, <3>4 DEF Featured!CreateConfig, Featured!Goto, Moved
    <3>7. GoesTo("found", k)
      BY <3>3, <3>5, <3>6
    <3> QED BY <3>5, <3>7
  <2>5. CASE Featured!CreateFails(p) \/ Featured!ExerciseFails(p)
    <3>1. /\ configs' = configs
          /\ \/ calls' = [calls EXCEPT ![p] = [c EXCEPT !.step = "unknown"]]
             \/ calls' = [calls EXCEPT ![p] = [c EXCEPT !.step = "failed"]]
      BY <1>1, <2>5
         DEF Featured!CreateFails, Featured!ExerciseFails, Featured!Goto, Featured!ledgerVars
    <3> HIDE DEF GoesTo
    <3> QED BY <2>2, <3>1
  <2> QED BY <2>3, <2>4, <2>5
<1>8. PICK x : x = Moved(c, s, k) /\ calls' = [calls EXCEPT ![p] = x]
  BY <1>7
<1>9. /\ x \in MarkerCall /\ CallFits(p, x, DOMAIN configs', pending)
      /\ x.step = s /\ x.marker = c.marker /\ x.at = c.at /\ x.remaining = c.remaining
  <2>1. s = "found" => k.config \in DOMAIN configs'
    BY <1>7
  <2>2. /\ x \in MarkerCall /\ x.step = s /\ x.cid = k
        /\ x.marker = c.marker /\ x.array = c.array
        /\ x.at = c.at /\ x.remaining = c.remaining
    <3>1. /\ s \in {"query", "absent", "found", "unknown", "exercise", "succeeded", "failed"}
          /\ k \in Cid /\ c \in MarkerCall
      BY <1>4, <1>7
    <3>2. x = [c EXCEPT !.step = s, !.cid = k]
      BY <1>8 DEF Moved
    <3> HIDE DEF GoesTo
    <3> QED BY <3>1, <3>2 DEF MarkerCall
  <2>3. x.step \in {"found", "exercise", "succeeded"} => x.cid.config \in DOMAIN configs'
    BY <1>7, <2>1, <2>2
  <2>4. CallFits(p, x, DOMAIN configs', pending)
    BY <1>4, <2>2, <2>3, MovedFits
  <2> QED BY <2>2, <2>4
<1>10. CallsFit' /\ calls'[p] = x /\ \A q \in Featured!Processes : q # p => calls'[q] = calls[q]
  BY <1>3, <1>6, <1>7, <1>8, <1>9, OneGoesOn
<1>11. FeaturedHasTypes'
  BY <1>3, <1>6, <1>7, <1>10 DEF FeaturedHasTypes, Featured!None
<1>12. MarkersFit(r)'
  BY <1>1, <1>2, <1>3, <1>4, <1>6, <1>7, <1>9, <1>10, OthersGoOn DEF FeaturedIInv
<1> QED BY <1>11, <1>12 DEF FeaturedIInv

LEMMA StepBy ==
  ASSUME NEW p, NEW c, CallFits(p, c, DOMAIN configs, pending), c \in MarkerCall
  PROVE  IF p \in Retriers THEN c.marker \in Activities /\ c.array = pending ELSE c.marker = p
  BY DEF CallFits

LEMMA InitializedStep ==
  ASSUME NEW r, Retriers \subseteq {r}, FeaturedIInv(r),
         NEW p \in Featured!Processes, Featured!Initialized(p)
  PROVE  FeaturedIInv(r)'
<1>1. FeaturedHasTypes /\ CallsFit /\ MarkersFit(r)
  BY DEF FeaturedIInv, FeaturedHasTypes
<1>2. PICK c : c = calls[p]
  OBVIOUS
<1>3. c.step = "found" /\ cached' = c.cid /\ calls' = [calls EXCEPT ![p] = Featured!Request(c)]
  BY <1>2 DEF Featured!Initialized, Featured!At, Featured!Goto
<1>4. UNCHANGED <<heap, pending, retries, dropped, unheard, recorded, configs>>
  BY DEF Featured!Initialized, Featured!ledgerVars, Featured!queueVars
<1>5. c \in MarkerCall /\ CallFits(p, c, DOMAIN configs, pending)
  BY <1>1, <1>2, <1>3, AtWork
<1>6. cached' \in Cid /\ cached'.config \in DOMAIN configs'
  BY <1>3, <1>4, <1>5 DEF CallFits, MarkerCall
<1>7. PICK x : x = Featured!Request(c)
  OBVIOUS
<1>8. /\ CallFits(p, x, DOMAIN configs', pending')
      /\ x \in MarkerCall /\ x.step \in {"query", "exercise"}
      /\ x.marker = c.marker /\ x.array = c.array /\ x.at = c.at
      /\ x.remaining = c.remaining
  BY <1>4, <1>5, <1>6, <1>7, StepBy, RequestFits
<1>9. CallsFit' /\ calls'[p] = x /\ \A q \in Featured!Processes : q # p => calls'[q] = calls[q]
  BY <1>1, <1>3, <1>4, <1>7, <1>8, OneGoesOn
<1>10. FeaturedHasTypes'
  BY <1>1, <1>4, <1>6, <1>9 DEF FeaturedHasTypes
<1>11. MarkersFit(r)'
  BY <1>1, <1>2, <1>3, <1>4, <1>5, <1>8, <1>9, OthersGoOn
<1> QED BY <1>10, <1>11 DEF FeaturedIInv

LEMMA AdoptStep ==
  ASSUME NEW r, Retriers \subseteq {r}, FeaturedIInv(r),
         NEW p \in Featured!Processes, Featured!Adopt(p)
  PROVE  FeaturedIInv(r)'
<1>1. FeaturedHasTypes /\ CallsFit /\ MarkersFit(r)
  BY DEF FeaturedIInv, FeaturedHasTypes
<1>2. PICK c : c = calls[p]
  OBVIOUS
<1>3. PICK x : x = [c EXCEPT !.step = "exercise", !.cid = cached]
  OBVIOUS
<1>4. c.step = "unknown" /\ cached # Featured!None /\ calls' = [calls EXCEPT ![p] = x]
  BY <1>2, <1>3 DEF Featured!Adopt, Featured!At, Featured!Goto
<1>5. UNCHANGED <<heap, pending, retries, dropped, unheard, recorded, configs, cached>>
  BY DEF Featured!Adopt, Featured!ledgerVars, Featured!queueVars
<1>6. c \in MarkerCall /\ CallFits(p, c, DOMAIN configs, pending)
  BY <1>1, <1>2, <1>4, AtWork
<1>7. cached \in Cid /\ cached.config \in DOMAIN configs
  BY <1>1, <1>4 DEF FeaturedHasTypes
<1>8. /\ x \in MarkerCall /\ x.step = "exercise" /\ x.cid = cached
      /\ x.marker = c.marker /\ x.array = c.array /\ x.at = c.at
      /\ x.remaining = c.remaining
  BY <1>3, <1>6, <1>7 DEF MarkerCall
<1>9. CallFits(p, x, DOMAIN configs', pending')
  BY <1>5, <1>6, <1>7, <1>8, MovedFits
<1>10. CallsFit' /\ calls'[p] = x /\ \A q \in Featured!Processes : q # p => calls'[q] = calls[q]
  BY <1>1, <1>4, <1>5, <1>9, OneGoesOn
<1>11. FeaturedHasTypes'
  BY <1>1, <1>5, <1>10 DEF FeaturedHasTypes, Featured!None
<1>12. MarkersFit(r)'
  BY <1>1, <1>2, <1>4, <1>5, <1>6, <1>8, <1>10, OthersGoOn
<1> QED BY <1>11, <1>12 DEF FeaturedIInv

LEMMA RecordActivityStep ==
  ASSUME NEW r, Retriers \subseteq {r}, FeaturedIInv(r),
         NEW p \in Featured!Processes, Featured!RecordActivity(p)
  PROVE  FeaturedIInv(r)'
<1>1. FeaturedHasTypes /\ CallsFit /\ MarkersFit(r)
  BY DEF FeaturedIInv, FeaturedHasTypes
<1>2. PICK c : c = Featured!Working("query", p, 0, 0, <<>>)
  OBVIOUS
<1>3. /\ p \in Activities \union Admins /\ calls[p] = Featured!Waiting
      /\ calls' = [calls EXCEPT ![p] = Featured!Request(c)]
  BY <1>2 DEF Featured!RecordActivity, Featured!Goto
<1>4. UNCHANGED <<heap, pending, retries, dropped, unheard, recorded, configs, cached>>
  BY DEF Featured!RecordActivity, Featured!ledgerVars, Featured!queueVars
<1>5. p \notin Retriers
  BY <1>3, FeaturedConstants
<1>6. c \in MarkerCall /\ c.marker = p
  <2>1. <<>> \in Seq(Activities) /\ 0 \in Nat
    OBVIOUS
  <2>2. AsksFor(Featured!Working("query", p, 0, 0, <<>>), p, 0, 0, <<>>)
    BY <1>3, <2>1, WorkingFits
  <2> QED BY <1>2, <2>2 DEF AsksFor
<1>7. cached' \in Cid /\ (cached' = Featured!None \/ cached'.config \in DOMAIN configs')
  BY <1>1, <1>4 DEF FeaturedHasTypes
<1>8. PICK x : x = Featured!Request(c)
  OBVIOUS
<1>9. /\ CallFits(p, x, DOMAIN configs', pending')
      /\ x \in MarkerCall /\ x.step \in {"query", "exercise"}
  BY <1>5, <1>6, <1>7, <1>8, RequestFits
<1>10. CallsFit' /\ calls'[p] = x /\ \A q \in Featured!Processes : q # p => calls'[q] = calls[q]
  BY <1>1, <1>3, <1>4, <1>8, <1>9, OneGoesOn
<1>11. FeaturedHasTypes'
  BY <1>1, <1>4, <1>10 DEF FeaturedHasTypes, Featured!None
<1>12. MarkersFit(r)'
  BY <1>1, <1>3, <1>4, <1>9, <1>10, OthersGoOn
<1> QED BY <1>11, <1>12 DEF FeaturedIInv

---------------------------------------------------------------------------
(* A marker is recorded.                                                   *)

LEMMA MarkerIsExercised ==
  ASSUME NEW r, Retriers \subseteq {r}, FeaturedIInv(r),
         NEW p \in Featured!Processes, Featured!Exercise(p)
  PROVE  FeaturedIInv(r)'
<1>1. FeaturedHasTypes /\ CallsFit /\ MarkersFit(r)
  BY DEF FeaturedIInv, FeaturedHasTypes
<1>2. PICK c : c = calls[p]
  OBVIOUS
<1>3. c.step = "exercise" /\ configs' = [configs EXCEPT ![c.cid.config] = @ + 1]
  BY <1>2 DEF Featured!Exercise, Featured!At
<1>4. UNCHANGED <<heap, pending, retries, dropped, cached>>
  BY DEF Featured!Exercise, Featured!queueVars
<1>5. c \in MarkerCall /\ CallFits(p, c, DOMAIN configs, pending)
  BY <1>1, <1>2, <1>3, AtWork
<1>6. /\ configs' \in Seq(Nat \ {0}) /\ Len(configs') <= MaxConfigs
      /\ DOMAIN configs' = DOMAIN configs
  <2>1. configs \in Seq(Nat \ {0}) /\ c.cid.config \in DOMAIN configs
    BY <1>1, <1>3, <1>5 DEF FeaturedHasTypes, CallFits
  <2>2. configs[c.cid.config] + 1 \in Nat \ {0}
    BY <2>1
  <2> QED BY <1>1, <1>3, <2>1, <2>2 DEF FeaturedHasTypes
<1>7. PICK k \in Cid : k = [c.cid EXCEPT !.version = @ + 1] /\ k.config = c.cid.config
  <2>1. c.cid \in Cid
    BY <1>5 DEF MarkerCall
  <2>2. [c.cid EXCEPT !.version = @ + 1] \in Cid
    BY <2>1 DEF Cid
  <2>3. [c.cid EXCEPT !.version = @ + 1].config = c.cid.config
    BY <2>1 DEF Cid
  <2> QED BY <2>2, <2>3
<1>8. PICK x : /\ calls' = [calls EXCEPT ![p] = x]
               /\ x \in MarkerCall /\ x.step \in {"succeeded", "failed"}
               /\ x.cid.config = c.cid.config
               /\ x.marker = c.marker /\ x.array = c.array /\ x.at = c.at
               /\ x.remaining = c.remaining
               /\ IF x.step = "succeeded" THEN unheard' = unheard
                  ELSE unheard' = unheard \union ({c.marker} \cap Activities)
  <2>1. CASE /\ calls' = [calls EXCEPT
                          ![p] = [c EXCEPT !.step = "succeeded", !.cid.version = @ + 1]]
             /\ unheard' = unheard
    <3>1. PICK x : x = [c EXCEPT !.step = "succeeded", !.cid = k]
      OBVIOUS
    <3>2. /\ x \in MarkerCall /\ x.step = "succeeded" /\ x.cid = k
          /\ x.marker = c.marker /\ x.array = c.array /\ x.at = c.at
          /\ x.remaining = c.remaining
      BY <1>5, <1>7, <3>1 DEF MarkerCall
    <3>3. [c EXCEPT !.step = "succeeded", !.cid.version = @ + 1] = x
      BY <1>5, <1>7, <3>1 DEF MarkerCall
    <3> QED BY <1>7, <2>1, <3>2, <3>3
  <2>2. CASE /\ calls' = [calls EXCEPT ![p] = [c EXCEPT !.step = "failed"]]
             /\ unheard' = unheard \union ({c.marker} \cap Activities)
    <3>1. PICK x : x = [c EXCEPT !.step = "failed"]
      OBVIOUS
    <3>2. /\ x \in MarkerCall /\ x.step = "failed" /\ x.cid = c.cid
          /\ x.marker = c.marker /\ x.array = c.array /\ x.at = c.at
          /\ x.remaining = c.remaining
      BY <1>5, <3>1 DEF MarkerCall
    <3> QED BY <2>2, <3>1, <3>2
  <2> QED BY <1>2, <2>1, <2>2 DEF Featured!Exercise, Featured!Goto
<1>9. CallFits(p, x, DOMAIN configs', pending')
  <2>1. x.cid.config \in DOMAIN configs'
    BY <1>3, <1>5, <1>6, <1>8 DEF CallFits
  <2> QED BY <1>4, <1>5, <1>8, <2>1, MovedFits
<1>10. CallsFit' /\ calls'[p] = x /\ \A q \in Featured!Processes : q # p => calls'[q] = calls[q]
  BY <1>1, <1>4, <1>6, <1>8, <1>9, OneGoesOn
<1>11. recorded' = IF p \in Admins THEN recorded
                   ELSE [recorded EXCEPT ![c.marker] = @ + 1]
  BY <1>2 DEF Featured!Exercise
<1>12. /\ Activities \cap Retriers = {} /\ Activities \cap Admins = {} /\ Retriers \cap Admins = {}
       /\ p \in Activities \union Retriers \union Admins
       /\ Activities \subseteq Featured!Processes /\ Retriers \subseteq Featured!Processes
  BY FeaturedConstants, ProcessKinds
<1>13. CASE p \in Admins
  <2>1. recorded' = recorded /\ c.marker = p /\ c.marker \notin Activities
    BY <1>5, <1>11, <1>12, <1>13, StepBy
  <2>2. unheard' = unheard
    BY <1>8, <2>1
  <2>3. FeaturedHasTypes'
    BY <1>1, <1>4, <1>6, <1>10, <2>1, <2>2 DEF FeaturedHasTypes, Featured!None
  <2>4. MarkersFit(r)'
    BY <1>1, <1>4, <1>10, <1>13, <2>1, <2>2, OthersGoOn
  <2> QED BY <2>3, <2>4 DEF FeaturedIInv
<1>14. CASE p \notin Admins
  <2>1. PICK m \in Activities : m = c.marker
    BY <1>5, <1>12, <1>14, StepBy
  <2>2. /\ recorded' \in [Activities -> Nat]
        /\ recorded[m] \in Nat /\ recorded'[m] = recorded[m] + 1
        /\ \A a \in Activities : a # m => recorded'[a] = recorded[a]
    BY <1>1, <1>11, <1>14, <2>1 DEF FeaturedHasTypes
  <2>3. /\ unheard' \subseteq Activities /\ unheard \subseteq unheard'
        /\ x.step = "failed" => m \in unheard'
    BY <1>1, <1>8, <2>1 DEF FeaturedHasTypes
  <2>4. FeaturedHasTypes'
    BY <1>1, <1>4, <1>6, <1>10, <2>2, <2>3 DEF FeaturedHasTypes, Featured!None
  <2>5. /\ Place(r)' = Place(r) /\ Taken(r)' = Taken(r)
        /\ p \notin Retriers => \A a : IsRecorded(r, a)' <=> IsRecorded(r, a)
        /\ p \in Retriers => \A a : /\ ~IsRecorded(r, a)
                                    /\ IsRecorded(r, a)' <=> x.step = "succeeded" /\ a = m
    <3>1. CASE p \notin Retriers
      <4>1. Cycle(r)' = Cycle(r)
        BY <1>10, <1>12, <3>1 DEF Cycle, Featured!Waiting
      <4> QED BY <3>1, <4>1 DEF Place, Taken, IsRecorded, Featured!Waiting
    <3>2. CASE p \in Retriers
      <4>1. p = r /\ Cycle(r) = c /\ Cycle(r)' = x
        BY <1>2, <1>10, <3>2 DEF Cycle
      <4>2. c # Featured!Waiting /\ x # Featured!Waiting
        BY <1>5, <1>8, CallKinds
      <4>3. Place(r) = c.at /\ Taken(r) = Append(c.remaining, c.marker)
            /\ \A a : ~IsRecorded(r, a)
        BY <1>3, <4>1, <4>2 DEF Place, Taken, IsRecorded
      <4>4. Place(r)' = x.at /\ Taken(r)' = Append(x.remaining, x.marker)
            /\ \A a : IsRecorded(r, a)' <=> x.step = "succeeded" /\ a = m
        BY <1>8, <2>1, <4>1, <4>2 DEF Place, Taken, IsRecorded, Featured!Waiting
      <4> QED BY <1>8, <3>2, <4>3, <4>4
    <3> QED BY <3>1, <3>2
  <2>6. InLine(r)' = InLine(r) /\ InLine(r) \subseteq Activities
    BY <1>1, <1>4, <2>5, LineIsOfActivities DEF InLine, MarkersFit
  <2>7. \A a \in Activities : /\ calls'[a] = Featured!Done <=> calls[a] = Featured!Done
                              /\ a # p => (IsOpen(a)' <=> IsOpen(a))
                              /\ a = p => IsOpen(a) /\ (IsOpen(a)' <=> x.step = "failed") /\ a = m
    <3> TAKE a \in Activities
    <3>1. a = p => a = m /\ IsOpen(a) /\ (IsOpen(a)' <=> x.step = "failed")
      BY <1>2, <1>3, <1>5, <1>8, <1>10, <1>12, <2>1, StepBy DEF IsOpen
    <3>2. calls[p] # Featured!Done /\ calls'[p] # Featured!Done
      BY <1>2, <1>5, <1>8, <1>10, CallKinds
    <3>3. a # p => calls'[a] = calls[a]
      BY <1>10, <1>12
    <3>4. a # p => (IsOpen(a)' <=> IsOpen(a))
      BY <3>3 DEF IsOpen
    <3> QED BY <3>1, <3>2, <3>3, <3>4
  <2>8. MayBeRecorded(r, m)
    <3>1. CASE p \in Retriers
      <4>1. p = r /\ Cycle(r) = c /\ c # Featured!Waiting
        BY <1>2, <1>5, <3>1, CallKinds DEF Cycle
      <4>2. Taken(r) = Append(c.remaining, m) /\ c.remaining \in Seq(Activities)
        BY <1>5, <2>1, <4>1 DEF Taken, MarkerCall
      <4>3. Len(Taken(r)) \in 1..Len(Taken(r)) /\ Taken(r)[Len(Taken(r))] = m
        BY <4>2, AppendProperties
      <4>4. m \in InLine(r)
        BY <4>3 DEF InLine, Line
      <4> QED BY <2>5, <3>1, <4>4 DEF MayBeRecorded
    <3>2. CASE p \notin Retriers
      BY <1>5, <1>12, <1>14, <2>1, <2>7, <3>2, StepBy DEF MayBeRecorded
    <3> QED BY <3>1, <3>2
  <2>9. recorded[m] >= 1 => m \in unheard
    BY <1>1, <2>8 DEF MarkersFit
  <2>10. MayBeRecorded(r, m)' => x.step = "failed"
    <3>1. CASE p \in Retriers
      <4>1. calls[m] = Featured!Done
        <5>1. p = r /\ Cycle(r) = c /\ c # Featured!Waiting
          BY <1>2, <1>5, <3>1, CallKinds DEF Cycle
        <5>2. Taken(r) = Append(c.remaining, m) /\ c.remaining \in Seq(Activities)
          BY <1>5, <2>1, <5>1 DEF Taken, MarkerCall
        <5>3. Len(Taken(r)) \in 1..Len(Taken(r)) /\ Taken(r)[Len(Taken(r))] = m
          BY <5>2, AppendProperties
        <5>4. m \in InLine(r)
          BY <5>3 DEF InLine, Line
        <5> QED BY <1>1, <5>4 DEF MarkersFit
      <4>2. ~IsOpen(m)'
        <5>1. calls'[m] = Featured!Done
          BY <2>7, <4>1
        <5> QED BY <5>1, CallKinds DEF IsOpen
      <4> QED BY <1>8, <2>5, <3>1, <4>2 DEF MayBeRecorded
    <3>2. CASE p \notin Retriers
      <4>1. p = m /\ p \in Activities
        BY <1>5, <1>12, <1>14, <2>1, <3>2, StepBy
      <4>2. m \notin InLine(r)
        <5>1. calls[m] # Featured!Done
          BY <1>2, <1>5, <4>1, CallKinds
        <5> QED BY <1>1, <5>1 DEF MarkersFit
      <4> QED BY <1>8, <2>6, <2>7, <4>1, <4>2 DEF MayBeRecorded
    <3> QED BY <3>1, <3>2
  <2>11. ASSUME NEW a \in Activities
         PROVE  /\ recorded'[a] >= 1 /\ MayBeRecorded(r, a)' => a \in unheard'
                /\ recorded'[a] > 1 => a \in unheard'
    <3>1. CASE a = m
      BY <2>2, <2>3, <2>9, <2>10, <3>1
    <3>2. CASE a # m
      <4>1. MayBeRecorded(r, a)' => MayBeRecorded(r, a)
        BY <2>5, <2>6, <2>7, <3>2 DEF MayBeRecorded
      <4>2. recorded'[a] = recorded[a]
        BY <2>2, <3>2
      <4> QED BY <1>1, <2>3, <4>1, <4>2 DEF MarkersFit
    <3> QED BY <3>1, <3>2
  <2>12. \A a \in Activities :
           recorded'[a] \in Nat /\ recorded[a] \in Nat /\ recorded'[a] >= recorded[a]
    <3>1. recorded \in [Activities -> Nat]
      BY <1>1 DEF FeaturedHasTypes
    <3>2. \A a \in Activities : recorded[a] \in Nat /\ recorded'[a] \in Nat
      BY <2>2, <3>1
    <3>3. \A a \in Activities : a = m \/ recorded'[a] = recorded[a]
      BY <2>2
    <3> QED BY <2>2, <3>2, <3>3
  <2>13. ASSUME NEW q \in Activities \union Retriers, calls'[q].step = "succeeded"
         PROVE  recorded'[calls'[q].marker] >= 1
    <3>1. CASE q = p
      BY <1>8, <1>10, <2>1, <2>2, <3>1
    <3>2. CASE q # p
      <4>1. calls'[q] = calls[q]
        BY <1>10, <1>12, <3>2
      <4>2. recorded[calls[q].marker] >= 1
        BY <1>1, <2>13, <4>1 DEF MarkersFit
      <4>3. calls[q].marker \in Activities
        <5>1. q \in Featured!Processes /\ q \notin Admins
          BY <1>12
        <5>2. calls[q] \in MarkerCall /\ CallFits(q, calls[q], DOMAIN configs, pending)
          BY <1>1, <2>13, <4>1, <5>1, AtWork
        <5> QED BY <5>1, <5>2, StepBy
      <4> QED BY <2>12, <4>1, <4>2, <4>3
    <3> QED BY <3>1, <3>2
  <2>14. OutOfLine(r)' \subseteq OutOfLine(r)
    <3>1. ASSUME NEW a \in Activities, calls'[a] = Featured!Done, recorded'[a] = 0,
                 a \notin InLine(r)'
          PROVE  a \in OutOfLine(r)
      BY <2>6, <2>7, <2>12, <3>1 DEF OutOfLine
    <3> QED BY <3>1 DEF OutOfLine, Featured!Done
  <2>15. Cardinality(OutOfLine(r)') <= dropped'
    <3>1. OutOfLine(r) \in SUBSET Activities /\ OutOfLine(r)' \in SUBSET Activities
      BY DEF OutOfLine
    <3>2. dropped \in Nat /\ Cardinality(OutOfLine(r)) <= dropped
      BY <1>1 DEF FeaturedHasTypes, MarkersFit
    <3> QED BY <1>4, <2>14, <3>1, <3>2, OneMoreIsLost
  <2>16. InOrder(heap[pending], Place(r), Taken(r))'
    BY <1>1, <1>4, <2>5 DEF MarkersFit, InOrder
  <2>17. \A a \in InLine(r)' : calls'[a] = Featured!Done /\ retries'[a] < MaxRetries
    BY <1>1, <1>4, <2>6, <2>7 DEF MarkersFit
  <2>18. \A a \in Activities : retries'[a] <= MaxRetries
                               /\ (calls'[a] # Featured!Done => retries'[a] = 0)
    BY <1>1, <1>4, <2>7 DEF MarkersFit
  <2>19. MarkersFit(r)'
    BY <2>11, <2>13, <2>15, <2>16, <2>17, <2>18 DEF MarkersFit, Featured!Done
  <2> QED BY <2>4, <2>19 DEF FeaturedIInv
<1> QED BY <1>13, <1>14

(* The call has its answer, and goes back to none.                         *)
LEMMA CallEnds ==
  ASSUME FeaturedHasTypes, NEW r, Retriers \subseteq {r},
         NEW p \in Activities \union Admins, calls' = [calls EXCEPT ![p] = Featured!Done],
         UNCHANGED <<configs, pending>>
  PROVE  /\ CallsFit' /\ calls'[p] = Featured!Done
         /\ \A q \in Featured!Processes : q # p => calls'[q] = calls[q]
         /\ p \in Activities => Cycle(r)' = Cycle(r)
<1>1. CallsFit
  BY DEF FeaturedHasTypes
<1>2. p \in Featured!Processes /\ p \notin Retriers
  BY ProcessKinds, FeaturedConstants
<1>3. PICK d : d = Featured!Done
  OBVIOUS
<1>4. d \notin MarkerCall /\ d.step = "done"
  BY <1>3, CallKinds
<1>5. CallFits(p, d, DOMAIN configs', pending')
  BY <1>2, <1>3, <1>4 DEF CallFits
<1>6. calls' = [calls EXCEPT ![p] = d]
  BY <1>3
<1>7. DOMAIN configs \subseteq DOMAIN configs' /\ pending' = pending
  OBVIOUS
<1>8. CallsFit' /\ calls'[p] = d /\ \A q \in Featured!Processes : q # p => calls'[q] = calls[q]
  BY <1>1, <1>2, <1>5, <1>6, <1>7, OneGoesOn
<1>9. p \in Activities => Cycle(r)' = Cycle(r)
  <2>1. r \in Retriers => r \in Featured!Processes /\ r # p
    BY <1>2, ProcessKinds
  <2> QED BY <1>8, <2>1 DEF Cycle, Featured!Waiting
<1> QED BY <1>3, <1>8, <1>9

LEMMA CallSucceeds ==
  ASSUME NEW r, Retriers \subseteq {r}, FeaturedIInv(r),
         NEW p \in Activities, calls[p].step = "succeeded",
         UNCHANGED <<heap, pending, retries, dropped, unheard, recorded>>,
         calls'[p] = Featured!Done, Cycle(r)' = Cycle(r),
         \A q \in Featured!Processes : q # p => calls'[q] = calls[q]
  PROVE  MarkersFit(r)'
<1>1. FeaturedHasTypes /\ CallsFit /\ MarkersFit(r)
  BY DEF FeaturedIInv, FeaturedHasTypes
<1>2. p \in Featured!Processes /\ p \notin Retriers /\ Activities \subseteq Featured!Processes
      /\ Retriers \subseteq Featured!Processes
  BY ProcessKinds, FeaturedConstants
<1>3. calls[p].marker = p /\ calls[p] # Featured!Done
  <2>1. calls[p] \in MarkerCall /\ CallFits(p, calls[p], DOMAIN configs, pending)
    BY <1>1, <1>2, AtWork
  <2> QED BY <1>2, <2>1, StepBy, CallKinds
<1>4. recorded[p] >= 1 /\ p \notin InLine(r)
  BY <1>1, <1>3 DEF MarkersFit
<1>5. Place(r)' = Place(r) /\ Taken(r)' = Taken(r) /\ InLine(r)' = InLine(r)
      /\ \A a \in Activities : IsRecorded(r, a)' <=> IsRecorded(r, a)
  BY DEF Place, Taken, InLine, IsRecorded, Featured!Waiting
<1>6. InLine(r) \subseteq Activities
  BY <1>1, LineIsOfActivities DEF MarkersFit, InLine
<1>7. InOrder(heap[pending], Place(r), Taken(r))'
  BY <1>1, <1>5 DEF MarkersFit, InOrder
<1>8. ~IsOpen(p)' /\ \A a \in Activities : a # p => (IsOpen(a)' <=> IsOpen(a))
  BY <1>2, CallKinds DEF IsOpen
<1>9. \A a \in Activities : MayBeRecorded(r, a)' => MayBeRecorded(r, a)
  BY <1>4, <1>5, <1>8 DEF MayBeRecorded
<1>10. OutOfLine(r)' \subseteq OutOfLine(r)
  <2>1. recorded[p] # 0
    <3>1. recorded \in [Activities -> Nat]
      BY <1>1 DEF FeaturedHasTypes
    <3> QED BY <1>4, <3>1
  <2>2. ASSUME NEW a \in Activities, calls'[a] = Featured!Done, recorded'[a] = 0,
               a \notin InLine(r)'
        PROVE  a \in OutOfLine(r)
    BY <1>2, <1>5, <2>1, <2>2 DEF OutOfLine
  <2> QED BY <2>2 DEF OutOfLine, Featured!Done
<1>11. Cardinality(OutOfLine(r)') <= dropped'
  <2>1. OutOfLine(r) \in SUBSET Activities /\ OutOfLine(r)' \in SUBSET Activities
    BY DEF OutOfLine
  <2>2. dropped \in Nat /\ Cardinality(OutOfLine(r)) <= dropped
    BY <1>1 DEF FeaturedHasTypes, MarkersFit
  <2> QED BY <1>10, <2>1, <2>2, OneMoreIsLost
<1>12. \A a \in InLine(r)' : calls'[a] = Featured!Done /\ retries'[a] < MaxRetries
  BY <1>1, <1>2, <1>5, <1>6 DEF MarkersFit
<1>13. \A a \in Activities :
         /\ retries'[a] <= MaxRetries
         /\ calls'[a] # Featured!Done => retries'[a] = 0
         /\ recorded'[a] >= 1 /\ MayBeRecorded(r, a)' => a \in unheard'
         /\ recorded'[a] > 1 => a \in unheard'
  BY <1>1, <1>2, <1>9 DEF MarkersFit
<1>14. \A q \in Activities \union Retriers :
         calls'[q].step = "succeeded" => recorded'[calls'[q].marker] >= 1
  <2>1. calls'[p].step # "succeeded"
    BY CallKinds
  <2>2. ASSUME NEW q \in Activities \union Retriers, calls'[q].step = "succeeded"
        PROVE  recorded'[calls'[q].marker] >= 1
    <3>1. calls'[q] = calls[q]
      BY <1>2, <2>1, <2>2
    <3> QED BY <1>1, <2>2, <3>1 DEF MarkersFit
  <2> QED BY <2>2
<1> QED BY <1>7, <1>11, <1>12, <1>13, <1>14 DEF MarkersFit, Featured!Done

(* The activity is queued, and the oldest may be cut off in its place.     *)
LEMMA MarkerIsQueued ==
  ASSUME NEW r, Retriers \subseteq {r}, FeaturedIInv(r),
         NEW p \in Activities, calls[p].step \in {"failed", "unknown"},
         UNCHANGED <<pending, retries, unheard, recorded>>,
         NEW excess, NEW s, Pushed(heap[pending], p, excess, s),
         heap' = [heap EXCEPT ![pending] = s], dropped' = dropped + excess,
         calls'[p] = Featured!Done, Cycle(r)' = Cycle(r),
         \A q \in Featured!Processes : q # p => calls'[q] = calls[q]
  PROVE  /\ MarkersFit(r)'
         /\ heap' \in Seq(Seq(Activities)) /\ Len(heap') = Len(heap)
         /\ dropped' \in Nat
<1>1. FeaturedHasTypes /\ CallsFit /\ MarkersFit(r)
  BY DEF FeaturedIInv, FeaturedHasTypes
<1>2. p \in Featured!Processes /\ p \notin Retriers /\ Activities \subseteq Featured!Processes
      /\ Retriers \subseteq Featured!Processes
  BY ProcessKinds, FeaturedConstants
<1>3. calls[p] # Featured!Done /\ IsOpen(p) /\ calls[p].step # "succeeded"
  BY CallKinds DEF IsOpen
<1>4. p \notin InLine(r) /\ retries[p] = 0 /\ (recorded[p] >= 1 => p \in unheard)
  BY <1>1, <1>3 DEF MarkersFit, MayBeRecorded
<1>5. Place(r)' = Place(r) /\ Taken(r)' = Taken(r)
      /\ \A a \in Activities : IsRecorded(r, a)' <=> IsRecorded(r, a)
  BY DEF Place, Taken, IsRecorded, Featured!Waiting
<1>6. InOrder(heap[pending], Place(r), Taken(r))
      /\ p \notin Line(heap[pending], Place(r), Taken(r))
  BY <1>1, <1>4 DEF MarkersFit, InLine
<1>7. PICK line : line = Line(s, Place(r), Taken(r))
  OBVIOUS
<1>8. /\ InOrder(s, Place(r), Taken(r))
      /\ excess \in {0, 1}
      /\ line \subseteq InLine(r) \union {p}
      /\ excess = 0 => InLine(r) \union {p} \subseteq line
      /\ \E z : InLine(r) \union {p} \subseteq line \union {z}
  BY <1>6, <1>7, MarkerJoinsLine DEF InLine
<1>9. s \in Seq(Activities) /\ heap \in Seq(Seq(Activities)) /\ pending \in 1..Len(heap)
  BY <1>1, <1>8 DEF FeaturedHasTypes, InOrder
<1>10. heap' \in Seq(Seq(Activities)) /\ Len(heap') = Len(heap) /\ heap'[pending] = s
  BY <1>9
<1>11. InLine(r)' = line
  BY <1>5, <1>7, <1>10 DEF InLine
<1>12. line \subseteq Activities
  BY <1>7, <1>8, LineIsOfActivities
<1>13. InOrder(heap[pending], Place(r), Taken(r))'
  BY <1>5, <1>8, <1>10 DEF InOrder
<1>14. ~IsOpen(p)' /\ \A a \in Activities : a # p => (IsOpen(a)' <=> IsOpen(a))
  BY <1>2, CallKinds DEF IsOpen
<1>15. \A a \in Activities : a # p /\ MayBeRecorded(r, a)' => MayBeRecorded(r, a)
  BY <1>5, <1>8, <1>11, <1>14 DEF MayBeRecorded
<1>16. MaxRetries \in Nat \ {0} /\ dropped \in Nat /\ Cardinality(OutOfLine(r)) <= dropped
  BY <1>1, FeaturedConstants DEF FeaturedHasTypes, MarkersFit
<1>17. ASSUME NEW z, InLine(r) \union {p} \subseteq line \union {z}
       PROVE  OutOfLine(r)' \subseteq OutOfLine(r) \union {z}
  <2>1. ASSUME NEW a \in Activities, calls'[a] = Featured!Done, recorded'[a] = 0,
               a \notin InLine(r)', a # z
        PROVE  a \in OutOfLine(r)
    <3>1. a # p /\ a \notin InLine(r)
      BY <1>11, <1>17, <2>1
    <3> QED BY <1>2, <2>1, <3>1 DEF OutOfLine
  <2> QED BY <2>1 DEF OutOfLine, Featured!Done
<1>18. excess = 0 => OutOfLine(r)' \subseteq OutOfLine(r)
  <2>1. ASSUME excess = 0, NEW a \in Activities, calls'[a] = Featured!Done, recorded'[a] = 0,
               a \notin InLine(r)'
        PROVE  a \in OutOfLine(r)
    <3>1. a # p /\ a \notin InLine(r)
      BY <1>8, <1>11, <2>1
    <3> QED BY <1>2, <2>1, <3>1 DEF OutOfLine
  <2> QED BY <2>1 DEF OutOfLine, Featured!Done
<1>19. Cardinality(OutOfLine(r)') <= dropped' /\ dropped' \in Nat
  <2>1. OutOfLine(r) \in SUBSET Activities /\ OutOfLine(r)' \in SUBSET Activities
    BY DEF OutOfLine
  <2>2. CASE excess = 0
    BY <1>16, <1>18, <2>1, <2>2, OneMoreIsLost
  <2>3. CASE excess = 1
    BY <1>8, <1>16, <1>17, <2>1, <2>3, OneMoreIsLost
  <2> QED BY <1>8, <2>2, <2>3
<1>20. \A a \in InLine(r)' : calls'[a] = Featured!Done /\ retries'[a] < MaxRetries
  <2>1. ASSUME NEW a \in line PROVE calls'[a] = Featured!Done /\ retries'[a] < MaxRetries
    <3>1. a \in Activities
      BY <1>12
    <3>2. CASE a = p
      BY <1>4, <1>16, <3>2
    <3>3. CASE a # p
      BY <1>1, <1>2, <1>8, <3>1, <3>3 DEF MarkersFit
    <3> QED BY <3>2, <3>3
  <2> QED BY <1>11, <2>1
<1>21. \A a \in Activities :
         /\ retries'[a] <= MaxRetries
         /\ calls'[a] # Featured!Done => retries'[a] = 0
         /\ recorded'[a] >= 1 /\ MayBeRecorded(r, a)' => a \in unheard'
         /\ recorded'[a] > 1 => a \in unheard'
  BY <1>1, <1>2, <1>4, <1>15 DEF MarkersFit
<1>22. \A q \in Activities \union Retriers :
         calls'[q].step = "succeeded" => recorded'[calls'[q].marker] >= 1
  <2>1. calls'[p].step # "succeeded"
    BY CallKinds
  <2>2. ASSUME NEW q \in Activities \union Retriers, calls'[q].step = "succeeded"
        PROVE  recorded'[calls'[q].marker] >= 1
    <3>1. calls'[q] = calls[q]
      BY <1>2, <2>1, <2>2
    <3> QED BY <1>1, <2>2, <3>1 DEF MarkersFit
  <2> QED BY <2>2
<1>23. MarkersFit(r)'
  BY <1>13, <1>19, <1>20, <1>21, <1>22 DEF MarkersFit, Featured!Done
<1> QED BY <1>10, <1>19, <1>23

LEMMA RecordReturnsStep ==
  ASSUME NEW r, Retriers \subseteq {r}, FeaturedIInv(r),
         NEW p \in Featured!Processes, Featured!RecordReturns(p)
  PROVE  FeaturedIInv(r)'
<1>1. FeaturedHasTypes /\ CallsFit /\ MarkersFit(r)
  BY DEF FeaturedIInv, FeaturedHasTypes
<1>2. /\ p \in Activities \union Admins /\ calls' = [calls EXCEPT ![p] = Featured!Done]
      /\ calls[p].step \in {"succeeded", "failed", "unknown"}
  BY DEF Featured!RecordReturns, Featured!At, Featured!Goto
<1>3. UNCHANGED <<unheard, recorded, configs, pending, retries>>
  BY DEF Featured!RecordReturns, Featured!ledgerVars, Featured!queueVars
<1>4. /\ CallsFit' /\ calls'[p] = Featured!Done
      /\ \A q \in Featured!Processes : q # p => calls'[q] = calls[q]
      /\ p \in Activities => Cycle(r)' = Cycle(r)
  BY <1>1, <1>2, <1>3, CallEnds
<1>5. cached' \in Cid /\ (cached' = Featured!None \/ cached'.config \in DOMAIN configs')
  <2>1. CASE calls[p].step = "succeeded" /\ cached' = calls[p].cid
    <3>1. calls[p] \in MarkerCall /\ CallFits(p, calls[p], DOMAIN configs, pending)
      BY <1>1, <2>1, AtWork
    <3> QED BY <1>3, <2>1, <3>1 DEF CallFits, MarkerCall
  <2>2. CASE cached' = Featured!None
    BY <2>2 DEF Featured!None, Cid
  <2> QED BY <2>1, <2>2 DEF Featured!RecordReturns, Featured!At
<1>6. CASE p \in Admins
  <2>1. UNCHANGED <<heap, dropped>>
    BY <1>6, FeaturedConstants DEF Featured!RecordReturns, Featured!queueVars
  <2>2. FeaturedHasTypes'
    BY <1>1, <1>3, <1>4, <1>5, <2>1 DEF FeaturedHasTypes, Featured!None
  <2>3. MarkersFit(r)'
    BY <1>1, <1>3, <1>4, <1>6, <2>1, OthersGoOn
  <2> QED BY <2>2, <2>3 DEF FeaturedIInv
<1>7. CASE p \in Activities
  <2>1. CASE calls[p].step = "succeeded" /\ UNCHANGED <<heap, dropped>>
    <3>1. MarkersFit(r)'
      BY <1>3, <1>4, <1>7, <2>1, CallSucceeds
    <3>2. FeaturedHasTypes'
      BY <1>1, <1>3, <1>4, <1>5, <2>1 DEF FeaturedHasTypes, Featured!None
    <3> QED BY <3>1, <3>2 DEF FeaturedIInv
  <2>2. CASE calls[p].step \in {"failed", "unknown"} /\ Featured!Enqueue(p)
    <3>1. PICK longer : longer = Append(heap[pending], p)
      OBVIOUS
    <3>2. PICK excess : excess = IF Len(longer) > Cap THEN Len(longer) - Cap ELSE 0
      OBVIOUS
    <3>3. PICK s : s = SubSeq(longer, excess + 1, Len(longer))
      OBVIOUS
    <3>4. Pushed(heap[pending], p, excess, s)
      BY <3>1, <3>2, <3>3 DEF Pushed
    <3>5. heap' = [heap EXCEPT ![pending] = s] /\ dropped' = dropped + excess
      BY <2>2, <3>1, <3>2, <3>3 DEF Featured!Enqueue
    <3>6. /\ MarkersFit(r)'
          /\ heap' \in Seq(Seq(Activities)) /\ Len(heap') = Len(heap)
          /\ dropped' \in Nat
      BY <1>3, <1>4, <1>7, <2>2, <3>4, <3>5, MarkerIsQueued
    <3>7. FeaturedHasTypes'
      BY <1>1, <1>3, <1>4, <1>5, <3>6 DEF FeaturedHasTypes, Featured!None
    <3> QED BY <3>6, <3>7 DEF FeaturedIInv
  <2>3. p \notin Admins
    BY <1>7, FeaturedConstants
  <2> QED BY <1>7, <2>1, <2>2, <2>3 DEF Featured!RecordReturns, Featured!At, Featured!queueVars
<1> QED BY <1>2, <1>6, <1>7

---------------------------------------------------------------------------
(* The retry cycle.                                                        *)

(* The cycle goes on to the next marker, or puts what it has kept in the   *)
(* place of the array.                                                     *)
LEMMA CycleAdvances ==
  ASSUME FeaturedHasTypes, NEW r \in Retriers, Retriers \subseteq {r},
         cached' \in Cid, cached' = Featured!None \/ cached'.config \in DOMAIN configs,
         configs' = configs, NEW at \in Nat, NEW kept, InOrder(heap[pending], at, kept),
         Featured!Advance(r, pending, at + 1, kept)
  PROVE  /\ CallsFit'
         /\ heap' \in Seq(Seq(Activities)) /\ Len(heap') >= 1 /\ pending' = Len(heap')
         /\ \A q \in Featured!Processes : q # r => calls'[q] = calls[q]
         /\ InOrder(heap[pending], Place(r), Taken(r))'
         /\ InLine(r)' = Line(heap[pending], at, kept)
         /\ calls'[r].step # "succeeded"
<1>1. /\ CallsFit /\ heap \in Seq(Seq(Activities)) /\ Len(heap) >= 1 /\ pending = Len(heap)
      /\ pending \in Nat /\ pending \in 1..Len(heap)
  BY DEF FeaturedHasTypes
<1>2. r \in Featured!Processes
  BY ProcessKinds
<1>3. PICK q : q = heap[pending]
  OBVIOUS
<1>4. q \in Seq(Activities) /\ kept \in Seq(Activities) /\ Len(q) \in Nat /\ InOrder(q, at, kept)
  <2>1. InOrder(q, at, kept)
    BY <1>3
  <2> QED BY <1>1, <1>3, <2>1 DEF InOrder
<1>5. DOMAIN configs \subseteq DOMAIN configs'
  OBVIOUS
<1>6. CASE at + 1 <= Len(q)
  <2>1. PICK m : m = q[at + 1]
    OBVIOUS
  <2>2. PICK more : more = Append(kept, q[at + 1])
    OBVIOUS
  <2>3. /\ InOrder(q, at + 1, more)
        /\ Line(q, at + 1, more) = Line(q, at, kept)
        /\ m \in Activities
    <3>1. at < Len(q)
      BY <1>4, <1>6
    <3>2. /\ InOrder(q, at + 1, more)
          /\ Line(q, at + 1, more) = Line(q, at, kept)
          /\ q[at + 1] \in Activities
      <4>1. TakesNext(q, at, kept, more)
        BY <2>2 DEF TakesNext
      <4> QED BY <1>4, <3>1, <4>1, MarkerIsTaken
    <3> QED BY <2>1, <3>2
  <2>4. PICK c : c = Featured!Working("query", m, pending, at + 1, kept)
    OBVIOUS
  <2>5. AsksFor(Featured!Working("query", m, pending, at + 1, kept), m, pending, at + 1, kept)
    BY <1>1, <1>4, <2>3, WorkingFits
  <2>6. /\ c \in MarkerCall /\ c.marker = m /\ c.array = pending /\ c.at = at + 1
        /\ c.remaining = kept
    BY <2>4, <2>5 DEF AsksFor
  <2>7. PICK x : x = Featured!Request(c)
    OBVIOUS
  <2>8. /\ calls' = [calls EXCEPT ![r] = x] /\ UNCHANGED <<heap, pending>>
    BY <1>3, <1>4, <1>6, <2>1, <2>4, <2>7 DEF Featured!Advance, Featured!Goto
  <2>9. IF r \in Retriers THEN c.marker \in Activities /\ c.array = pending ELSE c.marker = r
    BY <2>3, <2>6
  <2>10. /\ CallFits(r, x, DOMAIN configs, pending)
         /\ x \in MarkerCall /\ x.step \in {"query", "exercise"}
         /\ x.marker = c.marker /\ x.array = c.array /\ x.at = c.at
         /\ x.remaining = c.remaining
    BY <2>6, <2>7, <2>9, RequestFits
  <2>11. CallFits(r, x, DOMAIN configs', pending')
    BY <2>8, <2>10
  <2>12. CallsFit' /\ calls'[r] = x
         /\ \A p \in Featured!Processes : p # r => calls'[p] = calls[p]
    BY <1>1, <1>2, <1>5, <2>8, <2>11, OneGoesOn
  <2>13. Cycle(r)' = x /\ x # Featured!Waiting
    BY <2>10, <2>12, CallKinds DEF Cycle
  <2>14. Place(r)' = at + 1 /\ Taken(r)' = more
    BY <2>1, <2>2, <2>6, <2>10, <2>13 DEF Place, Taken, Featured!Waiting
  <2>15. heap'[pending'] = q
    BY <1>3, <2>8
  <2>16. InOrder(heap[pending], Place(r), Taken(r))'
    BY <2>3, <2>14, <2>15 DEF InOrder
  <2>17. InLine(r)' = Line(q, at, kept)
    BY <2>3, <2>14, <2>15 DEF InLine
  <2> QED BY <1>1, <1>3, <2>8, <2>10, <2>12, <2>16, <2>17
<1>7. CASE at + 1 > Len(q)
  <2>1. PICK x : x = Featured!Waiting
    OBVIOUS
  <2>2. /\ calls' = [calls EXCEPT ![r] = x]
        /\ heap' = Append(heap, kept) /\ pending' = Len(heap) + 1
    BY <1>3, <1>4, <1>7, <2>1 DEF Featured!Advance, Featured!Goto
  <2>3. x.step = "waiting" /\ x \notin MarkerCall /\ x # Featured!Done
    BY <2>1, CallKinds
  <2>4. CallFits(r, x, DOMAIN configs', pending')
    BY <2>1, <2>3 DEF CallFits
  <2>5. CallsFit' /\ calls'[r] = x
        /\ \A p \in Featured!Processes : p # r => calls'[p] = calls[p]
    BY <1>1, <1>2, <1>5, <2>2, <2>4, OneGoesOn
  <2>6. Place(r)' = 0 /\ Taken(r)' = <<>>
    BY <2>1, <2>5 DEF Cycle, Place, Taken, Featured!Waiting
  <2>7. /\ heap' \in Seq(Seq(Activities)) /\ Len(heap') = Len(heap) + 1
        /\ heap'[Len(heap) + 1] = kept
    BY <1>1, <1>4, <2>2, AppendProperties
  <2>8. heap'[pending'] = kept /\ pending' = Len(heap')
    BY <2>2, <2>7
  <2>9. InOrder(kept, 0, <<>>) /\ Line(kept, 0, <<>>) = Line(q, at, kept)
    BY <1>4, <1>7, LineIsReplaced
  <2>10. InOrder(heap[pending], Place(r), Taken(r))'
    BY <2>6, <2>8, <2>9 DEF InOrder
  <2>11. InLine(r)' = Line(q, at, kept)
    BY <2>6, <2>8, <2>9 DEF InLine
  <2> QED BY <1>1, <1>3, <2>3, <2>5, <2>7, <2>8, <2>10, <2>11
<1> QED BY <1>4, <1>6, <1>7

(* The line keeps its markers, or loses the one the cycle knows of.        *)
LEMMA CycleGoesOn ==
  ASSUME NEW r \in Retriers, Retriers \subseteq {r}, MarkersFit(r),
         UNCHANGED <<recorded, unheard>>,
         \A q \in Featured!Processes : q # r => calls'[q] = calls[q],
         calls'[r].step # "succeeded",
         InOrder(heap[pending], Place(r), Taken(r))',
         InLine(r)' \subseteq InLine(r),
         \A a \in InLine(r)' : ~IsRecorded(r, a),
         \A a \in Activities :
           \/ retries'[a] = retries[a]
           \/ /\ a \in InLine(r) /\ retries'[a] <= MaxRetries
              /\ a \in InLine(r)' => retries'[a] < MaxRetries,
         Cardinality(OutOfLine(r)') <= dropped'
  PROVE  MarkersFit(r)'
<1>1. /\ Activities \subseteq Featured!Processes /\ r \notin Activities
      /\ Activities \union Retriers \subseteq Featured!Processes
  BY ProcessKinds, FeaturedConstants
<1>2. \A a \in Activities : calls'[a] = calls[a]
  BY <1>1
<1>3. InLine(r) \subseteq Activities
  BY LineIsOfActivities DEF MarkersFit, InLine
<1>4. \A a \in InLine(r)' : calls'[a] = Featured!Done /\ retries'[a] < MaxRetries
  BY <1>2, <1>3 DEF MarkersFit
<1>5. \A a \in Activities : MayBeRecorded(r, a)' => MayBeRecorded(r, a)
  BY <1>2 DEF MayBeRecorded, IsOpen
<1>6. \A a \in Activities :
        /\ retries'[a] <= MaxRetries
        /\ calls'[a] # Featured!Done => retries'[a] = 0
  BY <1>2 DEF MarkersFit
<1>7. \A a \in Activities :
        /\ recorded'[a] >= 1 /\ MayBeRecorded(r, a)' => a \in unheard'
        /\ recorded'[a] > 1 => a \in unheard'
  BY <1>5 DEF MarkersFit
<1>8. \A q \in Activities \union Retriers :
        calls'[q].step = "succeeded" => recorded'[calls'[q].marker] >= 1
  BY <1>1 DEF MarkersFit
<1> QED BY <1>4, <1>6, <1>7, <1>8 DEF MarkersFit, Featured!Done

LEMMA StartCycleStep ==
  ASSUME NEW r, Retriers \subseteq {r}, FeaturedIInv(r),
         NEW p \in Featured!Processes, Featured!StartCycle(p)
  PROVE  FeaturedIInv(r)'
<1>1. FeaturedHasTypes /\ MarkersFit(r)
  BY DEF FeaturedIInv
<1>2. r \in Retriers /\ p = r
  BY DEF Featured!StartCycle
<1>3. /\ calls[r] = Featured!Waiting /\ Featured!Advance(r, pending, 1, <<>>)
      /\ UNCHANGED <<cached, configs, recorded, unheard, retries, dropped>>
  BY <1>2 DEF Featured!StartCycle, Featured!ledgerVars
<1>4. cached' \in Cid /\ (cached' = Featured!None \/ cached'.config \in DOMAIN configs)
  BY <1>1, <1>3 DEF FeaturedHasTypes
<1>5. Cycle(r) = Featured!Waiting /\ Place(r) = 0 /\ Taken(r) = <<>>
      /\ \A a : ~IsRecorded(r, a)
  BY <1>2, <1>3, CallKinds DEF Cycle, Place, Taken, IsRecorded
<1>6. InOrder(heap[pending], 0, <<>>) /\ InLine(r) = Line(heap[pending], 0, <<>>)
  BY <1>1, <1>5 DEF MarkersFit, InLine
<1>7. 0 \in Nat /\ 0 + 1 = 1
  OBVIOUS
<1>8. Featured!Advance(r, pending, 0 + 1, <<>>)
  BY <1>3, <1>7
<1>9. /\ CallsFit'
      /\ heap' \in Seq(Seq(Activities)) /\ Len(heap') >= 1 /\ pending' = Len(heap')
      /\ \A q \in Featured!Processes : q # r => calls'[q] = calls[q]
      /\ InOrder(heap[pending], Place(r), Taken(r))'
      /\ InLine(r)' = Line(heap[pending], 0, <<>>)
      /\ calls'[r].step # "succeeded"
  BY <1>1, <1>2, <1>3, <1>4, <1>6, <1>7, <1>8, CycleAdvances
<1>10. FeaturedHasTypes'
  BY <1>1, <1>3, <1>4, <1>9 DEF FeaturedHasTypes, Featured!None
<1>11. InLine(r)' = InLine(r)
  BY <1>6, <1>9
<1>12. OutOfLine(r)' = OutOfLine(r)
  <2>1. \A a \in Activities : calls'[a] = calls[a]
    BY <1>2, <1>9, ProcessKinds, FeaturedConstants
  <2> QED BY <1>3, <1>11, <2>1 DEF OutOfLine, Featured!Done
<1>13. Cardinality(OutOfLine(r)') <= dropped'
  BY <1>1, <1>3, <1>12 DEF MarkersFit
<1>14. MarkersFit(r)'
  BY <1>1, <1>2, <1>3, <1>5, <1>9, <1>11, <1>13, CycleGoesOn
<1> QED BY <1>10, <1>14 DEF FeaturedIInv

(* What a cycle at work holds.                                             *)
LEMMA CycleHolds ==
  ASSUME NEW r \in Retriers, FeaturedIInv(r), calls[r].step \notin {"waiting", "done"}
  PROVE  /\ calls[r] \in MarkerCall /\ CallFits(r, calls[r], DOMAIN configs, pending)
         /\ calls[r].marker \in Activities /\ calls[r].array = pending
         /\ calls[r].at \in Nat /\ calls[r].remaining \in Seq(Activities)
         /\ Cycle(r) = calls[r]
         /\ InOrder(heap[pending], calls[r].at, calls[r].remaining)
         /\ InOrder(heap[pending], calls[r].at, Append(calls[r].remaining, calls[r].marker))
         /\ calls[r].marker \notin Line(heap[pending], calls[r].at, calls[r].remaining)
         /\ InLine(r) = Line(heap[pending], calls[r].at,
                             Append(calls[r].remaining, calls[r].marker))
         /\ InLine(r) = Line(heap[pending], calls[r].at, calls[r].remaining)
                        \union {calls[r].marker}
<1>1. CallsFit /\ InOrder(heap[pending], Place(r), Taken(r))
  BY DEF FeaturedIInv, FeaturedHasTypes, MarkersFit
<1>2. PICK c : c = calls[r]
  OBVIOUS
<1>3. r \in Featured!Processes
  BY ProcessKinds
<1>4. c \in MarkerCall /\ CallFits(r, c, DOMAIN configs, pending)
  BY <1>1, <1>2, <1>3, AtWork
<1>5. c.marker \in Activities /\ c.array = pending
  BY <1>4, StepBy
<1>6. c.at \in Nat /\ c.remaining \in Seq(Activities)
  BY <1>4 DEF MarkerCall
<1>7. Cycle(r) = c /\ c # Featured!Waiting
  BY <1>2, <1>4, CallKinds DEF Cycle
<1>8. Place(r) = c.at /\ Taken(r) = Append(c.remaining, c.marker)
  BY <1>7 DEF Place, Taken
<1>9. InOrder(heap[pending], c.at, Append(c.remaining, c.marker))
  BY <1>1, <1>8
<1>10. /\ InOrder(heap[pending], c.at, c.remaining)
       /\ c.marker \notin Line(heap[pending], c.at, c.remaining)
       /\ Line(heap[pending], c.at, Append(c.remaining, c.marker))
            = Line(heap[pending], c.at, c.remaining) \union {c.marker}
  BY <1>5, <1>6, <1>9, MarkerIsReleased
<1>11. InLine(r) = Line(heap[pending], c.at, Append(c.remaining, c.marker))
  BY <1>8 DEF InLine
<1> QED BY <1>2, <1>4, <1>5, <1>6, <1>7, <1>9, <1>10, <1>11

LEMMA RetrySucceededStep ==
  ASSUME NEW r, Retriers \subseteq {r}, FeaturedIInv(r),
         NEW p \in Featured!Processes, Featured!RetrySucceeded(p)
  PROVE  FeaturedIInv(r)'
<1>1. FeaturedHasTypes /\ MarkersFit(r)
  BY DEF FeaturedIInv
<1>2. r \in Retriers /\ p = r
  BY DEF Featured!RetrySucceeded
<1>3. PICK c : c = calls[r]
  OBVIOUS
<1>4. /\ c.step = "succeeded" /\ cached' = c.cid
      /\ Featured!Advance(r, c.array, c.at + 1, c.remaining)
      /\ UNCHANGED <<configs, recorded, unheard, retries, dropped>>
  BY <1>2, <1>3 DEF Featured!RetrySucceeded, Featured!ledgerVars, Featured!At
<1>5. PICK m \in Activities, at \in Nat, rest \in Seq(Activities) :
        m = c.marker /\ at = c.at /\ rest = c.remaining
  BY <1>2, <1>3, <1>4, CycleHolds
<1>6. /\ c \in MarkerCall /\ CallFits(r, c, DOMAIN configs, pending) /\ c.array = pending
      /\ Cycle(r) = c
      /\ InOrder(heap[pending], at, rest)
      /\ m \notin Line(heap[pending], at, rest)
      /\ InLine(r) = Line(heap[pending], at, rest) \union {m}
  BY <1>2, <1>3, <1>4, <1>5, CycleHolds
<1>7. cached' \in Cid /\ cached'.config \in DOMAIN configs
  BY <1>4, <1>6 DEF CallFits, MarkerCall
<1>8. Featured!Advance(r, pending, at + 1, rest)
  BY <1>4, <1>5, <1>6
<1>9. /\ CallsFit'
      /\ heap' \in Seq(Seq(Activities)) /\ Len(heap') >= 1 /\ pending' = Len(heap')
      /\ \A q \in Featured!Processes : q # r => calls'[q] = calls[q]
      /\ InOrder(heap[pending], Place(r), Taken(r))'
      /\ InLine(r)' = Line(heap[pending], at, rest)
      /\ calls'[r].step # "succeeded"
  BY <1>1, <1>2, <1>4, <1>6, <1>7, <1>8, CycleAdvances
<1>10. FeaturedHasTypes'
  BY <1>1, <1>4, <1>7, <1>9 DEF FeaturedHasTypes
<1>11. \A a \in Activities : calls'[a] = calls[a]
  BY <1>2, <1>9, ProcessKinds, FeaturedConstants
<1>12. recorded[m] # 0
  <2>1. recorded[m] >= 1
    BY <1>1, <1>2, <1>3, <1>4, <1>5 DEF MarkersFit
  <2>2. recorded[m] \in Nat
    BY <1>1 DEF FeaturedHasTypes
  <2> QED BY <2>1, <2>2
<1>13. OutOfLine(r)' \subseteq OutOfLine(r)
  <2>1. ASSUME NEW a \in Activities, calls'[a] = Featured!Done, recorded'[a] = 0,
               a \notin InLine(r)'
        PROVE  a \in OutOfLine(r)
    <3>1. a # m /\ calls[a] = Featured!Done /\ recorded[a] = 0
      BY <1>4, <1>11, <1>12, <2>1
    <3>2. a \notin InLine(r)
      BY <1>6, <1>9, <2>1, <3>1
    <3> QED BY <3>1, <3>2 DEF OutOfLine
  <2> QED BY <2>1 DEF OutOfLine, Featured!Done
<1>14. Cardinality(OutOfLine(r)') <= dropped'
  <2>1. OutOfLine(r) \in SUBSET Activities /\ OutOfLine(r)' \in SUBSET Activities
    BY DEF OutOfLine
  <2>2. dropped \in Nat /\ Cardinality(OutOfLine(r)) <= dropped
    BY <1>1 DEF FeaturedHasTypes, MarkersFit
  <2> QED BY <1>4, <1>13, <2>1, <2>2, OneMoreIsLost
<1>15. \A a \in InLine(r)' : ~IsRecorded(r, a)
  BY <1>5, <1>6, <1>9 DEF IsRecorded
<1>16. MarkersFit(r)'
  BY <1>1, <1>2, <1>4, <1>6, <1>9, <1>14, <1>15, CycleGoesOn
<1> QED BY <1>10, <1>16 DEF FeaturedIInv

LEMMA RetryFailedStep ==
  ASSUME NEW r, Retriers \subseteq {r}, FeaturedIInv(r),
         NEW p \in Featured!Processes, Featured!RetryFailed(p)
  PROVE  FeaturedIInv(r)'
<1>1. FeaturedHasTypes /\ MarkersFit(r)
  BY DEF FeaturedIInv
<1>2. r \in Retriers /\ p = r
  BY DEF Featured!RetryFailed
<1>3. PICK c : c = calls[r]
  OBVIOUS
<1>4. /\ c.step \in {"failed", "unknown"} /\ cached' = Featured!None
      /\ UNCHANGED <<configs, recorded, unheard>>
      /\ retries' = [retries EXCEPT ![c.marker] = @ + 1]
  BY <1>2, <1>3 DEF Featured!RetryFailed, Featured!ledgerVars, Featured!At
<1>5. PICK m \in Activities, at \in Nat, rest \in Seq(Activities) :
        m = c.marker /\ at = c.at /\ rest = c.remaining
  BY <1>2, <1>3, <1>4, CycleHolds
<1>6. PICK both : both = Append(rest, m)
  OBVIOUS
<1>7. /\ c \in MarkerCall /\ CallFits(r, c, DOMAIN configs, pending) /\ c.array = pending
      /\ Cycle(r) = c
      /\ InOrder(heap[pending], at, rest)
      /\ InOrder(heap[pending], at, both)
      /\ m \notin Line(heap[pending], at, rest)
      /\ InLine(r) = Line(heap[pending], at, both)
      /\ InLine(r) = Line(heap[pending], at, rest) \union {m}
  BY <1>2, <1>3, <1>4, <1>5, <1>6, CycleHolds
<1>8. cached' \in Cid /\ cached' = Featured!None
  BY <1>4 DEF Featured!None, Cid
<1>9. /\ retries' \in [Activities -> Nat] /\ retries[m] \in Nat /\ retries'[m] = retries[m] + 1
      /\ \A a \in Activities : a # m => retries'[a] = retries[a]
  BY <1>1, <1>4, <1>5 DEF FeaturedHasTypes
<1>10. /\ retries[m] < MaxRetries /\ retries'[m] <= MaxRetries /\ MaxRetries \in Nat
  BY <1>1, <1>7, <1>9, FeaturedConstants DEF MarkersFit
<1>11. \A a : ~IsRecorded(r, a)
  BY <1>4, <1>7 DEF IsRecorded
<1>12. dropped \in Nat /\ Cardinality(OutOfLine(r)) <= dropped
  BY <1>1 DEF FeaturedHasTypes, MarkersFit
<1>13. OutOfLine(r) \in SUBSET Activities /\ OutOfLine(r)' \in SUBSET Activities
  BY DEF OutOfLine
<1>14. CASE retries[m] + 1 < MaxRetries
  <2>1. dropped' = dropped /\ Featured!Advance(r, pending, at + 1, both)
    BY <1>2, <1>3, <1>5, <1>6, <1>7, <1>14 DEF Featured!RetryFailed
  <2>2. /\ CallsFit'
        /\ heap' \in Seq(Seq(Activities)) /\ Len(heap') >= 1 /\ pending' = Len(heap')
        /\ \A q \in Featured!Processes : q # r => calls'[q] = calls[q]
        /\ InOrder(heap[pending], Place(r), Taken(r))'
        /\ InLine(r)' = Line(heap[pending], at, both)
        /\ calls'[r].step # "succeeded"
    BY <1>1, <1>2, <1>4, <1>7, <1>8, <2>1, CycleAdvances
  <2>3. FeaturedHasTypes'
    BY <1>1, <1>4, <1>8, <1>9, <2>1, <2>2 DEF FeaturedHasTypes, Featured!None
  <2>4. \A a \in Activities : calls'[a] = calls[a]
    BY <1>2, <2>2, ProcessKinds, FeaturedConstants
  <2>5. InLine(r)' = InLine(r)
    BY <1>7, <2>2
  <2>6. OutOfLine(r)' = OutOfLine(r)
    BY <1>4, <2>4, <2>5 DEF OutOfLine, Featured!Done
  <2>7. Cardinality(OutOfLine(r)') <= dropped'
    BY <1>12, <2>1, <2>6
  <2>8. m \in InLine(r) /\ retries'[m] < MaxRetries
    BY <1>7, <1>9, <1>14
  <2>9. \A a \in Activities :
          \/ retries'[a] = retries[a]
          \/ /\ a \in InLine(r) /\ retries'[a] <= MaxRetries
             /\ a \in InLine(r)' => retries'[a] < MaxRetries
    BY <1>9, <1>10, <2>8
  <2>10. MarkersFit(r)'
    BY <1>1, <1>2, <1>4, <1>11, <2>2, <2>5, <2>7, <2>9, CycleGoesOn
  <2> QED BY <2>3, <2>10 DEF FeaturedIInv
<1>15. CASE ~(retries[m] + 1 < MaxRetries)
  <2>1. dropped' = dropped + 1 /\ Featured!Advance(r, pending, at + 1, rest)
    BY <1>2, <1>3, <1>5, <1>6, <1>7, <1>15 DEF Featured!RetryFailed
  <2>2. /\ CallsFit'
        /\ heap' \in Seq(Seq(Activities)) /\ Len(heap') >= 1 /\ pending' = Len(heap')
        /\ \A q \in Featured!Processes : q # r => calls'[q] = calls[q]
        /\ InOrder(heap[pending], Place(r), Taken(r))'
        /\ InLine(r)' = Line(heap[pending], at, rest)
        /\ calls'[r].step # "succeeded"
    BY <1>1, <1>2, <1>4, <1>7, <1>8, <2>1, CycleAdvances
  <2>3. FeaturedHasTypes'
    <3>1. dropped' \in Nat
      BY <1>12, <2>1
    <3> QED BY <1>1, <1>4, <1>8, <1>9, <2>2, <3>1 DEF FeaturedHasTypes, Featured!None
  <2>4. \A a \in Activities : calls'[a] = calls[a]
    BY <1>2, <2>2, ProcessKinds, FeaturedConstants
  <2>5. InLine(r)' \subseteq InLine(r) /\ InLine(r) = InLine(r)' \union {m} /\ m \notin InLine(r)'
    BY <1>7, <2>2
  <2>6. OutOfLine(r)' \subseteq OutOfLine(r) \union {m}
    <3>1. ASSUME NEW a \in Activities, calls'[a] = Featured!Done, recorded'[a] = 0,
                 a \notin InLine(r)', a # m
          PROVE  a \in OutOfLine(r)
      <4>1. a \notin InLine(r) /\ calls[a] = Featured!Done /\ recorded[a] = 0
        BY <1>4, <2>4, <2>5, <3>1
      <4> QED BY <4>1 DEF OutOfLine
    <3> QED BY <3>1 DEF OutOfLine, Featured!Done
  <2>7. Cardinality(OutOfLine(r)') <= dropped'
    BY <1>12, <1>13, <2>1, <2>6, OneMoreIsLost
  <2>8. \A a \in Activities :
          \/ retries'[a] = retries[a]
          \/ /\ a \in InLine(r) /\ retries'[a] <= MaxRetries
             /\ a \in InLine(r)' => retries'[a] < MaxRetries
    BY <1>9, <1>10, <2>5
  <2>9. MarkersFit(r)'
    BY <1>1, <1>2, <1>4, <1>11, <2>2, <2>5, <2>7, <2>8, CycleGoesOn
  <2> QED BY <2>3, <2>9 DEF FeaturedIInv
<1> QED BY <1>14, <1>15

LEMMA MarkersStart ==
  ASSUME Featured!Init, NEW r, Retriers \subseteq {r}
  PROVE  FeaturedIInv(r)
<1>1. /\ configs = <<>> /\ recorded = [a \in Activities |-> 0] /\ cached = Featured!None
      /\ heap = << <<>> >> /\ pending = 1 /\ retries = [a \in Activities |-> 0]
      /\ dropped = 0 /\ unheard = {}
      /\ calls = [p \in Featured!Processes |-> Featured!Waiting]
  BY DEF Featured!Init
<1>2. Cap \in Nat /\ MaxRetries \in Nat \ {0} /\ MaxConfigs \in Nat
  BY FeaturedConstants
<1>3. PICK x : x = Featured!Waiting
  OBVIOUS
<1>4. x \notin MarkerCall /\ x # Featured!Done /\ x.step = "waiting"
  BY <1>3, CallKinds
<1>5. \A p \in Featured!Processes : calls[p] = x /\ CallFits(p, x, DOMAIN configs, pending)
  BY <1>1, <1>3, <1>4 DEF CallFits
<1>6. CallsFit
  <2>1. calls = [p \in Featured!Processes |-> calls[p]]
    BY <1>1
  <2> QED BY <1>5, <2>1 DEF CallsFit
<1>7. FeaturedHasTypes
  <2>1. cached \in Cid
    BY <1>1 DEF Featured!None, Cid
  <2>2. configs \in Seq(Nat \ {0}) /\ Len(configs) <= MaxConfigs
    BY <1>1, <1>2
  <2>3. heap \in Seq(Seq(Activities)) /\ Len(heap) >= 1 /\ pending = Len(heap)
    BY <1>1
  <2>4. /\ recorded \in [Activities -> Nat] /\ retries \in [Activities -> Nat]
        /\ dropped \in Nat /\ unheard \subseteq Activities
    BY <1>1
  <2> QED BY <1>1, <1>6, <2>1, <2>2, <2>3, <2>4 DEF FeaturedHasTypes
<1>8. /\ Activities \subseteq Featured!Processes
      /\ Activities \union Retriers \subseteq Featured!Processes
  BY ProcessKinds
<1>9. Cycle(r) = Featured!Waiting
  BY <1>3, <1>5, <1>8 DEF Cycle
<1>10. Place(r) = 0 /\ Taken(r) = <<>> /\ heap[pending] = <<>>
  BY <1>1, <1>9 DEF Place, Taken
<1>11. InOrder(<<>>, 0, <<>>) /\ Line(<<>>, 0, <<>>) = {}
  <2>1. <<>> \in Seq(Activities) /\ Len(<<>>) = 0 /\ 0 \in 0..0 /\ 1..0 = {} /\ (0 + 1)..0 = {}
    OBVIOUS
  <2> QED BY <1>2, <2>1 DEF InOrder, Line
<1>12. InLine(r) = {}
  BY <1>10, <1>11 DEF InLine
<1>13. OutOfLine(r) = {}
  <2>1. \A a \in Activities : calls[a] # Featured!Done
    BY <1>4, <1>5, <1>8
  <2> QED BY <2>1 DEF OutOfLine
<1>14. Cardinality(OutOfLine(r)) <= dropped
  BY <1>1, <1>13, FS_EmptySet
<1>15. \A a \in Activities : recorded[a] = 0 /\ retries[a] = 0
  BY <1>1
<1>16. \A p \in Activities \union Retriers : calls[p].step # "succeeded"
  BY <1>4, <1>5, <1>8
<1>17. MarkersFit(r)
  BY <1>2, <1>10, <1>11, <1>12, <1>14, <1>15, <1>16 DEF MarkersFit
<1> QED BY <1>7, <1>17 DEF FeaturedIInv

LEMMA MarkersGoOn ==
  ASSUME NEW r, Retriers \subseteq {r}, FeaturedIInv(r),
         [Featured!Next]_featuredVars
  PROVE  FeaturedIInv(r)'
<1>1. CASE UNCHANGED featuredVars
  <2>1. UNCHANGED <<configs, recorded, cached, heap, pending, retries, dropped, unheard, calls>>
    BY <1>1 DEF featuredVars
  <2>2. FeaturedHasTypes'
    BY <2>1 DEF FeaturedIInv, FeaturedHasTypes, CallsFit, CallFits, Featured!None,
                Featured!Waiting, Featured!Done, Featured!Processes, MarkerCall, Cid
  <2>3. Place(r)' = Place(r) /\ Taken(r)' = Taken(r)
        /\ \A a \in Activities : IsRecorded(r, a)' <=> IsRecorded(r, a)
    BY <2>1 DEF Place, Taken, IsRecorded, Cycle, Featured!Waiting
  <2>4. \A a \in Activities : /\ calls'[a] = Featured!Done <=> calls[a] = Featured!Done
                              /\ IsOpen(a)' <=> IsOpen(a)
    BY <2>1 DEF IsOpen
  <2>5. MarkersFit(r)'
    BY <2>1, <2>3, <2>4, MarkersStay DEF FeaturedIInv
  <2> QED BY <2>2, <2>5 DEF FeaturedIInv
<1>2. CASE Featured!Next
  <2>1. PICK p \in Featured!Processes : Featured!Ledger(p) \/ Featured!Engine(p)
    BY <1>2 DEF Featured!Next
  <2> QED
    BY <2>1, QueryConfigStep, InitializedStep, AdoptStep, RecordActivityStep, MarkerIsExercised,
       RecordReturnsStep, StartCycleStep, RetrySucceededStep, RetryFailedStep
       DEF Featured!Ledger, Featured!Engine
<1> QED BY <1>1, <1>2

LEMMA MarkersAreAccountedThen ==
  ASSUME NEW r, Retriers \subseteq {r}, FeaturedIInv(r)
  PROVE  MarkersAreAccounted
<1>1. FeaturedHasTypes /\ CallsFit /\ MarkersFit(r)
  BY DEF FeaturedIInv, FeaturedHasTypes
<1>2. \A S : Featured!Cardinality(S) = Cardinality(S)
  BY DEF Featured!Cardinality, Cardinality
<1>3. ASSUME NEW a \in Featured!Lost
      PROVE  a \in OutOfLine(r)
  <2>1. /\ a \in Activities /\ calls[a] = Featured!Done /\ recorded[a] = 0
        /\ a \notin Featured!ToSet(heap[pending])
        /\ \A p \in Featured!Processes : a \notin Featured!InHand(p)
    BY DEF Featured!Lost
  <2>2. InOrder(heap[pending], Place(r), Taken(r))
    BY <1>1 DEF MarkersFit
  <2>3. \A i \in (Place(r) + 1)..Len(heap[pending]) : heap[pending][i] # a
    <3>1. PICK q : q = heap[pending]
      OBVIOUS
    <3>2. q \in Seq(Activities) /\ Place(r) \in 0..Len(q)
      <4>1. InOrder(q, Place(r), Taken(r))
        BY <2>2, <3>1
      <4> QED BY <4>1 DEF InOrder
    <3>3. \A i \in (Place(r) + 1)..Len(q) : i \in DOMAIN q
      BY <3>2
    <3> QED BY <2>1, <3>1, <3>3 DEF Featured!ToSet
  <2>4. \A i \in 1..Len(Taken(r)) : Taken(r)[i] # a
    <3>1. CASE Cycle(r) = Featured!Waiting
      <4>1. Taken(r) = <<>>
        BY <3>1 DEF Taken
      <4> QED BY <4>1
    <3>2. CASE Cycle(r) # Featured!Waiting
      <4>1. r \in Retriers /\ r \in Featured!Processes /\ Cycle(r) = calls[r]
        BY <3>2, ProcessKinds DEF Cycle
      <4>2. PICK c : c = calls[r]
        OBVIOUS
      <4>3. CallFits(r, c, DOMAIN configs, pending)
        BY <1>1, <4>1, <4>2 DEF CallsFit
      <4>4. c \in MarkerCall /\ c # Featured!Waiting /\ c # Featured!Done
        BY <3>2, <4>1, <4>2, <4>3 DEF CallFits
      <4>5. a # c.marker /\ a \notin Featured!ToSet(c.remaining)
        BY <2>1, <4>1, <4>2, <4>4 DEF Featured!InHand
      <4>6. PICK rest : rest = c.remaining
        OBVIOUS
      <4>7. c.marker \in Activities /\ rest \in Seq(Activities)
        BY <4>1, <4>3, <4>4, <4>6, StepBy DEF MarkerCall
      <4>8. \A i \in 1..Len(rest) : rest[i] # a
        BY <4>5, <4>6, <4>7 DEF Featured!ToSet
      <4>9. PICK both : both = Append(rest, c.marker)
        OBVIOUS
      <4>10. /\ Len(both) = Len(rest) + 1 /\ both[Len(rest) + 1] = c.marker
             /\ Len(rest) \in Nat /\ \A i \in 1..Len(rest) : both[i] = rest[i]
        BY <4>7, <4>9, AppendProperties
      <4>11. \A i \in 1..Len(both) : both[i] # a
        BY <4>5, <4>8, <4>10
      <4>12. Taken(r) = both
        BY <3>2, <4>1, <4>2, <4>6, <4>9 DEF Taken
      <4> QED BY <4>11, <4>12
    <3> QED BY <3>1, <3>2
  <2>5. a \notin InLine(r)
    BY <2>3, <2>4 DEF InLine, Line
  <2> QED BY <2>1, <2>5 DEF OutOfLine
<1>4. Cardinality(Featured!Lost) <= dropped
  <2>1. OutOfLine(r) \in SUBSET Activities /\ Featured!Lost \in SUBSET Activities
    BY DEF OutOfLine, Featured!Lost
  <2>2. dropped \in Nat /\ Cardinality(OutOfLine(r)) <= dropped
    BY <1>1 DEF FeaturedHasTypes, MarkersFit
  <2> QED BY <1>3, <2>1, <2>2, OneMoreIsLost
<1>5. Featured!NoDoubleRecords
  BY <1>1 DEF MarkersFit, Featured!NoDoubleRecords
<1> QED BY <1>2, <1>4, <1>5
        DEF MarkersAreAccounted, Featured!MarkersAreAccounted, Featured!LossesAreCounted

LEMMA MarkersHaveTypes ==
  ASSUME NEW r, Retriers \subseteq {r}, FeaturedIInv(r)
  PROVE  Featured!TypeOK
<1>1. FeaturedHasTypes /\ CallsFit /\ MarkersFit(r)
  BY DEF FeaturedIInv, FeaturedHasTypes
<1>2. retries \in [Activities -> 0..MaxRetries]
  <2>1. retries \in [Activities -> Nat] /\ MaxRetries \in Nat
        /\ \A a \in Activities : retries[a] <= MaxRetries
    BY <1>1, FeaturedConstants DEF FeaturedHasTypes, MarkersFit
  <2>2. \A a \in Activities : retries[a] \in 0..MaxRetries
    BY <2>1
  <2> QED BY <2>1, <2>2
<1>3. Len(heap[pending]) <= Cap
  BY <1>1 DEF MarkersFit, InOrder
<1>4. ASSUME NEW p \in Featured!Processes
      PROVE  calls[p] \in {Featured!Waiting, Featured!Done}
             \/ calls[p].marker \in Featured!Markers
  <2>1. CallFits(p, calls[p], DOMAIN configs, pending)
    BY <1>1 DEF CallsFit
  <2> QED BY <2>1 DEF CallFits, MarkerCall, Featured!Markers
<1> QED BY <1>1, <1>2, <1>3, <1>4 DEF FeaturedHasTypes, Featured!TypeOK

(* As long as no retry cycle is longer than the timer's two minutes, so    *)
(* that one runs at a time, an activity whose call has ended is recorded,  *)
(* waits for a retry or is counted as dropped, and only one whose success  *)
(* was not heard of is recorded twice (featured-app.ts, recordActivity,    *)
(* enqueuePendingMarker and retryPendingMarkers).                          *)
THEOREM MarkersAccounted ==
  ASSUME NEW r, Retriers \subseteq {r}
  PROVE  WritesSpec => []MarkersAreAccounted
<1>1. WritesInit => FeaturedIInv(r)
  BY MarkersStart DEF WritesInit
<1>2. FeaturedIInv(r) /\ [WritesNext]_writeVars => FeaturedIInv(r)'
  <2>1. [WritesNext]_writeVars => [Featured!Next]_featuredVars
    BY DEF WritesNext, writeVars
  <2> QED BY <2>1, MarkersGoOn
<1>3. FeaturedIInv(r) => MarkersAreAccounted
  BY MarkersAreAccountedThen
<1> QED BY <1>1, <1>2, <1>3, PTL DEF WritesSpec

---------------------------------------------------------------------------
(* The types of all parts.                                                 *)

LEMMA CommandsHaveTypes ==
  ASSUME CommandsIInv
  PROVE  Commands!TypeOK
<1>1. /\ store \in Seq(CacheEntry) /\ Len(store) <= MaxSize /\ issued \in Seq(IssuedId)
      /\ acknowledged \in Seq(Nat) /\ Len(acknowledged) = Len(issued)
      /\ ran \union forgotten \subseteq DOMAIN issued
      /\ \A n \in DOMAIN store : store[n].id \in DOMAIN issued
      /\ submitting \in [Callers -> {Commands!Idle} \union Submission]
      /\ \A c \in Callers : submitting[c] # Commands!Idle => submitting[c].id \in DOMAIN issued
  BY DEF CommandsIInv, CacheIInv
<1>2. \A i \in DOMAIN store : store[i].key \in Keys /\ store[i].expires \in Nat
  <2>1. \A i \in DOMAIN store : store[i] \in CacheEntry
    BY <1>1
  <2> QED BY <2>1 DEF CacheEntry
<1>3. acknowledged \in [DOMAIN issued -> Nat]
  BY <1>1
<1> QED BY <1>1, <1>2, <1>3 DEF Commands!TypeOK

InParts == part \in {"plan", "transfers", "bridge", "featured", "commands", "owners"}

(* Whatever is read of the parts' state was written there as such: an id of*)
(* a cached command was issued, an attestation that a deposit refers to    *)
(* exists, a retry count does not exceed its limit and the queue its cap,  *)
(* and so on, under the same condition (token-transfer.ts, featured-app.ts,*)
(* xreserve-client.ts, command-dedup.ts, ledger.ts, portfolio.ts, dca.ts). *)
THEOREM WritesTypes ==
  ASSUME NEW r, Retriers \subseteq {r}
  PROVE  WritesSpec => []TypesOK
<1> DEFINE IInv == /\ InParts /\ PlanIInv /\ TransfersIInv /\ BridgeIInv /\ FeaturedIInv(r)
                   /\ CommandsIInv /\ OwnersIInv
<1>1. WritesInit => IInv
  BY PlansStart, TransfersStart, BridgeStart, MarkersStart, CommandsStart, OwnersStart
     DEF WritesInit, InParts
<1>2. IInv /\ [WritesNext]_writeVars => IInv'
  <2>1. [WritesNext]_writeVars =>
          /\ part' = part
          /\ [Next]_vars /\ [Transfers!Next]_transferVars /\ [Bridges!Next]_bridgeVars
          /\ [Featured!Next]_featuredVars /\ [Commands!Next]_commandVars
          /\ [Owners!Next]_ownerVars
    BY DEF WritesNext, writeVars
  <2>2. part' = part /\ InParts => InParts'
    BY DEF InParts
  <2> QED BY <2>1, <2>2, PlansGoOn, TransfersGoOn, BridgeGoesOn, MarkersGoOn, CommandsGoOn,
             OwnersGoOn
<1>3. IInv => TypesOK
  <2>1. PlanIInv => rounds \in {0, 1}
    BY DEF PlanIInv
  <2>2. /\ TransfersIInv => Transfers!TypeOK
        /\ BridgeIInv => Bridges!TypeOK
        /\ OwnersIInv => Owners!TypeOK
    BY DEF TransfersIInv, BridgeIInv, BridgeHasTypes, OwnersIInv, OwnersHaveTypes
  <2>3. (CommandsIInv => Commands!TypeOK) /\ (FeaturedIInv(r) => Featured!TypeOK)
    BY CommandsHaveTypes, MarkersHaveTypes
  <2> QED BY <2>1, <2>2, <2>3 DEF TypesOK, InParts
<1> HIDE DEF IInv
<1> QED BY <1>1, <1>2, <1>3, PTL DEF WritesSpec
===========================================================================
