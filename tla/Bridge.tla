-------------------------------- MODULE Bridge --------------------------------
(***************************************************************************)
(* The xReserve bridge of one user (backend/src/services, xreserve-client  *)
(* and routes/xreserve.ts): deposits wait for an attestation that the      *)
(* operator of the bridge writes to the ledger, and are then claimed;      *)
(* withdrawals burn holdings.  The records live in memory only.            *)
(*                                                                         *)
(* A poller finds attestations; polls may overlap.  The Ethereum side, the *)
(* operator and the contracts of the bridge are external.                  *)
(***************************************************************************)
EXTENDS Integers, Sequences, FiniteSets, FiniteSetsExt

CONSTANTS
  Deposits,     \* 1..n, in the order they are created
  Withdrawals,
  Amount,       \* of each deposit and withdrawal
  Wallet,       \* the USDCx holdings at first, as a sequence of amounts
  Polls,
  MaxRestarts   \* bound

ConstantsAssumption ==
  /\ IsFiniteSet(Deposits) /\ Deposits = 1..Cardinality(Deposits)
  /\ Amount \in [Deposits \union Withdrawals -> Nat \ {0}]
  /\ Wallet \in Seq(Nat)
  /\ MaxRestarts \in Nat

VARIABLES
  agreement,    \* ledger: of the user with the operator
  attestations, \* ledger: the deposit each was written for
  minted,       \* ledger: attestations that were used
  wallet,       \* ledger: the holdings; an archived one has amount 0
  burned,       \* ledger: withdrawals that were burned
  deposits,     \* deposits: status and attestationContractId
  created,      \* how many deposits were ever created
  withdrawals,  \* withdrawals: status, and how far its request is
  claims,       \* the request to claim each deposit
  polls,        \* the local state of each poll
  restarts

ledgerVars == <<agreement, attestations, minted, wallet, burned>>
vars == <<ledgerVars, deposits, created, withdrawals, claims, polls, restarts>>

None == 0

Unknown == [status |-> "unknown", attestation |-> None]
NoPoll == [step |-> "idle", pending |-> {}, found |-> {}]
NoRequest == [status |-> "unknown", step |-> "none", selected |-> {}]

Init ==
  /\ agreement = "none" /\ attestations = <<>> /\ minted = {}
  /\ wallet = Wallet /\ burned = {}
  /\ deposits = [d \in Deposits |-> Unknown]
  /\ withdrawals = [w \in Withdrawals |-> NoRequest]
  /\ created = 0
  /\ claims = [d \in Deposits |-> "none"]
  /\ polls = [p \in Polls |-> NoPoll]
  /\ restarts = 0

Written(d) == \E a \in DOMAIN attestations : attestations[a] = d

---------------------------------------------------------------------------
(* Onboarding, and what is external.                                       *)

Onboard ==
  /\ agreement = "none"
  /\ agreement' = "requested"
  /\ UNCHANGED <<attestations, minted, wallet, burned, deposits, withdrawals, claims,
                 polls, created, restarts>>

OperatorAccepts ==
  /\ agreement = "requested"
  /\ agreement' = "agreed"
  /\ UNCHANGED <<attestations, minted, wallet, burned, deposits, withdrawals, claims,
                 polls, created, restarts>>

(* The deposit was made on Ethereum and is final.                          *)
OperatorAttests(d) ==
  /\ deposits[d].status # "unknown"
  /\ ~ Written(d)
  /\ attestations' = Append(attestations, d)
  /\ UNCHANGED <<agreement, minted, wallet, burned, deposits, withdrawals, claims,
                 polls, created, restarts>>

---------------------------------------------------------------------------
(* Deposits.                                                               *)

CreateDeposit ==
  /\ created + 1 \in Deposits
  /\ created' = created + 1
  /\ deposits' = [deposits EXCEPT ![created'].status = "pending_approval"]
  /\ UNCHANGED <<ledgerVars, withdrawals, claims, polls, restarts>>

(* The user names the transaction, in whatever status the deposit is.      *)
RecordBurnTx(d) ==
  /\ deposits[d] # Unknown
  /\ deposits' = [deposits EXCEPT ![d].status = "awaiting_finality"]
  /\ UNCHANGED <<ledgerVars, withdrawals, claims, polls, created, restarts>>

(* pollAttestations: the deposits that wait, and then what is active.      *)
StartPoll(p) ==
  LET pending == {d \in Deposits : deposits[d].status = "awaiting_finality"} IN
  /\ polls[p] = NoPoll /\ pending # {}
  /\ polls' = [polls EXCEPT ![p] = [NoPoll EXCEPT !.step = "query", !.pending = pending]]
  /\ UNCHANGED <<ledgerVars, deposits, withdrawals, claims, created, restarts>>

Active == DOMAIN attestations \ minted

(* A query that fails finds nothing.                                       *)
QueryAttestations(p) ==
  /\ polls[p].step = "query"
  /\ \E found \in {Active, {}} :
       polls' = [polls EXCEPT ![p].step = "match", ![p].found = found]
  /\ UNCHANGED <<ledgerVars, deposits, withdrawals, claims, created, restarts>>

Matches(ds, d, a) ==
  ds[d].attestation = None /\ Amount[d] = Amount[attestations[a]]

(* An attestation goes to the first deposit of its amount without one, in  *)
(* the order in which the ledger lists them.                               *)
MarkAttested(pending, ds, a) ==
  LET fit == {d \in pending : Matches(ds, d, a)} IN
  IF fit = {} THEN ds
  ELSE [ds EXCEPT ![Min(fit)] = [status |-> "attested", attestation |-> a]]

MatchAttestations(p) ==
  /\ polls[p].step = "match"
  /\ deposits' = MapThenFoldSet(LAMBDA a, ds : MarkAttested(polls[p].pending, ds, a),
                               deposits, LAMBDA a : a, LAMBDA as : Max(as), polls[p].found)
  /\ polls' = [polls EXCEPT ![p] = NoPoll]
  /\ UNCHANGED <<ledgerVars, withdrawals, claims, created, restarts>>

(* POST /claim is let through for a deposit that is attested.              *)
Claim(d) ==
  /\ claims[d] = "none"
  /\ deposits[d].status = "attested"
  /\ claims' = [claims EXCEPT ![d] = "mint"]
  /\ UNCHANGED <<ledgerVars, deposits, withdrawals, polls, created, restarts>>

MarkMinted(d) == deposits' = [deposits EXCEPT ![d].status = "completed"]

Mint_MarksFirst(d) ==
  /\ claims[d] = "mint"
  /\ claims' = [claims EXCEPT ![d] = "none"]
  /\ MarkMinted(d)
  /\ LET a == deposits[d].attestation IN
     IF agreement = "agreed" /\ a \notin minted
     THEN minted' = minted \union {a} /\ wallet' = Append(wallet, Amount[attestations[a]])
     ELSE UNCHANGED <<minted, wallet>>
  /\ UNCHANGED <<agreement, attestations, burned, withdrawals, polls, created, restarts>>

(* The mint uses up the attestation.  If the response is lost the deposit  *)
(* stays attested.                                                         *)
Mint(d) ==
  LET a == deposits[d].attestation IN
  /\ claims[d] = "mint"
  /\ agreement = "agreed" /\ a \notin minted
  /\ minted' = minted \union {a}
  /\ wallet' = Append(wallet, Amount[attestations[a]])
  /\ claims' = [claims EXCEPT ![d] = "none"]
  /\ MarkMinted(d) \/ UNCHANGED deposits
  /\ UNCHANGED <<agreement, attestations, burned, withdrawals, polls, created, restarts>>

(* No agreement, no factory, or an error of the ledger.                    *)
MintFails(d) ==
  /\ claims[d] = "mint"
  /\ claims' = [claims EXCEPT ![d] = "none"]
  /\ UNCHANGED <<ledgerVars, deposits, withdrawals, polls, created, restarts>>

---------------------------------------------------------------------------
(* Withdrawals.                                                            *)

CreateWithdrawal(w) ==
  /\ withdrawals[w] = NoRequest
  /\ withdrawals' = [withdrawals EXCEPT ![w].status = "pending", ![w].step = "select"]
  /\ UNCHANGED <<ledgerVars, deposits, claims, polls, created, restarts>>

Funds(hs) == SumFunctionOnSet(wallet, hs)

Usable == {h \in DOMAIN wallet : wallet[h] > 0}

(* Holdings by size are taken until their sum covers the amount.           *)
Selections(need) ==
  {hs \in SUBSET Usable :
     /\ Funds(hs) >= need
     /\ \A h \in hs, k \in Usable \ hs : wallet[h] >= wallet[k]
     /\ \E h \in hs : (\A k \in hs : wallet[h] <= wallet[k]) /\ Funds(hs \ {h}) < need}

(* The request ends with an error: the record stays as it is.              *)
WithdrawalFails(w) == withdrawals' = [withdrawals EXCEPT ![w].step = "done"]

SelectHoldings(w) ==
  /\ withdrawals[w].step = "select"
  /\ \/ \E hs \in Selections(Amount[w]) :
          withdrawals' = [withdrawals EXCEPT ![w].step = "burn", ![w].selected = hs]
     \/ WithdrawalFails(w)
  /\ UNCHANGED <<ledgerVars, deposits, claims, polls, created, restarts>>

MarkWithdrawBurned(w) ==
  withdrawals' = [withdrawals EXCEPT ![w].step = "done", ![w].status = "burning"]

(* The burn archives the holdings and returns the change.  One that another*)
(* burn has archived meanwhile makes it fail.                              *)
Burn(w) ==
  LET hs == withdrawals[w].selected IN
  /\ withdrawals[w].step = "burn"
  /\ \/ /\ agreement = "agreed"
        /\ hs \subseteq Usable
        /\ wallet' = Append([h \in DOMAIN wallet |-> IF h \in hs THEN 0 ELSE wallet[h]],
                            Funds(hs) - Amount[w])
        /\ burned' = burned \union {w}
        /\ MarkWithdrawBurned(w) \/ WithdrawalFails(w)
     \/ WithdrawalFails(w) /\ UNCHANGED <<wallet, burned>>
  /\ UNCHANGED <<agreement, attestations, minted, deposits, claims, polls, created,
                 restarts>>

---------------------------------------------------------------------------
(* Nothing is persisted: the records are gone, and so are the requests.    *)
Restart ==
  /\ restarts < MaxRestarts
  /\ restarts' = restarts + 1
  /\ deposits' = [d \in Deposits |-> Unknown]
  /\ withdrawals' = [w \in Withdrawals |->
       IF withdrawals[w] = NoRequest THEN NoRequest
       ELSE [NoRequest EXCEPT !.step = "done"]]
  /\ claims' = [d \in Deposits |-> "none"]
  /\ polls' = [p \in Polls |-> NoPoll]
  /\ UNCHANGED <<ledgerVars, created>>

Next ==
  \/ Onboard \/ OperatorAccepts \/ CreateDeposit \/ Restart
  \/ \E d \in Deposits :
       \/ OperatorAttests(d) \/ RecordBurnTx(d)
       \/ Claim(d) \/ Mint(d) \/ MintFails(d)
  \/ \E p \in Polls : StartPoll(p) \/ QueryAttestations(p) \/ MatchAttestations(p)
  \/ \E w \in Withdrawals : CreateWithdrawal(w) \/ SelectHoldings(w) \/ Burn(w)

Spec == Init /\ [][Next]_vars

---------------------------------------------------------------------------
(* Properties.                                                             *)

TypeOK ==
  /\ agreement \in {"none", "requested", "agreed"}
  /\ attestations \in Seq(Deposits) /\ minted \subseteq DOMAIN attestations
  /\ wallet \in Seq(Nat) /\ burned \subseteq Withdrawals
  /\ \A d \in Deposits :
       /\ deposits[d].status \in {"unknown", "pending_approval", "awaiting_finality",
                                  "attested", "completed"}
       /\ deposits[d].attestation \in {None} \union DOMAIN attestations
  /\ \A w \in Withdrawals : withdrawals[w].status \in {"unknown", "pending", "burning"}
  /\ created \in {0} \union Deposits

(* A deposit shown as completed was minted, from an attestation of its own:*)
(* no two completed deposits were paid by one, however polls and claims    *)
(* overlap.                                                                *)
CompletedDepositsAreMinted ==
  \A d \in Deposits : deposits[d].status = "completed" =>
    /\ deposits[d].attestation \in minted
    /\ \A e \in Deposits \ {d} : deposits[e].status = "completed" =>
         deposits[e].attestation # deposits[d].attestation

(* The holdings chosen for a burn, as long as they are all there, cover it *)
(* and none of them is superfluous; and what is shown as burning was       *)
(* burned.                                                                 *)
BurnsAreCovered ==
  \A w \in Withdrawals :
    /\ withdrawals[w].step = "burn" /\ withdrawals[w].selected \subseteq Usable =>
         LET hs == withdrawals[w].selected IN
         Funds(hs) >= Amount[w] /\ \A h \in hs : Funds(hs \ {h}) < Amount[w]
    /\ withdrawals[w].status = "burning" => w \in burned
(* What the bridge shows its users happened on the ledger (the claim and   *)
(* burn routes of xreserve.ts and xreserve-client.ts).                     *)
StatusesAreBacked == CompletedDepositsAreMinted /\ BurnsAreCovered
===========================================================================
