--------------------------- MODULE MCLedgerWrites ---------------------------
(***************************************************************************)
(* What the backend writes to the ledger besides the contracts of its      *)
(* engines, checked in one run with the plans it carries out: the commands *)
(* of ledger.ts, what owners ask of their contracts, transfers and swaps,  *)
(* the xReserve bridge and the markers of the featured app.  The parts     *)
(* share no state, so their interleavings say nothing: part is the one that*)
(* moves in a behaviour, and the others stay as they are.                  *)
(***************************************************************************)
EXTENDS MCSwapPlan

CONSTANTS
  s1, s2, w1, w2, q1, a1, a2, r1, adm, c1, c2, k1, k2, h1, h2, h3,
  Sends, Swaps, Amounts, MinBuyAmount,                       \* of TokenTransfer
  Deposits, Withdrawals, Amount, Wallet, Polls, MaxRestarts, \* of Bridge
  Activities, Retriers, Admins, Cap, MaxRetries, MaxConfigs, \* of FeaturedApp
  MaxCycles,
  Callers, Keys, MaxSize, Ttl, MaxResubmissions,             \* of LedgerClient
  MaxSubmissions, MaxTime,
  HttpRequests, Backend, Values, MaxContracts                \* of OwnerRequests

VARIABLES
  part,
  mode, sends, instructed, requests, transferLogs,
  swaps, delivered, swapRequests, swapLogs,
  agreement, attestations, minted, wallet, burned,
  deposits, created, withdrawals, claims, polls, restarts,
  configs, recorded, cached, heap, pending, retries, dropped, unheard, calls,
  store, issued, forgotten, submitting, sent, ran, acknowledged, submissions, now,
  contracts, archived, proposals, asked

Transfers == INSTANCE TokenTransfer
Bridges   == INSTANCE Bridge
Featured  == INSTANCE FeaturedApp
Commands  == INSTANCE LedgerClient WITH
               calls <- submitting, requests <- sent,
               MaxRetries <- MaxResubmissions, MaxCalls <- MaxSubmissions
Owners    == INSTANCE OwnerRequests WITH
               Requests <- HttpRequests, requests <- asked

ASSUME TransfersAssumption == Transfers!ConstantsAssumption
ASSUME BridgesAssumption == Bridges!ConstantsAssumption
ASSUME FeaturedAssumption == Featured!ConstantsAssumption
ASSUME CommandsAssumption == Commands!ConstantsAssumption
ASSUME OwnersAssumption == Owners!ConstantsAssumption

(* Every deposit and withdrawal is of two tokens; the wallet has one.      *)
Two == [x \in Deposits \union Withdrawals |-> 2]
One == <<1>>

transferVars == <<mode, sends, instructed, requests, transferLogs, swaps, delivered,
                  swapRequests, swapLogs>>
bridgeVars == <<agreement, attestations, minted, wallet, burned, deposits, created,
                withdrawals, claims, polls, restarts>>
featuredVars == <<configs, recorded, cached, heap, pending, retries, dropped, unheard,
                  calls>>
commandVars == <<store, issued, forgotten, submitting, sent, ran, acknowledged,
                 submissions, now>>
ownerVars == <<contracts, archived, proposals, asked>>
writeVars == <<part, vars, transferVars, bridgeVars, featuredVars, commandVars, ownerVars>>

WritesInit ==
  /\ part \in {"plan", "transfers", "bridge", "featured", "commands", "owners"}
  /\ part # "plan" =>
       holdings = [a \in Assets |-> IF a = 1 THEN Total ELSE 0] /\ target = holdings
  /\ part # "transfers" => mode = "internal"
  /\ Init /\ Transfers!Init /\ Bridges!Init /\ Featured!Init /\ Commands!Init
  /\ Owners!Init

WritesNext ==
  \/ /\ part = "plan" /\ Next
     /\ UNCHANGED <<part, transferVars, bridgeVars, featuredVars, commandVars, ownerVars>>
  \/ /\ part = "transfers" /\ Transfers!Next
     /\ UNCHANGED <<part, vars, bridgeVars, featuredVars, commandVars, ownerVars>>
  \/ /\ part = "bridge" /\ Bridges!Next
     /\ UNCHANGED <<part, vars, transferVars, featuredVars, commandVars, ownerVars>>
  \/ /\ part = "featured" /\ Featured!Next
     /\ UNCHANGED <<part, vars, transferVars, bridgeVars, commandVars, ownerVars>>
  \/ /\ part = "commands" /\ Commands!Next
     /\ UNCHANGED <<part, vars, transferVars, bridgeVars, featuredVars, ownerVars>>
  \/ /\ part = "owners" /\ Owners!Next
     /\ UNCHANGED <<part, vars, transferVars, bridgeVars, featuredVars, commandVars>>

WritesSpec == WritesInit /\ [][WritesNext]_writeVars

---------------------------------------------------------------------------
(* A plan is carried out once and brings the portfolio to its targets with *)
(* few trades, none of which goes too far (planSwapLegs).                  *)
PlansAreSound ==
  part = "plan" => /\ NeverOvershoots
                   /\ PlanIsShort
                   /\ SettlesInOneRound
                   /\ RebalanceReachesTarget

(* The types of the parts' state (token-transfer.ts, xreserve-client.ts,   *)
(* featured-app.ts, command-dedup.ts, ledger.ts, portfolio.ts and dca.ts). *)
TypesOK ==
  CASE part = "plan" -> rounds \in {0, 1}
    [] part = "transfers" -> Transfers!TypeOK
    [] part = "bridge" -> Bridges!TypeOK
    [] part = "featured" -> Featured!TypeOK
    [] part = "commands" -> Commands!TypeOK
    [] part = "owners" -> Owners!TypeOK

(* What the service and the logs on the ledger say of a transfer is what   *)
(* happened to it (token-transfer.ts).                                     *)
TransfersAreTrue == Transfers!TransfersAreTrue

(* What the bridge shows its users happened on the ledger (the claim and   *)
(* burn routes of xreserve.ts and xreserve-client.ts).                     *)
StatusesAreBacked == Bridges!StatusesAreBacked

(* Every activity is recorded once, waits to be, or is counted as lost or  *)
(* in doubt (featured-app.ts, recordActivity and retryPendingMarkers).     *)
MarkersAreAccounted == Featured!MarkersAreAccounted

(* A command is run once for as long as the cache promises, and its        *)
(* callers are told the truth about it (command-dedup.ts and ledger.ts).   *)
SubmissionsAreExact == Commands!SubmissionsAreExact

(* What the owners asked for is done once, to the contract they saw, or is *)
(* reported as failed (the choices exercised by portfolio.ts and dca.ts).  *)
OwnersAreObeyed == Owners!OwnersAreObeyed
===========================================================================
