---------------------------- MODULE TokenTransfer ----------------------------
(***************************************************************************)
(* Transfers and swaps of tokens (backend/src/services/token-transfer.ts   *)
(* and routes/transfers.ts) with the contracts they create                 *)
(* (main/daml/TokenTransfer.daml), which the parties act on directly.      *)
(*                                                                         *)
(* A send makes up to two commands and a swap three, two of them on the    *)
(* ledger and one at the venue.  A command may fail before or after it     *)
(* took effect; the code cannot tell and never undoes anything.            *)
(***************************************************************************)
EXTENDS Integers

CONSTANTS
  Sends, Swaps,  \* requests to /send and to /swap
  Amounts,       \* what a swap may deliver
  MinBuyAmount   \* the least its request accepts

ConstantsAssumption == Amounts \subseteq Nat \ {0} /\ MinBuyAmount \in Nat

VARIABLES
  mode,         \* "internal" or "network"
  sends,        \* how far each send is
  instructed,   \* sends with a CIP-0056 TransferInstruction
  requests,     \* the TransferRequest of each send
  transferLogs, \* how many TransferLogs each send has
  swaps,        \* how far each swap is, and what the venue told it
  delivered,    \* venue: what each swap delivered; 0 if it was not made
  swapRequests, \* the SwapRequest of each swap
  swapLogs      \* the amounts of the SwapLogs of each swap

sendVars == <<sends, instructed, requests, transferLogs>>
swapVars == <<swaps, delivered, swapRequests, swapLogs>>
vars == <<mode, sendVars, swapVars>>

SendSteps == {"new", "transfer", "create", "ok", "failed"}
SwapSteps == {"new", "swap", "log", "ok", "failed"}

Init ==
  /\ mode \in {"internal", "network"}
  /\ sends = [s \in Sends |-> "new"]
  /\ instructed = {}
  /\ requests = [s \in Sends |-> "none"]
  /\ transferLogs = [s \in Sends |-> 0]
  /\ swaps = [w \in Swaps |-> [step |-> "new", buy |-> 0]]
  /\ delivered = [w \in Swaps |-> 0]
  /\ swapRequests = [w \in Swaps |-> "none"]
  /\ swapLogs = [w \in Swaps |-> {}]

---------------------------------------------------------------------------
(* POST /send.                                                             *)

SendGoesTo(s, step) == sends' = [sends EXCEPT ![s] = step]

(* The request passes its checks.                                          *)
Send(s) ==
  /\ sends[s] = "new"
  /\ SendGoesTo(s, IF mode = "network" THEN "transfer" ELSE "create")
  /\ UNCHANGED <<mode, instructed, requests, transferLogs, swapVars>>

(* createCIP56Transfer: find the factory and exercise its choice.  On an   *)
(* error the send ends, whether the instruction was created or not.        *)
CreateCIP56Transfer(s) ==
  /\ sends[s] = "transfer"
  /\ \/ instructed' = instructed \union {s} /\ SendGoesTo(s, "create")
     \/ instructed' \in {instructed, instructed \union {s}} /\ SendGoesTo(s, "failed")
  /\ UNCHANGED <<mode, requests, transferLogs, swapVars>>

(* Then the TransferRequest.                                               *)
CreateTransferRequest(s) ==
  /\ sends[s] = "create"
  /\ \/ requests' = [requests EXCEPT ![s] = "pending"] /\ SendGoesTo(s, "ok")
     \/ requests' = [requests EXCEPT ![s] = "pending"] /\ SendGoesTo(s, "failed")
     \/ SendGoesTo(s, "failed") /\ UNCHANGED requests
  /\ UNCHANGED <<mode, instructed, transferLogs, swapVars>>

(* The choices of the receiver and of the sender.                          *)
Approve(s) ==
  /\ requests[s] = "pending"
  /\ requests' = [requests EXCEPT ![s] = "approved"]
  /\ transferLogs' = [transferLogs EXCEPT ![s] = @ + 1]
  /\ UNCHANGED <<mode, sends, instructed, swapVars>>

Reject(s) ==
  /\ requests[s] = "pending"
  /\ requests' = [requests EXCEPT ![s] = "rejected"]
  /\ UNCHANGED <<mode, sends, instructed, transferLogs, swapVars>>

Withdraw(s) ==
  /\ requests[s] \in {"pending", "rejected"}
  /\ requests' = [requests EXCEPT ![s] = "withdrawn"]
  /\ UNCHANGED <<mode, sends, instructed, transferLogs, swapVars>>

---------------------------------------------------------------------------
(* POST /swap.                                                             *)

SwapFails(w) == swaps' = [swaps EXCEPT ![w] = [step |-> "failed", buy |-> 0]]

CreateSwapRequest(w) ==
  /\ swaps[w].step = "new"
  /\ \/ /\ swapRequests' = [swapRequests EXCEPT ![w] = "pending"]
        /\ swaps' = [swaps EXCEPT ![w].step = "swap"]
     \/ /\ swapRequests' \in {swapRequests, [swapRequests EXCEPT ![w] = "pending"]}
        /\ SwapFails(w)
  /\ UNCHANGED <<mode, delivered, swapLogs, sendVars>>

ExecuteAtVenue_Assumed(w) ==
  /\ swaps[w].step = "swap"
  /\ \E amount \in Amounts : delivered' = [delivered EXCEPT ![w] = amount]
  /\ swaps' = [swaps EXCEPT ![w] = [step |-> "log", buy |-> MinBuyAmount]]
  /\ UNCHANGED <<mode, swapRequests, swapLogs, sendVars>>

(* cantex.executeSwap, of whose price nothing is known.                    *)
ExecuteAtVenue(w) ==
  /\ swaps[w].step = "swap"
  /\ \E amount \in Amounts :
       \/ /\ delivered' = [delivered EXCEPT ![w] = amount]
          /\ swaps' = [swaps EXCEPT ![w] = [step |-> "log", buy |-> amount]]
       \/ delivered' = [delivered EXCEPT ![w] = amount] /\ SwapFails(w)
       \/ SwapFails(w) /\ UNCHANGED delivered
  /\ UNCHANGED <<mode, swapRequests, swapLogs, sendVars>>

(* ExecuteSwap archives the request and logs what was bought, unless the   *)
(* slippage is too large or the user has cancelled.                        *)
ExecuteSwap(w) ==
  /\ swaps[w].step = "log"
  /\ \/ /\ swapRequests[w] = "pending"
        /\ swaps[w].buy >= MinBuyAmount
        /\ swapRequests' = [swapRequests EXCEPT ![w] = "executed"]
        /\ swapLogs' = [swapLogs EXCEPT ![w] = @ \union {swaps[w].buy}]
        /\ \/ swaps' = [swaps EXCEPT ![w].step = "ok"]
           \/ SwapFails(w)
     \/ SwapFails(w) /\ UNCHANGED <<swapRequests, swapLogs>>
  /\ UNCHANGED <<mode, delivered, sendVars>>

CancelSwap(w) ==
  /\ swapRequests[w] = "pending"
  /\ swapRequests' = [swapRequests EXCEPT ![w] = "cancelled"]
  /\ UNCHANGED <<mode, swaps, delivered, swapLogs, sendVars>>

Next ==
  \/ \E s \in Sends :
       \/ Send(s) \/ CreateCIP56Transfer(s) \/ CreateTransferRequest(s)
       \/ Approve(s) \/ Reject(s) \/ Withdraw(s)
  \/ \E w \in Swaps :
       \/ CreateSwapRequest(w) \/ ExecuteAtVenue(w) \/ ExecuteSwap(w) \/ CancelSwap(w)

Spec == Init /\ [][Next]_vars

---------------------------------------------------------------------------
(* Properties.                                                             *)

TypeOK ==
  /\ sends \in [Sends -> SendSteps]
  /\ instructed \subseteq Sends
  /\ requests \in [Sends -> {"none", "pending", "approved", "rejected", "withdrawn"}]
  /\ transferLogs \in [Sends -> Nat]
  /\ \A w \in Swaps : swaps[w].step \in SwapSteps /\ swaps[w].buy \in Amounts \union {0}
  /\ delivered \in [Swaps -> Amounts \union {0}]
  /\ swapRequests \in [Swaps -> {"none", "pending", "executed", "cancelled"}]
  /\ swapLogs \in [Swaps -> SUBSET Amounts]

(* A send that was acknowledged is whole, in network mode both the token   *)
(* instruction and the request that tracks it, and is logged at most once  *)
(* and only if the receiver approved it.                                   *)
AcknowledgedSendsAreWhole ==
  \A s \in Sends :
    /\ sends[s] = "ok" =>
         requests[s] # "none" /\ (mode = "network" => s \in instructed)
    /\ transferLogs[s] = IF requests[s] = "approved" THEN 1 ELSE 0

(* A SwapLog states what the venue delivered, no less than the user asked  *)
(* for, whatever was cancelled or lost meanwhile; and a swap that is       *)
(* reported as executed has one.                                           *)
SwapLogsAreTrue ==
  \A w \in Swaps :
    /\ swapLogs[w] \subseteq {delivered[w]}
    /\ \A amount \in swapLogs[w] : amount >= MinBuyAmount /\ amount > 0
    /\ swaps[w].step = "ok" => swapLogs[w] = {swaps[w].buy}

(* What the service and the logs on the ledger say of a transfer is what   *)
(* happened to it (token-transfer.ts).                                     *)
TransfersAreTrue == AcknowledgedSendsAreWhole /\ SwapLogsAreTrue
===========================================================================
