------------------------------- MODULE Listing -------------------------------
(***************************************************************************)
(* Reading a listing of active contracts that may be truncated             *)
(* (backend/src/ledger.ts, queryContracts and iterateActiveContracts), as  *)
(* the cold start of the DCA engine does it: a listing is a snapshot of at *)
(* most the limit given, and is asked for again with a higher limit while  *)
(* it is as long as its limit.  Contracts are created meanwhile.           *)
(***************************************************************************)
EXTENDS Integers

CONSTANTS
  BatchSize, MaxLimit,  \* batchSize and maxLimit of iterateActiveContracts
  MaxContracts          \* bound

ConstantsAssumption ==
  /\ BatchSize \in Nat \ {0}
  /\ MaxLimit \in Nat
  /\ BatchSize <= MaxLimit
  /\ MaxContracts \in Nat

VARIABLES
  contracts,  \* how many there are
  atEnd,      \* how many there were at the ledger end the query asked for
  limit,      \* currentLimit
  seen,       \* the longest batch yielded
  step        \* what the reader is doing

vars == <<contracts, atEnd, limit, seen, step>>

Init ==
  /\ contracts = 0 /\ atEnd = 0 /\ limit = BatchSize /\ seen = 0
  /\ step = "idle"

Start ==
  /\ step \in {"idle", "done"}
  /\ step' = "end"
  /\ limit' = BatchSize /\ seen' = 0
  /\ UNCHANGED <<contracts, atEnd>>

(* queryContracts asks for the end of the ledger first.                    *)
LedgerEnd ==
  /\ step = "end"
  /\ atEnd' = contracts
  /\ step' = "query"
  /\ UNCHANGED <<contracts, limit, seen>>

Batch == IF atEnd < limit THEN atEnd ELSE limit

Query_SameLimit ==
  /\ step = "query"
  /\ seen' = Batch
  /\ step' = IF Batch < limit THEN "done" ELSE "end"
  /\ UNCHANGED <<contracts, atEnd, limit>>

Query ==
  /\ step = "query"
  /\ seen' = Batch
  /\ IF Batch < limit
     THEN step' = "done" /\ UNCHANGED limit
     ELSE step' = "end" /\ limit' = IF 2 * limit < MaxLimit THEN 2 * limit ELSE MaxLimit
  /\ UNCHANGED <<contracts, atEnd>>

(* A request fails, and the consumer gets an error.                        *)
Fail ==
  /\ step \in {"end", "query"}
  /\ step' = "idle"
  /\ UNCHANGED <<contracts, atEnd, limit, seen>>

ContractCreated ==
  /\ contracts < MaxContracts
  /\ contracts' = contracts + 1
  /\ UNCHANGED <<atEnd, limit, seen, step>>

ContractArchived ==
  /\ contracts > 0
  /\ contracts' = contracts - 1
  /\ UNCHANGED <<atEnd, limit, seen, step>>

Next ==
  \/ Start \/ LedgerEnd \/ Query \/ Fail
  \/ ContractCreated \/ ContractArchived

Spec == Init /\ [][Next]_vars

(* A request that was begun is answered, or fails.                         *)
Fairness == WF_vars(LedgerEnd) /\ WF_vars(Query)

FairSpec == Spec /\ Fairness

---------------------------------------------------------------------------
(* Properties.                                                             *)

TypeOK ==
  /\ {contracts, atEnd, seen} \subseteq 0..MaxContracts
  /\ limit \in BatchSize..MaxLimit
  /\ step \in {"idle", "end", "query", "done"}

(* A reader that is told it has everything has all the contracts there     *)
(* were at the point of the ledger it asked about: no listing passes for   *)
(* complete because it was cut off (hydration would forget purchases).     *)
NothingIsCutOff == step = "done" => seen = atEnd

(* The iteration ends: its limit outgrows the listing.                     *)
ScansEnd == step = "query" ~> step \in {"idle", "done"}
===========================================================================
