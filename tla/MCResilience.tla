---------------------------- MODULE MCResilience ----------------------------
(***************************************************************************)
(* What must keep working while services and connections fail, checked in  *)
(* one run: the circuit breaker, the trigger manager with its degraded     *)
(* mode, and the ways the backend reads the ledger: the listing of         *)
(* contracts, the stream of updates, and the cached id of the platform's   *)
(* configuration.  The parts share no state, so their interleavings say    *)
(* nothing: part is the one that moves in a behaviour, and the others stay *)
(* as they are.                                                            *)
(***************************************************************************)
EXTENDS MCCircuitBreaker

CONSTANTS
  p1, k1, k2, b1, x1, x2,
  Portfolios, Polls, Threshold, CronFallback, GiveUp,  \* of TriggerManager
  MaxRefused, MaxChanges,
  BatchSize, MaxLimit, MaxContracts,                   \* of Listing
  Clients, MaxUpdates, MaxBreaks,                      \* of TransactionStream
  Rebalances, Ttl, MaxCapUpdates                       \* of PlatformConfig

VARIABLES
  part,
  ledger, mode, timer, tracked, refusals, deferred, heap, recorded, polls,
  failed, changes,
  contracts, atEnd, limit, seen, step,
  ledgerEnd, isRunning, loop, offset, begun, connection, emitted, listening,
  heard, breaks,
  replaced, configCache, syncs

Triggers == INSTANCE TriggerManager WITH
              failures <- refusals, MaxFailures <- MaxRefused
Listings == INSTANCE Listing
Stream   == INSTANCE TransactionStream
Config   == INSTANCE PlatformConfig

ASSUME TriggersAssumption == Triggers!ConstantsAssumption
ASSUME ListingsAssumption == Listings!ConstantsAssumption
ASSUME StreamAssumption == Stream!ConstantsAssumption
ASSUME ConfigAssumption == Config!ConstantsAssumption

triggerVars == <<ledger, mode, timer, tracked, refusals, deferred, heap, recorded,
                 polls, failed, changes>>
listingVars == <<contracts, atEnd, limit, seen, step>>
streamVars == <<ledgerEnd, isRunning, loop, offset, begun, connection, emitted,
                listening, heard, breaks>>
configVars == <<replaced, configCache, syncs>>
resilienceVars == <<part, vars, triggerVars, listingVars, streamVars, configVars>>

ResilienceInit ==
  /\ part \in {"breaker", "triggers", "listing", "stream", "config"}
  /\ Init /\ Triggers!Init /\ Listings!Init /\ Stream!Init /\ Config!Init
  /\ part # "triggers" =>
       \A p \in Portfolios : ~ledger[p].auto /\ ~ledger[p].drifted

ResilienceNext ==
  \/ /\ part = "breaker" /\ Next
     /\ UNCHANGED <<part, triggerVars, listingVars, streamVars, configVars>>
  \/ /\ part = "triggers" /\ Triggers!Next
     /\ UNCHANGED <<part, vars, listingVars, streamVars, configVars>>
  \/ /\ part = "listing" /\ Listings!Next
     /\ UNCHANGED <<part, vars, triggerVars, streamVars, configVars>>
  \/ /\ part = "stream" /\ Stream!Next
     /\ UNCHANGED <<part, vars, triggerVars, listingVars, configVars>>
  \/ /\ part = "config" /\ Config!Next
     /\ UNCHANGED <<part, vars, triggerVars, listingVars, streamVars>>

(* The fairness of each part.  In one that does not move none of these     *)
(* actions is enabled, but for the calls the breaker would admit.          *)
ResilienceSpec ==
  /\ ResilienceInit /\ [][ResilienceNext]_resilienceVars
  /\ WF_vars(Tick)
  /\ \A c \in Callers : WF_vars(Succeed(c) \/ Fail(c))
  /\ WF_vars(part = "breaker" /\ \E c \in Callers : Admit(c))
  /\ Triggers!Fairness /\ Listings!Fairness /\ Stream!Fairness
  /\ Config!Fairness

---------------------------------------------------------------------------
(* The types of the parts' state (circuit-breaker.ts, trigger-manager.ts,  *)
(* ledger.ts, transaction-stream.ts and roil-config.ts).                   *)
TypesOK ==
  /\ TypeOK /\ Triggers!TypeOK /\ Listings!TypeOK
  /\ Stream!TypeOK /\ Config!TypeOK

(* The mode of a portfolio is read before a jitter of up to a minute and   *)
(* acted upon after it.  Still, a portfolio whose owner has switched to    *)
(* manual meanwhile is not rebalanced (trigger-manager.ts, processAutoMode)*)
ActsOnWhatItSaw == Triggers!ActsOnWhatItSaw

(* While the manager runs, a portfolio that is due is brought back to its  *)
(* targets, though requests fail, contracts are archived under the poll    *)
(* and the manager may be degraded (trigger-manager.ts, poll and fallback).*)
DriftIsCorrected == Triggers!DriftIsCorrected

(* What the backend reads is what is on the ledger: a listing that ends is *)
(* not cut off, every update is emitted once and in order, however often   *)
(* the connection breaks, and a cached contract was not replaced longer    *)
(* ago than the cache may be old (iterateActiveContracts, streamLoop,      *)
(* getRoilConfigCid).                                                      *)
ReadsAreExact ==
  Listings!NothingIsCutOff /\ Stream!EventsAreExact /\ Config!StaleIdsExpire

(* Reading catches up: a listing outgrows the contracts there are, a stream*)
(* that runs emits every update, and once the cap is not changed any more  *)
(* holdings are recorded with the contract that is active.                 *)
ReadsEnd ==
  Listings!ScansEnd /\ Stream!UpdatesArrive /\ Config!RecordingResumes
===========================================================================
