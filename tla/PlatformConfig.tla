---------------------------- MODULE PlatformConfig ----------------------------
(***************************************************************************)
(* The platform's RoilConfig contract (main/daml/Governance.daml) and the  *)
(* cache of its contract id (backend/src/services/roil-config.ts), as the  *)
(* rebalances use them: each resolves the id and hands it to SyncHoldings, *)
(* which fails if the contract was replaced.  An update of the cap by the  *)
(* operator replaces it; invalidateRoilConfigCache has no caller, so only  *)
(* the age of the entry ends its use.  Ages are cut at Ttl: older entries  *)
(* are all alike.  The cap itself is checked in Rebalance.                 *)
(***************************************************************************)
EXTENDS Naturals, Sequences

CONSTANTS
  Rebalances,   \* the calls that may run at a time
  Ttl,          \* CACHE_TTL_MS
  MaxCapUpdates \* bound: updates of the cap

ConstantsAssumption == Ttl \in Nat \ {0} /\ MaxCapUpdates \in Nat

VARIABLES
  replaced,     \* for every contract that was replaced: how long ago
  configCache,  \* cache: a contract and the age of the entry
  syncs         \* what each rebalance is doing, the contract it was given, and since when

vars == <<replaced, configCache, syncs>>

Ages == 0..Ttl

Active == Len(replaced) + 1   \* contracts are numbered in order of creation

Older(age) == IF age < Ttl THEN age + 1 ELSE Ttl

Idle == [step |-> "idle", cid |-> 0, age |-> 0]

NoEntry == [cid |-> 0, age |-> Ttl]

Init ==
  /\ replaced = <<>>
  /\ configCache = NoEntry
  /\ syncs = [w \in Rebalances |-> Idle]

UpdateMaxPortfolioCC ==
  /\ Len(replaced) < MaxCapUpdates
  /\ replaced' = Append(replaced, 0)
  /\ UNCHANGED <<configCache, syncs>>

Tick ==
  /\ replaced' = [k \in DOMAIN replaced |-> Older(replaced[k])]
  /\ configCache' = [configCache EXCEPT !.age = Older(@)]
  /\ syncs' = [w \in Rebalances |->
       IF syncs[w].step = "idle" THEN Idle
       ELSE [syncs[w] EXCEPT !.age = Older(@)]]

---------------------------------------------------------------------------
(* getRoilConfigCid                                                        *)

Hot == configCache.age < Ttl

FromCache(w) ==
  /\ syncs[w].step = "idle"
  /\ Hot
  /\ syncs' = [syncs EXCEPT ![w] = [step |-> "sync", cid |-> configCache.cid, age |-> 0]]
  /\ UNCHANGED <<replaced, configCache>>

AskLedger(w) ==
  /\ syncs[w].step = "idle"
  /\ ~Hot
  /\ syncs' = [syncs EXCEPT ![w].step = "query"]
  /\ UNCHANGED <<replaced, configCache>>

(* The ledger answers with the contract that is active at that point.      *)
Query(w) ==
  /\ syncs[w].step = "query"
  /\ syncs' = [syncs EXCEPT ![w].step = "answer", ![w].cid = Active]
  /\ UNCHANGED <<replaced, configCache>>

(* The entry is as old as the call, not as the answer.                     *)
Resolve(w) ==
  /\ syncs[w].step = "answer"
  /\ configCache' = [cid |-> syncs[w].cid, age |-> syncs[w].age]
  /\ syncs' = [syncs EXCEPT ![w].step = "sync"]
  /\ UNCHANGED replaced

(* The query fails, or SyncHoldings has answered: it fetches the contract  *)
(* it was given and throws if that is not Active.                          *)
Done(w) ==
  /\ syncs[w].step \in {"query", "answer", "sync"}
  /\ syncs' = [syncs EXCEPT ![w] = Idle]
  /\ UNCHANGED <<replaced, configCache>>

Next ==
  \/ UpdateMaxPortfolioCC \/ Tick
  \/ \E w \in Rebalances :
       FromCache(w) \/ AskLedger(w) \/ Query(w) \/ Resolve(w) \/ Done(w)

Spec == Init /\ [][Next]_vars

(* Time passes, and every call ends.                                       *)
Fairness ==
  /\ WF_vars(Tick)
  /\ \A w \in Rebalances : WF_vars(Query(w) \/ Resolve(w) \/ Done(w))

---------------------------------------------------------------------------

Contracts == 1..(MaxCapUpdates + 1)

TypeOK ==
  /\ replaced \in Seq(Ages) /\ Len(replaced) <= MaxCapUpdates
  /\ configCache \in [cid : {0} \union Contracts, age : Ages]
  /\ syncs \in [Rebalances -> [step : {"idle", "query", "answer", "sync"},
                               cid : {0} \union Contracts, age : Ages]]

(* An entry of the cache is at least as old as the replacement of its      *)
(* contract, however slowly the ledger answers and whoever writes it last: *)
(* none is handed out that was replaced a Ttl ago or before               *)
(* (fetchedAt of roil-config.ts is read before the query).                 *)
StaleIdsExpire ==
  configCache.cid \in DOMAIN replaced => replaced[configCache.cid] <= configCache.age

(* When the cap is no longer changed, holdings are recorded again: in the  *)
(* end every SyncHoldings is given the contract that is active, although   *)
(* nobody invalidates the cache ("The cache TTL gives us a free recovery   *)
(* without a restart", roil-config.ts).                                    *)
RecordingResumes ==
  <>[](\A w \in Rebalances : syncs[w].step = "sync" => syncs[w].cid = Active)
===========================================================================
