------------------------------- MODULE Compound -------------------------------
(***************************************************************************)
(* The CompoundEngine (backend/src/engine/compound.ts) with its routes and *)
(* the round scheduler: yield is detected from the time since the last     *)
(* compound, reinvested by swaps, and configs and history are kept in      *)
(* memory, in a file and on the ledger.                                    *)
(*                                                                         *)
(* Time is counted in the scheduler's slots of ten minutes, and a yield is *)
(* measured by the time it accrued for.  Executions, by a tick of a job or *)
(* by a user, are processes; an action is the code between two awaits.     *)
(* Postgres is taken to be absent.                                         *)
(***************************************************************************)
EXTENDS Integers, FiniteSets, FiniteSetsExt

CONSTANTS
  Parties,
  Executors,     \* executions that may overlap: ticks and requests of users
  Interval,      \* slots of each frequency; FREQUENCY_HOURS
  FirstPeriod,   \* what a first detection takes as elapsed: 24 hours
  SlotsPerDay,   \* 144
  Slot,          \* slotForContractId of each party
  CatchUp,       \* CATCHUP_WINDOW_SLOTS
  Minima,        \* minCompoundAmount, as the time it takes to accrue
  MaxLegs,       \* swaps of one plan
  MaxTime, MaxChanges, MaxRestarts  \* bounds

Frequencies == DOMAIN Interval

ConstantsAssumption ==
  /\ "daily" \in Frequencies
  /\ Interval \in [Frequencies -> Nat \ {0}]
  /\ SlotsPerDay \in Nat \ {0}
  /\ Slot \in [Parties -> 0..(SlotsPerDay - 1)]
  /\ {FirstPeriod, CatchUp, MaxLegs, MaxTime, MaxChanges, MaxRestarts} \subseteq Nat
  /\ Minima \subseteq Nat \ {0}
  /\ IsFiniteSet(Executors)

VARIABLES
  configs,      \* compoundConfigs
  runs,         \* the length of compoundHistory
  lastCompoundTime,
  file,         \* the state file
  saving,       \* saveLock, saveQueued and what is being written
  wanted,       \* what the file should hold: the state at the latest save
  onLedger,     \* the CompoundConfig contract of each party, of which
  writes,       \* calls of saveConfigToLedger under way
  boot,         \* how far the loading at startup is
  calls,        \* the local state of each execution
  compounded,   \* the time whose yield has been reinvested
  now, changes, restarts

savedVars == <<file, saving, wanted>>
ledgerVars == <<onLedger, writes>>
boundVars == <<now, changes, restarts>>
vars == <<configs, runs, lastCompoundTime, savedVars, ledgerVars, boot, calls,
          compounded, boundVars>>

Never == -1

CompoundConfig == [enabled : BOOLEAN, frequency : Frequencies, minimum : Minima]

(* What getConfig answers for a party without one.                         *)
Default == [enabled |-> FALSE, frequency |-> "daily", minimum |-> Min(Minima)]

None == [enabled |-> FALSE, frequency |-> "none", minimum |-> 0]

State == [configs |-> configs, runs |-> runs]

Empty == [configs |-> [p \in Parties |-> None], runs |-> [p \in Parties |-> 0]]

NotSaving == [lock |-> FALSE, queued |-> FALSE, failed |-> FALSE, snapshot |-> Empty]

Idle == [step |-> "idle"]

At(e, step) == calls[e].step = step

Init ==
  /\ configs = [p \in Parties |-> None]
  /\ runs = [p \in Parties |-> 0]
  /\ lastCompoundTime = [p \in Parties |-> Never]
  /\ file = State
  /\ saving = NotSaving
  /\ wanted = State
  /\ onLedger = [p \in Parties |-> None]
  /\ writes = {}
  /\ boot = "up"
  /\ calls = [e \in Executors |-> Idle]
  /\ compounded = [p \in Parties |-> 0]
  /\ now = 0 /\ changes = 0 /\ restarts = 0

---------------------------------------------------------------------------
(* saveState.                                                              *)

(* The state is written, or will be when the write under way has ended.    *)
SaveState(state) ==
  /\ wanted' = state
  /\ saving' = IF saving.lock THEN [saving EXCEPT !.queued = TRUE]
               ELSE [saving EXCEPT !.lock = TRUE, !.snapshot = state]
  /\ UNCHANGED file

Saved_ForgetsQueue ==
  /\ saving.lock
  /\ \/ file' = saving.snapshot /\ saving' = NotSaving
     \/ UNCHANGED file /\ saving' = [NotSaving EXCEPT !.failed = TRUE]
  /\ UNCHANGED <<wanted, configs, runs, lastCompoundTime, ledgerVars, boot, calls,
                 compounded, boundVars>>

(* A write has ended, or failed; a queued one starts with the state of now.*)
Saved ==
  /\ saving.lock
  /\ \E failed \in BOOLEAN :
       /\ file' = IF failed THEN file ELSE saving.snapshot
       /\ saving' = [lock |-> saving.queued, queued |-> FALSE, failed |-> failed,
                     snapshot |-> IF saving.queued THEN State ELSE Empty]
  /\ wanted' = IF saving.queued THEN State ELSE wanted
  /\ UNCHANGED <<configs, runs, lastCompoundTime, ledgerVars, boot, calls, compounded,
                 boundVars>>

---------------------------------------------------------------------------
(* Configuration.                                                          *)

(* setConfig: the map, the file, and in the background the ledger.         *)
SetConfig(p, cfg) ==
  /\ changes < MaxChanges
  /\ changes' = changes + 1
  /\ configs' = [configs EXCEPT ![p] = cfg]
  /\ SaveState([State EXCEPT !.configs[p] = cfg])
  /\ writes' = writes \union {[party |-> p, config |-> cfg]}
  /\ UNCHANGED <<runs, lastCompoundTime, onLedger, boot, calls, compounded, now,
                 restarts>>

(* saveConfigToLedger creates or updates the contract, which has no        *)
(* frequency, or leaves the ledger as it is.                               *)
WriteConfig(w) ==
  /\ onLedger' \in {onLedger, [onLedger EXCEPT ![w.party] = w.config]}
  /\ writes' = writes \ {w}
  /\ UNCHANGED <<configs, runs, lastCompoundTime, savedVars, boot, calls, compounded,
                 boundVars>>

(* The memory is empty, and loading begins while requests are served.  A   *)
(* write that was under way may have left nothing that can be parsed.      *)
Restart ==
  /\ restarts < MaxRestarts
  /\ restarts' = restarts + 1
  /\ configs' = [p \in Parties |-> None]
  /\ runs' = [p \in Parties |-> 0]
  /\ lastCompoundTime' = [p \in Parties |-> Never]
  /\ saving' = NotSaving
  /\ file' \in {file} \union IF saving.lock THEN {saving.snapshot, Empty} ELSE {}
  /\ wanted' = file'
  /\ writes' = {}
  /\ boot' = "file"
  /\ calls' = [e \in Executors |-> Idle]
  /\ UNCHANGED <<onLedger, compounded, now, changes>>

LoadState ==
  /\ boot = "file"
  /\ configs' = [p \in Parties |->
       IF file.configs[p] = None THEN configs[p] ELSE file.configs[p]]
  /\ runs' = [p \in Parties |-> IF file.runs[p] = 0 THEN runs[p] ELSE file.runs[p]]
  /\ boot' = "ledger"
  /\ UNCHANGED <<lastCompoundTime, savedVars, ledgerVars, calls, compounded, boundVars>>

(* What is on the ledger replaces what was loaded, or nothing is read.     *)
LoadConfigsFromLedger ==
  /\ boot = "ledger"
  /\ configs' \in {configs, [p \in Parties |->
       IF onLedger[p] = None THEN configs[p]
       ELSE [onLedger[p] EXCEPT !.frequency = "daily"]]}
  /\ boot' = "up"
  /\ UNCHANGED <<runs, lastCompoundTime, savedVars, ledgerVars, calls, compounded,
                 boundVars>>

---------------------------------------------------------------------------
(* Executions.                                                             *)

SlotsSince(t, at) == at - t

CurrentRoundSlot(t) == t % SlotsPerDay

(* checkAndCompoundAll, as the hourly job calls it, takes the time once and *)
(* then goes through the parties.                                          *)
Due(p, at) ==
  /\ configs[p] # None /\ configs[p].enabled
  /\ lastCompoundTime[p] = Never
     \/ at - lastCompoundTime[p] >= Interval[configs[p].frequency]

InRound(p, at) ==
  \/ lastCompoundTime[p] = Never
  \/ Slot[p] = CurrentRoundSlot(at)
  \/ SlotsSince(lastCompoundTime[p], at) > CatchUp

StartTick(e) ==
  /\ calls[e] = Idle
  /\ calls' = [calls EXCEPT ![e] = [step |-> "tick", at |-> now, todo |-> Parties]]
  /\ UNCHANGED <<configs, runs, lastCompoundTime, savedVars, ledgerVars, boot,
                 compounded, boundVars>>

Executing(e, step, p, cfg, todo) ==
  [step |-> step, party |-> p, config |-> cfg, period |-> 0, legs |-> 0,
   at |-> calls[e].at, todo |-> todo]

NextParty(e) ==
  /\ At(e, "tick")
  /\ \E p \in calls[e].todo :
       calls' = [calls EXCEPT ![e] =
         IF Due(p, calls[e].at) /\ InRound(p, calls[e].at)
         THEN Executing(e, "detect", p, configs[p], calls[e].todo \ {p})
         ELSE [calls[e] EXCEPT !.todo = @ \ {p}]]
  /\ UNCHANGED <<configs, runs, lastCompoundTime, savedVars, ledgerVars, boot,
                 compounded, boundVars>>

EndTick(e) ==
  /\ At(e, "tick") /\ calls[e].todo = {}
  /\ calls' = [calls EXCEPT ![e] = Idle]
  /\ UNCHANGED <<configs, runs, lastCompoundTime, savedVars, ledgerVars, boot,
                 compounded, boundVars>>

(* POST /execute, with the party's config or the default, enabled.         *)
ExecuteNow(e, p) ==
  LET cfg == IF configs[p] = None THEN Default ELSE configs[p] IN
  /\ calls[e] = Idle
  /\ calls' = [calls EXCEPT ![e] =
       [step |-> "detect", party |-> p, config |-> [cfg EXCEPT !.enabled = TRUE],
        period |-> 0, legs |-> 0, at |-> now, todo |-> {}]]
  /\ UNCHANGED <<configs, runs, lastCompoundTime, savedVars, ledgerVars, boot,
                 compounded, boundVars>>

Return(e) == calls' = [calls EXCEPT ![e] =
  [step |-> "tick", at |-> calls[e].at, todo |-> calls[e].todo]]

(* detectYields and the plan.  No yield is detected if an API fails, and   *)
(* nothing is done below the minimum.                                      *)
DetectYields(e) ==
  LET p == calls[e].party
      period == IF lastCompoundTime[p] = Never THEN FirstPeriod
                ELSE now - lastCompoundTime[p]
  IN
  /\ At(e, "detect")
  /\ \/ /\ period > 0 /\ period >= calls[e].config.minimum
        /\ \E legs \in 0..MaxLegs :
             calls' = [calls EXCEPT ![e] =
               [@ EXCEPT !.step = "swap", !.period = period, !.legs = legs]]
     \/ Return(e)
  /\ UNCHANGED <<configs, runs, lastCompoundTime, savedVars, ledgerVars, boot,
                 compounded, boundVars>>

(* A swap that fails is noted and passed over.                             *)
Swap(e) ==
  /\ At(e, "swap") /\ calls[e].legs > 0
  /\ calls' = [calls EXCEPT ![e].legs = @ - 1]
  /\ UNCHANGED <<configs, runs, lastCompoundTime, savedVars, ledgerVars, boot,
                 compounded, boundVars>>

Finish_KeepsTime(e) ==
  LET p == calls[e].party IN
  /\ At(e, "swap") /\ calls[e].legs = 0
  /\ compounded' = [compounded EXCEPT ![p] = @ + calls[e].period]
  /\ runs' = [runs EXCEPT ![p] = @ + 1]
  /\ SaveState([State EXCEPT !.runs[p] = @ + 1])
  /\ Return(e)
  /\ UNCHANGED <<configs, lastCompoundTime, ledgerVars, boot, boundVars>>

(* The yield counts as compounded even if every swap failed.  What is left *)
(* is to wait for the file and to report: that changes nothing here.       *)
Finish(e) ==
  LET p == calls[e].party IN
  /\ At(e, "swap") /\ calls[e].legs = 0
  /\ lastCompoundTime' = [lastCompoundTime EXCEPT ![p] = now]
  /\ compounded' = [compounded EXCEPT ![p] = @ + calls[e].period]
  /\ runs' = [runs EXCEPT ![p] = @ + 1]
  /\ SaveState([State EXCEPT !.runs[p] = @ + 1])
  /\ Return(e)
  /\ UNCHANGED <<configs, ledgerVars, boot, boundVars>>

Clock ==
  /\ now < MaxTime
  /\ now' = now + 1
  /\ UNCHANGED <<configs, runs, lastCompoundTime, savedVars, ledgerVars, boot, calls,
                 compounded, changes, restarts>>

Next ==
  \/ Saved \/ Restart \/ LoadState \/ LoadConfigsFromLedger \/ Clock
  \/ \E p \in Parties, cfg \in CompoundConfig : SetConfig(p, cfg)
  \/ \E w \in writes : WriteConfig(w)
  \/ \E e \in Executors :
       \/ StartTick(e) \/ NextParty(e) \/ EndTick(e)
       \/ DetectYields(e) \/ Swap(e) \/ Finish(e)
       \/ \E p \in Parties : ExecuteNow(e, p)

Spec == Init /\ [][Next]_vars

---------------------------------------------------------------------------
(* Properties.                                                             *)

TypeOK ==
  /\ configs \in [Parties -> CompoundConfig \union {None}]
  /\ onLedger \in [Parties -> CompoundConfig \union {None}]
  /\ runs \in [Parties -> Nat]
  /\ lastCompoundTime \in [Parties -> Never..now]
  /\ {file.configs, wanted.configs} \subseteq [Parties -> CompoundConfig \union {None}]
  /\ saving.queued => saving.lock
  /\ boot \in {"file", "ledger", "up"}

(* No save is lost: whenever nothing is being written and the last write   *)
(* did not fail, the file holds the state of the latest call of saveState, *)
(* though calls during a write return at once.                             *)
FileCatchesUp == ~saving.lock /\ ~saving.failed => file = wanted

(* The engine does not reinvest yield that cannot have accrued: the time   *)
(* compounded for a party is within the time that has passed, plus the day *)
(* a first detection assumes, again after each restart.  Executions that   *)
(* overlap do not know of each other: each may reinvest the same yield.    *)
YieldIsNotInvented ==
  \A p \in Parties :
    compounded[p] <= Cardinality(Executors) * (now + FirstPeriod * (restarts + 1))
===========================================================================
