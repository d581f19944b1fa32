------------------------------ MODULE Operations ------------------------------
(***************************************************************************)
(* The administrator's controls (backend/src/routes/admin.ts) and the cron *)
(* jobs of backend/src/index.ts that consult them.                         *)
(*                                                                         *)
(* A tick asks isPlatformPaused once, when it starts; the DCA tick then    *)
(* runs the auto-rebalance after the schedules whatever has happened to    *)
(* the platform meanwhile.  node-cron starts a tick although the last one  *)
(* is still running, so a job has several Slots.  A handler of admin.ts    *)
(* runs in one turn of the event loop; the checks of the party before it   *)
(* decide only whether it runs.                                            *)
(***************************************************************************)
EXTENDS Naturals, Sequences

CONSTANTS
  Jobs,        \* the cron jobs
  DcaJob,      \* the one with two stages
  Slots,       \* bound: ticks of a job at a time
  Settings,    \* feeRate and allowedAssets
  Values,      \* what a setting may be
  DefaultValue,
  MaxAudit,    \* MAX_AUDIT_LOG_ENTRIES
  MaxActions   \* bound: actions of the administrator

ConstantsAssumption ==
  /\ DcaJob \in Jobs
  /\ DefaultValue \in Values
  /\ MaxAudit \in Nat \ {0} /\ MaxActions \in Nat

VARIABLES
  paused, frozen,
  settings,
  auditLog,   \* newest entry first
  ticks,      \* what each tick is doing
  actions

vars == <<paused, frozen, settings, auditLog, ticks, actions>>
state == <<paused, frozen, settings, auditLog, actions>>

Stages == {"idle", "running", "rebalance"}

ModeEntry(action) == [action |-> action]

UpdateEntry(s, previous, new) ==
  [action |-> "update", setting |-> s, previous |-> previous, new |-> new]

Init ==
  /\ paused = FALSE /\ frozen = FALSE
  /\ settings = [s \in Settings |-> DefaultValue]
  /\ auditLog = <<>>
  /\ ticks = [tick \in Jobs \X Slots |-> "idle"]
  /\ actions = 0

IsPlatformPaused == paused \/ frozen

---------------------------------------------------------------------------
(* The administrator.                                                      *)

Truncated(log) == SubSeq(log, 1, IF Len(log) < MaxAudit THEN Len(log) ELSE MaxAudit)

AddAuditEntry(entry) ==
  /\ auditLog' = Truncated(<<entry>> \o auditLog)
  /\ actions < MaxActions
  /\ actions' = actions + 1

Pause ==
  /\ ~paused
  /\ paused' = TRUE
  /\ AddAuditEntry(ModeEntry("pause"))
  /\ UNCHANGED <<frozen, settings, ticks>>

Resume ==
  /\ paused \/ frozen
  /\ paused' = FALSE /\ frozen' = FALSE
  /\ AddAuditEntry(ModeEntry("resume"))
  /\ UNCHANGED <<settings, ticks>>

EmergencyFreeze ==
  /\ ~frozen
  /\ paused' = TRUE /\ frozen' = TRUE
  /\ AddAuditEntry(ModeEntry("emergency-freeze"))
  /\ UNCHANGED <<settings, ticks>>

(* PUT /fee-rate and PUT /allowed-assets.                                  *)
Update(s, v) ==
  /\ settings' = [settings EXCEPT ![s] = v]
  /\ AddAuditEntry(UpdateEntry(s, settings[s], v))
  /\ UNCHANGED <<paused, frozen, ticks>>

---------------------------------------------------------------------------
(* The cron jobs.                                                          *)

StartTick_Unasked(j, k) ==
  /\ ticks[<<j, k>>] = "idle"
  /\ ticks' = [ticks EXCEPT ![<<j, k>>] = "running"]
  /\ UNCHANGED state

(* A tick of a paused platform returns at once.                            *)
StartTick(j, k) ==
  /\ ticks[<<j, k>>] = "idle"
  /\ ~IsPlatformPaused
  /\ ticks' = [ticks EXCEPT ![<<j, k>>] = "running"]
  /\ UNCHANGED state

(* executeDueSchedules has ended, with an error or not.                    *)
StartRebalance(k) ==
  /\ ticks[<<DcaJob, k>>] = "running"
  /\ ticks' = [ticks EXCEPT ![<<DcaJob, k>>] = "rebalance"]
  /\ UNCHANGED state

LastStage(j) == IF j = DcaJob THEN "rebalance" ELSE "running"

EndTick(j, k) ==
  /\ ticks[<<j, k>>] = LastStage(j)
  /\ ticks' = [ticks EXCEPT ![<<j, k>>] = "idle"]
  /\ UNCHANGED state

Next ==
  \/ Pause \/ Resume \/ EmergencyFreeze
  \/ \E s \in Settings, v \in Values : Update(s, v)
  \/ \E j \in Jobs, k \in Slots : StartTick(j, k) \/ EndTick(j, k)
  \/ \E k \in Slots : StartRebalance(k)

Spec == Init /\ [][Next]_vars

(* Every call of the engines ends (the ledger and the venue are called     *)
(* with timeouts) and every step after it runs; nothing is assumed of the  *)
(* administrator or of the clock.                                          *)
Fairness ==
  /\ \A j \in Jobs, k \in Slots : WF_vars(EndTick(j, k))
  /\ \A k \in Slots : WF_vars(StartRebalance(k))

FairSpec == Spec /\ Fairness

---------------------------------------------------------------------------

TypeOK ==
  /\ {paused, frozen} \subseteq BOOLEAN
  /\ settings \in [Settings -> Values]
  /\ Len(auditLog) <= MaxAudit
  /\ ticks \in [Jobs \X Slots -> Stages]
  /\ actions \in 0..MaxActions

(* The places of the log, newest first, that satisfy P.                    *)
ModePlaces == {i \in DOMAIN auditLog : auditLog[i].action # "update"}

UpdatePlaces(s) ==
  {i \in DOMAIN auditLog : auditLog[i].action = "update" /\ auditLog[i].setting = s}

IsNewest(i, places) == i \in places /\ \A j \in places : i <= j

(* The log explains the state: the newest change of mode in it is the mode *)
(* the platform is in, the newest update of a setting is its value, and    *)
(* each update continues from the one before it, although the log is cut   *)
(* to its newest entries (addAuditEntry, and every handler that calls it). *)
AuditExplainsState ==
  /\ \A i \in ModePlaces : IsNewest(i, ModePlaces) =>
       /\ frozen = (auditLog[i].action = "emergency-freeze")
       /\ paused = (auditLog[i].action # "resume")
  /\ actions <= MaxAudit /\ ModePlaces = {} => ~IsPlatformPaused
  /\ \A s \in Settings, i \in DOMAIN auditLog :
       /\ IsNewest(i, UpdatePlaces(s)) => auditLog[i].new = settings[s]
       /\ i \in UpdatePlaces(s) =>
            \A j \in UpdatePlaces(s) :
              (j > i /\ IsNewest(j, UpdatePlaces(s) \ 1..i))
                => auditLog[i].previous = auditLog[j].new

(* A platform that stays paused comes to rest: the ticks that were already *)
(* running end, the second stage of the DCA tick among them, and no new    *)
(* one starts (isPlatformPaused in the cron jobs of index.ts).             *)
PauseBringsRest ==
  <>[]IsPlatformPaused => <>[](\A j \in Jobs, k \in Slots : ticks[<<j, k>>] = "idle")
===========================================================================
