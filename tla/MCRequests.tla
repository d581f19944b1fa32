----------------------------- MODULE MCRequests -----------------------------
(***************************************************************************)
(* What the backend keeps in memory about the requests it serves, checked  *)
(* in one run: the idempotency keys, the whitelist with its invite codes,  *)
(* and what an administrator has set, with the jobs that obey it.  The     *)
(* parts share no state, so their interleavings say nothing: part is the   *)
(* one that moves in a behaviour, and the others stay as they are.         *)
(***************************************************************************)
EXTENDS MCIdempotency

CONSTANTS
  p1, p2, p3, p4, x1, x2, x3, dca, compound, fee,
  Parties, Codes, MaxUsers, MaxInvites, MaxRestarts,    \* of Admission
  Jobs, DcaJob, Slots, Settings, Values, DefaultValue,  \* of Operations
  MaxAudit, MaxActions

VARIABLES
  part,
  entries, inviteCodes, inviteCountByUser, told, restarts,
  paused, frozen, settings, auditLog, ticks, actions

Admissions == INSTANCE Admission
Platform   == INSTANCE Operations

ASSUME AdmissionsAssumption == Admissions!ConstantsAssumption
ASSUME PlatformAssumption == Platform!ConstantsAssumption

admissionVars == <<entries, inviteCodes, inviteCountByUser, told, restarts>>
platformVars == <<paused, frozen, settings, auditLog, ticks, actions>>
requestVars == <<part, vars, admissionVars, platformVars>>

RequestsInit ==
  /\ part \in {"idempotency", "admission", "platform"}
  /\ Init /\ Admissions!Init /\ Platform!Init

RequestsNext ==
  \/ /\ part = "idempotency" /\ Next
     /\ UNCHANGED <<part, admissionVars, platformVars>>
  \/ /\ part = "admission" /\ Admissions!Next
     /\ UNCHANGED <<part, vars, platformVars>>
  \/ /\ part = "platform" /\ Platform!Next
     /\ UNCHANGED <<part, vars, admissionVars>>

(* In a part that does not move, nothing that is fair is enabled.          *)
RequestsSpec ==
  /\ RequestsInit /\ [][RequestsNext]_requestVars
  /\ \A r \in Requests : WF_vars(Wait(r)) /\ WF_vars(CloseSilent(r))
  /\ Platform!Fairness

---------------------------------------------------------------------------
(* The types of the parts' state (idempotency.ts, whitelist.ts, admin.ts). *)
TypesOK == TypeOK /\ Admissions!TypeOK /\ Platform!TypeOK

(* The records explain the state: the members are those who were told that *)
(* they joined, never more than the cap, and every code that was used up   *)
(* admitted one of them in its creator's name (whitelist.ts); the newest   *)
(* change of mode in the audit log is the mode of the platform, the newest *)
(* update of a setting its value, and each update continues from the one   *)
(* before it, although the log is cut (addAuditEntry of admin.ts).  And    *)
(* what a client was answered is the response of a handler that ran for    *)
(* its key (idempotency.ts).                                               *)
RecordsExplainState ==
  /\ Admissions!InvitationsAreAccounted
  /\ Platform!AuditExplainsState
  /\ AnswersAreOfTheirKey

(* A platform that stays paused comes to rest: the ticks that were already *)
(* running end and no new one starts (isPlatformPaused in index.ts).       *)
PauseBringsRest == Platform!PauseBringsRest
===========================================================================
