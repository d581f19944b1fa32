------------------------------ MODULE Admission ------------------------------
(***************************************************************************)
(* Membership of the platform: the whitelist with its cap and its invite   *)
(* codes (backend/src/services/whitelist.ts) as the requests of            *)
(* backend/src/routes/whitelist.ts change it.  Every request is handled in *)
(* one turn of the event loop, and everything is forgotten at a restart.   *)
(* What a member may swap in a day is in TreasurySwap; removeUser has no   *)
(* caller.                                                                 *)
(***************************************************************************)
EXTENDS Naturals, FiniteSets

CONSTANTS
  Parties,
  Codes,        \* the strings randomAlphanumeric may return; fresh ones are picked
  None,         \* no party
  MaxUsers,     \* MAX_USERS
  MaxInvites,   \* MAX_INVITES_PER_USER
  MaxRestarts   \* bound

ConstantsAssumption ==
  /\ None \notin Parties \union Codes
  /\ {MaxUsers, MaxInvites, MaxRestarts} \subseteq Nat

VARIABLES
  entries,            \* invitedBy of every party on the whitelist
  inviteCodes,        \* createdBy and redeemedBy of every code there is
  inviteCountByUser,  \* codes a party has created
  told,               \* the parties the route has told that they joined, and how
  restarts

vars == <<entries, inviteCodes, inviteCountByUser, told, restarts>>

Invite == [createdBy : Parties, redeemedBy : Parties \union {None}]

NoFunction == [x \in {} |-> None]

With(f, x, y) == [z \in DOMAIN f \union {x} |-> IF z = x THEN y ELSE f[z]]

Empty ==
  /\ entries' = NoFunction
  /\ inviteCodes' = NoFunction
  /\ inviteCountByUser' = [p \in Parties |-> 0]
  /\ told' = {}

Init ==
  /\ entries = NoFunction
  /\ inviteCodes = NoFunction
  /\ inviteCountByUser = [p \in Parties |-> 0]
  /\ told = {}
  /\ restarts = 0

IsWhitelisted(p) == p \in DOMAIN entries

IsFull == Cardinality(DOMAIN entries) >= MaxUsers

(* addUser: true if p is neither on the whitelist nor kept out by the cap. *)
CanAdd(p) == ~IsWhitelisted(p) /\ ~IsFull

AddUser(p, invitedBy) == entries' = With(entries, p, invitedBy)

---------------------------------------------------------------------------
(* POST /join                                                              *)
Join(p) ==
  /\ CanAdd(p)
  /\ AddUser(p, None)
  /\ told' = told \union {<<p, None>>}
  /\ UNCHANGED <<inviteCodes, inviteCountByUser, restarts>>

GetRemainingInvites(p) == MaxInvites - inviteCountByUser[p]

(* POST /invite-codes: generateInviteCode.                                 *)
GenerateInviteCode(p, code) ==
  /\ IsWhitelisted(p)
  /\ GetRemainingInvites(p) > 0
  /\ code \notin DOMAIN inviteCodes
  /\ inviteCodes' = With(inviteCodes, code, [createdBy |-> p, redeemedBy |-> None])
  /\ inviteCountByUser' = [inviteCountByUser EXCEPT ![p] = @ + 1]
  /\ UNCHANGED <<entries, told, restarts>>

Redeemed(code) == inviteCodes[code].redeemedBy # None

Mark(code, p) == inviteCodes' = [inviteCodes EXCEPT ![code].redeemedBy = p]

(* The code is marked first, then the cap keeps the party out.             *)
RedeemInviteCode_MarksFirst(p, code) ==
  /\ code \in DOMAIN inviteCodes
  /\ ~Redeemed(code)
  /\ ~IsWhitelisted(p)
  /\ Mark(code, p)
  /\ IF IsFull
     THEN UNCHANGED <<entries, told>>
     ELSE /\ AddUser(p, inviteCodes[code].createdBy)
          /\ told' = told \union {<<p, code>>}
  /\ UNCHANGED <<inviteCountByUser, restarts>>

(* POST /redeem: redeemInviteCode adds the party in its creator's name and *)
(* marks the code; a code that cannot admit anybody is not used up.        *)
RedeemInviteCode(p, code) ==
  /\ code \in DOMAIN inviteCodes
  /\ ~Redeemed(code)
  /\ CanAdd(p)
  /\ AddUser(p, inviteCodes[code].createdBy)
  /\ Mark(code, p)
  /\ told' = told \union {<<p, code>>}
  /\ UNCHANGED <<inviteCountByUser, restarts>>

(* The maps live in memory.                                                *)
Restart ==
  /\ restarts < MaxRestarts
  /\ restarts' = restarts + 1
  /\ Empty

Next ==
  \/ \E p \in Parties : Join(p)
  \/ \E p \in Parties, code \in Codes :
       GenerateInviteCode(p, code) \/ RedeemInviteCode(p, code)
  \/ Restart

Spec == Init /\ [][Next]_vars

---------------------------------------------------------------------------

TypeOK ==
  /\ DOMAIN entries \subseteq Parties
  /\ \A p \in DOMAIN entries : entries[p] \in Parties \union {None}
  /\ DOMAIN inviteCodes \subseteq Codes
  /\ \A code \in DOMAIN inviteCodes : inviteCodes[code] \in Invite
  /\ inviteCountByUser \in [Parties -> 0..MaxInvites]
  /\ told \subseteq Parties \X (Codes \union {None})

CreatedBy(p) == {code \in DOMAIN inviteCodes : inviteCodes[code].createdBy = p}

(* The members are those who were told that they joined, each once and     *)
(* never more than the cap; a code is used up by exactly the party it      *)
(* admitted, whose inviter is the code's creator; and a member's count is  *)
(* the number of the codes it handed out (addUser, generateInviteCode,     *)
(* redeemInviteCode).                                                      *)
InvitationsAreAccounted ==
  /\ Cardinality(DOMAIN entries) <= MaxUsers
  /\ {t[1] : t \in told} = DOMAIN entries
  /\ Cardinality(told) = Cardinality(DOMAIN entries)
  /\ {t \in told : t[2] # None}
       = {<<inviteCodes[code].redeemedBy, code>> :
            code \in {c \in DOMAIN inviteCodes : Redeemed(c)}}
  /\ \A t \in told : entries[t[1]] = IF t[2] = None THEN None
                                     ELSE inviteCodes[t[2]].createdBy
  /\ \A p \in Parties : Cardinality(CreatedBy(p)) = inviteCountByUser[p]
===========================================================================
