----------------------------- MODULE LedgerClient -----------------------------
(***************************************************************************)
(* The client of the ledger (backend/src/ledger.ts) with the retries of    *)
(* utils/retry.ts and the cache of command ids of utils/command-dedup.ts.  *)
(*                                                                         *)
(* A caller submits an operation, known by its key, and may submit it      *)
(* again whenever the last call returned: that is its own retry.  The      *)
(* requests of a call may be lost, or reach the ledger after the caller    *)
(* has given up.  The ledger runs a command id once (external).            *)
(***************************************************************************)
EXTENDS Integers, Sequences, SequencesExt, FiniteSets

CONSTANTS
  Callers, Keys,
  MaxSize, Ttl,        \* of the cache
  MaxRetries,          \* of withRetry
  MaxCalls, MaxTime    \* bounds

ConstantsAssumption ==
  /\ {MaxSize, Ttl} \subseteq Nat \ {0}
  /\ {MaxRetries, MaxCalls, MaxTime} \subseteq Nat

VARIABLES
  store,      \* the entries of the cache, the oldest use first
  issued,     \* every command id, as its key and the time it was made
  forgotten,  \* ids evicted before they expired
  calls,      \* the submission each caller is making, if any
  requests,   \* on their way to the ledger
  ran,        \* ids the ledger has run
  acknowledged,  \* how often a call with this id has succeeded
  submissions,   \* calls so far
  now

cacheVars == <<store, issued, forgotten>>
callVars == <<calls, requests, ran, acknowledged, submissions>>
vars == <<cacheVars, callVars, now>>

Idle == [step |-> "idle"]

At(c, step) == calls[c].step = step

Init ==
  /\ store = <<>> /\ issued = <<>> /\ forgotten = {}
  /\ calls = [c \in Callers |-> Idle]
  /\ requests = {} /\ ran = {} /\ acknowledged = <<>> /\ submissions = 0
  /\ now = 0

---------------------------------------------------------------------------
(* idFor: the entry of a key is kept until it expires, and moves to the    *)
(* end on each use; a full cache loses its first entry, of whatever key.   *)

Live(e) == e.expires > now

Reuse(key) ==
  /\ \E i \in DOMAIN store :
       /\ store[i].key = key /\ Live(store[i])
       /\ store' = Append(RemoveAt(store, i), store[i])
  /\ UNCHANGED <<issued, forgotten, acknowledged>>

(* An expired entry stays in its place and gets the new id.                *)
Issue(key) ==
  LET full == Len(store) >= MaxSize
      kept == IF full THEN Tail(store) ELSE store
      id == Len(issued) + 1
      entry == [key |-> key, id |-> id, expires |-> now + Ttl]
  IN
  /\ ~ \E i \in DOMAIN store : store[i].key = key /\ Live(store[i])
  /\ store' = IF \E i \in DOMAIN kept : kept[i].key = key
              THEN [i \in DOMAIN kept |-> IF kept[i].key = key THEN entry ELSE kept[i]]
              ELSE Append(kept, entry)
  /\ issued' = Append(issued, [key |-> key, at |-> now])
  /\ acknowledged' = Append(acknowledged, 0)
  /\ forgotten' = forgotten \union IF full /\ Live(store[1]) THEN {store[1].id} ELSE {}

IdFor_Fresh(key) ==
  /\ store' = Append(SelectSeq(store, LAMBDA e : e.key # key),
                     [key |-> key, id |-> Len(issued) + 1, expires |-> now + Ttl])
  /\ issued' = Append(issued, [key |-> key, at |-> now])
  /\ acknowledged' = Append(acknowledged, 0)
  /\ UNCHANGED forgotten

IdFor(key) == Reuse(key) \/ Issue(key)

---------------------------------------------------------------------------
(* create and exercise, through post.                                      *)

Send(c, key, id, attempt) ==
  /\ calls' = [calls EXCEPT ![c] =
       [step |-> "sent", key |-> key, id |-> id, attempt |-> attempt]]
  /\ requests' = requests \union {[caller |-> c, id |-> id, attempt |-> attempt]}

(* The id is taken first; then the circuit breaker may reject the call.    *)
Submit(c, key) ==
  /\ calls[c] = Idle
  /\ submissions < MaxCalls
  /\ submissions' = submissions + 1
  /\ IdFor(key)
  /\ \/ \E i \in DOMAIN store' : store'[i].key = key /\ Send(c, key, store'[i].id, 0)
     \/ UNCHANGED <<calls, requests>>
  /\ UNCHANGED <<ran, now>>

Awaits(r) ==
  /\ At(r.caller, "sent")
  /\ calls[r.caller].id = r.id /\ calls[r.caller].attempt = r.attempt

Return(c) == calls' = [calls EXCEPT ![c] = Idle]

(* The caller hears the error the ledger has for a duplicate or an illegal *)
(* command: nothing is retried.                                            *)
Refused(r) ==
  /\ IF Awaits(r) THEN Return(r.caller) ELSE UNCHANGED calls
  /\ UNCHANGED <<ran, acknowledged>>

Accepted(r) ==
  /\ r.id \notin ran
  /\ ran' = ran \union {r.id}
  /\ IF Awaits(r)
     THEN Return(r.caller) /\ acknowledged' = [acknowledged EXCEPT ![r.id] = @ + 1]
     ELSE UNCHANGED <<calls, acknowledged>>

(* The response is lost: the caller's fetch fails sooner or later.         *)
AcceptedUnheard(r) ==
  /\ r.id \notin ran
  /\ ran' = ran \union {r.id}
  /\ UNCHANGED <<calls, acknowledged>>

Arrive(r) ==
  /\ requests' = requests \ {r}
  /\ Refused(r) \/ Accepted(r) \/ AcceptedUnheard(r)
  /\ UNCHANGED <<cacheVars, submissions, now>>

Lost(r) ==
  /\ requests' = requests \ {r}
  /\ UNCHANGED <<cacheVars, calls, ran, acknowledged, submissions, now>>

(* The fetch fails with an error that is retried, or runs into its timeout *)
(* of 30 seconds, which is not among the errors that are.                  *)
FetchFails(c) ==
  /\ At(c, "sent")
  /\ calls' = [calls EXCEPT ![c] =
       IF calls[c].attempt < MaxRetries THEN [@ EXCEPT !.step = "backoff"] ELSE Idle]
  /\ UNCHANGED <<cacheVars, requests, ran, acknowledged, submissions, now>>

TimesOut(c) ==
  /\ At(c, "sent")
  /\ Return(c)
  /\ UNCHANGED <<cacheVars, requests, ran, acknowledged, submissions, now>>

Retry_NewId(c) ==
  /\ At(c, "backoff")
  /\ IdFor_Fresh(calls[c].key)
  /\ Send(c, calls[c].key, Len(issued) + 1, calls[c].attempt + 1)
  /\ UNCHANGED <<ran, submissions, now>>

Retry(c) ==
  /\ At(c, "backoff")
  /\ Send(c, calls[c].key, calls[c].id, calls[c].attempt + 1)
  /\ UNCHANGED <<cacheVars, ran, acknowledged, submissions, now>>

---------------------------------------------------------------------------
Clock ==
  /\ now < MaxTime
  /\ now' = now + 1
  /\ UNCHANGED <<cacheVars, callVars>>

Next ==
  \/ \E c \in Callers :
       \/ \E key \in Keys : Submit(c, key)
       \/ FetchFails(c) \/ TimesOut(c) \/ Retry(c)
  \/ \E r \in requests : Arrive(r) \/ Lost(r)
  \/ Clock

Spec == Init /\ [][Next]_vars

---------------------------------------------------------------------------
(* Properties.                                                             *)

TypeOK ==
  /\ \A i \in DOMAIN store : /\ store[i].key \in Keys
                             /\ store[i].id \in DOMAIN issued
                             /\ store[i].expires \in Nat
  /\ Len(store) <= MaxSize
  /\ \A c \in Callers : calls[c] = Idle \/ calls[c].id \in DOMAIN issued
  /\ ran \union forgotten \subseteq DOMAIN issued
  /\ acknowledged \in [DOMAIN issued -> Nat]

(* Submitting an operation again, by a retry of the client or of its       *)
(* caller, whatever was lost, runs it a second time only once the first    *)
(* id has expired, or if the full cache dropped it.                        *)
RunsAreSpaced ==
  \A i, j \in ran : i < j /\ issued[i].key = issued[j].key =>
    issued[j].at >= issued[i].at + Ttl \/ i \in forgotten

(* Of all the calls that share a command, at most one is told it succeeded,*)
(* and only if the ledger has run it.                                      *)
AcknowledgedOnce ==
  \A i \in DOMAIN issued : acknowledged[i] <= IF i \in ran THEN 1 ELSE 0
(* A command is run once for as long as the cache promises, and its        *)
(* callers are told the truth about it (command-dedup.ts and ledger.ts).   *)
SubmissionsAreExact == RunsAreSpaced /\ AcknowledgedOnce
===========================================================================
