---------------------------- MODULE Idempotency ----------------------------
(***************************************************************************)
(* The idempotency-key middleware (backend/src/middleware/idempotency.ts). *)
(*                                                                         *)
(* A request with a key is answered from the cache, waits for the request  *)
(* that holds the key's lock, or takes the lock and runs its handler.  The *)
(* middleware wraps res.json and listens for the close of the connection,  *)
(* so a run ends its lock in two ways that race: the handler answers, or   *)
(* the client goes away while the handler goes on running.                 *)
(*                                                                         *)
(* A lock is named by the request that created it, and a cached response   *)
(* by the request whose handler produced it.                               *)
(***************************************************************************)
EXTENDS Naturals

CONSTANTS
  Requests,     \* POST and PUT requests that carry a key
  Keys,
  None,         \* no request
  Unavailable,  \* the 503 of a wait that failed
  MaxCloses     \* bound: connections lost before the answer was sent

ASSUME ConstantsAssumption ==
  /\ None \notin Requests
  /\ Unavailable \notin Requests \union {None}
  /\ MaxCloses \in Nat

VARIABLES
  idempotencyCache,  \* the cached response of each key
  inFlight,          \* the lock of each key
  lock,              \* the promise behind each request's lock
  request,           \* the state of each request
  closed,            \* requests whose connection is closed
  answer,            \* what the client of each request was sent
  closes

vars == <<idempotencyCache, inFlight, lock, request, closed, answer, closes>>

Promises == {"none", "pending", "resolved", "rejected"}

(* "silent" is a handler that has ended without res.json.                  *)
Steps == {"new", "running", "silent", "waiting", "done"}

(* awaits is the lock a waiting request waits for.                         *)
Request == [step : Steps, key : Keys \union {None}, awaits : Requests \union {None}]

RequestAt(step, k, awaits) == [step |-> step, key |-> k, awaits |-> awaits]

Init ==
  /\ idempotencyCache = [k \in Keys |-> None]
  /\ inFlight = [k \in Keys |-> None]
  /\ lock = [r \in Requests |-> "none"]
  /\ request = [r \in Requests |-> RequestAt("new", None, None)]
  /\ closed = {}
  /\ answer = [r \in Requests |-> None]
  /\ closes = 0

At(r, step) == request[r].step = step

Runs(r) == At(r, "running")

(* The client is sent something unless its connection is gone.             *)
Send(r, what) ==
  answer' = IF r \in closed THEN answer ELSE [answer EXCEPT ![r] = what]

---------------------------------------------------------------------------
(* A request arrives.                                                      *)

AnswerFromCache(r, k) ==
  /\ idempotencyCache[k] # None
  /\ request' = [request EXCEPT ![r] = RequestAt("done", k, None)]
  /\ Send(r, idempotencyCache[k])
  /\ UNCHANGED <<inFlight, lock>>

WaitForLock_LockGone(r, k) ==
  /\ idempotencyCache[k] = None
  /\ request' = [request EXCEPT ![r] = RequestAt("waiting", k, inFlight[k])]
  /\ UNCHANGED <<inFlight, lock, answer>>

WaitForLock(r, k) ==
  /\ idempotencyCache[k] = None
  /\ inFlight[k] # None
  /\ request' = [request EXCEPT ![r] = RequestAt("waiting", k, inFlight[k])]
  /\ UNCHANGED <<inFlight, lock, answer>>

ClaimLock_IgnoresLock(r, k) ==
  /\ idempotencyCache[k] = None
  /\ inFlight' = [inFlight EXCEPT ![k] = r]
  /\ lock' = [lock EXCEPT ![r] = "pending"]
  /\ request' = [request EXCEPT ![r] = RequestAt("running", k, None)]
  /\ UNCHANGED answer

ClaimLock(r, k) ==
  /\ idempotencyCache[k] = None
  /\ inFlight[k] = None
  /\ inFlight' = [inFlight EXCEPT ![k] = r]
  /\ lock' = [lock EXCEPT ![r] = "pending"]
  /\ request' = [request EXCEPT ![r] = RequestAt("running", k, None)]
  /\ UNCHANGED answer

Arrive(r, k) ==
  /\ At(r, "new")
  /\ AnswerFromCache(r, k) \/ WaitForLock(r, k) \/ ClaimLock(r, k)
  /\ UNCHANGED <<idempotencyCache, closed, closes>>

---------------------------------------------------------------------------
(* The primary path.  A promise that is settled stays as it is.            *)

Settled(r, how) == IF lock[r] = "pending" THEN [lock EXCEPT ![r] = how] ELSE lock

AnswerJson_KeepsLock(r) ==
  LET k == request[r].key IN
  /\ Runs(r)
  /\ idempotencyCache' = [idempotencyCache EXCEPT ![k] = r]
  /\ lock' = Settled(r, "resolved")
  /\ request' = [request EXCEPT ![r].step = "done"]
  /\ Send(r, r)
  /\ UNCHANGED <<inFlight, closed, closes>>

(* The handler calls res.json: cache, releaseLock(entry), answer.  The     *)
(* lock of the key is deleted, whosever it is.                             *)
AnswerJson(r) ==
  LET k == request[r].key IN
  /\ Runs(r)
  /\ idempotencyCache' = [idempotencyCache EXCEPT ![k] = r]
  /\ inFlight' = [inFlight EXCEPT ![k] = None]
  /\ lock' = Settled(r, "resolved")
  /\ request' = [request EXCEPT ![r].step = "done"]
  /\ Send(r, r)
  /\ UNCHANGED <<closed, closes>>

(* The handler ends the response in another way, or throws it away.        *)
EndSilently(r) ==
  /\ Runs(r)
  /\ request' = [request EXCEPT ![r].step = "silent"]
  /\ UNCHANGED <<idempotencyCache, inFlight, lock, closed, answer, closes>>

(* The connection of r closes; the listener releases the lock if it is     *)
(* still that of r.                                                        *)
Close(r) ==
  LET k == request[r].key IN
  /\ r \notin closed
  /\ closed' = closed \union {r}
  /\ IF request[r].step \in {"running", "silent"} /\ inFlight[k] = r
     THEN /\ inFlight' = [inFlight EXCEPT ![k] = None]
          /\ lock' = Settled(r, "rejected")
     ELSE UNCHANGED <<inFlight, lock>>
  /\ UNCHANGED <<idempotencyCache, request, answer>>

(* A response that ended without res.json closes its connection.           *)
CloseSilent(r) ==
  /\ At(r, "silent")
  /\ Close(r)
  /\ UNCHANGED closes

(* A client goes away before it was answered.                              *)
Disconnect(r) ==
  /\ request[r].step \in {"running", "waiting"}
  /\ closes < MaxCloses
  /\ closes' = closes + 1
  /\ Close(r)

---------------------------------------------------------------------------
(* The concurrent path: the lock resolves, is rejected, or the timer fires *)

WaitEnds(r, what) ==
  /\ request' = [request EXCEPT ![r].step = "done"]
  /\ Send(r, what)
  /\ UNCHANGED <<idempotencyCache, inFlight, lock, closed, closes>>

Wait_NoTimer(r) ==
  LET owner == request[r].awaits IN
  /\ At(r, "waiting")
  /\ \/ lock[owner] = "resolved" /\ WaitEnds(r, owner)
     \/ lock[owner] = "rejected" /\ WaitEnds(r, Unavailable)

Wait(r) ==
  LET owner == request[r].awaits IN
  /\ At(r, "waiting")
  /\ \/ lock[owner] = "resolved" /\ WaitEnds(r, owner)
     \/ lock[owner] = "rejected" /\ WaitEnds(r, Unavailable)
     \/ lock[owner] = "pending" /\ WaitEnds(r, Unavailable)

(* The hourly cleanup; an entry is dropped when it is a day old, by which  *)
(* time no handler that ran when it was cached runs any more.              *)
Evict(k) ==
  /\ idempotencyCache[k] # None
  /\ \A r \in Requests : request[r].key = k => request[r].step # "running"
  /\ idempotencyCache' = [idempotencyCache EXCEPT ![k] = None]
  /\ UNCHANGED <<inFlight, lock, request, closed, answer, closes>>

Next ==
  \/ \E r \in Requests : \/ \E k \in Keys : Arrive(r, k)
                         \/ AnswerJson(r) \/ EndSilently(r) \/ CloseSilent(r)
                         \/ Disconnect(r) \/ Wait(r)
  \/ \E k \in Keys : Evict(k)

Spec == Init /\ [][Next]_vars

(* A wait is bounded by its timer, and a response that has ended closes.   *)
(* Nothing is assumed of handlers.                                         *)
FairSpec == Spec /\ \A r \in Requests : WF_vars(Wait(r)) /\ WF_vars(CloseSilent(r))

---------------------------------------------------------------------------
(* Properties.                                                             *)

TypeOK ==
  /\ idempotencyCache \in [Keys -> Requests \union {None}]
  /\ inFlight \in [Keys -> Requests \union {None}]
  /\ lock \in [Requests -> Promises]
  /\ request \in [Requests -> Request]
  /\ \A r \in Requests : /\ ~At(r, "new") => request[r].key \in Keys
                         /\ At(r, "waiting") => request[r].awaits \in Requests
  /\ closed \subseteq Requests
  /\ answer \in [Requests -> Requests \union {None, Unavailable}]
  /\ closes \in 0..MaxCloses

(* Of the handlers that run for one key at most one still has a client: a  *)
(* second run needs the client of the first to have gone away.             *)
OneRunPerClient ==
  \A r, s \in Requests :
    (/\ Runs(r) /\ r \notin closed
     /\ Runs(s) /\ s \notin closed
     /\ request[r].key = request[s].key) => r = s

(* A lock is held for a request that can still release it: its handler has *)
(* not answered, its connection is open, and its promise is pending.  A    *)
(* lock without such a request would fail every retry of its key.          *)
LocksCanBeReleased ==
  \A k \in Keys : inFlight[k] # None =>
    LET r == inFlight[k] IN
    /\ request[r].key = k
    /\ request[r].step \in {"running", "silent"}
    /\ r \notin closed
    /\ lock[r] = "pending"

(* Whoever is answered with a handler's response used the key that handler *)
(* ran for, and the handler had answered: no response crosses keys.        *)
AnswersAreOfTheirKey ==
  \A r \in Requests : answer[r] \in Requests =>
    /\ request[answer[r]].key = request[r].key
    /\ request[answer[r]].step = "done"

(* As long as nobody disconnects and nothing is evicted, a key has one     *)
(* response: an entry that is cached is never replaced.                    *)
ResponsesAreStable ==
  [][closes = 0 =>
       \A k \in Keys : idempotencyCache[k] # None
         => idempotencyCache'[k] \in {idempotencyCache[k], None}]_vars

(* A request that waits for another is answered or has gone away.          *)
WaitsEnd == \A r \in Requests : At(r, "waiting") ~> At(r, "done")

---------------------------------------------------------------------------
(* Claim of the repository the code does not meet.                         *)

(* idempotency.ts: "two simultaneous requests with the same idempotency    *)
(* key do NOT both execute the handler".                                   *)
HandlersDoNotOverlap ==
  \A r, s \in Requests :
    Runs(r) /\ Runs(s) /\ request[r].key = request[s].key => r = s
===========================================================================
