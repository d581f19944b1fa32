--------------------------- MODULE RequestsProofs ---------------------------
(***************************************************************************)
(* Proofs about what the backend keeps in memory of the requests it serves *)
(* (MCRequests), for any requests and keys, parties and codes, jobs and    *)
(* settings: the idempotency keys first, then the members with their invite*)
(* codes, the administrator's log, and the three together.                 *)
(***************************************************************************)
EXTENDS MCRequests, Sequences, FiniteSetTheorems, TLAPS

---------------------------------------------------------------------------
(* The idempotency keys: locks and runs.                                   *)

(* The next request with the key of a run that has a client finds the      *)
(* run's lock, or a response in the cache.                                 *)
RunsAreFound ==
  \A r \in Requests : Runs(r) /\ r \notin closed =>
    \/ idempotencyCache[request[r].key] # None
    \/ inFlight[request[r].key] = r

(* A connection closes only after its request arrived.                     *)
ClosedHaveArrived == \A r \in closed : ~At(r, "new")

IInv ==
  /\ TypeOK
  /\ LocksCanBeReleased
  /\ RunsAreFound
  /\ OneRunPerClient
  /\ ClosedHaveArrived

LEMMA InitIInv == Init => IInv
<1> SUFFICES ASSUME Init
             PROVE  IInv
  OBVIOUS
<1>1. \A r \in Requests : request[r] = RequestAt("new", None, None)
  BY DEF Init
<1>2. \A r \in Requests : At(r, "new")
  <2>1. RequestAt("new", None, None).step = "new"
    BY DEF RequestAt
  <2> QED BY <1>1, <2>1 DEF At
<1>3. RequestAt("new", None, None) \in Request
  BY DEF RequestAt, Request, Steps
<1>4. TypeOK
  BY <1>2, <1>3, ConstantsAssumption DEF Init, TypeOK, Promises, At
<1>5. LocksCanBeReleased
  BY DEF Init, LocksCanBeReleased
<1>6. RunsAreFound /\ OneRunPerClient
  BY <1>2 DEF RunsAreFound, OneRunPerClient, Runs, At
<1>7. ClosedHaveArrived
  BY DEF Init, ClosedHaveArrived
<1> QED BY <1>4, <1>5, <1>6, <1>7 DEF IInv

LEMMA SendType ==
  ASSUME TypeOK, NEW r \in Requests,
         NEW what \in Requests \union {Unavailable}, Send(r, what)
  PROVE  answer' \in [Requests -> Requests \union {None, Unavailable}]
  BY DEF TypeOK, Send

LEMMA SettledType ==
  ASSUME TypeOK, NEW r \in Requests, NEW how \in {"resolved", "rejected"}
  PROVE  /\ Settled(r, how) \in [Requests -> Promises]
         /\ \A q \in Requests \ {r} : Settled(r, how)[q] = lock[q]
  BY DEF TypeOK, Settled, Promises

(* Giving a request a new state of a right type.                           *)
LEMMA RequestUpdate ==
  ASSUME TypeOK, NEW r \in Requests, NEW new \in Request,
         new.step # "new" => new.key \in Keys,
         new.step = "waiting" => new.awaits \in Requests,
         request' = [request EXCEPT ![r] = new]
  PROVE  /\ request' \in [Requests -> Request]
         /\ request'[r] = new
         /\ \A q \in Requests \ {r} : request'[q] = request[q]
         /\ \A q \in Requests : /\ ~At(q, "new")' => request'[q].key \in Keys
                                /\ At(q, "waiting")' => request'[q].awaits \in Requests
<1>1. /\ request' \in [Requests -> Request]
      /\ request'[r] = new
      /\ \A q \in Requests \ {r} : request'[q] = request[q]
  BY DEF TypeOK
<1>2. ASSUME NEW q \in Requests
      PROVE  /\ ~At(q, "new")' => request'[q].key \in Keys
             /\ At(q, "waiting")' => request'[q].awaits \in Requests
  BY <1>1 DEF TypeOK, At
<1> QED BY <1>1, <1>2

(* Setting one field of a request.                                         *)
LEMMA StepUpdate ==
  ASSUME TypeOK, NEW r \in Requests, NEW step \in {"silent", "done"},
         ~At(r, "new"),
         request' = [request EXCEPT ![r].step = step]
  PROVE  /\ request' \in [Requests -> Request]
         /\ request'[r].step = step
         /\ request'[r].key = request[r].key
         /\ \A q \in Requests \ {r} : request'[q] = request[q]
         /\ \A q \in Requests : /\ ~At(q, "new")' => request'[q].key \in Keys
                                /\ At(q, "waiting")' => request'[q].awaits \in Requests
<1> DEFINE new == RequestAt(step, request[r].key, request[r].awaits)
<1>1. request[r] \in Request
  BY DEF TypeOK
<1>2. [request[r] EXCEPT !.step = step] = new
  BY <1>1 DEF Request, RequestAt
<1>3. new \in Request
  BY <1>1 DEF Request, Steps, RequestAt
<1>4. new.key \in Keys
  BY DEF TypeOK, RequestAt
<1>5. request' = [request EXCEPT ![r] = new]
  BY <1>2
<1> HIDE DEF new
<1>6. new.step = step /\ new.key = request[r].key
  BY DEF new, RequestAt
<1> QED BY <1>3, <1>4, <1>5, <1>6, RequestUpdate

---------------------------------------------------------------------------
(* One lemma per action.                                                   *)

LEMMA ArriveStep ==
  ASSUME IInv, NEW r \in Requests, NEW k \in Keys, Arrive(r, k)
  PROVE  IInv'
<1> USE DEF IInv
<1>1. CASE AnswerFromCache(r, k)
  <2> DEFINE new == RequestAt("done", k, None)
  <2>1. new \in Request /\ new.step = "done" /\ new.key \in Keys
    BY DEF Request, Steps, RequestAt
  <2>2. request' = [request EXCEPT ![r] = new]
    BY <1>1 DEF AnswerFromCache
  <2> HIDE DEF new
  <2>3. /\ request' \in [Requests -> Request]
        /\ request'[r] = new
        /\ \A q \in Requests \ {r} : request'[q] = request[q]
        /\ \A q \in Requests : /\ ~At(q, "new")' => request'[q].key \in Keys
                               /\ At(q, "waiting")' => request'[q].awaits \in Requests
    BY <2>1, <2>2, RequestUpdate
  <2>4. idempotencyCache[k] \in Requests
    BY <1>1 DEF TypeOK, AnswerFromCache
  <2>5. TypeOK'
    BY <1>1, <2>3, <2>4, SendType DEF TypeOK, AnswerFromCache, Arrive
  <2>6. LocksCanBeReleased'
    BY <1>1, <2>3 DEF LocksCanBeReleased, AnswerFromCache, Arrive, At, TypeOK
  <2>7. RunsAreFound'
    BY <1>1, <2>1, <2>3 DEF RunsAreFound, AnswerFromCache, Arrive, At, Runs
  <2>8. OneRunPerClient'
    BY <2>1, <2>3 DEF OneRunPerClient, At, Runs, Arrive
  <2>9. ClosedHaveArrived'
    BY <2>1, <2>3 DEF ClosedHaveArrived, At, Arrive, TypeOK
  <2> QED BY <2>5, <2>6, <2>7, <2>8, <2>9
<1>2. CASE WaitForLock(r, k)
  <2> DEFINE new == RequestAt("waiting", k, inFlight[k])
  <2>1. inFlight[k] \in Requests
    BY <1>2 DEF TypeOK, WaitForLock
  <2>2. request' = [request EXCEPT ![r] = new]
    BY <1>2, <2>1 DEF WaitForLock
  <2>3. /\ new \in Request /\ new.step = "waiting" /\ new.key \in Keys
        /\ new.awaits \in Requests
    BY <2>1 DEF Request, Steps, RequestAt
  <2> HIDE DEF new
  <2>4. /\ request' \in [Requests -> Request]
        /\ request'[r] = new
        /\ \A q \in Requests \ {r} : request'[q] = request[q]
        /\ \A q \in Requests : /\ ~At(q, "new")' => request'[q].key \in Keys
                               /\ At(q, "waiting")' => request'[q].awaits \in Requests
    BY <2>2, <2>3, RequestUpdate
  <2>5. TypeOK'
    BY <1>2, <2>4 DEF TypeOK, WaitForLock, Arrive
  <2>6. LocksCanBeReleased'
    BY <1>2, <2>4 DEF LocksCanBeReleased, WaitForLock, Arrive, At, TypeOK
  <2>7. RunsAreFound'
    BY <1>2, <2>3, <2>4 DEF RunsAreFound, WaitForLock, Arrive, At, Runs
  <2>8. OneRunPerClient'
    BY <2>3, <2>4 DEF OneRunPerClient, At, Runs, Arrive
  <2>9. ClosedHaveArrived'
    BY <2>3, <2>4 DEF ClosedHaveArrived, At, Arrive, TypeOK
  <2> QED BY <2>5, <2>6, <2>7, <2>8, <2>9
<1>3. CASE ClaimLock(r, k)
  <2> DEFINE new == RequestAt("running", k, None)
  <2>1. new \in Request /\ new.step = "running" /\ new.key = k /\ new.key \in Keys
    BY DEF Request, Steps, RequestAt
  <2>2. request' = [request EXCEPT ![r] = new]
    BY <1>3 DEF ClaimLock
  <2> HIDE DEF new
  <2>3. /\ request' \in [Requests -> Request]
        /\ request'[r] = new
        /\ \A q \in Requests \ {r} : request'[q] = request[q]
        /\ \A q \in Requests : /\ ~At(q, "new")' => request'[q].key \in Keys
                               /\ At(q, "waiting")' => request'[q].awaits \in Requests
    BY <2>1, <2>2, RequestUpdate
  <2>4. /\ inFlight' = [inFlight EXCEPT ![k] = r]
        /\ lock' = [lock EXCEPT ![r] = "pending"]
        /\ idempotencyCache[k] = None /\ inFlight[k] = None
        /\ UNCHANGED <<idempotencyCache, closed, answer, closes>>
    BY <1>3 DEF ClaimLock, Arrive
  <2>5. TypeOK'
    BY <2>3, <2>4 DEF TypeOK, Promises
  <2>6. LocksCanBeReleased'
    <3>1. r \notin closed
      BY DEF ClosedHaveArrived, Arrive
    <3> QED BY <2>1, <2>3, <2>4, <3>1 DEF LocksCanBeReleased, Arrive, At, TypeOK
  <2>7. RunsAreFound'
    <3> SUFFICES ASSUME NEW q \in Requests, Runs(q)', q \notin closed'
                 PROVE  \/ idempotencyCache'[request'[q].key] # None
                        \/ inFlight'[request'[q].key] = q
      BY DEF RunsAreFound
    <3>1. CASE q = r
      BY <2>1, <2>3, <2>4, <3>1 DEF TypeOK
    <3>2. CASE q # r
      <4>1. request'[q] = request[q] /\ Runs(q) /\ q \notin closed
        BY <2>3, <2>4, <3>2 DEF Runs, At
      <4>2. request[q].key \in Keys
        BY <4>1 DEF TypeOK, Runs, At
      <4>3. request[q].key # k
        BY <4>1, <2>4, ConstantsAssumption DEF RunsAreFound
      <4> QED BY <4>1, <4>2, <4>3, <2>4 DEF RunsAreFound, TypeOK
    <3> QED BY <3>1, <3>2
  <2>8. OneRunPerClient'
    <3>1. \A q \in Requests : Runs(q) /\ q \notin closed => request[q].key # k
      BY <2>4, ConstantsAssumption DEF RunsAreFound
    <3> QED BY <2>1, <2>3, <2>4, <3>1 DEF OneRunPerClient, Runs, At
  <2>9. ClosedHaveArrived'
    BY <2>1, <2>3, <2>4 DEF ClosedHaveArrived, At, TypeOK
  <2> QED BY <2>5, <2>6, <2>7, <2>8, <2>9
<1> QED BY <1>1, <1>2, <1>3 DEF Arrive

LEMMA AnswerJsonStep ==
  ASSUME IInv, NEW r \in Requests, AnswerJson(r)
  PROVE  IInv'
<1> USE DEF IInv
<1> DEFINE k == request[r].key
<1>1. k \in Keys /\ ~At(r, "new")
  BY DEF AnswerJson, Runs, At, TypeOK
<1>2. /\ request' \in [Requests -> Request]
      /\ request'[r].step = "done"
      /\ \A q \in Requests \ {r} : request'[q] = request[q]
      /\ \A q \in Requests : /\ ~At(q, "new")' => request'[q].key \in Keys
                             /\ At(q, "waiting")' => request'[q].awaits \in Requests
  BY <1>1, StepUpdate DEF AnswerJson
<1>3. /\ idempotencyCache' = [idempotencyCache EXCEPT ![k] = r]
      /\ inFlight' = [inFlight EXCEPT ![k] = None]
      /\ lock' = Settled(r, "resolved")
      /\ Send(r, r)
      /\ UNCHANGED <<closed, closes>>
  BY DEF AnswerJson
<1> HIDE DEF k
<1>4. /\ lock' \in [Requests -> Promises]
      /\ \A q \in Requests \ {r} : lock'[q] = lock[q]
  BY <1>3, SettledType
<1>5. answer' \in [Requests -> Requests \union {None, Unavailable}]
  BY <1>3, SendType
<1>6. TypeOK'
  BY <1>1, <1>2, <1>3, <1>4, <1>5 DEF TypeOK
<1>7. LocksCanBeReleased'
  <2> SUFFICES ASSUME NEW l \in Keys, inFlight'[l] # None
               PROVE  LET q == inFlight'[l] IN
                      /\ request'[q].key = l
                      /\ request'[q].step \in {"running", "silent"}
                      /\ q \notin closed'
                      /\ lock'[q] = "pending"
    BY DEF LocksCanBeReleased
  <2>1. l # k /\ inFlight'[l] = inFlight[l] /\ inFlight[l] \in Requests
    BY <1>1, <1>3 DEF TypeOK
  <2>2. request[inFlight[l]].key = l
    BY <2>1 DEF LocksCanBeReleased
  <2>3. inFlight[l] # r
    BY <2>1, <2>2 DEF k
  <2> QED BY <1>2, <1>3, <1>4, <2>1, <2>3 DEF LocksCanBeReleased
<1>8. RunsAreFound'
  <2> SUFFICES ASSUME NEW q \in Requests, Runs(q)', q \notin closed'
               PROVE  \/ idempotencyCache'[request'[q].key] # None
                      \/ inFlight'[request'[q].key] = q
    BY DEF RunsAreFound
  <2>1. q # r /\ request'[q] = request[q] /\ Runs(q) /\ q \notin closed
    BY <1>2, <1>3 DEF Runs, At
  <2>2. request[q].key \in Keys
    BY <2>1 DEF TypeOK, Runs, At
  <2>3. CASE request[q].key = k
    BY <1>3, <2>1, <2>2, <2>3, ConstantsAssumption DEF TypeOK
  <2>4. CASE request[q].key # k
    BY <1>3, <2>1, <2>2, <2>4 DEF TypeOK, RunsAreFound
  <2> QED BY <2>3, <2>4
<1>9. OneRunPerClient'
  BY <1>2, <1>3 DEF OneRunPerClient, Runs, At
<1>10. ClosedHaveArrived'
  BY <1>2, <1>3 DEF ClosedHaveArrived, At, TypeOK
<1> QED BY <1>6, <1>7, <1>8, <1>9, <1>10

LEMMA EndSilentlyStep ==
  ASSUME IInv, NEW r \in Requests, EndSilently(r)
  PROVE  IInv'
<1> USE DEF IInv
<1>1. /\ request' \in [Requests -> Request]
      /\ request'[r].step = "silent"
      /\ request'[r].key = request[r].key
      /\ \A q \in Requests \ {r} : request'[q] = request[q]
      /\ \A q \in Requests : /\ ~At(q, "new")' => request'[q].key \in Keys
                             /\ At(q, "waiting")' => request'[q].awaits \in Requests
  BY StepUpdate DEF EndSilently, Runs, At
<1>2. UNCHANGED <<idempotencyCache, inFlight, lock, closed, answer, closes>>
  BY DEF EndSilently
<1>3. TypeOK'
  BY <1>1, <1>2 DEF TypeOK
<1>4. LocksCanBeReleased'
  BY <1>1, <1>2 DEF LocksCanBeReleased, TypeOK
<1>5. RunsAreFound'
  BY <1>1, <1>2 DEF RunsAreFound, Runs, At
<1>6. OneRunPerClient'
  BY <1>1, <1>2 DEF OneRunPerClient, Runs, At
<1>7. ClosedHaveArrived'
  BY <1>1, <1>2 DEF ClosedHaveArrived, At, TypeOK
<1> QED BY <1>3, <1>4, <1>5, <1>6, <1>7

(* The closing of a connection, whatever closes it.                        *)
LEMMA CloseStep ==
  ASSUME IInv, NEW r \in Requests, ~At(r, "new"), Close(r),
         closes' \in 0..MaxCloses
  PROVE  IInv'
<1> USE DEF IInv
<1> DEFINE k == request[r].key
           releases == request[r].step \in {"running", "silent"} /\ inFlight[k] = r
<1>1. UNCHANGED request /\ closed' = closed \union {r}
  BY DEF Close
<1>2. k \in Keys
  BY DEF TypeOK
<1>3. /\ releases => /\ inFlight' = [inFlight EXCEPT ![k] = None]
                     /\ lock' = Settled(r, "rejected")
      /\ ~releases => UNCHANGED <<inFlight, lock>>
      /\ UNCHANGED <<idempotencyCache, answer>>
  BY DEF Close
<1>4. \A l \in Keys : inFlight[l] = r => l = k /\ releases
  BY ConstantsAssumption DEF LocksCanBeReleased
<1> HIDE DEF k, releases
<1>5. /\ lock' \in [Requests -> Promises]
      /\ \A q \in Requests \ {r} : lock'[q] = lock[q]
  BY <1>3, SettledType DEF TypeOK
<1>6. inFlight' \in [Keys -> Requests \union {None}]
  BY <1>2, <1>3 DEF TypeOK
<1>7. TypeOK'
  BY <1>1, <1>3, <1>5, <1>6 DEF TypeOK, At
<1>8. \A l \in Keys : inFlight'[l] # None => inFlight'[l] = inFlight[l] /\ inFlight[l] # r
  BY <1>2, <1>3, <1>4 DEF TypeOK
<1>9. LocksCanBeReleased'
  BY <1>1, <1>5, <1>6, <1>8 DEF LocksCanBeReleased
<1>10. RunsAreFound'
  <2> SUFFICES ASSUME NEW q \in Requests, Runs(q)', q \notin closed'
               PROVE  \/ idempotencyCache'[request'[q].key] # None
                      \/ inFlight'[request'[q].key] = q
    BY DEF RunsAreFound
  <2>1. q # r /\ request'[q] = request[q] /\ Runs(q) /\ q \notin closed
    BY <1>1 DEF Runs, At
  <2>2. request[q].key \in Keys
    BY <2>1 DEF TypeOK, Runs, At
  <2>3. inFlight[request[q].key] = q => inFlight'[request[q].key] = q
    BY <1>2, <1>3, <2>1, <2>2 DEF TypeOK, releases, k
  <2> QED BY <1>3, <2>1, <2>3 DEF RunsAreFound
<1>11. OneRunPerClient'
  BY <1>1 DEF OneRunPerClient, Runs, At
<1>12. ClosedHaveArrived'
  BY <1>1 DEF ClosedHaveArrived, At
<1> QED BY <1>7, <1>9, <1>10, <1>11, <1>12

LEMMA WaitStep ==
  ASSUME IInv, NEW r \in Requests, Wait(r)
  PROVE  IInv'
<1> USE DEF IInv
<1>1. PICK what \in Requests \union {Unavailable} : WaitEnds(r, what)
  BY DEF Wait, TypeOK
<1>2. /\ request' \in [Requests -> Request]
      /\ request'[r].step = "done"
      /\ \A q \in Requests \ {r} : request'[q] = request[q]
      /\ \A q \in Requests : /\ ~At(q, "new")' => request'[q].key \in Keys
                             /\ At(q, "waiting")' => request'[q].awaits \in Requests
  BY <1>1, StepUpdate DEF Wait, WaitEnds, At
<1>3. UNCHANGED <<idempotencyCache, inFlight, lock, closed, closes>> /\ Send(r, what)
  BY <1>1 DEF WaitEnds
<1>4. TypeOK'
  BY <1>2, <1>3, SendType DEF TypeOK
<1>5. \A l \in Keys : inFlight[l] # r
  BY ConstantsAssumption DEF LocksCanBeReleased, Wait, At
<1>6. LocksCanBeReleased'
  BY <1>2, <1>3, <1>5 DEF LocksCanBeReleased, TypeOK
<1>7. RunsAreFound'
  BY <1>2, <1>3 DEF RunsAreFound, Runs, At
<1>8. OneRunPerClient'
  BY <1>2, <1>3 DEF OneRunPerClient, Runs, At
<1>9. ClosedHaveArrived'
  BY <1>2, <1>3 DEF ClosedHaveArrived, At, TypeOK
<1> QED BY <1>4, <1>6, <1>7, <1>8, <1>9

LEMMA EvictStep ==
  ASSUME IInv, NEW k \in Keys, Evict(k)
  PROVE  IInv'
<1> USE DEF IInv
<1>1. TypeOK'
  BY DEF TypeOK, Evict, At
<1>2. LocksCanBeReleased'
  BY DEF LocksCanBeReleased, Evict
<1>3. RunsAreFound'
  BY DEF RunsAreFound, Evict, Runs, At, TypeOK
<1>4. OneRunPerClient'
  BY DEF OneRunPerClient, Evict, Runs, At
<1>5. ClosedHaveArrived'
  BY DEF ClosedHaveArrived, Evict, At
<1> QED BY <1>1, <1>2, <1>3, <1>4, <1>5

LEMMA NextIInv == IInv /\ [Next]_vars => IInv'
<1> SUFFICES ASSUME IInv, [Next]_vars
             PROVE  IInv'
  OBVIOUS
<1>1. CASE UNCHANGED vars
  BY <1>1 DEF IInv, TypeOK, LocksCanBeReleased, RunsAreFound, OneRunPerClient,
              ClosedHaveArrived, Runs, At, vars
<1>2. ASSUME NEW r \in Requests, CloseSilent(r)
      PROVE  IInv'
  <2>1. ~At(r, "new") /\ closes' \in 0..MaxCloses
    BY <1>2 DEF CloseSilent, At, IInv, TypeOK
  <2> QED BY <1>2, <2>1, CloseStep DEF CloseSilent
<1>3. ASSUME NEW r \in Requests, Disconnect(r)
      PROVE  IInv'
  <2>1. ~At(r, "new")
    BY <1>3 DEF Disconnect, At
  <2>2. closes' \in 0..MaxCloses
    BY <1>3, ConstantsAssumption DEF Disconnect, IInv, TypeOK
  <2> QED BY <1>3, <2>1, <2>2, CloseStep DEF Disconnect
<1> QED BY <1>1, <1>2, <1>3, ArriveStep, AnswerJsonStep, EndSilentlyStep,
           WaitStep, EvictStep DEF Next

LEMMA Invariance == Spec => []IInv
<1> QED BY InitIInv, NextIInv, PTL DEF Spec

---------------------------------------------------------------------------
(* The idempotency keys: responses.                                        *)

(* Whatever a response is told to, its handler has answered, for the key   *)
(* of whoever is told: those cached for a key, those a lock promises, and  *)
(* those a client was sent.                                                *)
CachedAreOfTheirKey ==
  \A k \in Keys : idempotencyCache[k] # None =>
    At(idempotencyCache[k], "done") /\ request[idempotencyCache[k]].key = k

ResolvedHaveAnswered == \A r \in Requests : lock[r] = "resolved" => At(r, "done")

WaitsAreOfTheirKey ==
  \A r \in Requests : At(r, "waiting") =>
    ~At(request[r].awaits, "new") /\ request[request[r].awaits].key = request[r].key

AnsweredAreDone == \A r \in Requests : answer[r] \in Requests => At(r, "done")

(* As long as nobody has gone away, a key that has a response is not run.  *)
FirstRunsOnly ==
  closes = 0 => \A r \in Requests : Runs(r) =>
    r \notin closed /\ idempotencyCache[request[r].key] = None

AnswersIInv ==
  /\ CachedAreOfTheirKey
  /\ ResolvedHaveAnswered
  /\ WaitsAreOfTheirKey
  /\ AnsweredAreDone
  /\ AnswersAreOfTheirKey
  /\ FirstRunsOnly

LEMMA SetStep ==
  ASSUME TypeOK, NEW r \in Requests, NEW step \in {"silent", "done"},
         ~At(r, "new"),
         request' = [request EXCEPT ![r].step = step]
  PROVE  /\ request'[r].step = step
         /\ request'[r].key = request[r].key
         /\ request'[r].awaits = request[r].awaits
         /\ \A q \in Requests \ {r} : request'[q] = request[q]
  BY DEF TypeOK, Request

LEMMA ArriveAnswers ==
  ASSUME IInv, AnswersIInv, NEW r \in Requests, NEW k \in Keys, Arrive(r, k)
  PROVE  AnswersIInv'
<1> USE DEF IInv
<1>1. At(r, "new") /\ UNCHANGED <<idempotencyCache, closed, closes>> /\ r \notin closed
  BY DEF Arrive, ClosedHaveArrived
<1>2. \A l \in Keys : idempotencyCache[l] # None =>
         /\ idempotencyCache[l] \in Requests /\ idempotencyCache[l] # r
  BY <1>1 DEF TypeOK, AnswersIInv, CachedAreOfTheirKey, At
<1>3. CASE AnswerFromCache(r, k)
  <2>1. /\ request'[r].step = "done" /\ request'[r].key = k
        /\ \A q \in Requests \ {r} : request'[q] = request[q]
    <3>1. request' = [request EXCEPT ![r] = RequestAt("done", k, None)]
      BY <1>3 DEF AnswerFromCache
    <3> QED BY <3>1 DEF TypeOK, RequestAt
  <2>2. /\ UNCHANGED <<inFlight, lock>>
        /\ answer' = [answer EXCEPT ![r] = idempotencyCache[k]]
        /\ idempotencyCache[k] # None
    BY <1>1, <1>3 DEF AnswerFromCache, Send
  <2>3. CachedAreOfTheirKey'
    BY <1>1, <1>2, <2>1 DEF AnswersIInv, CachedAreOfTheirKey, At
  <2>4. ResolvedHaveAnswered'
    BY <2>1, <2>2 DEF AnswersIInv, ResolvedHaveAnswered, At
  <2>5. WaitsAreOfTheirKey'
    BY <1>1, <2>1 DEF AnswersIInv, WaitsAreOfTheirKey, At, TypeOK
  <2>6. AnsweredAreDone'
    BY <2>1, <2>2 DEF AnswersIInv, AnsweredAreDone, At, TypeOK
  <2>7. AnswersAreOfTheirKey'
    <3> SUFFICES ASSUME NEW q \in Requests, answer'[q] \in Requests
                 PROVE  /\ request'[answer'[q]].key = request'[q].key
                        /\ request'[answer'[q]].step = "done"
      BY DEF AnswersAreOfTheirKey
    <3>1. CASE q = r
      BY <1>2, <2>1, <2>2, <3>1 DEF AnswersIInv, CachedAreOfTheirKey, At, TypeOK
    <3>2. CASE q # r
      <4>1. answer'[q] = answer[q] /\ answer[q] # r
        BY <1>1, <2>2, <3>2 DEF AnswersIInv, AnswersAreOfTheirKey, At, TypeOK
      <4> QED BY <2>1, <3>2, <4>1 DEF AnswersIInv, AnswersAreOfTheirKey
    <3> QED BY <3>1, <3>2
  <2>8. FirstRunsOnly'
    BY <1>1, <2>1 DEF AnswersIInv, FirstRunsOnly, Runs, At
  <2> QED BY <2>3, <2>4, <2>5, <2>6, <2>7, <2>8 DEF AnswersIInv
<1>4. CASE WaitForLock(r, k)
  <2>1. /\ request'[r].step = "waiting" /\ request'[r].key = k
        /\ request'[r].awaits = inFlight[k]
        /\ \A q \in Requests \ {r} : request'[q] = request[q]
    <3>1. request' = [request EXCEPT ![r] = RequestAt("waiting", k, inFlight[k])]
      BY <1>4 DEF WaitForLock
    <3> QED BY <3>1 DEF TypeOK, RequestAt
  <2>2. UNCHANGED <<inFlight, lock, answer>> /\ inFlight[k] # None
    BY <1>4 DEF WaitForLock
  <2>3. inFlight[k] \in Requests /\ request[inFlight[k]].key = k /\ ~At(inFlight[k], "new")
    BY <2>2 DEF LocksCanBeReleased, TypeOK, At
  <2>4. CachedAreOfTheirKey'
    BY <1>1, <1>2, <2>1 DEF AnswersIInv, CachedAreOfTheirKey, At
  <2>5. ResolvedHaveAnswered'
    BY <1>1, <2>1, <2>2 DEF AnswersIInv, ResolvedHaveAnswered, At
  <2>6. WaitsAreOfTheirKey'
    <3> SUFFICES ASSUME NEW q \in Requests, At(q, "waiting")'
                 PROVE  /\ request'[request'[q].awaits].step # "new"
                        /\ request'[request'[q].awaits].key = request'[q].key
      BY DEF WaitsAreOfTheirKey, At
    <3>1. CASE q = r
      BY <1>1, <2>1, <2>3, <3>1 DEF At
    <3>2. CASE q # r
      <4>1. request'[q] = request[q] /\ At(q, "waiting") /\ request[q].awaits \in Requests
        BY <2>1, <3>2 DEF At, TypeOK
      <4> QED BY <1>1, <2>1, <4>1 DEF AnswersIInv, WaitsAreOfTheirKey, At
    <3> QED BY <3>1, <3>2
  <2>7. AnsweredAreDone' /\ AnswersAreOfTheirKey'
    BY <1>1, <2>1, <2>2 DEF AnswersIInv, AnsweredAreDone, AnswersAreOfTheirKey, At
  <2>8. FirstRunsOnly'
    BY <1>1, <2>1 DEF AnswersIInv, FirstRunsOnly, Runs, At
  <2> QED BY <2>4, <2>5, <2>6, <2>7, <2>8 DEF AnswersIInv
<1>5. CASE ClaimLock(r, k)
  <2>1. /\ request'[r].step = "running" /\ request'[r].key = k
        /\ \A q \in Requests \ {r} : request'[q] = request[q]
    <3>1. request' = [request EXCEPT ![r] = RequestAt("running", k, None)]
      BY <1>5 DEF ClaimLock
    <3> QED BY <3>1 DEF TypeOK, RequestAt
  <2>2. /\ lock' = [lock EXCEPT ![r] = "pending"]
        /\ UNCHANGED answer /\ idempotencyCache[k] = None
    BY <1>5 DEF ClaimLock
  <2>3. CachedAreOfTheirKey'
    BY <1>1, <1>2, <2>1 DEF AnswersIInv, CachedAreOfTheirKey, At
  <2>4. ResolvedHaveAnswered'
    BY <2>1, <2>2 DEF AnswersIInv, ResolvedHaveAnswered, At, TypeOK
  <2>5. WaitsAreOfTheirKey'
    BY <1>1, <2>1 DEF AnswersIInv, WaitsAreOfTheirKey, At, TypeOK
  <2>6. AnsweredAreDone' /\ AnswersAreOfTheirKey'
    BY <1>1, <2>1, <2>2 DEF AnswersIInv, AnsweredAreDone, AnswersAreOfTheirKey, At
  <2>7. FirstRunsOnly'
    BY <1>1, <2>1, <2>2 DEF AnswersIInv, FirstRunsOnly, Runs, At
  <2> QED BY <2>3, <2>4, <2>5, <2>6, <2>7 DEF AnswersIInv
<1> QED BY <1>3, <1>4, <1>5 DEF Arrive

LEMMA AnswerJsonAnswers ==
  ASSUME IInv, AnswersIInv, NEW r \in Requests, AnswerJson(r)
  PROVE  AnswersIInv'
<1> USE DEF IInv
<1> DEFINE k == request[r].key
<1>1. k \in Keys /\ Runs(r) /\ request[r].step = "running"
  BY DEF AnswerJson, Runs, At, TypeOK
<1>2. /\ request'[r].step = "done" /\ request'[r].key = k
      /\ \A q \in Requests \ {r} : request'[q] = request[q]
  BY <1>1, SetStep DEF AnswerJson, At
<1>3. \A q \in Requests : /\ request'[q].key = request[q].key
                          /\ At(q, "done") => At(q, "done")'
                          /\ q # r => request'[q] = request[q]
  BY <1>2 DEF At
<1>4. /\ idempotencyCache' = [idempotencyCache EXCEPT ![k] = r]
      /\ lock' = Settled(r, "resolved")
      /\ answer' = IF r \in closed THEN answer ELSE [answer EXCEPT ![r] = r]
      /\ UNCHANGED <<closed, closes>>
  BY DEF AnswerJson, Send
<1>5. \A q \in Requests : Runs(q) /\ r \notin closed /\ q \notin closed
                            /\ request[q].key = k => q = r
  BY <1>1 DEF OneRunPerClient
<1> HIDE DEF k
<1>6. CachedAreOfTheirKey'
  <2> SUFFICES ASSUME NEW l \in Keys, idempotencyCache'[l] # None
               PROVE  /\ request'[idempotencyCache'[l]].step = "done"
                      /\ request'[idempotencyCache'[l]].key = l
    BY DEF CachedAreOfTheirKey, At
  <2>1. CASE l = k
    BY <1>1, <1>2, <1>4, <2>1 DEF TypeOK, At
  <2>2. CASE l # k
    <3>1. idempotencyCache'[l] = idempotencyCache[l] /\ idempotencyCache[l] \in Requests
      BY <1>4, <2>2 DEF TypeOK
    <3> QED BY <1>3, <3>1 DEF AnswersIInv, CachedAreOfTheirKey, At
  <2> QED BY <2>1, <2>2
<1>7. ResolvedHaveAnswered'
  <2>1. \A q \in Requests \ {r} : lock'[q] = lock[q]
    BY <1>4, SettledType
  <2> QED BY <1>2, <2>1 DEF AnswersIInv, ResolvedHaveAnswered, At
<1>8. WaitsAreOfTheirKey'
  <2> SUFFICES ASSUME NEW q \in Requests, At(q, "waiting")'
               PROVE  /\ request'[request'[q].awaits].step # "new"
                      /\ request'[request'[q].awaits].key = request'[q].key
    BY DEF WaitsAreOfTheirKey, At
  <2>1. request'[q] = request[q] /\ At(q, "waiting") /\ request[q].awaits \in Requests
    BY <1>2 DEF At, TypeOK
  <2> QED BY <1>2, <1>3, <2>1 DEF AnswersIInv, WaitsAreOfTheirKey, At
<1>9. AnsweredAreDone'
  BY <1>2, <1>3, <1>4 DEF AnswersIInv, AnsweredAreDone, At, TypeOK
<1>10. AnswersAreOfTheirKey'
  BY <1>2, <1>3, <1>4 DEF AnswersIInv, AnswersAreOfTheirKey, At, TypeOK
<1>11. FirstRunsOnly'
  <2> SUFFICES ASSUME closes = 0, NEW q \in Requests, Runs(q)'
               PROVE  /\ q \notin closed
                      /\ idempotencyCache'[request'[q].key] = None
    BY <1>4 DEF FirstRunsOnly, Runs, At
  <2>1. q # r /\ request'[q] = request[q] /\ Runs(q)
    BY <1>2 DEF Runs, At
  <2>2. /\ q \notin closed /\ r \notin closed
        /\ idempotencyCache[request[q].key] = None
    BY <1>1, <2>1 DEF AnswersIInv, FirstRunsOnly
  <2>3. request[q].key # k
    BY <1>5, <2>1, <2>2
  <2> QED BY <1>1, <1>4, <2>1, <2>2, <2>3 DEF TypeOK
<1> QED BY <1>6, <1>7, <1>8, <1>9, <1>10, <1>11 DEF AnswersIInv

LEMMA EndSilentlyAnswers ==
  ASSUME IInv, AnswersIInv, NEW r \in Requests, EndSilently(r)
  PROVE  AnswersIInv'
<1> USE DEF IInv
<1>1. /\ request'[r].step = "silent" /\ request[r].step = "running"
      /\ \A q \in Requests : request'[q].key = request[q].key
      /\ \A q \in Requests \ {r} : request'[q] = request[q]
  BY SetStep DEF EndSilently, Runs, At
<1>2. UNCHANGED <<idempotencyCache, inFlight, lock, closed, answer, closes>>
  BY DEF EndSilently
<1>3. CachedAreOfTheirKey'
  BY <1>1, <1>2 DEF AnswersIInv, CachedAreOfTheirKey, At, TypeOK
<1>4. ResolvedHaveAnswered'
  BY <1>1, <1>2 DEF AnswersIInv, ResolvedHaveAnswered, At
<1>5. WaitsAreOfTheirKey'
  BY <1>1 DEF AnswersIInv, WaitsAreOfTheirKey, At, TypeOK
<1>6. AnsweredAreDone'
  BY <1>1, <1>2 DEF AnswersIInv, AnsweredAreDone, At
<1>7. AnswersAreOfTheirKey'
  BY <1>1, <1>2 DEF AnswersIInv, AnswersAreOfTheirKey
<1>8. FirstRunsOnly'
  BY <1>1, <1>2 DEF AnswersIInv, FirstRunsOnly, Runs, At
<1> QED BY <1>3, <1>4, <1>5, <1>6, <1>7, <1>8 DEF AnswersIInv

(* A close of a request that runs is one of those that are counted.        *)
LEMMA CloseAnswers ==
  ASSUME IInv, AnswersIInv, NEW r \in Requests, Close(r),
         closes' = 0 => closes = 0 /\ ~Runs(r)
  PROVE  AnswersIInv'
<1> USE DEF IInv
<1>1. UNCHANGED <<idempotencyCache, request, answer>> /\ closed' = closed \union {r}
  BY DEF Close
<1>2. \A q \in Requests : lock'[q] = "resolved" => lock[q] = "resolved"
  BY DEF Close, Settled, TypeOK
<1>3. FirstRunsOnly'
  BY <1>1 DEF AnswersIInv, FirstRunsOnly, Runs, At
<1> QED BY <1>1, <1>2, <1>3 DEF AnswersIInv, CachedAreOfTheirKey, ResolvedHaveAnswered,
             WaitsAreOfTheirKey, AnsweredAreDone, AnswersAreOfTheirKey, At

LEMMA WaitAnswers ==
  ASSUME IInv, AnswersIInv, NEW r \in Requests, Wait(r)
  PROVE  AnswersIInv'
<1> USE DEF IInv
<1>1. PICK what \in Requests \union {Unavailable} :
        /\ WaitEnds(r, what)
        /\ what \in Requests => what = request[r].awaits /\ lock[what] = "resolved"
  BY ConstantsAssumption DEF Wait, TypeOK
<1>2. /\ request'[r].step = "done" /\ request[r].step = "waiting"
      /\ \A q \in Requests : request'[q].key = request[q].key
      /\ \A q \in Requests \ {r} : request'[q] = request[q]
  BY <1>1, SetStep DEF Wait, WaitEnds, At
<1>3. /\ UNCHANGED <<idempotencyCache, inFlight, lock, closed, closes>>
      /\ answer' = IF r \in closed THEN answer ELSE [answer EXCEPT ![r] = what]
  BY <1>1 DEF WaitEnds, Send
<1>4. what \in Requests => At(what, "done") /\ request[what].key = request[r].key
  BY <1>1, <1>2 DEF AnswersIInv, ResolvedHaveAnswered, WaitsAreOfTheirKey, At
<1>5. CachedAreOfTheirKey'
  BY <1>2, <1>3 DEF AnswersIInv, CachedAreOfTheirKey, At, TypeOK
<1>6. ResolvedHaveAnswered'
  BY <1>2, <1>3 DEF AnswersIInv, ResolvedHaveAnswered, At
<1>7. WaitsAreOfTheirKey'
  BY <1>2 DEF AnswersIInv, WaitsAreOfTheirKey, At, TypeOK
<1>8. AnsweredAreDone'
  BY <1>2, <1>3 DEF AnswersIInv, AnsweredAreDone, At, TypeOK
<1>9. AnswersAreOfTheirKey'
  <2> SUFFICES ASSUME NEW q \in Requests, answer'[q] \in Requests
               PROVE  /\ request'[answer'[q]].key = request'[q].key
                      /\ request'[answer'[q]].step = "done"
    BY DEF AnswersAreOfTheirKey
  <2>1. CASE answer'[q] = answer[q]
    BY <1>2, <2>1 DEF AnswersIInv, AnswersAreOfTheirKey
  <2>2. CASE answer'[q] # answer[q]
    <3>1. q = r /\ answer'[q] = what
      BY <1>3, <2>2 DEF TypeOK
    <3> QED BY <1>2, <1>4, <3>1 DEF At
  <2> QED BY <2>1, <2>2
<1>10. FirstRunsOnly'
  BY <1>2, <1>3 DEF AnswersIInv, FirstRunsOnly, Runs, At
<1> QED BY <1>5, <1>6, <1>7, <1>8, <1>9, <1>10 DEF AnswersIInv

LEMMA EvictAnswers ==
  ASSUME IInv, AnswersIInv, NEW k \in Keys, Evict(k)
  PROVE  AnswersIInv'
<1>1. /\ UNCHANGED <<inFlight, lock, request, closed, answer, closes>>
      /\ \A l \in Keys : idempotencyCache'[l] \in {idempotencyCache[l], None}
  BY DEF Evict, IInv, TypeOK
<1>2. FirstRunsOnly'
  BY <1>1 DEF AnswersIInv, FirstRunsOnly, Runs, At, IInv, TypeOK
<1> QED BY <1>1, <1>2 DEF AnswersIInv, CachedAreOfTheirKey, ResolvedHaveAnswered,
             WaitsAreOfTheirKey, AnsweredAreDone, AnswersAreOfTheirKey, At

LEMMA NextAnswersIInv ==
  ASSUME IInv, AnswersIInv, [Next]_vars
  PROVE  AnswersIInv'
<1>1. CASE UNCHANGED vars
  BY <1>1 DEF AnswersIInv, CachedAreOfTheirKey, ResolvedHaveAnswered,
     WaitsAreOfTheirKey, AnsweredAreDone, AnswersAreOfTheirKey, FirstRunsOnly, Runs, At, vars
<1>2. ASSUME NEW r \in Requests, CloseSilent(r)
      PROVE  AnswersIInv'
  BY <1>2, CloseAnswers DEF CloseSilent, At, Runs
<1>3. ASSUME NEW r \in Requests, Disconnect(r)
      PROVE  AnswersIInv'
  <2>1. closes' # 0
    BY <1>3 DEF Disconnect, IInv, TypeOK
  <2> QED BY <1>3, <2>1, CloseAnswers DEF Disconnect
<1> QED BY <1>1, <1>2, <1>3, ArriveAnswers, AnswerJsonAnswers, EndSilentlyAnswers,
           WaitAnswers, EvictAnswers DEF Next

LEMMA InitAnswersIInv == Init => AnswersIInv
<1> SUFFICES ASSUME Init
             PROVE  AnswersIInv
  OBVIOUS
<1>1. \A r \in Requests : At(r, "new")
  BY DEF Init, At, RequestAt
<1> QED BY <1>1, ConstantsAssumption
  DEF Init, AnswersIInv, CachedAreOfTheirKey, ResolvedHaveAnswered, WaitsAreOfTheirKey,
      AnsweredAreDone, AnswersAreOfTheirKey, FirstRunsOnly, Runs, At

(* A response that is cached is not replaced while nobody has gone away.   *)
LEMMA StableStep ==
  ASSUME IInv, AnswersIInv, Next, closes = 0,
         NEW k \in Keys, idempotencyCache[k] # None
  PROVE  idempotencyCache'[k] \in {idempotencyCache[k], None}
<1>1. ASSUME NEW r \in Requests, AnswerJson(r)
      PROVE  idempotencyCache'[k] = idempotencyCache[k]
  <2>1. request[r].key # k
    BY <1>1 DEF AnswersIInv, FirstRunsOnly, AnswerJson
  <2> QED BY <1>1, <2>1 DEF AnswerJson, IInv, TypeOK
<1>2. ASSUME NEW l \in Keys, Evict(l)
      PROVE  idempotencyCache'[k] \in {idempotencyCache[k], None}
  BY <1>2 DEF Evict, IInv, TypeOK
<1>3. ASSUME NEW r \in Requests,
             \/ \E l \in Keys : Arrive(r, l)
             \/ EndSilently(r) \/ CloseSilent(r) \/ Disconnect(r) \/ Wait(r)
      PROVE  UNCHANGED idempotencyCache
  BY <1>3 DEF Arrive, EndSilently, CloseSilent, Disconnect, Wait, Close, WaitEnds
<1> QED BY <1>1, <1>2, <1>3 DEF Next

---------------------------------------------------------------------------
(* The members and their invite codes.                                     *)

(* The members, the codes and what was told are finite, so that they can   *)
(* be counted.                                                             *)
AdmissionsAreFinite ==
  /\ IsFiniteSet(DOMAIN entries)
  /\ IsFiniteSet(DOMAIN inviteCodes)
  /\ IsFiniteSet(told)

AdmissionIInv ==
  /\ Admissions!TypeOK
  /\ AdmissionsAreFinite
  /\ Admissions!InvitationsAreAccounted

(* The module counts as we do.                                             *)
LEMMA AdmissionsCount == \A S : Admissions!Cardinality(S) = Cardinality(S)
  BY DEF Admissions!Cardinality, Cardinality

Forgotten ==
  /\ DOMAIN entries = {} /\ DOMAIN inviteCodes = {} /\ told = {}
  /\ inviteCountByUser = [p \in Parties |-> 0]

(* A backend that has forgotten everything accounts for it.                *)
LEMMA ForgottenIsAccounted == Forgotten => AdmissionIInv
<1> SUFFICES ASSUME Forgotten
             PROVE  AdmissionIInv
  OBVIOUS
<1>1. /\ DOMAIN entries = {} /\ DOMAIN inviteCodes = {} /\ told = {}
      /\ inviteCountByUser = [p \in Parties |-> 0]
  BY DEF Forgotten
<1>2. Admissions!TypeOK
  BY <1>1, AdmissionsAssumption DEF Admissions!TypeOK, Admissions!ConstantsAssumption
<1>3. Cardinality({}) = 0 /\ IsFiniteSet({})
  BY FS_EmptySet
<1>4. \A p \in Parties : Admissions!CreatedBy(p) = {}
  BY <1>1 DEF Admissions!CreatedBy
<1>5. Admissions!InvitationsAreAccounted
  <2>1. {t[1] : t \in told} = {} /\ {t \in told : t[2] # None} = {}
    BY <1>1
  <2>2. {<<inviteCodes[code].redeemedBy, code>> :
            code \in {c \in DOMAIN inviteCodes : Admissions!Redeemed(c)}} = {}
    BY <1>1
  <2>3. MaxUsers \in Nat /\ Admissions!Cardinality({}) = 0
    BY <1>3, AdmissionsAssumption, AdmissionsCount DEF Admissions!ConstantsAssumption
  <2>4. \A p \in Parties :
          Admissions!Cardinality(Admissions!CreatedBy(p)) = inviteCountByUser[p]
    BY <1>1, <1>4, <2>3
  <2> QED
    BY <1>1, <2>1, <2>2, <2>3, <2>4 DEF Admissions!InvitationsAreAccounted
<1> QED BY <1>1, <1>2, <1>3, <1>5 DEF AdmissionIInv, AdmissionsAreFinite

LEMMA InitAdmissionIInv == Admissions!Init => AdmissionIInv
  BY ForgottenIsAccounted DEF Forgotten, Admissions!Init, Admissions!NoFunction

(* A new member: who is let in, and in whose name.                         *)
LEMMA MemberJoins ==
  ASSUME AdmissionIInv, NEW p \in Parties, NEW by \in Parties \union {None},
         NEW how \in Codes \union {None},
         Admissions!CanAdd(p), Admissions!AddUser(p, by),
         told' = told \union {<<p, how>>}
  PROVE  /\ DOMAIN entries' = DOMAIN entries \union {p}
         /\ entries'[p] = by
         /\ \A q \in DOMAIN entries : entries'[q] = entries[q]
         /\ p \notin DOMAIN entries
         /\ \A q \in DOMAIN entries' : entries'[q] \in Parties \union {None}
         /\ IsFiniteSet(DOMAIN entries') /\ IsFiniteSet(told')
         /\ Cardinality(DOMAIN entries') <= MaxUsers
         /\ {t[1] : t \in told'} = DOMAIN entries'
         /\ Cardinality(told') = Cardinality(DOMAIN entries')
         /\ told' \subseteq Parties \X (Codes \union {None})
<1> USE DEF AdmissionIInv, AdmissionsAreFinite
<1>1. /\ DOMAIN entries' = DOMAIN entries \union {p}
      /\ entries'[p] = by
      /\ p \notin DOMAIN entries
      /\ \A q \in DOMAIN entries : entries'[q] = entries[q]
  BY DEF Admissions!CanAdd, Admissions!AddUser, Admissions!With, Admissions!IsWhitelisted
<1>2. \A q \in DOMAIN entries' : entries'[q] \in Parties \union {None}
  BY <1>1 DEF Admissions!TypeOK
<1>3. /\ IsFiniteSet(DOMAIN entries')
      /\ Cardinality(DOMAIN entries') = Cardinality(DOMAIN entries) + 1
  BY <1>1, FS_AddElement
<1>4. {t[1] : t \in told} = DOMAIN entries
  BY DEF Admissions!InvitationsAreAccounted
<1>5. <<p, how>> \notin told
  BY <1>1, <1>4
<1>6. IsFiniteSet(told') /\ Cardinality(told') = Cardinality(told) + 1
  BY <1>5, FS_AddElement
<1>7. {t[1] : t \in told'} = DOMAIN entries'
  <2>1. <<p, how>>[1] = p
    OBVIOUS
  <2>2. ASSUME NEW q \in DOMAIN entries'
        PROVE  \E t \in told' : t[1] = q
    <3>1. CASE q = p
      BY <2>1, <3>1
    <3>2. CASE q \in DOMAIN entries
      BY <1>4, <3>2
    <3> QED BY <1>1, <3>1, <3>2
  <2>3. ASSUME NEW t \in told'
        PROVE  t[1] \in DOMAIN entries'
    BY <1>1, <1>4, <2>1
  <2> QED BY <2>2, <2>3
<1>8. Cardinality(DOMAIN entries') <= MaxUsers
  <2>1. Cardinality(DOMAIN entries) \in Nat
    BY FS_CardinalityType
  <2>2. MaxUsers \in Nat /\ ~(Cardinality(DOMAIN entries) >= MaxUsers)
    BY AdmissionsAssumption, AdmissionsCount
    DEF Admissions!ConstantsAssumption, Admissions!CanAdd, Admissions!IsFull
  <2> QED BY <2>1, <2>2, <1>3
<1>9. Cardinality(told') = Cardinality(DOMAIN entries')
  BY <1>3, <1>6, AdmissionsCount DEF Admissions!InvitationsAreAccounted
<1>10. told' \subseteq Parties \X (Codes \union {None})
  BY DEF Admissions!TypeOK
<1> QED BY <1>1, <1>2, <1>3, <1>6, <1>7, <1>8, <1>9, <1>10

LEMMA JoinStep ==
  ASSUME AdmissionIInv, NEW p \in Parties, Admissions!Join(p)
  PROVE  AdmissionIInv'
<1> USE DEF AdmissionIInv, AdmissionsAreFinite
<1>1. /\ Admissions!CanAdd(p) /\ Admissions!AddUser(p, None)
      /\ told' = told \union {<<p, None>>}
      /\ UNCHANGED <<inviteCodes, inviteCountByUser, restarts>>
  BY DEF Admissions!Join
<1>2. /\ DOMAIN entries' = DOMAIN entries \union {p}
      /\ entries'[p] = None
      /\ \A q \in DOMAIN entries : entries'[q] = entries[q]
      /\ p \notin DOMAIN entries
      /\ \A q \in DOMAIN entries' : entries'[q] \in Parties \union {None}
      /\ IsFiniteSet(DOMAIN entries') /\ IsFiniteSet(told')
      /\ Cardinality(DOMAIN entries') <= MaxUsers
      /\ {t[1] : t \in told'} = DOMAIN entries'
      /\ Cardinality(told') = Cardinality(DOMAIN entries')
      /\ told' \subseteq Parties \X (Codes \union {None})
  BY <1>1, MemberJoins
<1>3. Admissions!TypeOK'
  BY <1>1, <1>2 DEF Admissions!TypeOK
<1>4. {t \in told' : t[2] # None} = {t \in told : t[2] # None}
  BY <1>1
<1>5. ASSUME NEW t \in told'
      PROVE  entries'[t[1]] = IF t[2] = None THEN None
                              ELSE inviteCodes[t[2]].createdBy
  <2>1. CASE t \in told
    <3>1. t[1] \in DOMAIN entries
      BY <2>1 DEF Admissions!InvitationsAreAccounted
    <3> QED BY <2>1, <3>1, <1>2 DEF Admissions!InvitationsAreAccounted
  <2> QED BY <1>1, <1>2, <2>1
<1>6. \A q \in Parties : Admissions!CreatedBy(q)' = Admissions!CreatedBy(q)
  BY <1>1 DEF Admissions!CreatedBy
<1>7. Admissions!InvitationsAreAccounted'
  BY <1>1, <1>2, <1>4, <1>5, <1>6, AdmissionsCount
  DEF Admissions!InvitationsAreAccounted, Admissions!Redeemed
<1> QED BY <1>1, <1>2, <1>3, <1>7

LEMMA GenerateInviteCodeStep ==
  ASSUME AdmissionIInv, NEW p \in Parties, NEW code \in Codes,
         Admissions!GenerateInviteCode(p, code)
  PROVE  AdmissionIInv'
<1> USE DEF AdmissionIInv, AdmissionsAreFinite
<1>1. /\ code \notin DOMAIN inviteCodes
      /\ DOMAIN inviteCodes' = DOMAIN inviteCodes \union {code}
      /\ inviteCodes'[code] = [createdBy |-> p, redeemedBy |-> None]
      /\ \A c \in DOMAIN inviteCodes : inviteCodes'[c] = inviteCodes[c]
      /\ UNCHANGED <<entries, told, restarts>>
  BY DEF Admissions!GenerateInviteCode, Admissions!With
<1>2. /\ inviteCountByUser[p] + 1 \in 0..MaxInvites
      /\ inviteCountByUser' = [inviteCountByUser EXCEPT ![p] = @ + 1]
  BY AdmissionsAssumption
  DEF Admissions!TypeOK, Admissions!ConstantsAssumption,
      Admissions!GenerateInviteCode, Admissions!GetRemainingInvites
<1>3. [createdBy |-> p, redeemedBy |-> None] \in Admissions!Invite
  BY DEF Admissions!Invite
<1>4. Admissions!TypeOK'
  BY <1>1, <1>2, <1>3 DEF Admissions!TypeOK
<1>5. IsFiniteSet(DOMAIN inviteCodes')
  BY <1>1, FS_AddElement
<1>6. {c \in DOMAIN inviteCodes' : Admissions!Redeemed(c)'}
        = {c \in DOMAIN inviteCodes : Admissions!Redeemed(c)}
  BY <1>1 DEF Admissions!Redeemed
<1>7. \A t \in told : t[2] # None => t[2] \in DOMAIN inviteCodes
  <2>1. SUFFICES ASSUME NEW t \in {u \in told : u[2] # None}
                 PROVE  t[2] \in DOMAIN inviteCodes
    OBVIOUS
  <2> QED BY DEF Admissions!InvitationsAreAccounted
<1>8. {<<inviteCodes'[c].redeemedBy, c>> :
         c \in {c \in DOMAIN inviteCodes' : Admissions!Redeemed(c)'}}
        = {<<inviteCodes[c].redeemedBy, c>> :
         c \in {c \in DOMAIN inviteCodes : Admissions!Redeemed(c)}}
  BY <1>1, <1>6
<1>9. \A t \in told : entries[t[1]] = IF t[2] = None THEN None
                                       ELSE inviteCodes'[t[2]].createdBy
  BY <1>1, <1>7 DEF Admissions!InvitationsAreAccounted
<1>10. ASSUME NEW q \in Parties
       PROVE  Cardinality(Admissions!CreatedBy(q)') = inviteCountByUser'[q]
  <2>1. IsFiniteSet(Admissions!CreatedBy(q))
    BY FS_Subset DEF Admissions!CreatedBy
  <2>2. Cardinality(Admissions!CreatedBy(q)) = inviteCountByUser[q]
    BY AdmissionsCount DEF Admissions!InvitationsAreAccounted
  <2>3. CASE q = p
    <3>1. Admissions!CreatedBy(q)' = Admissions!CreatedBy(q) \union {code}
      BY <1>1, <2>3 DEF Admissions!CreatedBy
    <3>2. code \notin Admissions!CreatedBy(q)
      BY <1>1 DEF Admissions!CreatedBy
    <3>3. inviteCountByUser'[q] = inviteCountByUser[q] + 1
      BY <1>2, <2>3 DEF Admissions!TypeOK
    <3> QED BY <2>1, <2>2, <3>1, <3>2, <3>3, FS_AddElement
  <2>4. CASE q # p
    <3>1. Admissions!CreatedBy(q)' = Admissions!CreatedBy(q)
      BY <1>1, <2>4 DEF Admissions!CreatedBy
    <3>2. inviteCountByUser'[q] = inviteCountByUser[q]
      BY <1>2, <2>4 DEF Admissions!TypeOK
    <3> QED BY <2>2, <3>1, <3>2
  <2> QED BY <2>3, <2>4
<1>11. Admissions!InvitationsAreAccounted'
  BY <1>1, <1>8, <1>9, <1>10, AdmissionsCount
  DEF Admissions!InvitationsAreAccounted
<1> QED BY <1>1, <1>4, <1>5, <1>11

LEMMA RedeemInviteCodeStep ==
  ASSUME AdmissionIInv, NEW p \in Parties, NEW code \in Codes,
         Admissions!RedeemInviteCode(p, code)
  PROVE  AdmissionIInv'
<1> USE DEF AdmissionIInv, AdmissionsAreFinite
<1> DEFINE creator == inviteCodes[code].createdBy
           used == {c \in DOMAIN inviteCodes : Admissions!Redeemed(c)}
<1>1. /\ code \in DOMAIN inviteCodes
      /\ inviteCodes[code].redeemedBy = None
      /\ Admissions!CanAdd(p) /\ Admissions!AddUser(p, creator)
      /\ told' = told \union {<<p, code>>}
      /\ UNCHANGED <<inviteCountByUser, restarts>>
  BY DEF Admissions!RedeemInviteCode, Admissions!Redeemed
<1>2. inviteCodes[code] \in Admissions!Invite /\ creator \in Parties
  BY <1>1 DEF Admissions!TypeOK, Admissions!Invite
<1>3. /\ DOMAIN inviteCodes' = DOMAIN inviteCodes
      /\ inviteCodes'[code] = [createdBy |-> creator, redeemedBy |-> p]
      /\ \A c \in DOMAIN inviteCodes \ {code} : inviteCodes'[c] = inviteCodes[c]
  BY <1>1, <1>2 DEF Admissions!RedeemInviteCode, Admissions!Mark, Admissions!Invite
<1>4. /\ DOMAIN entries' = DOMAIN entries \union {p}
      /\ entries'[p] = creator
      /\ \A q \in DOMAIN entries : entries'[q] = entries[q]
      /\ p \notin DOMAIN entries
      /\ \A q \in DOMAIN entries' : entries'[q] \in Parties \union {None}
      /\ IsFiniteSet(DOMAIN entries') /\ IsFiniteSet(told')
      /\ Cardinality(DOMAIN entries') <= MaxUsers
      /\ {t[1] : t \in told'} = DOMAIN entries'
      /\ Cardinality(told') = Cardinality(DOMAIN entries')
      /\ told' \subseteq Parties \X (Codes \union {None})
  BY <1>1, <1>2, MemberJoins
<1>5. p # None /\ code # None
  BY AdmissionsAssumption DEF Admissions!ConstantsAssumption
<1>6. inviteCodes'[code] \in Admissions!Invite
  BY <1>2, <1>3 DEF Admissions!Invite
<1>7. Admissions!TypeOK'
  BY <1>1, <1>3, <1>4, <1>6 DEF Admissions!TypeOK
<1>8. /\ \A c \in DOMAIN inviteCodes : inviteCodes'[c].createdBy = inviteCodes[c].createdBy
      /\ {c \in DOMAIN inviteCodes' : Admissions!Redeemed(c)'} = used \union {code}
      /\ code \notin used
  <2>1. inviteCodes'[code].createdBy = creator /\ inviteCodes'[code].redeemedBy = p
    BY <1>3
  <2> QED BY <1>1, <1>3, <1>5, <2>1 DEF Admissions!Redeemed
<1>9. {t \in told : t[2] # None} = {<<inviteCodes[c].redeemedBy, c>> : c \in used}
  BY DEF Admissions!InvitationsAreAccounted
<1>10. {t \in told' : t[2] # None}
         = {<<inviteCodes'[c].redeemedBy, c>> :
              c \in {c \in DOMAIN inviteCodes' : Admissions!Redeemed(c)'}}
  <2>1. {t \in told' : t[2] # None} = {t \in told : t[2] # None} \union {<<p, code>>}
    BY <1>1, <1>5
  <2>2. \A c \in used : inviteCodes'[c].redeemedBy = inviteCodes[c].redeemedBy
    BY <1>3, <1>8
  <2>3. inviteCodes'[code].redeemedBy = p
    BY <1>3
  <2> HIDE DEF used
  <2>4. {<<inviteCodes'[c].redeemedBy, c>> : c \in used \union {code}}
          = {<<inviteCodes[c].redeemedBy, c>> : c \in used} \union {<<p, code>>}
    BY <2>2, <2>3
  <2> QED BY <1>8, <1>9, <2>1, <2>4
<1>11. ASSUME NEW t \in told'
       PROVE  entries'[t[1]] = IF t[2] = None THEN None
                               ELSE inviteCodes'[t[2]].createdBy
  <2>1. CASE t = <<p, code>>
    <3>1. t[1] = p /\ t[2] = code
      BY <2>1
    <3> QED BY <1>1, <1>4, <1>5, <1>8, <3>1
  <2>2. CASE t \in told
    <3>1. t[1] \in DOMAIN entries
      BY <2>2 DEF Admissions!InvitationsAreAccounted
    <3>2. t[2] # None => t[2] \in DOMAIN inviteCodes
      BY <2>2, <1>9
    <3>3. entries[t[1]] = IF t[2] = None THEN None ELSE inviteCodes[t[2]].createdBy
      BY <2>2 DEF Admissions!InvitationsAreAccounted
    <3> QED BY <1>4, <1>8, <3>1, <3>2, <3>3
  <2> QED BY <1>1, <2>1, <2>2
<1>12. \A q \in Parties : Admissions!CreatedBy(q)' = Admissions!CreatedBy(q)
  BY <1>3, <1>8 DEF Admissions!CreatedBy
<1>13. \A q \in Parties :
         Cardinality(Admissions!CreatedBy(q)') = inviteCountByUser'[q]
  BY <1>1, <1>12, AdmissionsCount DEF Admissions!InvitationsAreAccounted
<1>14. Admissions!InvitationsAreAccounted'
  BY <1>4, <1>10, <1>11, <1>13, AdmissionsCount
  DEF Admissions!InvitationsAreAccounted
<1> QED BY <1>3, <1>4, <1>7, <1>14

LEMMA AdmissionRestartStep ==
  ASSUME AdmissionIInv, Admissions!Restart
  PROVE  AdmissionIInv'
<1>1. Forgotten'
  BY DEF Forgotten, Admissions!Restart, Admissions!Empty, Admissions!NoFunction
<1>2. Forgotten' => AdmissionIInv'
  BY ForgottenIsAccounted, PTL
<1> QED BY <1>1, <1>2

LEMMA NextAdmissionIInv ==
  ASSUME AdmissionIInv, [Admissions!Next]_admissionVars
  PROVE  AdmissionIInv'
<1>1. ASSUME UNCHANGED admissionVars
      PROVE  AdmissionIInv'
  BY <1>1
  DEF admissionVars, AdmissionIInv, AdmissionsAreFinite, Admissions!TypeOK,
      Admissions!InvitationsAreAccounted, Admissions!CreatedBy, Admissions!Redeemed
<1> QED BY <1>1, JoinStep, GenerateInviteCodeStep, RedeemInviteCodeStep,
           AdmissionRestartStep DEF Admissions!Next

---------------------------------------------------------------------------
(* The administrator and the log.                                          *)

Modes == {"pause", "resume", "emergency-freeze"}

AuditEntry ==
  {Platform!ModeEntry(a) : a \in Modes} \union
  {Platform!UpdateEntry(s, x, y) : s \in Settings, x \in Values, y \in Values}

(* The log holds the administrator's last actions, as many as there are    *)
(* and as it may hold.                                                     *)
LogIsOfActions ==
  /\ auditLog \in Seq(AuditEntry)
  /\ Len(auditLog) = IF actions < MaxAudit THEN actions ELSE MaxAudit

(* A frozen platform is paused.  The log says so while it holds a change of*)
(* mode, and updates may push the last one out.                            *)
FrozenIsPaused == frozen => paused

PlatformIInv ==
  /\ Platform!TypeOK
  /\ FrozenIsPaused
  /\ LogIsOfActions
  /\ Platform!AuditExplainsState

(* A new entry moves the others back by one place, and the last one may    *)
(* fall out of the log.                                                    *)
LEMMA EntryIsAdded ==
  ASSUME PlatformIInv, NEW e \in AuditEntry, Platform!AddAuditEntry(e)
  PROVE  /\ LogIsOfActions'
         /\ Len(auditLog') <= MaxAudit
         /\ actions' \in 0..MaxActions
         /\ actions' = actions + 1
         /\ Len(auditLog') \in Nat \ {0}
         /\ Len(auditLog') <= Len(auditLog) + 1
         /\ DOMAIN auditLog' = 1..Len(auditLog')
         /\ DOMAIN auditLog = 1..Len(auditLog)
         /\ auditLog'[1] = e
         /\ \A i \in 2..Len(auditLog') : auditLog'[i] = auditLog[i-1]
<1> USE DEF PlatformIInv
<1> DEFINE log == <<e>> \o auditLog
           L == IF Len(log) < MaxAudit THEN Len(log) ELSE MaxAudit
<1>1. MaxAudit \in Nat \ {0} /\ MaxActions \in Nat /\ actions \in Nat
  BY PlatformAssumption DEF Platform!ConstantsAssumption, Platform!TypeOK
<1>2. auditLog \in Seq(AuditEntry) /\ Len(auditLog) \in Nat
  BY DEF LogIsOfActions
<1>3. /\ log \in Seq(AuditEntry)
      /\ Len(log) = Len(auditLog) + 1
      /\ log[1] = e
      /\ \A i \in 2..Len(log) : log[i] = auditLog[i-1]
  BY <1>2
<1>4. auditLog' = SubSeq(log, 1, L) /\ actions' = actions + 1 /\ actions < MaxActions
  BY DEF Platform!AddAuditEntry, Platform!Truncated
<1> HIDE DEF log
<1>5. L \in Nat \ {0} /\ L <= Len(log) /\ L <= MaxAudit
  BY <1>1, <1>2, <1>3
<1>6. /\ auditLog' \in Seq(AuditEntry)
      /\ Len(auditLog') = L
      /\ \A i \in 1..L : auditLog'[i] = log[i]
  BY <1>3, <1>4, <1>5
<1>7. LogIsOfActions'
  BY <1>1, <1>3, <1>4, <1>6 DEF LogIsOfActions
<1>8. DOMAIN auditLog' = 1..Len(auditLog') /\ DOMAIN auditLog = 1..Len(auditLog)
  BY <1>2, <1>6
<1>9. \A i \in 2..Len(auditLog') : auditLog'[i] = auditLog[i-1]
  BY <1>3, <1>5, <1>6
<1>10. auditLog'[1] = e
  BY <1>3, <1>5, <1>6
<1> HIDE DEF L
<1>11. actions' \in 0..MaxActions
  BY <1>1, <1>4
<1> QED BY <1>2, <1>3, <1>4, <1>5, <1>6, <1>7, <1>8, <1>9, <1>10, <1>11

LEMMA ModeEntries ==
  ASSUME NEW a \in Modes
  PROVE  /\ Platform!ModeEntry(a) \in AuditEntry
         /\ Platform!ModeEntry(a).action = a
         /\ a # "update"
  BY DEF AuditEntry, Modes, Platform!ModeEntry

LEMMA UpdateEntries ==
  ASSUME NEW s \in Settings, NEW x \in Values, NEW y \in Values,
         NEW e, e = Platform!UpdateEntry(s, x, y)
  PROVE  /\ e \in AuditEntry
         /\ e.action = "update" /\ e.setting = s /\ e.previous = x /\ e.new = y
<1>1. Platform!UpdateEntry(s, x, y) \in AuditEntry
  BY DEF AuditEntry
<1> QED BY <1>1 DEF Platform!UpdateEntry

(* The places of the entries that were there, after a new one.             *)
LEMMA PlacesMove ==
  ASSUME PlatformIInv, NEW e \in AuditEntry, Platform!AddAuditEntry(e)
  PROVE  /\ \A i \in 2..Len(auditLog') :
              /\ i \in Platform!ModePlaces' <=> i-1 \in Platform!ModePlaces
              /\ \A s \in Settings :
                   i \in Platform!UpdatePlaces(s)' <=> i-1 \in Platform!UpdatePlaces(s)
         /\ 1 \in Platform!ModePlaces' <=> e.action # "update"
         /\ \A s \in Settings :
              1 \in Platform!UpdatePlaces(s)' <=> e.action = "update" /\ e.setting = s
  BY EntryIsAdded DEF Platform!ModePlaces, Platform!UpdatePlaces

(* An update continues from the one before it, wherever they are.          *)
UpdatesFollow(s) ==
  \A i, j \in Platform!UpdatePlaces(s) :
    (j > i /\ Platform!IsNewest(j, Platform!UpdatePlaces(s) \ 1..i))
      => auditLog[i].previous = auditLog[j].new

NewestUpdateIsSet(s) ==
  \A i \in Platform!UpdatePlaces(s) :
    Platform!IsNewest(i, Platform!UpdatePlaces(s)) => auditLog[i].new = settings[s]

LEMMA UpdatesAreExplained ==
  ASSUME Platform!AuditExplainsState, NEW s \in Settings
  PROVE  UpdatesFollow(s) /\ NewestUpdateIsSet(s)
<1>1. Platform!UpdatePlaces(s) \subseteq DOMAIN auditLog
  BY DEF Platform!UpdatePlaces
<1> QED BY <1>1 DEF Platform!AuditExplainsState, UpdatesFollow, NewestUpdateIsSet

(* The newest of the entries that were there is the newest still.          *)
LEMMA NewestModeMoves ==
  ASSUME PlatformIInv, NEW e \in AuditEntry, Platform!AddAuditEntry(e),
         1 \notin Platform!ModePlaces',
         NEW i \in Platform!ModePlaces', Platform!IsNewest(i, Platform!ModePlaces)'
  PROVE  /\ i-1 \in Platform!ModePlaces
         /\ Platform!IsNewest(i-1, Platform!ModePlaces)
         /\ auditLog'[i] = auditLog[i-1]
<1> DEFINE M == Platform!ModePlaces
<1>1. /\ Len(auditLog') \in Nat /\ Len(auditLog) \in Nat
      /\ Len(auditLog') <= Len(auditLog) + 1
      /\ DOMAIN auditLog' = 1..Len(auditLog') /\ DOMAIN auditLog = 1..Len(auditLog)
      /\ \A p \in 2..Len(auditLog') : auditLog'[p] = auditLog[p-1]
  BY EntryIsAdded DEF LogIsOfActions, PlatformIInv
<1>2. M' \subseteq 1..Len(auditLog') /\ M \subseteq 1..Len(auditLog)
  BY <1>1 DEF Platform!ModePlaces
<1>3. \A p \in 2..Len(auditLog') : p \in M' <=> p-1 \in M
  BY PlacesMove
<1>4. \A p \in M' : i <= p
  BY DEF Platform!IsNewest
<1> HIDE DEF M
<1>5. i \in 2..Len(auditLog')
  BY <1>2 DEF M
<1>6. i-1 \in M
  BY <1>3, <1>5 DEF M
<1>7. ASSUME NEW p \in M
      PROVE  i-1 <= p
  <2>1. CASE p + 1 > Len(auditLog')
    BY <1>1, <1>2, <1>5, <2>1
  <2>2. CASE p + 1 <= Len(auditLog')
    <3>1. p + 1 \in 2..Len(auditLog') /\ (p + 1) - 1 = p
      BY <2>2, <1>1, <1>2
    <3>2. p + 1 \in M'
      BY <1>3, <3>1
    <3> QED BY <1>4, <1>5, <1>2, <1>1, <3>2
  <2> QED BY <2>1, <2>2, <1>1, <1>2
<1> QED BY <1>1, <1>5, <1>6, <1>7 DEF M, Platform!IsNewest

LEMMA NextNewestMoves ==
  ASSUME PlatformIInv, NEW e \in AuditEntry, Platform!AddAuditEntry(e), NEW s \in Settings,
         NEW i \in Platform!UpdatePlaces(s)', i # 1,
         \A p \in Platform!UpdatePlaces(s)' : p # 1 => i <= p
  PROVE  auditLog'[i].new = settings[s]
<1> DEFINE U == Platform!UpdatePlaces(s)
<1>1. /\ Len(auditLog') \in Nat /\ Len(auditLog) \in Nat
      /\ Len(auditLog') <= Len(auditLog) + 1
      /\ DOMAIN auditLog' = 1..Len(auditLog') /\ DOMAIN auditLog = 1..Len(auditLog)
      /\ \A p \in 2..Len(auditLog') : auditLog'[p] = auditLog[p-1]
  BY EntryIsAdded DEF LogIsOfActions, PlatformIInv
<1>2. U' \subseteq 1..Len(auditLog') /\ U \subseteq 1..Len(auditLog)
  BY <1>1 DEF Platform!UpdatePlaces
<1>3. \A p \in 2..Len(auditLog') : p \in U' <=> p-1 \in U
  BY PlacesMove
<1>4. \A p \in U' : p # 1 => i <= p
  OBVIOUS
<1> HIDE DEF U
<1>5. i \in 2..Len(auditLog')
  BY <1>2 DEF U
<1>6. i-1 \in U
  BY <1>3, <1>5 DEF U
<1>7. ASSUME NEW p \in U
      PROVE  i-1 <= p
  <2>1. CASE p + 1 > Len(auditLog')
    BY <1>1, <1>2, <1>5, <2>1
  <2>2. CASE p + 1 <= Len(auditLog')
    <3>1. p + 1 \in 2..Len(auditLog') /\ (p + 1) - 1 = p
      BY <2>2, <1>1, <1>2
    <3>2. p + 1 \in U' /\ p + 1 # 1
      BY <1>3, <3>1
    <3> QED BY <1>4, <1>5, <1>2, <1>1, <3>2
  <2> QED BY <2>1, <2>2, <1>1, <1>2
<1>8. Platform!IsNewest(i-1, U)
  BY <1>6, <1>7 DEF Platform!IsNewest
<1>9. auditLog[i-1].new = settings[s]
  BY <1>6, <1>8, UpdatesAreExplained DEF NewestUpdateIsSet, U, PlatformIInv
<1> QED BY <1>1, <1>5, <1>9

LEMMA NewestMoves ==
  ASSUME PlatformIInv, NEW e \in AuditEntry, Platform!AddAuditEntry(e), NEW s \in Settings,
         1 \notin Platform!UpdatePlaces(s)',
         NEW i \in Platform!UpdatePlaces(s)',
         Platform!IsNewest(i, Platform!UpdatePlaces(s))'
  PROVE  auditLog'[i].new = settings[s]
  BY NextNewestMoves DEF Platform!IsNewest

(* What the entries that were there say of each other does not change.     *)
LEMMA UpdatesMove ==
  ASSUME PlatformIInv, NEW e \in AuditEntry, Platform!AddAuditEntry(e), NEW s \in Settings,
         NEW i \in Platform!UpdatePlaces(s)', i # 1,
         NEW j \in Platform!UpdatePlaces(s)', j > i,
         Platform!IsNewest(j, Platform!UpdatePlaces(s) \ 1..i)'
  PROVE  auditLog'[i].previous = auditLog'[j].new
<1> DEFINE U == Platform!UpdatePlaces(s)
<1>1. /\ Len(auditLog') \in Nat /\ Len(auditLog) \in Nat
      /\ Len(auditLog') <= Len(auditLog) + 1
      /\ DOMAIN auditLog' = 1..Len(auditLog') /\ DOMAIN auditLog = 1..Len(auditLog)
      /\ \A p \in 2..Len(auditLog') : auditLog'[p] = auditLog[p-1]
  BY EntryIsAdded DEF LogIsOfActions, PlatformIInv
<1>2. U' \subseteq 1..Len(auditLog') /\ U \subseteq 1..Len(auditLog)
  BY <1>1 DEF Platform!UpdatePlaces
<1>3. \A p \in 2..Len(auditLog') : p \in U' <=> p-1 \in U
  BY PlacesMove
<1>4. \A p \in U' \ 1..i : j <= p
  BY DEF Platform!IsNewest
<1> HIDE DEF U
<1>5. i \in 2..Len(auditLog') /\ j \in 2..Len(auditLog')
  BY <1>2 DEF U
<1>6. i-1 \in U /\ j-1 \in U
  BY <1>3, <1>5 DEF U
<1>7. ASSUME NEW p \in U \ 1..(i-1)
      PROVE  j-1 <= p
  <2>1. CASE p + 1 > Len(auditLog')
    BY <1>1, <1>2, <1>5, <2>1
  <2>2. CASE p + 1 <= Len(auditLog')
    <3>1. p \in 1..Len(auditLog) /\ p > i - 1
      BY <1>2, <1>5, <1>1
    <3>2. p + 1 \in 2..Len(auditLog') /\ (p + 1) - 1 = p
      BY <2>2, <3>1, <1>1
    <3>3. p + 1 \in U'
      BY <1>3, <3>2
    <3>4. p + 1 \in U' \ 1..i
      BY <3>1, <3>3, <1>5
    <3> QED BY <1>4, <3>4, <3>1, <1>5
  <2> QED BY <2>1, <2>2, <1>1, <1>2
<1>8. Platform!IsNewest(j-1, U \ 1..(i-1)) /\ j-1 > i-1
  BY <1>5, <1>6, <1>7, <1>1 DEF Platform!IsNewest
<1>9. auditLog[i-1].previous = auditLog[j-1].new
  BY <1>6, <1>8, UpdatesAreExplained DEF UpdatesFollow, U, PlatformIInv
<1> QED BY <1>1, <1>5, <1>9

(* A change of mode, which is then the newest in the log.                  *)
LEMMA ModeStep ==
  ASSUME PlatformIInv, NEW a \in Modes,
         Platform!AddAuditEntry(Platform!ModeEntry(a)),
         paused' = (a # "resume"), frozen' = (a = "emergency-freeze"),
         UNCHANGED <<settings, ticks>>
  PROVE  PlatformIInv'
<1> DEFINE e == Platform!ModeEntry(a)
<1>1. e \in AuditEntry /\ e.action = a /\ a # "update"
  BY ModeEntries
<1> HIDE DEF e
<1>2. Platform!AddAuditEntry(e)
  BY DEF e
<1>3. /\ LogIsOfActions'
      /\ Len(auditLog') <= MaxAudit
      /\ actions' \in 0..MaxActions
      /\ Len(auditLog') \in Nat \ {0}
      /\ Len(auditLog) \in Nat
      /\ DOMAIN auditLog' = 1..Len(auditLog')
      /\ auditLog'[1] = e
      /\ \A i \in 2..Len(auditLog') : auditLog'[i] = auditLog[i-1]
  BY <1>1, <1>2, EntryIsAdded DEF PlatformIInv, LogIsOfActions
<1>4. Platform!TypeOK'
  BY <1>3 DEF PlatformIInv, Platform!TypeOK
<1>5. /\ 1 \in Platform!ModePlaces'
      /\ \A s \in Settings :
           /\ 1 \notin Platform!UpdatePlaces(s)'
           /\ \A i \in 2..Len(auditLog') :
                i \in Platform!UpdatePlaces(s)' <=> i-1 \in Platform!UpdatePlaces(s)
  BY <1>1, <1>2, PlacesMove
<1>6. ASSUME NEW i \in Platform!ModePlaces', Platform!IsNewest(i, Platform!ModePlaces)'
      PROVE  /\ frozen' = (auditLog'[i].action = "emergency-freeze")
             /\ paused' = (auditLog'[i].action # "resume")
  <2>1. i = 1
    BY <1>3, <1>5, <1>6 DEF Platform!IsNewest, Platform!ModePlaces
  <2> QED BY <2>1, <1>1, <1>3
<1>7. ASSUME NEW s \in Settings, NEW i \in Platform!UpdatePlaces(s)',
             Platform!IsNewest(i, Platform!UpdatePlaces(s))'
      PROVE  auditLog'[i].new = settings'[s]
  BY <1>1, <1>2, <1>5, <1>7, NewestMoves DEF PlatformIInv, NewestUpdateIsSet
<1>8. ASSUME NEW s \in Settings, NEW i \in Platform!UpdatePlaces(s)',
             NEW j \in Platform!UpdatePlaces(s)', j > i,
             Platform!IsNewest(j, Platform!UpdatePlaces(s) \ 1..i)'
      PROVE  auditLog'[i].previous = auditLog'[j].new
  <2>1. i # 1
    BY <1>5
  <2> QED BY <1>1, <1>2, <1>8, <2>1, UpdatesMove
<1>9. Platform!AuditExplainsState'
  BY <1>5, <1>6, <1>7, <1>8 DEF Platform!AuditExplainsState, Platform!IsNewest
<1>10. FrozenIsPaused'
  BY DEF FrozenIsPaused
<1> QED BY <1>3, <1>4, <1>9, <1>10 DEF PlatformIInv

(* An update, which is then the newest of its setting.                     *)
LEMMA UpdateStep ==
  ASSUME PlatformIInv, NEW t \in Settings, NEW v \in Values, Platform!Update(t, v)
  PROVE  PlatformIInv'
<1> DEFINE e == Platform!UpdateEntry(t, settings[t], v)
<1>1. /\ settings' = [settings EXCEPT ![t] = v]
      /\ UNCHANGED <<paused, frozen, ticks>>
      /\ settings \in [Settings -> Values] /\ settings[t] \in Values
  BY DEF Platform!Update, PlatformIInv, Platform!TypeOK
<1>2. /\ e \in AuditEntry
      /\ e.action = "update" /\ e.setting = t /\ e.previous = settings[t] /\ e.new = v
  BY <1>1, UpdateEntries
<1>3. Platform!AddAuditEntry(e)
  BY DEF Platform!Update
<1> HIDE DEF e
<1>4. /\ LogIsOfActions'
      /\ Len(auditLog') <= MaxAudit
      /\ actions' \in 0..MaxActions /\ actions' = actions + 1 /\ actions \in Nat
      /\ Len(auditLog') \in Nat \ {0}
      /\ Len(auditLog) \in Nat
      /\ Len(auditLog') <= Len(auditLog) + 1
      /\ DOMAIN auditLog' = 1..Len(auditLog')
      /\ DOMAIN auditLog = 1..Len(auditLog)
      /\ auditLog'[1] = e
      /\ \A i \in 2..Len(auditLog') : auditLog'[i] = auditLog[i-1]
  BY <1>2, <1>3, EntryIsAdded DEF PlatformIInv, LogIsOfActions, Platform!TypeOK
<1>5. Platform!TypeOK'
  BY <1>1, <1>4 DEF PlatformIInv, Platform!TypeOK
<1>6. /\ 1 \notin Platform!ModePlaces'
      /\ 1 \in Platform!UpdatePlaces(t)'
      /\ \A s \in Settings \ {t} : 1 \notin Platform!UpdatePlaces(s)'
  BY <1>2, <1>3, PlacesMove
<1>7. ASSUME NEW i \in Platform!ModePlaces', Platform!IsNewest(i, Platform!ModePlaces)'
      PROVE  /\ frozen' = (auditLog'[i].action = "emergency-freeze")
             /\ paused' = (auditLog'[i].action # "resume")
  <2>1. /\ i-1 \in Platform!ModePlaces /\ Platform!IsNewest(i-1, Platform!ModePlaces)
        /\ auditLog'[i] = auditLog[i-1]
    BY <1>2, <1>3, <1>6, <1>7, NewestModeMoves
  <2> QED BY <2>1, <1>1 DEF PlatformIInv, Platform!AuditExplainsState
<1>8. ASSUME actions' <= MaxAudit, Platform!ModePlaces' = {}
      PROVE  ~Platform!IsPlatformPaused'
  <2>1. MaxAudit \in Nat \ {0}
    BY PlatformAssumption DEF Platform!ConstantsAssumption
  <2>2. /\ actions <= MaxAudit
        /\ Len(auditLog) = actions /\ Len(auditLog') = actions + 1
    BY <1>4, <1>8, <2>1 DEF LogIsOfActions, PlatformIInv
  <2>3. ASSUME NEW i \in Platform!ModePlaces
        PROVE  FALSE
    <3>1. i \in 1..Len(auditLog)
      BY <1>4 DEF Platform!ModePlaces
    <3>2. i + 1 \in 2..Len(auditLog') /\ (i + 1) - 1 = i
      BY <1>4, <2>2, <3>1
    <3>3. i + 1 \in Platform!ModePlaces'
      BY <3>2, <1>2, <1>3, PlacesMove
    <3> QED BY <3>3, <1>8
  <2>4. ~Platform!IsPlatformPaused
    BY <2>2, <2>3 DEF PlatformIInv, Platform!AuditExplainsState
  <2> QED BY <2>4, <1>1 DEF Platform!IsPlatformPaused
<1>9. ASSUME NEW s \in Settings, NEW i \in Platform!UpdatePlaces(s)',
             Platform!IsNewest(i, Platform!UpdatePlaces(s))'
      PROVE  auditLog'[i].new = settings'[s]
  <2>1. CASE s = t
    <3>1. i = 1
      BY <1>4, <1>6, <1>9, <2>1 DEF Platform!IsNewest, Platform!UpdatePlaces
    <3> QED BY <3>1, <2>1, <1>1, <1>2, <1>4
  <2>2. CASE s # t
    <3>1. auditLog'[i].new = settings[s]
      BY <1>2, <1>3, <1>6, <1>9, <2>2, NewestMoves
    <3> QED BY <3>1, <2>2, <1>1
  <2> QED BY <2>1, <2>2
<1>10. ASSUME NEW s \in Settings, NEW i \in Platform!UpdatePlaces(s)',
              NEW j \in Platform!UpdatePlaces(s)', j > i,
              Platform!IsNewest(j, Platform!UpdatePlaces(s) \ 1..i)'
       PROVE  auditLog'[i].previous = auditLog'[j].new
  <2>1. CASE i # 1
    BY <1>2, <1>3, <1>10, <2>1, UpdatesMove
  <2>2. CASE i = 1
    <3>1. s = t
      BY <1>6, <2>2
    <3>2. auditLog'[j].new = settings[s]
      <4>1. \A p \in Platform!UpdatePlaces(s)' : p # 1 => p \notin 1..i
        BY <1>4, <2>2 DEF Platform!UpdatePlaces
      <4>2. \A p \in Platform!UpdatePlaces(s)' : p # 1 => j <= p
        BY <4>1, <1>10 DEF Platform!IsNewest
      <4>3. j # 1
        BY <1>10, <2>2
      <4> QED BY <4>2, <4>3, <1>2, <1>3, NextNewestMoves
    <3> QED BY <3>1, <3>2, <2>2, <1>2, <1>4
  <2> QED BY <2>1, <2>2
<1>11. Platform!AuditExplainsState'
  <2>1. \A i \in Platform!ModePlaces' : Platform!IsNewest(i, Platform!ModePlaces)' =>
          /\ frozen' = (auditLog'[i].action = "emergency-freeze")
          /\ paused' = (auditLog'[i].action # "resume")
    BY <1>7
  <2> QED BY <2>1, <1>8, <1>9, <1>10 DEF Platform!AuditExplainsState, Platform!IsNewest
<1>12. FrozenIsPaused'
  BY <1>1 DEF PlatformIInv, FrozenIsPaused
<1> QED BY <1>4, <1>5, <1>11, <1>12 DEF PlatformIInv

LEMMA TickStep ==
  ASSUME PlatformIInv,
         UNCHANGED <<paused, frozen, settings, auditLog, actions>>,
         ticks' \in [Jobs \X Slots -> Platform!Stages]
  PROVE  PlatformIInv'
  BY DEF PlatformIInv, LogIsOfActions, FrozenIsPaused, Platform!TypeOK, Platform!AuditExplainsState,
         Platform!ModePlaces, Platform!UpdatePlaces, Platform!IsNewest,
         Platform!IsPlatformPaused

LEMMA NextPlatformIInv ==
  ASSUME PlatformIInv, [Platform!Next]_platformVars
  PROVE  PlatformIInv'
<1>1. CASE Platform!Pause
  <2>1. paused' = TRUE /\ frozen' = FALSE
    BY <1>1 DEF Platform!Pause, PlatformIInv, FrozenIsPaused, Platform!TypeOK
  <2> QED BY <1>1, <2>1, ModeStep DEF Platform!Pause, Modes
<1>2. CASE Platform!Resume
  BY <1>2, ModeStep DEF Platform!Resume, Modes
<1>3. CASE Platform!EmergencyFreeze
  BY <1>3, ModeStep DEF Platform!EmergencyFreeze, Modes
<1>4. CASE \E s \in Settings, v \in Values : Platform!Update(s, v)
  BY <1>4, UpdateStep
<1>5. ticks \in [Jobs \X Slots -> Platform!Stages] /\ DcaJob \in Jobs
  BY PlatformAssumption DEF PlatformIInv, Platform!TypeOK, Platform!ConstantsAssumption
<1>6. ASSUME NEW j \in Jobs, NEW k \in Slots,
             Platform!StartTick(j, k) \/ Platform!EndTick(j, k)
      PROVE  PlatformIInv'
  BY <1>5, <1>6, TickStep
  DEF Platform!StartTick, Platform!EndTick, Platform!state, Platform!Stages
<1>7. ASSUME NEW k \in Slots, Platform!StartRebalance(k)
      PROVE  PlatformIInv'
  BY <1>5, <1>7, TickStep
  DEF Platform!StartRebalance, Platform!state, Platform!Stages
<1>8. CASE UNCHANGED platformVars
  BY <1>5, <1>8, TickStep DEF platformVars
<1> QED BY <1>1, <1>2, <1>3, <1>4, <1>6, <1>7, <1>8 DEF Platform!Next

LEMMA InitPlatformIInv == Platform!Init => PlatformIInv
<1> SUFFICES ASSUME Platform!Init
             PROVE  PlatformIInv
  OBVIOUS
<1>1. auditLog = <<>> /\ Len(auditLog) = 0 /\ DOMAIN auditLog = {}
  BY DEF Platform!Init
<1>2. Platform!TypeOK /\ LogIsOfActions
  <2>1. MaxAudit \in Nat \ {0} /\ MaxActions \in Nat /\ DefaultValue \in Values
    BY PlatformAssumption DEF Platform!ConstantsAssumption
  <2>2. auditLog \in Seq(AuditEntry)
    BY <1>1
  <2>3. LogIsOfActions
    BY <1>1, <2>1, <2>2 DEF Platform!Init, LogIsOfActions
  <2>4. ticks \in [Jobs \X Slots -> Platform!Stages]
    BY DEF Platform!Init, Platform!Stages
  <2>5. settings \in [Settings -> Values] /\ actions \in 0..MaxActions
    BY <2>1 DEF Platform!Init
  <2>6. {paused, frozen} \subseteq BOOLEAN /\ Len(auditLog) <= MaxAudit
    <3>1. Len(auditLog) <= MaxAudit
      BY <1>1, <2>1
    <3>2. paused = FALSE /\ frozen = FALSE
      BY DEF Platform!Init
    <3> QED BY <3>1, <3>2
  <2>7. Platform!TypeOK
    BY <2>4, <2>5, <2>6 DEF Platform!TypeOK
  <2> QED BY <2>3, <2>7
<1>3. Platform!AuditExplainsState
  BY <1>1
  DEF Platform!Init, Platform!AuditExplainsState, Platform!ModePlaces,
      Platform!UpdatePlaces, Platform!IsPlatformPaused
<1>4. FrozenIsPaused
  BY DEF Platform!Init, FrozenIsPaused
<1> QED BY <1>2, <1>3, <1>4 DEF PlatformIInv

---------------------------------------------------------------------------
(* The theorems.                                                           *)

(* Of the handlers that run for one key at most one has a client.          *)
THEOREM OneRun == Spec => []OneRunPerClient
<1>1. IInv => OneRunPerClient
  BY DEF IInv
<1> QED BY <1>1, Invariance, PTL

(* A lock is always held for a request that can still release it.          *)
THEOREM LocksAreLive == Spec => []LocksCanBeReleased
<1>1. IInv => LocksCanBeReleased
  BY DEF IInv
<1> QED BY <1>1, Invariance, PTL

(* While nobody has gone away and nothing was evicted, the response of a   *)
(* key is never replaced.                                                  *)
THEOREM Stable == Spec => ResponsesAreStable
<1>1. IInv /\ AnswersIInv /\ [Next]_vars =>
        [closes = 0 => \A k \in Keys : idempotencyCache[k] # None
           => idempotencyCache'[k] \in {idempotencyCache[k], None}]_vars
  BY StableStep
<1> QED BY <1>1, InitIInv, NextIInv, InitAnswersIInv, NextAnswersIInv, PTL
        DEF Spec, ResponsesAreStable

(* The parts together: each keeps its own invariant, whichever moves.      *)
RequestsIInv == IInv /\ AnswersIInv /\ AdmissionIInv /\ PlatformIInv

LEMMA InitRequestsIInv == RequestsInit => RequestsIInv
  BY InitIInv, InitAnswersIInv, InitAdmissionIInv, InitPlatformIInv
  DEF RequestsInit, RequestsIInv

LEMMA NextRequestsIInv == RequestsIInv /\ [RequestsNext]_requestVars => RequestsIInv'
<1> SUFFICES ASSUME RequestsIInv, [RequestsNext]_requestVars
             PROVE  RequestsIInv'
  OBVIOUS
<1>1. /\ [Next]_vars
      /\ [Admissions!Next]_admissionVars
      /\ [Platform!Next]_platformVars
  BY DEF RequestsNext, requestVars
<1> QED BY <1>1, NextIInv, NextAnswersIInv, NextAdmissionIInv, NextPlatformIInv
        DEF RequestsIInv

LEMMA RequestsInvariance == RequestsSpec => []RequestsIInv
  BY InitRequestsIInv, NextRequestsIInv, PTL DEF RequestsSpec

(* The state of the three parts has its types.                             *)
THEOREM RequestsTypes == RequestsSpec => []TypesOK
<1>1. RequestsIInv => TypesOK
  BY DEF RequestsIInv, IInv, AdmissionIInv, PlatformIInv, TypesOK
<1> QED BY <1>1, RequestsInvariance, PTL

(* The records explain the state: the members and codes are accounted for, *)
(* the audit log explains the platform's mode and settings, and no answer  *)
(* crosses keys.                                                           *)
THEOREM RecordsAreKept == RequestsSpec => []RecordsExplainState
<1>1. RequestsIInv => RecordsExplainState
  BY DEF RequestsIInv, AnswersIInv, AdmissionIInv, PlatformIInv, RecordsExplainState
<1> QED BY <1>1, RequestsInvariance, PTL
===========================================================================
