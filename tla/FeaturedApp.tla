----------------------------- MODULE FeaturedApp -----------------------------
(***************************************************************************)
(* The FeaturedAppEngine (backend/src/engine/featured-app.ts): activities  *)
(* are recorded by a consuming choice on the one FeaturedAppConfig         *)
(* contract, whose id the engine caches; the ones that fail wait in a      *)
(* capped queue for the retry cycle of a timer.                            *)
(*                                                                         *)
(* Every activity reported to recordActivity is a process, and so is every *)
(* retry cycle and every call of updateRegistration.  A request to the     *)
(* ledger is two actions: its effect, and the code that runs when the      *)
(* answer arrives, up to the next request.  The pending markers are        *)
(* JavaScript arrays and live on a heap: a cycle iterates over the array   *)
(* it found, whatever is pushed to it or cut from it meanwhile, and        *)
(* replaces it at the end.                                                 *)
(***************************************************************************)
EXTENDS Integers, Sequences, FiniteSets, SequencesExt

CONSTANTS
  Activities,  \* reported activities; each is also its call of recordActivity
  Retriers,    \* retry cycles that may run at once
  Admins,      \* calls of updateRegistration
  Cap,         \* length of pendingMarkers above which the oldest are dropped
  MaxRetries,  \* maxRetries of a marker
  MaxConfigs,  \* bound: FeaturedAppConfig contracts ever created
  MaxCycles    \* bound: retry cycles ever ended

ConstantsAssumption ==
  /\ {Cap, MaxRetries, MaxConfigs} \subseteq Nat \ {0}
  /\ MaxCycles \in Nat
  /\ IsFiniteSet(Activities)
  /\ Activities \cap Retriers = {} /\ Activities \cap Admins = {} /\ Retriers \cap Admins = {}

VARIABLES
  configs,   \* ledger: how often each config was archived and created anew
  recorded,  \* ledger: ActivityRecords of each activity
  cached,    \* configCid
  heap,      \* the arrays that were ever pendingMarkers
  pending,   \* the one pendingMarkers refers to
  retries,   \* retryCount of each activity's marker
  dropped,   \* the counter activityMarkerDropped
  unheard,   \* activities recorded by a request reported as failed
  calls      \* the local state of each process

ledgerVars == <<configs, recorded, unheard>>
queueVars == <<heap, pending, retries, dropped>>
vars == <<ledgerVars, queueVars, cached, calls>>

Processes == Activities \union Retriers \union Admins

None == [config |-> 0, version |-> 0]

Current(k) == [config |-> k, version |-> configs[k]]

Waiting == [step |-> "waiting"]
Done == [step |-> "done"]

(* A process at work: the contract it was given, the marker it records,    *)
(* and, for a retry cycle, its array, its place in it and what remains.    *)
Working(step, marker, array, at, remaining) ==
  [step |-> step, cid |-> None, marker |-> marker, array |-> array, at |-> at,
   remaining |-> remaining]

At(p, step) == calls[p].step = step

Goto(p, next) == calls' = [calls EXCEPT ![p] = next]

Init ==
  /\ configs = <<>>
  /\ recorded = [a \in Activities |-> 0]
  /\ cached = None
  /\ heap = << <<>> >>
  /\ pending = 1
  /\ retries = [a \in Activities |-> 0]
  /\ dropped = 0
  /\ unheard = {}
  /\ calls = [p \in Processes |-> Waiting]

---------------------------------------------------------------------------
(* What all processes do: find the config, create it, exercise a choice.   *)

(* The next request of a process: a choice on the cached contract if there *)
(* is one, and the query of initialize otherwise.                          *)
Request(call) ==
  IF cached' = None THEN [call EXCEPT !.step = "query", !.cid = None]
                    ELSE [call EXCEPT !.step = "exercise", !.cid = cached']

(* The ledger answers with the configs, of which the first is taken.       *)
QueryConfig(p) ==
  /\ At(p, "query")
  /\ \/ /\ configs = <<>>
        /\ Goto(p, [calls[p] EXCEPT !.step = "absent"])
     \/ \E k \in DOMAIN configs :
          Goto(p, [calls[p] EXCEPT !.step = "found", !.cid = Current(k)])
     \/ Goto(p, [calls[p] EXCEPT !.step = "unknown"])
  /\ UNCHANGED <<ledgerVars, queueVars, cached>>

(* There was none: one is created, even if another has been meanwhile.     *)
CreateConfig(p) ==
  /\ At(p, "absent")
  /\ Len(configs) < MaxConfigs
  /\ configs' = Append(configs, 1)
  /\ Goto(p, [calls[p] EXCEPT !.step = "found",
                !.cid = [config |-> Len(configs) + 1, version |-> 1]])
  /\ UNCHANGED <<recorded, unheard, queueVars, cached>>

CreateFails(p) ==
  /\ At(p, "absent")
  /\ Goto(p, [calls[p] EXCEPT !.step = "unknown"])
  /\ UNCHANGED <<ledgerVars, queueVars, cached>>

Active(cid) == configs[cid.config] = cid.version

(* RecordActivity and UpdateRegistration archive the config and create it  *)
(* anew, which fails on an id that is no longer current.  The answer may   *)
(* be lost.                                                                *)
Exercise(p) ==
  LET cid == calls[p].cid IN
  /\ At(p, "exercise")
  /\ Active(cid)
  /\ configs' = [configs EXCEPT ![cid.config] = @ + 1]
  /\ recorded' = IF p \in Admins THEN recorded
                 ELSE [recorded EXCEPT ![calls[p].marker] = @ + 1]
  /\ \/ /\ Goto(p, [calls[p] EXCEPT !.step = "succeeded", !.cid.version = @ + 1])
        /\ UNCHANGED unheard
     \/ /\ Goto(p, [calls[p] EXCEPT !.step = "failed"])
        /\ unheard' = unheard \union ({calls[p].marker} \cap Activities)
  /\ UNCHANGED <<queueVars, cached>>

ExerciseFails(p) ==
  /\ At(p, "exercise")
  /\ Goto(p, [calls[p] EXCEPT !.step = "failed"])
  /\ UNCHANGED <<ledgerVars, queueVars, cached>>

(* initialize has an id: it is cached, and the choice follows.             *)
Initialized(p) ==
  /\ At(p, "found")
  /\ cached' = calls[p].cid
  /\ Goto(p, Request(calls[p]))
  /\ UNCHANGED <<ledgerVars, queueVars>>

(* initialize has swallowed an error, but another process may have cached  *)
(* an id meanwhile.                                                        *)
Adopt(p) ==
  /\ At(p, "unknown")
  /\ cached # None
  /\ Goto(p, [calls[p] EXCEPT !.step = "exercise", !.cid = cached])
  /\ UNCHANGED <<ledgerVars, queueVars, cached>>

---------------------------------------------------------------------------
(* recordActivity and updateRegistration.                                  *)

RecordActivity(a) ==
  /\ a \in Activities \union Admins
  /\ calls[a] = Waiting
  /\ UNCHANGED cached
  /\ Goto(a, Request(Working("query", a, 0, 0, <<>>)))
  /\ UNCHANGED <<ledgerVars, queueVars>>

Enqueue_Uncounted(a) ==
  LET longer == Append(heap[pending], a)
      excess == IF Len(longer) > Cap THEN Len(longer) - Cap ELSE 0
  IN  /\ heap' = [heap EXCEPT ![pending] = SubSeq(longer, excess + 1, Len(longer))]
      /\ UNCHANGED dropped

(* enqueuePendingMarker: pushed, and the oldest are cut off the array.     *)
Enqueue(a) ==
  LET longer == Append(heap[pending], a)
      excess == IF Len(longer) > Cap THEN Len(longer) - Cap ELSE 0
  IN  /\ heap' = [heap EXCEPT ![pending] = SubSeq(longer, excess + 1, Len(longer))]
      /\ dropped' = dropped + excess

(* The call has its answer: a failure forgets the contract and, if it was  *)
(* recordActivity's, queues the activity.                                  *)
RecordReturns(a) ==
  /\ a \in Activities \union Admins
  /\ \/ /\ At(a, "succeeded")
        /\ cached' = calls[a].cid
        /\ UNCHANGED queueVars
     \/ /\ At(a, "failed") \/ (At(a, "unknown") /\ cached = None)
        /\ cached' = None
        /\ \/ a \in Activities /\ Enqueue(a) /\ UNCHANGED <<pending, retries>>
           \/ a \in Admins /\ UNCHANGED queueVars
  /\ Goto(a, Done)
  /\ UNCHANGED ledgerVars

---------------------------------------------------------------------------
(* retryPendingMarkers.                                                    *)

(* The cycle goes on to the next marker its array has by now, or replaces  *)
(* the pending markers by those that remain.                               *)
Advance(r, array, at, remaining) ==
  \/ /\ at <= Len(heap[array])
     /\ Goto(r, Request(Working("query", heap[array][at], array, at, remaining)))
     /\ UNCHANGED <<heap, pending>>
  \/ /\ at > Len(heap[array])
     /\ heap' = Append(heap, remaining)
     /\ pending' = Len(heap) + 1
     /\ Goto(r, Waiting)

StartCycle(r) ==
  /\ r \in Retriers
  /\ calls[r] = Waiting
  /\ Len(heap) <= MaxCycles
  /\ heap[pending] # <<>>
  /\ UNCHANGED cached
  /\ Advance(r, pending, 1, <<>>)
  /\ UNCHANGED <<ledgerVars, retries, dropped>>

RetrySucceeded(r) ==
  /\ r \in Retriers
  /\ At(r, "succeeded")
  /\ cached' = calls[r].cid
  /\ Advance(r, calls[r].array, calls[r].at + 1, calls[r].remaining)
  /\ UNCHANGED <<ledgerVars, retries, dropped>>

(* One more failure: the marker remains, or is dropped.                    *)
RetryFailed(r) ==
  LET call == calls[r]
      again == retries[call.marker] + 1 < MaxRetries
  IN
  /\ r \in Retriers
  /\ At(r, "failed") \/ (At(r, "unknown") /\ cached = None)
  /\ cached' = None
  /\ retries' = [retries EXCEPT ![call.marker] = @ + 1]
  /\ dropped' = IF again THEN dropped ELSE dropped + 1
  /\ Advance(r, call.array, call.at + 1,
             IF again THEN Append(call.remaining, call.marker) ELSE call.remaining)
  /\ UNCHANGED ledgerVars

---------------------------------------------------------------------------
Ledger(p) == QueryConfig(p) \/ CreateConfig(p) \/ CreateFails(p)
             \/ Exercise(p) \/ ExerciseFails(p)

Engine(p) == Initialized(p) \/ Adopt(p) \/ RecordActivity(p) \/ RecordReturns(p)
             \/ StartCycle(p) \/ RetrySucceeded(p) \/ RetryFailed(p)

Next == \E p \in Processes : Ledger(p) \/ Engine(p)

Spec == Init /\ [][Next]_vars

---------------------------------------------------------------------------
(* Properties.                                                             *)

Markers == Activities \union Admins

TypeOK ==
  /\ configs \in Seq(Nat \ {0}) /\ Len(configs) <= MaxConfigs
  /\ recorded \in [Activities -> Nat]
  /\ cached = None \/ cached.config \in DOMAIN configs
  /\ heap \in Seq(Seq(Activities))
  /\ pending = Len(heap)
  /\ retries \in [Activities -> 0..MaxRetries]
  /\ dropped \in Nat
  /\ unheard \subseteq Activities
  /\ \A p \in Processes :
       calls[p] \in {Waiting, Done} \/ calls[p].marker \in Markers
  /\ Len(heap[pending]) <= Cap

(* The activities a process at work still answers for.                     *)
InHand(p) ==
  IF calls[p] \in {Waiting, Done} THEN {}
  ELSE {calls[p].marker} \union ToSet(calls[p].remaining)

Lost ==
  {a \in Activities :
     /\ calls[a] = Done
     /\ recorded[a] = 0
     /\ a \notin ToSet(heap[pending])
     /\ \A p \in Processes : a \notin InHand(p)}

(* An activity that is neither recorded nor waiting any more was counted   *)
(* as dropped, even if the queue overflows while a cycle iterates over it, *)
(* where cutting the array makes the cycle pass over a marker.             *)
LossesAreCounted == Cardinality(Lost) <= dropped

(* An activity is recorded twice only if the first time was reported as a  *)
(* failure: the activityId carries the time of the attempt, so the ledger  *)
(* does not see that it is the same one.                                   *)
NoDoubleRecords == \A a \in Activities : recorded[a] > 1 => a \in unheard
(* Every activity is recorded once, waits to be, or is counted as lost or  *)
(* in doubt (recordActivity and retryPendingMarkers).                      *)
MarkersAreAccounted == LossesAreCounted /\ NoDoubleRecords
===========================================================================
