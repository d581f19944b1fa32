-------------------------- MODULE CircuitBreaker --------------------------
(***************************************************************************)
(* The circuit breaker in front of the Canton ledger and of the Cantex     *)
(* sidecar (backend/src/utils/circuit-breaker.ts).                         *)
(*                                                                         *)
(* execute(fn) admits or rejects a call in one synchronous block, awaits   *)
(* fn, and reports the outcome in another; calls of any number of callers  *)
(* overlap, and settle in any order.  A call carries the generation it was *)
(* admitted in; an outcome from another generation is ignored.             *)
(***************************************************************************)
EXTENDS Integers, FiniteSets

CONSTANTS
  Callers,           \* concurrent users of the breaker
  FailureThreshold,  \* failures in a row that open the circuit
  SuccessThreshold,  \* probes in a row that close it again
  ResetTimeout,      \* ticks before an open circuit admits a probe
  MaxFailures,       \* bound: how often the service fails
  MaxResets          \* bound: how often reset() is called

ASSUME ConstantsAssumption ==
  /\ FailureThreshold \in Nat \ {0}
  /\ SuccessThreshold \in Nat \ {0}
  /\ ResetTimeout \in Nat
  /\ MaxFailures \in Nat
  /\ MaxResets \in Nat

VARIABLES
  state,          \* "closed", "open" or "half-open"
  failureCount,
  successCount,
  elapsed,        \* ticks since lastFailureTime, up to ResetTimeout
  probeInFlight,
  generation,     \* incremented on every transition
  calls,          \* the admission each caller's running call carries
  failures,       \* failures of the service so far
  resets          \* calls of reset() so far

breakerVars == <<state, failureCount, successCount, elapsed, probeInFlight,
                 generation>>
vars == <<state, failureCount, successCount, elapsed, probeInFlight,
          generation, calls, failures, resets>>

States == {"closed", "open", "half-open"}

Admission == [action : {"idle", "pass", "probe"}, generation : Nat]

NoCall == [action |-> "idle", generation |-> 0]

Init ==
  /\ state = "closed"
  /\ failureCount = 0
  /\ successCount = 0
  /\ elapsed = ResetTimeout
  /\ probeInFlight = FALSE
  /\ generation = 0
  /\ calls = [c \in Callers |-> NoCall]
  /\ failures = 0
  /\ resets = 0

InFlight(c) == calls[c].action # "idle"

---------------------------------------------------------------------------
(* admit(); a rejected call changes nothing and is not a step.             *)

AdmitClosed(c) ==
  /\ state = "closed"
  /\ calls' = [calls EXCEPT ![c] = [action |-> "pass", generation |-> generation]]
  /\ UNCHANGED breakerVars

(* The cooldown is over: this call is the first probe.                     *)
AdmitOpen(c) ==
  /\ state = "open"
  /\ elapsed >= ResetTimeout
  /\ generation' = generation + 1
  /\ state' = "half-open"
  /\ successCount' = 0
  /\ probeInFlight' = TRUE
  /\ calls' = [calls EXCEPT ![c] = [action |-> "probe", generation |-> generation']]
  /\ UNCHANGED <<failureCount, elapsed>>

AdmitHalfOpen(c) ==
  /\ state = "half-open"
  /\ ~probeInFlight
  /\ probeInFlight' = TRUE
  /\ calls' = [calls EXCEPT ![c] = [action |-> "probe", generation |-> generation]]
  /\ UNCHANGED <<state, failureCount, successCount, elapsed, generation>>

Admit(c) ==
  /\ ~InFlight(c)
  /\ AdmitClosed(c) \/ AdmitOpen(c) \/ AdmitHalfOpen(c)
  /\ UNCHANGED <<failures, resets>>

---------------------------------------------------------------------------
(* onSuccess() and onFailure() of a call that has settled.                 *)

IsCurrent_Always(c) == InFlight(c)

IsCurrent(c) == InFlight(c) /\ calls[c].generation = generation

CurrentProbe(c) == IsCurrent(c) /\ calls[c].action = "probe"
CurrentPass(c)  == IsCurrent(c) /\ calls[c].action = "pass"

Settles(c) ==
  /\ InFlight(c)
  /\ calls' = [calls EXCEPT ![c] = NoCall]

StaleOutcome(c) ==
  /\ ~IsCurrent(c)
  /\ UNCHANGED breakerVars

PassSucceeds(c) ==
  /\ CurrentPass(c)
  /\ failureCount' = 0
  /\ UNCHANGED <<state, successCount, elapsed, probeInFlight, generation>>

ProbeSucceeds_KeepsFlag(c) ==
  /\ CurrentProbe(c)
  /\ IF successCount + 1 >= SuccessThreshold
     THEN /\ generation' = generation + 1
          /\ state' = "closed"
          /\ failureCount' = 0
          /\ successCount' = 0
     ELSE /\ successCount' = successCount + 1
          /\ UNCHANGED <<generation, state, failureCount>>
  /\ UNCHANGED <<elapsed, probeInFlight>>

ProbeSucceeds(c) ==
  /\ CurrentProbe(c)
  /\ probeInFlight' = FALSE
  /\ IF successCount + 1 >= SuccessThreshold
     THEN /\ generation' = generation + 1
          /\ state' = "closed"
          /\ failureCount' = 0
          /\ successCount' = 0
     ELSE /\ successCount' = successCount + 1
          /\ UNCHANGED <<generation, state, failureCount>>
  /\ UNCHANGED elapsed

Succeed(c) ==
  /\ Settles(c)
  /\ StaleOutcome(c) \/ PassSucceeds(c) \/ ProbeSucceeds(c)
  /\ UNCHANGED <<failures, resets>>

Opens_PastThreshold(count) == count > FailureThreshold

Opens(count) == count >= FailureThreshold

PassFails(c) ==
  /\ CurrentPass(c)
  /\ elapsed' = 0
  /\ failureCount' = failureCount + 1
  /\ IF Opens(failureCount + 1)
     THEN /\ generation' = generation + 1
          /\ state' = "open"
          /\ successCount' = 0
     ELSE UNCHANGED <<generation, state, successCount>>
  /\ UNCHANGED probeInFlight

ProbeFails(c) ==
  /\ CurrentProbe(c)
  /\ elapsed' = 0
  /\ generation' = generation + 1
  /\ probeInFlight' = FALSE
  /\ state' = "open"
  /\ failureCount' = FailureThreshold
  /\ successCount' = 0

Fail(c) ==
  /\ failures < MaxFailures
  /\ failures' = failures + 1
  /\ Settles(c)
  /\ StaleOutcome(c) \/ PassFails(c) \/ ProbeFails(c)
  /\ UNCHANGED resets

---------------------------------------------------------------------------
(* reset(): by hand, back to the initial state in a new generation.        *)
Reset ==
  /\ resets < MaxResets
  /\ resets' = resets + 1
  /\ state' = "closed"
  /\ failureCount' = 0
  /\ successCount' = 0
  /\ elapsed' = ResetTimeout
  /\ probeInFlight' = FALSE
  /\ generation' = generation + 1
  /\ UNCHANGED <<calls, failures>>

Tick ==
  /\ elapsed < ResetTimeout
  /\ elapsed' = elapsed + 1
  /\ UNCHANGED <<state, failureCount, successCount, probeInFlight, generation,
                 calls, failures, resets>>

Next ==
  \/ \E c \in Callers : Admit(c) \/ Succeed(c) \/ Fail(c)
  \/ Reset
  \/ Tick

(* Time passes, a call that was admitted settles (its fetch times out),    *)
(* and the service goes on being called (the engines poll it).             *)
Fairness ==
  /\ WF_vars(Tick)
  /\ \A c \in Callers : WF_vars(Succeed(c) \/ Fail(c))
  /\ WF_vars(\E c \in Callers : Admit(c))

Spec == Init /\ [][Next]_vars

FairSpec == Spec /\ Fairness

---------------------------------------------------------------------------
(* Properties.                                                             *)

TypeOK ==
  /\ state \in States
  /\ failureCount \in 0..FailureThreshold
  /\ successCount \in Nat
  /\ elapsed \in 0..ResetTimeout
  /\ probeInFlight \in BOOLEAN
  /\ generation \in Nat
  /\ calls \in [Callers -> Admission]
  /\ failures \in 0..MaxFailures
  /\ resets \in 0..MaxResets

(* probeInFlight is what it says: it is set exactly while one current call *)
(* is a probe, and then no other current call is in flight.  A flag left   *)
(* set would reject every caller for ever, a flag dropped would let a      *)
(* crowd loose on a service that has not recovered.                        *)
ProbeIsExclusive ==
  /\ probeInFlight <=> \E c \in Callers : CurrentProbe(c)
  /\ \A c, d \in Callers : CurrentProbe(c) /\ IsCurrent(d) => c = d

(* The counters agree with the state: the circuit is never left closed at  *)
(* the failure threshold nor half-open at the success threshold, and no    *)
(* successes are carried from one half-open period into the next.          *)
CountsFitState ==
  /\ state = "closed" => failureCount < FailureThreshold
  /\ state = "open" => failureCount >= FailureThreshold
  /\ successCount < SuccessThreshold
  /\ state # "half-open" => successCount = 0

(* Only the calls of the current state are still counted: passes when it   *)
(* is closed, the probe when it is half-open, none when it is open.        *)
CurrentCallsFitState ==
  \A c \in Callers : IsCurrent(c) =>
    \/ state = "closed" /\ calls[c].action = "pass"
    \/ state = "half-open" /\ calls[c].action = "probe" /\ probeInFlight

(* "A monotonic generation counter ensures that stale completions cannot   *)
(* corrupt the current state": whatever the order in which calls settle,   *)
(* the breaker implements a gate that disowns the calls of earlier states. *)
Ownership == [c \in Callers |-> IF ~InFlight(c) THEN "none"
                                ELSE IF IsCurrent(c) THEN "counted"
                                ELSE "disowned"]

Gate == INSTANCE ServiceGate WITH mode <- state, calls <- Ownership

ImplementsGate == Gate!Spec

(* Once the service stops failing, an open circuit closes again.           *)
Recovers == []<>(state = "closed")
===========================================================================
