-------------------------- MODULE ResilienceProofs --------------------------
(***************************************************************************)
(* Proofs about what keeps working while services and connections fail,    *)
(* for every value of the constants: the circuit breaker and its           *)
(* refinement of ServiceGate, and, as parts of ResilienceSpec, the trigger *)
(* manager, the listing of contracts, the stream of updates and the cached *)
(* contract of the platform.                                               *)
(***************************************************************************)
EXTENDS MCResilience, SequenceTheorems, TLAPS

(* No call carries a generation that is yet to come: a transition, which   *)
(* moves to a fresh generation, leaves no call current.                    *)
GenerationsArePast == \A c \in Callers : calls[c].generation <= generation

(* The invariants the runs check and the fact that makes them inductive.   *)
BreakerIInv ==
  /\ TypeOK
  /\ GenerationsArePast
  /\ ProbeIsExclusive
  /\ CountsFitState
  /\ CurrentCallsFitState

LEMMA NoCallIsAdmission == NoCall \in Admission
  BY DEF NoCall, Admission

(* The breaker starts closed, with no call in flight.                      *)
LEMMA BreakerStarts == Init => BreakerIInv
<1> SUFFICES ASSUME Init
             PROVE  BreakerIInv
  OBVIOUS
<1>1. \A c \in Callers : calls[c] = [action |-> "idle", generation |-> 0]
  BY DEF Init, NoCall
<1>2. TypeOK
  <2>1. probeInFlight \in BOOLEAN
    BY DEF Init
  <2> QED BY <2>1, ConstantsAssumption, NoCallIsAdmission DEF Init, TypeOK, States
<1>3. CountsFitState
  BY ConstantsAssumption DEF Init, CountsFitState
<1>4. \A c \in Callers : ~IsCurrent(c)
  BY <1>1 DEF IsCurrent, InFlight
<1>5. ProbeIsExclusive /\ CurrentCallsFitState
  BY <1>4 DEF Init, ProbeIsExclusive, CurrentCallsFitState, CurrentProbe
<1>6. GenerationsArePast
  BY <1>1 DEF Init, GenerationsArePast
<1> QED BY <1>2, <1>3, <1>5, <1>6 DEF BreakerIInv

(* A step that moves to a fresh generation, admits no call and leaves the  *)
(* flag down disowns every call.                                           *)
LEMMA FreshGeneration ==
  ASSUME TypeOK, GenerationsArePast, generation' = generation + 1,
         ~probeInFlight',
         \A c \in Callers : calls'[c] \in {calls[c], NoCall}
  PROVE  GenerationsArePast' /\ ProbeIsExclusive' /\ CurrentCallsFitState'
<1>1. ASSUME NEW c \in Callers
      PROVE  calls'[c].generation < generation'
  BY <1>1 DEF TypeOK, GenerationsArePast, NoCall, Admission
<1>2. \A c \in Callers : ~IsCurrent(c)'
  BY <1>1 DEF TypeOK, IsCurrent
<1>3. GenerationsArePast'
  <2> SUFFICES ASSUME NEW c \in Callers
               PROVE  (calls[c].generation <= generation)'
    BY DEF GenerationsArePast
  <2>1. calls'[c].generation \in Nat
    BY DEF TypeOK, NoCall, Admission
  <2> QED BY <1>1, <2>1 DEF TypeOK
<1>4. ProbeIsExclusive' /\ CurrentCallsFitState'
  BY <1>2 DEF ProbeIsExclusive, CurrentCallsFitState, CurrentProbe
<1> QED BY <1>3, <1>4

(* Admitting a call preserves the invariant.                               *)
LEMMA AdmitIInv ==
  ASSUME BreakerIInv, NEW c \in Callers, Admit(c)
  PROVE  BreakerIInv'
<1> USE ConstantsAssumption
    DEF BreakerIInv, TypeOK, GenerationsArePast, ProbeIsExclusive, CountsFitState,
        CurrentCallsFitState, CurrentProbe, IsCurrent, InFlight, NoCall,
        States, Admission
<1>1. CASE AdmitClosed(c)
  BY <1>1 DEF Admit, AdmitClosed, breakerVars
<1>2. CASE AdmitOpen(c)
  BY <1>2 DEF Admit, AdmitOpen
<1>3. CASE AdmitHalfOpen(c)
  BY <1>3 DEF Admit, AdmitHalfOpen
<1> QED BY <1>1, <1>2, <1>3 DEF Admit

(* A call that succeeds preserves the invariant.                           *)
LEMMA SucceedIInv ==
  ASSUME BreakerIInv, NEW c \in Callers, Succeed(c)
  PROVE  BreakerIInv'
<1> USE ConstantsAssumption
    DEF BreakerIInv, TypeOK, GenerationsArePast, ProbeIsExclusive, CountsFitState,
        CurrentCallsFitState, CurrentProbe, CurrentPass, IsCurrent, InFlight,
        NoCall, States, Admission, Settles
<1>1. CASE StaleOutcome(c)
  BY <1>1 DEF Succeed, StaleOutcome, breakerVars
<1>2. CASE PassSucceeds(c)
  BY <1>2 DEF Succeed, PassSucceeds
<1>3. CASE ProbeSucceeds(c)
  <2>1. TypeOK' /\ CountsFitState'
    <3>1. probeInFlight' \in BOOLEAN
      BY <1>3, Zenon DEF ProbeSucceeds
    <3> QED BY <1>3, <3>1, NoCallIsAdmission DEF Succeed, ProbeSucceeds
  <2>2. CASE successCount + 1 >= SuccessThreshold
    BY <1>3, <2>1, <2>2, FreshGeneration DEF Succeed, ProbeSucceeds
  <2>3. CASE ~(successCount + 1 >= SuccessThreshold)
    <3>1. \A d \in Callers : ~IsCurrent(d)'
      BY <1>3, <2>3 DEF Succeed, ProbeSucceeds
    <3>2. GenerationsArePast'
      BY <1>3, <2>3 DEF Succeed, ProbeSucceeds
    <3>3. ProbeIsExclusive' /\ CurrentCallsFitState'
      BY <1>3, <3>1 DEF ProbeSucceeds
    <3> QED BY <2>1, <3>2, <3>3
  <2> QED BY <2>2, <2>3
<1> QED BY <1>1, <1>2, <1>3 DEF Succeed

(* A call that fails preserves the invariant.                              *)
LEMMA FailIInv ==
  ASSUME BreakerIInv, NEW c \in Callers, Fail(c)
  PROVE  BreakerIInv'
<1> USE ConstantsAssumption
    DEF BreakerIInv, TypeOK, GenerationsArePast, ProbeIsExclusive, CountsFitState,
        CurrentCallsFitState, CurrentProbe, CurrentPass, IsCurrent, InFlight,
        NoCall, States, Admission, Settles
<1>1. CASE StaleOutcome(c)
  BY <1>1 DEF Fail, StaleOutcome, breakerVars
<1>2. CASE PassFails(c)
  BY <1>2 DEF Fail, PassFails, Opens
<1>3. CASE ProbeFails(c)
  <2>1. TypeOK' /\ CountsFitState'
    <3>1. probeInFlight' \in BOOLEAN
      BY <1>3, Zenon DEF ProbeFails
    <3> QED BY <1>3, <3>1, NoCallIsAdmission DEF Fail, ProbeFails
  <2> QED BY <1>3, <2>1, FreshGeneration DEF Fail, ProbeFails
<1> QED BY <1>1, <1>2, <1>3 DEF Fail

(* The invariant is inductive.                                             *)
LEMMA BreakerGoesOn == BreakerIInv /\ [Next]_vars => BreakerIInv'
<1> SUFFICES ASSUME BreakerIInv, [Next]_vars
             PROVE  BreakerIInv'
  OBVIOUS
<1>1. ASSUME NEW c \in Callers, Admit(c) \/ Succeed(c) \/ Fail(c)
      PROVE  BreakerIInv'
  BY <1>1, AdmitIInv, SucceedIInv, FailIInv
<1>2. CASE Reset
  <2>1. TypeOK' /\ CountsFitState'
    <3>1. probeInFlight' \in BOOLEAN
      BY <1>2, Zenon DEF Reset
    <3> QED BY <1>2, <3>1, ConstantsAssumption
            DEF Reset, BreakerIInv, TypeOK, CountsFitState, States
  <2> QED BY <1>2, <2>1, FreshGeneration DEF Reset, BreakerIInv
<1>3. CASE Tick
  BY <1>3, ConstantsAssumption
  DEF Tick, BreakerIInv, TypeOK, GenerationsArePast, ProbeIsExclusive,
      CountsFitState, CurrentCallsFitState, CurrentProbe, IsCurrent, InFlight
<1>4. CASE UNCHANGED vars
  BY <1>4
  DEF vars, BreakerIInv, TypeOK, GenerationsArePast, ProbeIsExclusive,
      CountsFitState, CurrentCallsFitState, CurrentProbe, IsCurrent, InFlight
<1> QED BY <1>1, <1>2, <1>3, <1>4 DEF Next

LEMMA Invariance == Spec => []BreakerIInv
  BY BreakerStarts, BreakerGoesOn, PTL DEF Spec

(* Every variable keeps its type; the failure counter its bound.           *)
THEOREM TypeCorrect == Spec => []TypeOK
<1>1. BreakerIInv => TypeOK
  BY DEF BreakerIInv
<1> QED BY <1>1, Invariance, PTL

(* The flag that keeps callers away from a recovering service is set       *)
(* exactly while a probe that will clear it is in flight.                  *)
THEOREM ProbeExclusion == Spec => []ProbeIsExclusive
<1>1. BreakerIInv => ProbeIsExclusive
  BY DEF BreakerIInv
<1> QED BY <1>1, Invariance, PTL

(* Counters and the calls still counted always agree with the state.       *)
THEOREM StateConsistency == Spec => [](CountsFitState /\ CurrentCallsFitState)
<1>1. BreakerIInv => CountsFitState /\ CurrentCallsFitState
  BY DEF BreakerIInv
<1> QED BY <1>1, Invariance, PTL

---------------------------------------------------------------------------
(* Refinement.                                                             *)

LEMMA InitGate == Init => Gate!Init
  BY DEF Init, Gate!Init, Ownership, InFlight, NoCall

(* A caller is counted exactly when its call is current.                   *)
LEMMA CountedAreCurrent == Gate!Counted = {c \in Callers : IsCurrent(c)}
  BY DEF Gate!Counted, Ownership, IsCurrent

(* A step to a fresh generation that settles or admits at most d's call    *)
(* disowns all the others.                                                 *)
LEMMA FreshDisowns ==
  ASSUME TypeOK, GenerationsArePast, generation' = generation + 1,
         NEW d \in Callers,
         \A c \in Callers \ {d} : calls'[c] = calls[c]
  PROVE  Gate!DisownAllBut(d, Ownership'[d])
<1>1. ASSUME NEW c \in Callers \ {d}
      PROVE  ~IsCurrent(c)' /\ (InFlight(c)' <=> InFlight(c))
  BY <1>1 DEF TypeOK, GenerationsArePast, IsCurrent, InFlight, Admission
<1>2. ASSUME NEW c \in Callers \ {d}
      PROVE  Ownership'[c] = IF Ownership[c] = "none" THEN "none" ELSE "disowned"
  BY <1>1, <1>2 DEF Ownership
<1> QED BY <1>2 DEF Gate!DisownAllBut, Ownership

(* An admission is a pass or a probe of the gate.                          *)
LEMMA AdmitGate ==
  ASSUME BreakerIInv, NEW c \in Callers, Admit(c)
  PROVE  Gate!Pass(c) \/ Gate!Probe(c)
<1> USE DEF BreakerIInv, TypeOK, Admission, Admit
<1>1. Ownership[c] = "none"
  BY DEF Ownership
<1>2. CASE AdmitClosed(c)
  <2>1. Ownership' = [Ownership EXCEPT ![c] = "counted"]
    BY <1>2 DEF AdmitClosed, breakerVars, Ownership, InFlight, IsCurrent
  <2> QED BY <1>1, <1>2, <2>1 DEF Gate!Pass, AdmitClosed, breakerVars
<1>3. CASE AdmitOpen(c)
  <2>1. Gate!Counted = {}
    BY <1>3, CountedAreCurrent DEF AdmitOpen, CurrentCallsFitState
  <2>2. Ownership'[c] = "counted"
    BY <1>3 DEF AdmitOpen, Ownership, InFlight, IsCurrent
  <2>3. Gate!DisownAllBut(c, "counted")
    BY <1>3, <2>2, FreshDisowns DEF AdmitOpen
  <2> QED BY <1>1, <1>3, <2>1, <2>3 DEF Gate!Probe, AdmitOpen
<1>4. CASE AdmitHalfOpen(c)
  <2>1. \A d \in Callers : ~IsCurrent(d)
    BY <1>4 DEF AdmitHalfOpen, CurrentCallsFitState
  <2>2. Gate!Counted = {}
    BY <2>1, CountedAreCurrent
  <2>3. Gate!DisownAllBut(c, "counted")
    BY <1>4, <2>1
    DEF AdmitHalfOpen, Gate!DisownAllBut, Ownership, InFlight, IsCurrent
  <2> QED BY <1>1, <1>4, <2>2, <2>3 DEF Gate!Probe, AdmitHalfOpen
<1> QED BY <1>2, <1>3, <1>4 DEF Admit

(* An outcome that changes neither state nor generation just returns.      *)
LEMMA SettleGate ==
  ASSUME TypeOK, NEW c \in Callers, Settles(c), UNCHANGED <<state, generation>>
  PROVE  Gate!Return(c) \/ Gate!ReturnDisowned(c)
<1>1. Ownership' = [Ownership EXCEPT ![c] = "none"]
  BY DEF TypeOK, Settles, Ownership, InFlight, IsCurrent, NoCall
<1>2. Ownership[c] \in {"counted", "disowned"}
  BY DEF Settles, Ownership
<1> QED BY <1>1, <1>2 DEF Gate!Return, Gate!ReturnDisowned

(* An outcome that changes the state is a counted one.                     *)
LEMMA TransitionGate ==
  ASSUME TypeOK, GenerationsArePast, NEW c \in Callers, IsCurrent(c), Settles(c),
         generation' = generation + 1,
         <<state, state'>> \in {<<"closed", "open">>, <<"half-open", "open">>,
                                <<"half-open", "closed">>}
  PROVE  Gate!Return(c)
<1>1. Ownership[c] = "counted" /\ Ownership'[c] = "none"
  BY DEF TypeOK, Settles, Ownership, IsCurrent, InFlight, NoCall
<1>2. \A d \in Callers \ {c} : calls'[d] = calls[d]
  BY DEF TypeOK, Settles
<1>3. Gate!DisownAllBut(c, "none")
  BY <1>1, <1>2, FreshDisowns
<1> QED BY <1>1, <1>3 DEF Gate!Return

LEMMA SucceedGate ==
  ASSUME BreakerIInv, NEW c \in Callers, Succeed(c)
  PROVE  Gate!Return(c) \/ Gate!ReturnDisowned(c)
<1> USE DEF BreakerIInv, Succeed
<1>1. CASE StaleOutcome(c)
  BY <1>1, SettleGate DEF StaleOutcome, breakerVars
<1>2. CASE PassSucceeds(c)
  BY <1>2, SettleGate DEF PassSucceeds
<1>3. CASE ProbeSucceeds(c)
  <2>1. CASE successCount + 1 >= SuccessThreshold
    <3>1. state = "half-open"
      BY <1>3 DEF ProbeSucceeds, CurrentProbe, CurrentCallsFitState
    <3> QED BY <1>3, <2>1, <3>1, TransitionGate DEF ProbeSucceeds, CurrentProbe
  <2>2. CASE ~(successCount + 1 >= SuccessThreshold)
    BY <1>3, <2>2, SettleGate DEF ProbeSucceeds
  <2> QED BY <2>1, <2>2
<1> QED BY <1>1, <1>2, <1>3

LEMMA FailGate ==
  ASSUME BreakerIInv, NEW c \in Callers, Fail(c)
  PROVE  Gate!Return(c) \/ Gate!ReturnDisowned(c)
<1> USE DEF BreakerIInv, Fail
<1>1. CASE StaleOutcome(c)
  BY <1>1, SettleGate DEF StaleOutcome, breakerVars
<1>2. CASE PassFails(c)
  <2>1. CASE Opens(failureCount + 1)
    <3>1. state = "closed"
      BY <1>2 DEF PassFails, CurrentPass, CurrentCallsFitState
    <3> QED BY <1>2, <2>1, <3>1, TransitionGate DEF PassFails, CurrentPass
  <2>2. CASE ~Opens(failureCount + 1)
    BY <1>2, <2>2, SettleGate DEF PassFails
  <2> QED BY <2>1, <2>2
<1>3. CASE ProbeFails(c)
  <2>1. state = "half-open"
    BY <1>3 DEF ProbeFails, CurrentProbe, CurrentCallsFitState
  <2> QED BY <1>3, <2>1, TransitionGate DEF ProbeFails, CurrentProbe
<1> QED BY <1>1, <1>2, <1>3

LEMMA NextGate == BreakerIInv /\ [Next]_vars => [Gate!Next]_Gate!vars
<1> SUFFICES ASSUME BreakerIInv, [Next]_vars
             PROVE  Gate!Next \/ UNCHANGED Gate!vars
  BY DEF Gate!vars
<1>1. ASSUME NEW c \in Callers, Admit(c) \/ Succeed(c) \/ Fail(c)
      PROVE  Gate!Next
  BY <1>1, AdmitGate, SucceedGate, FailGate DEF Gate!Next
<1>2. CASE Reset
  <2>1. \A c \in Callers : ~IsCurrent(c)' /\ (InFlight(c)' <=> InFlight(c))
    BY <1>2 DEF Reset, BreakerIInv, TypeOK, GenerationsArePast, IsCurrent, InFlight,
                Admission
  <2>2. Ownership' = [c \in Callers |-> IF Ownership[c] = "none" THEN "none"
                                        ELSE "disowned"]
    BY <2>1 DEF Ownership
  <2> QED BY <1>2, <2>2 DEF Reset, Gate!Next, Gate!Force
<1>3. CASE Tick
  BY <1>3 DEF Tick, Gate!vars, Ownership, IsCurrent, InFlight
<1>4. CASE UNCHANGED vars
  BY <1>4 DEF vars, Gate!vars, Ownership, IsCurrent, InFlight
<1> QED BY <1>1, <1>2, <1>3, <1>4 DEF Next

(* The generation counter makes the breaker a gate that disowns, at every  *)
(* change of state, the calls in flight.                                   *)
THEOREM Refinement == Spec => ImplementsGate
  BY InitGate, NextGate, Invariance, PTL DEF Spec, ImplementsGate, Gate!Spec

---------------------------------------------------------------------------
(* The trigger manager.                                                    *)

PollStates ==
  [step : {"idle", "refresh", "load", "portfolios", "jitter", "markers", "fallback", "auto"},
   seen : SUBSET Triggers!Contract,
   target : SUBSET {c \in Triggers!Contract : Triggers!Due(c)},
   array : Nat, at : Nat]

LedgerIInv ==
  /\ ledger \in [Portfolios -> Triggers!Contract]
  /\ \A p \in Portfolios : ledger[p].of = p
  /\ heap \in Seq(Seq(Triggers!Contract)) /\ Len(heap) >= 1
  /\ failed \in 0..MaxRefused /\ changes \in Nat

ManagerIInv ==
  /\ mode \in {"stopped", "starting", "running", "degraded"}
  /\ timer \in BOOLEAN
  /\ tracked \subseteq Triggers!Contract
  /\ deferred \subseteq {c \in Triggers!Contract : Triggers!Due(c)}
  /\ recorded \subseteq Triggers!Contract

(* A poll that records markers has an array and a place in it.             *)
PollsIInv ==
  /\ polls \in [Polls -> PollStates]
  /\ \A k \in Polls : polls[k].step = "markers" =>
       polls[k].array \in 1..Len(heap) /\ polls[k].at >= 1

TriggersIInv ==
  /\ LedgerIInv /\ ManagerIInv /\ PollsIInv
  /\ refusals \in Nat /\ refusals <= failed

LEMMA TriggersAreTyped ==
  ASSUME TriggersIInv
  PROVE  Triggers!TypeOK
<1>1. MaxRefused \in Nat
  BY TriggersAssumption DEF Triggers!ConstantsAssumption
<1>2. refusals \in 0..MaxRefused
  BY <1>1 DEF TriggersIInv, LedgerIInv
<1>3. \A k \in Polls : polls[k].seen \union polls[k].target \subseteq Triggers!Contract
  BY DEF TriggersIInv, PollsIInv, PollStates
<1>4. timer \in BOOLEAN
  BY Zenon DEF TriggersIInv, ManagerIInv
<1> QED BY <1>2, <1>3, <1>4 DEF TriggersIInv, LedgerIInv, ManagerIInv, Triggers!TypeOK

LEMMA TriggersStart ==
  ASSUME Triggers!Init
  PROVE  TriggersIInv
<1>1. MaxRefused \in Nat
  BY TriggersAssumption DEF Triggers!ConstantsAssumption
<1>2. PICK mode0, drift0 \in [Portfolios -> BOOLEAN] :
        ledger = [p \in Portfolios |->
          [of |-> p, version |-> 0, auto |-> mode0[p], drifted |-> drift0[p]]]
  BY DEF Triggers!Init
<1>3. /\ ledger \in [Portfolios -> Triggers!Contract]
      /\ \A p \in Portfolios : ledger[p].of = p
  BY <1>2 DEF Triggers!Contract
<1>4. heap = << <<>> >> /\ heap \in Seq(Seq(Triggers!Contract)) /\ Len(heap) = 1
  BY DEF Triggers!Init
<1>5. LedgerIInv
  BY <1>1, <1>3, <1>4 DEF Triggers!Init, LedgerIInv
<1>6. timer \in BOOLEAN
  BY Zenon DEF Triggers!Init
<1>7. ManagerIInv
  BY <1>6 DEF Triggers!Init, ManagerIInv
<1>8. Triggers!Idle \in PollStates
  BY DEF Triggers!Idle, PollStates
<1>9. PollsIInv
  BY <1>8 DEF Triggers!Init, PollsIInv, Triggers!Idle
<1> QED BY <1>5, <1>7, <1>9 DEF Triggers!Init, TriggersIInv, LedgerIInv

LEMMA ContractsAreTyped ==
  ASSUME LedgerIInv
  PROVE  Triggers!Contracts \subseteq Triggers!Contract
  BY DEF LedgerIInv, Triggers!Contracts

(* A contract that is replaced by its next version.                        *)
LEMMA Replaced ==
  ASSUME LedgerIInv, NEW p \in Portfolios, NEW auto \in BOOLEAN, NEW drifted \in BOOLEAN,
         NEW new, \/ new = [ledger[p] EXCEPT !.version = @ + 1]
                  \/ new = [ledger[p] EXCEPT !.version = @ + 1, !.drifted = drifted]
                  \/ new = [ledger[p] EXCEPT !.version = @ + 1, !.auto = auto, !.drifted = drifted],
         ledger' = [ledger EXCEPT ![p] = new]
  PROVE  /\ ledger' \in [Portfolios -> Triggers!Contract]
         /\ \A q \in Portfolios : ledger'[q].of = q
<1>1. /\ ledger \in [Portfolios -> Triggers!Contract]
      /\ ledger[p] \in Triggers!Contract /\ ledger[p].of = p
  BY DEF LedgerIInv
<1>2. new \in Triggers!Contract /\ new.of = p
  <2>1. ledger[p].version + 1 \in Nat
    BY <1>1 DEF Triggers!Contract
  <2> QED BY <1>1, <2>1, Zenon DEF Triggers!Contract
<1> QED BY <1>1, <1>2 DEF LedgerIInv

LEMMA ExecutedRebalance ==
  ASSUME LedgerIInv, NEW c \in Triggers!Contract, Triggers!ExecuteRebalance(c)
  PROVE  LedgerIInv' /\ failed <= failed' /\ Len(heap') = Len(heap)
<1>1. c.of \in Portfolios
  BY DEF Triggers!Contract
<1>2. MaxRefused \in Nat
  BY TriggersAssumption DEF Triggers!ConstantsAssumption
<1>3. /\ failed' \in 0..MaxRefused /\ failed <= failed' /\ changes' \in Nat
  BY <1>2 DEF LedgerIInv, Triggers!ExecuteRebalance, Triggers!Rebalanced,
              Triggers!NotRebalanced, Triggers!Fail
<1>4. /\ ledger' \in [Portfolios -> Triggers!Contract]
      /\ \A q \in Portfolios : ledger'[q].of = q
  <2> DEFINE next == [ledger[c.of] EXCEPT !.version = @ + 1]
             settled == [ledger[c.of] EXCEPT !.version = @ + 1, !.drifted = FALSE]
  <2>1. CASE UNCHANGED ledger
    BY <2>1 DEF LedgerIInv
  <2>2. CASE ledger' = [ledger EXCEPT ![c.of].version = @ + 1]
    <3>1. ledger' = [ledger EXCEPT ![c.of] = next]
      BY <2>2
    <3> HIDE DEF next
    <3>2. next = [ledger[c.of] EXCEPT !.version = @ + 1]
      BY DEF next
    <3> QED BY <1>1, <3>1, <3>2, Replaced
  <2>3. CASE ledger' = [ledger EXCEPT ![c.of].version = @ + 1, ![c.of].drifted = FALSE]
    <3>1. ledger' = [ledger EXCEPT ![c.of] = settled]
      BY <1>1, <2>3 DEF LedgerIInv
    <3>2. settled = [ledger[c.of] EXCEPT !.version = @ + 1, !.drifted = FALSE]
      OBVIOUS
    <3> HIDE DEF settled
    <3> QED BY <1>1, <3>1, <3>2, Replaced
  <2> QED BY <2>1, <2>2, <2>3
          DEF Triggers!ExecuteRebalance, Triggers!Rebalanced, Triggers!NotRebalanced
<1>5. heap' \in Seq(Seq(Triggers!Contract)) /\ Len(heap') = Len(heap)
  <2>1. CASE UNCHANGED heap
    BY <2>1 DEF LedgerIInv
  <2>2. CASE heap' = [heap EXCEPT ![Len(heap)] = Append(@, c)]
    <3>1. /\ heap \in Seq(Seq(Triggers!Contract)) /\ Len(heap) \in 1..Len(heap)
      BY DEF LedgerIInv
    <3>2. heap[Len(heap)] \in Seq(Triggers!Contract)
      BY <3>1, ElementOfSeq
    <3>3. Append(heap[Len(heap)], c) \in Seq(Triggers!Contract)
      BY <3>2, AppendProperties
    <3> QED BY <2>2, <3>1, <3>3, ExceptSeq
  <2> QED BY <2>1, <2>2
          DEF Triggers!ExecuteRebalance, Triggers!Rebalanced, Triggers!NotRebalanced
<1> QED BY <1>3, <1>4, <1>5 DEF LedgerIInv

LEMMA PollChanges ==
  ASSUME PollsIInv, Len(heap) <= Len(heap'), Len(heap) \in Nat, Len(heap') \in Nat,
         NEW k \in Polls, NEW new \in PollStates, polls' = [polls EXCEPT ![k] = new],
         new.step = "markers" => new.array \in 1..Len(heap') /\ new.at >= 1
  PROVE  PollsIInv'
<1>1. polls' \in [Polls -> PollStates]
  BY DEF PollsIInv
<1>2. ASSUME NEW j \in Polls, polls'[j].step = "markers"
      PROVE  polls'[j].array \in 1..Len(heap') /\ polls'[j].at >= 1
  <2>1. CASE j = k
    BY <1>2, <2>1 DEF PollsIInv
  <2>2. CASE j # k
    <3>1. polls'[j] = polls[j]
      BY <2>2 DEF PollsIInv
    <3>2. polls[j].array \in 1..Len(heap) /\ polls[j].at >= 1
      BY <1>2, <3>1 DEF PollsIInv
    <3> QED BY <3>1, <3>2
  <2> QED BY <2>1, <2>2
<1> QED BY <1>1, <1>2 DEF PollsIInv

(* What only changes the state of the manager.                             *)
LEMMA LifecycleStep ==
  ASSUME TriggersIInv,
         \/ Triggers!Start \/ Triggers!Scanned \/ Triggers!ScanFails \/ Triggers!Stop
  PROVE  TriggersIInv'
<1>1. /\ UNCHANGED <<ledger, refusals, deferred, heap, recorded, polls, changes>>
      /\ mode' \in {"stopped", "starting", "running", "degraded"}
      /\ tracked' \in {tracked, Triggers!Contracts}
  BY DEF Triggers!Start, Triggers!Scanned, Triggers!ScanFails, Triggers!Stop,
         Triggers!markerVars, Triggers!boundVars, Triggers!Fail
<1>2. timer' \in BOOLEAN
  <2>1. CronFallback \in BOOLEAN
    BY TriggersAssumption, Zenon DEF Triggers!ConstantsAssumption
  <2>2. timer' \in {timer, TRUE, FALSE, CronFallback}
    BY Zenon DEF Triggers!Start, Triggers!Scanned, Triggers!ScanFails, Triggers!Stop
  <2>3. timer \in BOOLEAN
    BY Zenon DEF TriggersIInv, ManagerIInv
  <2> QED BY <2>1, <2>2, <2>3, Zenon
<1>3. failed' \in 0..MaxRefused /\ failed <= failed'
  BY TriggersAssumption
  DEF Triggers!Start, Triggers!Scanned, Triggers!ScanFails, Triggers!Stop,
      Triggers!boundVars, Triggers!Fail, TriggersIInv, LedgerIInv,
      Triggers!ConstantsAssumption
<1>4. ManagerIInv'
  BY <1>1, <1>2, ContractsAreTyped DEF TriggersIInv, ManagerIInv
<1>5. LedgerIInv' /\ PollsIInv'
  BY <1>1, <1>3 DEF TriggersIInv, LedgerIInv, PollsIInv
<1>6. refusals' \in Nat /\ refusals' <= failed'
  BY <1>1, <1>3 DEF TriggersIInv, LedgerIInv
<1> QED BY <1>4, <1>5, <1>6 DEF TriggersIInv

(* The steps of a poll that leave the ledger and the markers alone.        *)
LEMMA ReadingStep ==
  ASSUME TriggersIInv, NEW k \in Polls,
         \/ Triggers!Tick(k) \/ Triggers!Refresh(k) \/ Triggers!Load(k) \/ Triggers!Choose(k)
         \/ Triggers!Processed(k) \/ Triggers!Fallback(k) \/ Triggers!FallbackEnds(k)
  PROVE  TriggersIInv'
<1>1. /\ UNCHANGED <<ledger, mode, timer, refusals, heap, recorded, failed, changes>>
      /\ tracked' \in {tracked, Triggers!Contracts}
      /\ deferred' \in {deferred,
                        deferred \union {c \in Triggers!Contracts \ tracked : Triggers!Due(c)}}
  BY DEF Triggers!Tick, Triggers!Refresh, Triggers!Load, Triggers!Choose, Triggers!Processed,
         Triggers!Fallback, Triggers!FallbackEnds, Triggers!lifecycleVars,
         Triggers!markerVars, Triggers!boundVars
<1>2. /\ Triggers!Contracts \subseteq Triggers!Contract
      /\ tracked \subseteq Triggers!Contract
      /\ polls \in [Polls -> PollStates] /\ polls[k] \in PollStates
      /\ Len(heap) \in Nat /\ Len(heap) >= 1
  BY ContractsAreTyped DEF TriggersIInv, LedgerIInv, PollsIInv, ManagerIInv
<1>3. ManagerIInv'
  BY <1>1, <1>2 DEF TriggersIInv, ManagerIInv
<1>4. LedgerIInv' /\ refusals' <= failed' /\ refusals' \in Nat
  BY <1>1 DEF TriggersIInv, LedgerIInv
<1>5. \E new \in PollStates :
        /\ polls' = [polls EXCEPT ![k] = new]
        /\ new.step = "markers" => new.array = Len(heap) /\ new.at = 1
  <2>1. CASE Triggers!Tick(k)
    <3> DEFINE new == [polls[k] EXCEPT !.step = "refresh"]
    <3>1. polls' = [polls EXCEPT ![k] = new]
      BY <1>2, <2>1 DEF Triggers!Tick, Triggers!Goto
    <3>2. new \in PollStates /\ new.step = "refresh"
      BY <1>2 DEF PollStates
    <3> QED BY <3>1, <3>2
  <2>2. CASE Triggers!Refresh(k)
    <3> DEFINE new == [polls[k] EXCEPT !.step = "load"]
    <3>1. polls' = [polls EXCEPT ![k] = new]
      BY <1>2, <2>2 DEF Triggers!Refresh, Triggers!Goto
    <3>2. new \in PollStates /\ new.step = "load"
      BY <1>2 DEF PollStates
    <3> QED BY <3>1, <3>2
  <2>3. CASE Triggers!Load(k)
    <3> DEFINE new == [polls[k] EXCEPT !.step = "portfolios", !.seen = Triggers!Contracts]
    <3>1. polls' = [polls EXCEPT ![k] = new]
      BY <1>2, <2>3 DEF Triggers!Load
    <3>2. new \in PollStates /\ new.step = "portfolios"
      BY <1>2 DEF PollStates
    <3> QED BY <3>1, <3>2
  <2>4. CASE Triggers!Choose(k)
    <3>1. PICK c \in polls[k].seen \cap tracked :
            /\ Triggers!Due(c)
            /\ polls' = [polls EXCEPT ![k].step = "jitter", ![k].target = {c},
                                      ![k].seen = @ \ {c}]
      BY <2>4 DEF Triggers!Choose
    <3> DEFINE new == [polls[k] EXCEPT !.step = "jitter", !.target = {c}, !.seen = @ \ {c}]
    <3>2. polls' = [polls EXCEPT ![k] = new]
      BY <1>2, <3>1
    <3>3. {c} \in SUBSET {d \in Triggers!Contract : Triggers!Due(d)}
      BY <1>2, <3>1
    <3>4. new \in PollStates /\ new.step = "jitter"
      BY <1>2, <3>3 DEF PollStates
    <3> QED BY <3>2, <3>4
  <2>5. CASE Triggers!Processed(k)
    <3> DEFINE new == [polls[k] EXCEPT !.step = "markers", !.seen = {},
                                       !.array = Len(heap), !.at = 1]
    <3>1. polls' = [polls EXCEPT ![k] = new]
      BY <1>2, <2>5 DEF Triggers!Processed
    <3>2. new \in PollStates /\ new.array = Len(heap) /\ new.at = 1
      BY <1>2 DEF PollStates
    <3> QED BY <3>1, <3>2
  <2>6. CASE Triggers!Fallback(k)
    <3> DEFINE new == [polls[k] EXCEPT !.step = "auto", !.seen = Triggers!Contracts]
    <3>1. polls' = [polls EXCEPT ![k] = new]
      BY <1>2, <2>6 DEF Triggers!Fallback
    <3>2. new \in PollStates /\ new.step = "auto"
      BY <1>2 DEF PollStates
    <3> QED BY <3>1, <3>2
  <2>7. CASE Triggers!FallbackEnds(k)
    <3>1. Triggers!Idle \in PollStates /\ Triggers!Idle.step = "idle"
      BY DEF Triggers!Idle, PollStates
    <3> QED BY <2>7, <3>1 DEF Triggers!FallbackEnds
  <2> QED BY <2>1, <2>2, <2>3, <2>4, <2>5, <2>6, <2>7
<1>6. PollsIInv'
  <2>1. PICK new \in PollStates :
          /\ polls' = [polls EXCEPT ![k] = new]
          /\ new.step = "markers" => new.array = Len(heap) /\ new.at = 1
    BY <1>5
  <2>2. PollsIInv /\ Len(heap') = Len(heap)
    BY <1>1 DEF TriggersIInv
  <2>3. /\ Len(heap) <= Len(heap') /\ Len(heap) \in Nat /\ Len(heap') \in Nat
        /\ new.step = "markers" => new.array \in 1..Len(heap') /\ new.at >= 1
    BY <1>2, <2>1, <2>2
  <2> QED BY <2>1, <2>2, <2>3, PollChanges
<1> QED BY <1>3, <1>4, <1>6 DEF TriggersIInv

(* The steps of a poll at which a contract is rebalanced.                  *)
LEMMA RebalanceStep ==
  ASSUME TriggersIInv, NEW k \in Polls, Triggers!Rebalance(k) \/ Triggers!AutoRebalance(k)
  PROVE  TriggersIInv'
<1>1. UNCHANGED <<mode, timer, refusals, tracked, deferred, recorded>>
  BY DEF Triggers!Rebalance, Triggers!AutoRebalance, Triggers!lifecycleVars
<1>2. /\ polls \in [Polls -> PollStates] /\ polls[k] \in PollStates
      /\ polls[k].seen \subseteq Triggers!Contract /\ polls[k].target \subseteq Triggers!Contract
      /\ polls[k].at \in Nat
  BY DEF TriggersIInv, PollsIInv, PollStates
<1>3. PICK c \in Triggers!Contract : Triggers!ExecuteRebalance(c)
  BY <1>2 DEF Triggers!Rebalance, Triggers!AutoRebalance, Triggers!ExecuteRebalance
<1>4. LedgerIInv' /\ failed <= failed' /\ Len(heap') = Len(heap)
  BY <1>3, ExecutedRebalance DEF TriggersIInv
<1>5. \E new \in PollStates :
        polls' = [polls EXCEPT ![k] = new] /\ new.step \in {"portfolios", "auto"}
  <2>1. CASE Triggers!Rebalance(k)
    <3> DEFINE new == [polls[k] EXCEPT !.step = "portfolios", !.target = {}]
    <3>1. polls' = [polls EXCEPT ![k] = new]
      BY <1>2, <2>1 DEF Triggers!Rebalance
    <3>2. new \in PollStates /\ new.step = "portfolios"
      BY <1>2 DEF PollStates
    <3> QED BY <3>1, <3>2
  <2>2. CASE Triggers!AutoRebalance(k)
    <3>1. PICK d \in polls[k].seen, n \in {0, polls[k].at + 1} :
            polls' = [polls EXCEPT ![k].seen = @ \ {d}, ![k].at = n]
      BY <2>2 DEF Triggers!AutoRebalance
    <3> DEFINE new == [polls[k] EXCEPT !.seen = @ \ {d}, !.at = n]
    <3>2. polls' = [polls EXCEPT ![k] = new]
      BY <1>2, <3>1
    <3>3. n \in Nat /\ polls[k].step = "auto"
      BY <1>2, <2>2 DEF Triggers!AutoRebalance, Triggers!At
    <3>4. new \in PollStates /\ new.step = "auto"
      BY <1>2, <3>3 DEF PollStates
    <3> QED BY <3>2, <3>4
  <2> QED BY <2>1, <2>2
<1>6. PollsIInv'
  <2>1. PICK new \in PollStates :
          polls' = [polls EXCEPT ![k] = new] /\ new.step \in {"portfolios", "auto"}
    BY <1>5
  <2>2. PollsIInv /\ Len(heap) <= Len(heap') /\ Len(heap) \in Nat /\ Len(heap') \in Nat
    BY <1>4 DEF TriggersIInv, LedgerIInv
  <2> QED BY <2>1, <2>2, PollChanges
<1>7. ManagerIInv'
  BY <1>1 DEF TriggersIInv, ManagerIInv
<1>8. refusals' \in Nat /\ refusals' <= failed'
  BY <1>1, <1>4 DEF TriggersIInv, LedgerIInv
<1> QED BY <1>4, <1>6, <1>7, <1>8 DEF TriggersIInv

LEMMA DeferredStep ==
  ASSUME TriggersIInv, NEW c \in deferred, Triggers!Deferred(c)
  PROVE  TriggersIInv'
<1>1. /\ UNCHANGED <<mode, timer, refusals, tracked, recorded, polls>>
      /\ deferred' = deferred \ {c} /\ Triggers!ExecuteRebalance(c)
      /\ c \in Triggers!Contract
  BY DEF Triggers!Deferred, Triggers!lifecycleVars, TriggersIInv, ManagerIInv
<1>2. LedgerIInv' /\ failed <= failed' /\ Len(heap') = Len(heap)
  BY <1>1, ExecutedRebalance DEF TriggersIInv
<1>3. PollsIInv' /\ ManagerIInv'
  BY <1>1, <1>2 DEF TriggersIInv, PollsIInv, ManagerIInv
<1>4. refusals' \in Nat /\ refusals' <= failed'
  BY <1>1, <1>2 DEF TriggersIInv, LedgerIInv
<1> QED BY <1>2, <1>3, <1>4 DEF TriggersIInv

(* The markers of a poll are recorded, and then forgotten.                 *)
LEMMA MarkersStep ==
  ASSUME TriggersIInv, NEW k \in Polls, Triggers!Record(k) \/ Triggers!PollSucceeds(k)
  PROVE  TriggersIInv'
<1>1. /\ UNCHANGED <<ledger, timer, tracked, deferred, failed, changes>>
      /\ polls \in [Polls -> PollStates] /\ polls[k] \in PollStates
      /\ heap \in Seq(Seq(Triggers!Contract)) /\ Len(heap) \in Nat /\ Len(heap) >= 1
      /\ polls[k].step = "markers"
      /\ polls[k].array \in 1..Len(heap) /\ polls[k].at >= 1 /\ polls[k].at \in Nat
  <2>1. /\ UNCHANGED <<ledger, timer, tracked, deferred, failed, changes>>
        /\ polls[k].step = "markers"
    BY DEF Triggers!Record, Triggers!PollSucceeds, Triggers!boundVars, Triggers!At,
           Triggers!lifecycleVars
  <2>2. polls \in [Polls -> PollStates] /\ polls[k] \in PollStates
    BY DEF TriggersIInv, PollsIInv
  <2>3. polls[k].array \in 1..Len(heap) /\ polls[k].at >= 1 /\ polls[k].at \in Nat
    BY <2>1, <2>2 DEF TriggersIInv, PollsIInv, PollStates
  <2>4. heap \in Seq(Seq(Triggers!Contract)) /\ Len(heap) \in Nat /\ Len(heap) >= 1
    BY DEF TriggersIInv, LedgerIInv
  <2> QED BY <2>1, <2>2, <2>3, <2>4
<1>2. CASE Triggers!Record(k)
  <2> DEFINE array == heap[polls[k].array]
             new == [polls[k] EXCEPT !.at = @ + 1]
  <2>1. /\ polls[k].at <= Len(array) /\ recorded' = recorded \union {array[polls[k].at]}
        /\ polls' = [polls EXCEPT ![k] = new]
        /\ UNCHANGED <<mode, refusals, heap>>
    BY <1>1, <1>2 DEF Triggers!Record, Triggers!lifecycleVars
  <2>2. array \in Seq(Triggers!Contract)
    BY <1>1, ElementOfSeq
  <2>3. array[polls[k].at] \in Triggers!Contract
    <3> HIDE DEF array
    <3>1. polls[k].at \in 1..Len(array)
      BY <1>1, <2>1, <2>2
    <3> QED BY <2>2, <3>1, ElementOfSeq
  <2>4. new \in PollStates /\ new.array = polls[k].array /\ new.at = polls[k].at + 1
    <3>1. polls[k] \in PollStates /\ polls[k].at + 1 \in Nat
      BY <1>1
    <3> QED BY <3>1 DEF PollStates
  <2>5. Len(heap') = Len(heap)
    BY <2>1
  <2> HIDE DEF array, new
  <2>6. new.array \in 1..Len(heap') /\ new.at >= 1
    BY <1>1, <2>4, <2>5
  <2>7. PollsIInv /\ Len(heap) <= Len(heap') /\ Len(heap) \in Nat /\ Len(heap') \in Nat
    BY <1>1, <2>5 DEF TriggersIInv
  <2>8. PollsIInv'
    BY <2>1, <2>4, <2>6, <2>7, PollChanges
  <2>9. ManagerIInv'
    BY <1>1, <2>1, <2>3 DEF TriggersIInv, ManagerIInv
  <2>10. LedgerIInv' /\ refusals' \in Nat /\ refusals' <= failed'
    BY <1>1, <2>1 DEF TriggersIInv, LedgerIInv
  <2> QED BY <2>8, <2>9, <2>10 DEF TriggersIInv
<1>3. CASE Triggers!PollSucceeds(k)
  <2>1. /\ heap' \in {heap, Append(heap, <<>>)} /\ refusals' = 0 /\ recorded' = recorded
        /\ mode' \in {"running", mode} /\ polls' = [polls EXCEPT ![k] = Triggers!Idle]
    BY <1>3 DEF Triggers!PollSucceeds
  <2>2. Triggers!Idle \in PollStates /\ Triggers!Idle.step = "idle"
    BY DEF Triggers!Idle, PollStates
  <2>3. /\ heap' \in Seq(Seq(Triggers!Contract)) /\ Len(heap') \in Nat
        /\ Len(heap) <= Len(heap')
    <3>1. <<>> \in Seq(Triggers!Contract)
      OBVIOUS
    <3>2. /\ Append(heap, <<>>) \in Seq(Seq(Triggers!Contract))
          /\ Len(Append(heap, <<>>)) = Len(heap) + 1
      BY <1>1, <3>1, AppendProperties
    <3>3. CASE heap' = heap
      BY <1>1, <3>3
    <3>4. CASE heap' = Append(heap, <<>>)
      BY <1>1, <3>2, <3>4
    <3> QED BY <2>1, <3>3, <3>4
  <2>4. PollsIInv /\ Len(heap) \in Nat
    BY <1>1 DEF TriggersIInv
  <2>5. PollsIInv'
    BY <2>1, <2>2, <2>3, <2>4, PollChanges
  <2>6. ManagerIInv'
    BY <1>1, <2>1 DEF TriggersIInv, ManagerIInv
  <2>7. Len(heap') >= 1
    BY <1>1, <2>3
  <2>8. LedgerIInv' /\ refusals' \in Nat /\ refusals' <= failed'
    BY <1>1, <2>1, <2>3, <2>7 DEF TriggersIInv, LedgerIInv
  <2> QED BY <2>5, <2>6, <2>8 DEF TriggersIInv
<1> QED BY <1>2, <1>3

LEMMA PollFailsStep ==
  ASSUME TriggersIInv, NEW k \in Polls, Triggers!PollFails(k)
  PROVE  TriggersIInv'
<1>1. /\ UNCHANGED <<ledger, timer, tracked, deferred, heap, recorded, changes>>
      /\ failed < MaxRefused /\ failed' = failed + 1 /\ refusals' = refusals + 1
      /\ mode' \in {"degraded", mode}
  BY DEF Triggers!PollFails, Triggers!Fail, Triggers!markerVars
<1>2. \E new \in PollStates :
        polls' = [polls EXCEPT ![k] = new] /\ new.step \in {"idle", "fallback"}
  <2> DEFINE fallback == [Triggers!Idle EXCEPT !.step = "fallback"]
  <2>1. /\ Triggers!Idle \in PollStates /\ Triggers!Idle.step = "idle"
        /\ fallback \in PollStates /\ fallback.step = "fallback"
    BY DEF Triggers!Idle, PollStates
  <2>2. \/ polls' = [polls EXCEPT ![k] = fallback]
        \/ polls' = [polls EXCEPT ![k] = Triggers!Idle]
    BY DEF Triggers!PollFails
  <2> QED BY <2>1, <2>2
<1>3. PollsIInv'
  <2>1. PICK new \in PollStates :
          polls' = [polls EXCEPT ![k] = new] /\ new.step \in {"idle", "fallback"}
    BY <1>2
  <2>2. PollsIInv /\ Len(heap') = Len(heap) /\ Len(heap) \in Nat
    BY <1>1 DEF TriggersIInv, LedgerIInv
  <2>3. Len(heap) <= Len(heap') /\ Len(heap') \in Nat
    BY <2>2
  <2> QED BY <2>1, <2>2, <2>3, PollChanges
<1>4. ManagerIInv'
  BY <1>1 DEF TriggersIInv, ManagerIInv
<1>5. LedgerIInv' /\ refusals' \in Nat /\ refusals' <= failed'
  <2>1. MaxRefused \in Nat
    BY TriggersAssumption DEF Triggers!ConstantsAssumption
  <2> QED BY <1>1, <2>1 DEF TriggersIInv, LedgerIInv
<1> QED BY <1>3, <1>4, <1>5 DEF TriggersIInv

LEMMA OwnerStep ==
  ASSUME TriggersIInv, NEW p \in Portfolios, Triggers!OwnerChanges(p)
  PROVE  TriggersIInv'
<1>1. /\ UNCHANGED <<mode, timer, refusals, tracked, deferred, heap, recorded, polls, failed>>
      /\ changes' = changes + 1
  BY DEF Triggers!OwnerChanges, Triggers!lifecycleVars, Triggers!markerVars
<1>2. PICK auto \in BOOLEAN, drifted \in BOOLEAN :
        ledger' = [ledger EXCEPT ![p].version = @ + 1, ![p].auto = auto,
                                 ![p].drifted = drifted]
  BY DEF Triggers!OwnerChanges
<1> DEFINE new == [ledger[p] EXCEPT !.version = @ + 1, !.auto = auto, !.drifted = drifted]
<1>3. new = [ledger[p] EXCEPT !.version = @ + 1, !.auto = auto, !.drifted = drifted]
  OBVIOUS
<1>4. ledger' = [ledger EXCEPT ![p] = new]
  BY <1>2 DEF TriggersIInv, LedgerIInv
<1> HIDE DEF new
<1>5. /\ ledger' \in [Portfolios -> Triggers!Contract]
      /\ \A q \in Portfolios : ledger'[q].of = q
  BY <1>3, <1>4, Replaced DEF TriggersIInv
<1>6. LedgerIInv' /\ PollsIInv' /\ ManagerIInv'
  BY <1>1, <1>5 DEF TriggersIInv, LedgerIInv, PollsIInv, ManagerIInv
<1>7. refusals' \in Nat /\ refusals' <= failed'
  BY <1>1 DEF TriggersIInv
<1> QED BY <1>6, <1>7 DEF TriggersIInv

LEMMA TriggersGoOn ==
  ASSUME TriggersIInv, [Triggers!Next]_triggerVars
  PROVE  TriggersIInv'
<1>1. CASE Triggers!Start \/ Triggers!Scanned \/ Triggers!ScanFails \/ Triggers!Stop
  BY <1>1, LifecycleStep
<1>2. CASE \E k \in Polls : Triggers!Poll(k)
  BY <1>2, ReadingStep, RebalanceStep, MarkersStep, PollFailsStep DEF Triggers!Poll
<1>3. CASE \E c \in deferred : Triggers!Deferred(c)
  BY <1>3, DeferredStep
<1>4. CASE \E p \in Portfolios : Triggers!OwnerChanges(p)
  BY <1>4, OwnerStep
<1>5. CASE UNCHANGED triggerVars
  BY <1>5 DEF triggerVars, TriggersIInv, LedgerIInv, PollsIInv, ManagerIInv
<1> QED BY <1>1, <1>2, <1>3, <1>4, <1>5 DEF Triggers!Next

(* A portfolio that is brought back to its targets was due, as the payload *)
(* said from which it was chosen: the contract is still the same.          *)
LEMMA OnlyDueRebalance ==
  ASSUME LedgerIInv, NEW c \in Triggers!Contract, Triggers!Due(c), Triggers!ExecuteRebalance(c),
         NEW p \in Portfolios, ledger[p].drifted, ~ ledger'[p].drifted
  PROVE  ledger[p].auto
<1>1. c.of \in Portfolios /\ ledger \in [Portfolios -> Triggers!Contract]
  BY DEF Triggers!Contract, LedgerIInv
<1>2. CASE Triggers!Rebalanced(c)
  <2>1. /\ ledger' = [ledger EXCEPT ![c.of].version = @ + 1, ![c.of].drifted = FALSE]
        /\ ledger[c.of] = c
    BY <1>2 DEF Triggers!Rebalanced
  <2>2. p = c.of
    BY <1>1, <2>1
  <2> QED BY <2>1, <2>2 DEF Triggers!Due
<1>3. CASE Triggers!NotRebalanced(c)
  <2>1. \/ UNCHANGED ledger
        \/ ledger' = [ledger EXCEPT ![c.of].version = @ + 1]
    BY <1>3 DEF Triggers!NotRebalanced
  <2>2. ledger'[p].drifted = ledger[p].drifted
    <3>1. CASE ledger' = [ledger EXCEPT ![c.of].version = @ + 1]
      <4>1. CASE p = c.of
        <5>1. ledger'[p] = [ledger[p] EXCEPT !.version = @ + 1]
          BY <1>1, <3>1, <4>1
        <5>2. ledger[p] \in Triggers!Contract
          BY <1>1
        <5> QED BY <5>1, <5>2 DEF Triggers!Contract
      <4>2. CASE p # c.of
        BY <1>1, <3>1, <4>2
      <4> QED BY <4>1, <4>2
    <3> QED BY <2>1, <3>1
  <2> QED BY <2>2
<1> QED BY <1>2, <1>3 DEF Triggers!ExecuteRebalance

LEMMA ActsOnContracts ==
  ASSUME TriggersIInv, [Triggers!Next]_triggerVars,
         NEW p \in Portfolios, ledger[p].drifted, ~ ledger'[p].drifted, changes' = changes
  PROVE  ledger[p].auto
<1>1. CASE UNCHANGED ledger
  BY <1>1
<1>2. CASE \E k \in Polls : Triggers!Rebalance(k)
  <2>1. PICK k \in Polls : Triggers!Rebalance(k)
    BY <1>2
  <2>2. PICK c \in polls[k].target : Triggers!ExecuteRebalance(c)
    BY <2>1 DEF Triggers!Rebalance
  <2>3. c \in Triggers!Contract /\ Triggers!Due(c)
    BY <2>2 DEF TriggersIInv, PollsIInv, PollStates
  <2> QED BY <2>2, <2>3, OnlyDueRebalance DEF TriggersIInv
<1>3. CASE \E k \in Polls : Triggers!AutoRebalance(k)
  <2>1. PICK k \in Polls : Triggers!AutoRebalance(k)
    BY <1>3
  <2>2. PICK c \in polls[k].seen : Triggers!Due(c) /\ Triggers!ExecuteRebalance(c)
    BY <2>1 DEF Triggers!AutoRebalance, Triggers!ExecuteRebalance
  <2>3. c \in Triggers!Contract
    BY <2>2 DEF TriggersIInv, PollsIInv, PollStates
  <2> QED BY <2>2, <2>3, OnlyDueRebalance DEF TriggersIInv
<1>4. CASE \E c \in deferred : Triggers!Deferred(c)
  <2>1. PICK c \in deferred : Triggers!ExecuteRebalance(c)
    BY <1>4 DEF Triggers!Deferred
  <2>2. c \in Triggers!Contract /\ Triggers!Due(c)
    BY <2>1 DEF TriggersIInv, ManagerIInv
  <2> QED BY <2>1, <2>2, OnlyDueRebalance DEF TriggersIInv
<1>5. CASE \E q \in Portfolios : Triggers!OwnerChanges(q)
  BY <1>5 DEF Triggers!OwnerChanges, TriggersIInv, LedgerIInv
<1>6. CASE Triggers!Start \/ Triggers!Scanned \/ Triggers!ScanFails \/ Triggers!Stop
  BY <1>1, <1>6 DEF Triggers!Start, Triggers!Scanned, Triggers!ScanFails, Triggers!Stop
<1>7. CASE UNCHANGED triggerVars
  BY <1>1, <1>7 DEF triggerVars
<1>8. CASE \E k \in Polls : Triggers!Poll(k)
  <2>1. PICK k \in Polls : Triggers!Poll(k)
    BY <1>8
  <2>2. Triggers!Rebalance(k) \/ Triggers!AutoRebalance(k) \/ UNCHANGED ledger
    BY <2>1
    DEF Triggers!Poll, Triggers!Tick, Triggers!Refresh, Triggers!Load, Triggers!Choose,
        Triggers!Processed, Triggers!Record, Triggers!PollSucceeds, Triggers!PollFails,
        Triggers!Fallback, Triggers!FallbackEnds
  <2> QED BY <1>1, <1>2, <1>3, <2>2
<1> QED BY <1>4, <1>5, <1>6, <1>7, <1>8 DEF Triggers!Next

---------------------------------------------------------------------------
(* The listing of contracts.                                               *)

ListingIInv == Listings!TypeOK /\ Listings!NothingIsCutOff

LEMMA ListingStart ==
  ASSUME Listings!Init
  PROVE  ListingIInv
  BY ListingsAssumption
  DEF Listings!Init, ListingIInv, Listings!TypeOK, Listings!NothingIsCutOff,
      Listings!ConstantsAssumption

LEMMA ListingGoesOn ==
  ASSUME ListingIInv, [Listings!Next]_listingVars
  PROVE  ListingIInv'
<1> USE ListingsAssumption
    DEF ListingIInv, Listings!TypeOK, Listings!NothingIsCutOff, Listings!ConstantsAssumption
<1>1. CASE Listings!Start \/ Listings!LedgerEnd \/ Listings!Fail
  BY <1>1 DEF Listings!Start, Listings!LedgerEnd, Listings!Fail
<1>2. CASE Listings!Query
  BY <1>2 DEF Listings!Query, Listings!Batch
<1>3. CASE Listings!ContractCreated \/ Listings!ContractArchived
  BY <1>3 DEF Listings!ContractCreated, Listings!ContractArchived
<1>4. CASE UNCHANGED listingVars
  BY <1>4 DEF listingVars
<1> QED BY <1>1, <1>2, <1>3, <1>4 DEF Listings!Next

---------------------------------------------------------------------------
(* The stream of updates.                                                  *)

LEMMA SubSeqOfAppended ==
  ASSUME NEW S, NEW s \in Seq(S), NEW e \in S, NEW m \in Int, 1 <= m, m <= Len(s) + 1
  PROVE  SubSeq(Append(s, e), m, Len(Append(s, e))) = Append(SubSeq(s, m, Len(s)), e)
<1> DEFINE t == Append(s, e)
           old == SubSeq(s, m, Len(s))
           new == SubSeq(t, m, Len(s) + 1)
<1>1. Len(s) \in Nat /\ \A k \in 1..Len(s) : s[k] \in S
  OBVIOUS
<1>2. /\ Len(t) = Len(s) + 1 /\ t[Len(s) + 1] = e
      /\ \A k \in 1..Len(s) : t[k] = s[k]
  BY AppendProperties
<1>3. /\ old \in Seq(S) /\ Len(old) = Len(s) - m + 1
      /\ \A k \in 1..(Len(s) - m + 1) : old[k] = s[m + k - 1]
  <2>1. \A k \in m..Len(s) : s[k] \in S
    BY <1>1
  <2>2. /\ old \in Seq(S)
        /\ Len(old) = IF m <= Len(s) THEN Len(s) - m + 1 ELSE 0
        /\ \A k \in 1..(Len(s) - m + 1) : old[k] = s[m + k - 1]
    BY <1>1, <2>1, SubSeqProperties
  <2> HIDE DEF old
  <2> QED BY <1>1, <2>2
<1>4. /\ new \in Seq(S) /\ Len(new) = Len(s) - m + 2
      /\ \A k \in 1..(Len(s) - m + 2) : new[k] = t[m + k - 1]
  <2> HIDE DEF t
  <2>1. \A k \in m..(Len(s) + 1) : t[k] \in S
    BY <1>1, <1>2
  <2>2. /\ new \in Seq(S)
        /\ Len(new) = IF m <= Len(s) + 1 THEN (Len(s) + 1) - m + 1 ELSE 0
        /\ \A k \in 1..((Len(s) + 1) - m + 1) : new[k] = t[m + k - 1]
    BY <1>1, <2>1, SubSeqProperties
  <2> HIDE DEF new
  <2>3. (Len(s) + 1) - m + 1 = Len(s) - m + 2
    BY <1>1
  <2> QED BY <1>1, <2>2, <2>3
<1> HIDE DEF t, old, new
<1>5. /\ Append(old, e) \in Seq(S) /\ Len(Append(old, e)) = Len(s) - m + 2
      /\ Append(old, e)[Len(s) - m + 2] = e
      /\ \A k \in 1..(Len(s) - m + 1) : Append(old, e)[k] = old[k]
  <2>1. /\ Append(old, e) \in Seq(S) /\ Len(Append(old, e)) = Len(old) + 1
        /\ Append(old, e)[Len(old) + 1] = e
        /\ \A k \in 1..Len(old) : Append(old, e)[k] = old[k]
    <3>1. old \in Seq(S)
      BY <1>3
    <3> QED BY <3>1, AppendProperties
  <2>2. Len(old) = Len(s) - m + 1 /\ Len(old) + 1 = Len(s) - m + 2
    BY <1>1, <1>3
  <2> QED BY <2>1, <2>2
<1>6. ASSUME NEW k \in 1..(Len(s) - m + 2) PROVE new[k] = Append(old, e)[k]
  <2>1. CASE k = Len(s) - m + 2
    <3>1. m + k - 1 = Len(s) + 1
      BY <1>1, <2>1
    <3> QED BY <1>2, <1>4, <1>5, <2>1, <3>1
  <2>2. CASE k # Len(s) - m + 2
    <3>1. k \in 1..(Len(s) - m + 1) /\ m + k - 1 \in 1..Len(s)
      BY <1>1, <2>2
    <3> QED BY <1>2, <1>3, <1>4, <1>5, <3>1
  <2> QED BY <2>1, <2>2
<1>7. new = Append(old, e)
  <2>1. Len(new) = Len(s) - m + 2 /\ Len(Append(old, e)) = Len(s) - m + 2
    BY <1>4, <1>5
  <2> QED BY <1>4, <1>5, <1>6, <2>1, SeqEqual
<1> QED BY <1>2, <1>7 DEF new, old, t

StreamIInv ==
  /\ Stream!TypeOK
  /\ begun <= offset
  /\ emitted = [k \in 1..(offset - begun) |-> begun + k]
  /\ loop \in {"new", "end"} => emitted = <<>>
  /\ loop = "read" => connection = offset
  /\ \A c \in Clients : listening[c] # 0 =>
       /\ listening[c] <= Len(emitted) + 1
       /\ heard[c] = SubSeq(emitted, listening[c], Len(emitted))
  /\ heard \in [Clients -> Seq(1..MaxUpdates)]

LEMMA StreamStart ==
  ASSUME Stream!Init
  PROVE  StreamIInv
<1>1. MaxUpdates \in Nat
  BY StreamAssumption DEF Stream!ConstantsAssumption
<1>2. Stream!TypeOK
  <2>1. isRunning \in BOOLEAN
    BY Zenon DEF Stream!Init
  <2>2. listening \in [Clients -> 0..(MaxUpdates + 1)] /\ emitted \in Seq(1..MaxUpdates)
    BY <1>1 DEF Stream!Init
  <2> QED BY <1>1, <2>1, <2>2 DEF Stream!Init, Stream!TypeOK
<1>3. emitted = [k \in 1..(offset - begun) |-> begun + k]
  <2>1. emitted = <<>> /\ 1..(offset - begun) = {}
    BY DEF Stream!Init
  <2> QED BY <2>1
<1> QED BY <1>1, <1>2, <1>3 DEF Stream!Init, StreamIInv

(* The steps that emit nothing and concern no client.                      *)
LEMMA QuietStep ==
  ASSUME StreamIInv,
         \/ Stream!Commit \/ Stream!Start \/ Stream!LedgerEnd \/ Stream!Connect
         \/ Stream!Break \/ Stream!Stop \/ Stream!EndLoop \/ UNCHANGED streamVars
  PROVE  StreamIInv'
<1>1. UNCHANGED <<emitted, listening, heard>>
  BY DEF Stream!Commit, Stream!Start, Stream!LedgerEnd, Stream!Connect, Stream!Break,
         Stream!Stop, Stream!EndLoop, streamVars, Stream!streamVars, Stream!clientVars
<1>2. MaxUpdates \in Nat
  BY StreamAssumption DEF Stream!ConstantsAssumption
<1>0. isRunning' \in BOOLEAN
  <2>1. isRunning' \in {TRUE, FALSE, isRunning}
    BY Zenon
    DEF Stream!Commit, Stream!Start, Stream!LedgerEnd, Stream!Connect, Stream!Break,
        Stream!Stop, Stream!EndLoop, streamVars, Stream!streamVars
  <2>2. isRunning \in BOOLEAN
    BY Zenon DEF StreamIInv, Stream!TypeOK
  <2> QED BY <2>1, <2>2, Zenon
<1>3. /\ {ledgerEnd', offset', begun', connection'} \subseteq 0..MaxUpdates
      /\ begun' <= offset'
      /\ loop' \in {"new", "end", "connect", "read", "over"}
      /\ loop' \in {"new", "end"} => loop \in {"new", "end"}
      /\ loop' = "read" => connection' = offset'
      /\ \/ UNCHANGED <<offset, begun>>
         \/ offset' = begun' /\ emitted = <<>>
  BY <1>2
  DEF StreamIInv, Stream!TypeOK, Stream!Commit, Stream!Start, Stream!LedgerEnd,
      Stream!Connect, Stream!Break, Stream!Stop, Stream!EndLoop, streamVars,
      Stream!streamVars
<1>4. emitted' = [k \in 1..(offset' - begun') |-> begun' + k]
  <2>1. CASE UNCHANGED <<offset, begun>>
    BY <1>1, <2>1 DEF StreamIInv
  <2>2. CASE offset' = begun' /\ emitted = <<>>
    <3>1. 1..(offset' - begun') = {}
      BY <1>3, <2>2
    <3> QED BY <1>1, <2>2, <3>1
  <2> QED BY <1>3, <2>1, <2>2
<1> QED BY <1>0, <1>1, <1>3, <1>4 DEF StreamIInv, Stream!TypeOK

LEMMA EmittedIsLong ==
  ASSUME StreamIInv
  PROVE  Len(emitted) = offset - begun /\ offset - begun \in Nat
<1>1. offset - begun \in Nat
  BY DEF StreamIInv, Stream!TypeOK
<1> QED BY <1>1 DEF StreamIInv

LEMMA ReadStep ==
  ASSUME StreamIInv, Stream!Read
  PROVE  StreamIInv'
<1> DEFINE n == Len(emitted)
<1>1. /\ UNCHANGED <<ledgerEnd, isRunning, loop, begun, listening>>
      /\ loop = "read" /\ connection' = connection + 1 /\ offset' = connection + 1
      /\ emitted' = Append(emitted, offset') /\ connection < ledgerEnd
      /\ heard' = [c \in Clients |-> IF listening[c] = 0 THEN heard[c]
                                     ELSE Append(heard[c], offset')]
  BY DEF Stream!Read, Stream!Emit
<1>2. MaxUpdates \in Nat /\ {ledgerEnd, offset, begun, connection} \subseteq 0..MaxUpdates
  BY StreamAssumption DEF Stream!ConstantsAssumption, StreamIInv, Stream!TypeOK
<1>3. /\ connection = offset /\ begun <= offset /\ n = offset - begun /\ n \in Nat
  BY <1>1, EmittedIsLong DEF StreamIInv
<1>4. /\ offset' \in 1..MaxUpdates /\ begun' <= offset' /\ offset' - begun' = n + 1
      /\ offset' = begun + n + 1
  BY <1>1, <1>2, <1>3
<1> HIDE DEF n
<1>5. emitted \in Seq(1..MaxUpdates) /\ listening \in [Clients -> 0..(MaxUpdates + 1)]
  BY DEF StreamIInv, Stream!TypeOK
<1>6. /\ emitted' \in Seq(1..MaxUpdates) /\ Len(emitted') = n + 1
      /\ \A k \in 1..n : emitted'[k] = emitted[k]
      /\ emitted'[n + 1] = offset'
  BY <1>1, <1>4, <1>5, AppendProperties DEF n
<1>7. \A k \in 1..n : emitted[k] = begun + k
  BY <1>3 DEF StreamIInv
<1>8. emitted' = [k \in 1..(n + 1) |-> begun + k]
  <2>1. ASSUME NEW k \in 1..(n + 1) PROVE emitted'[k] = begun + k
    <3>1. CASE k = n + 1
      BY <1>2, <1>3, <1>4, <1>6, <3>1
    <3>2. CASE k # n + 1
      <4>1. k \in 1..n
        BY <1>3, <3>2
      <4> QED BY <1>6, <1>7, <4>1
    <3> QED BY <3>1, <3>2
  <2>2. DOMAIN emitted' = 1..(n + 1) /\ emitted' = [k \in DOMAIN emitted' |-> emitted'[k]]
    BY <1>3, <1>6
  <2> QED BY <2>1, <2>2
<1>9. ASSUME NEW c \in Clients, listening'[c] # 0
      PROVE  /\ listening'[c] <= Len(emitted') + 1
             /\ heard'[c] = SubSeq(emitted', listening'[c], Len(emitted'))
  <2>1. /\ listening[c] # 0 /\ listening[c] \in Int /\ 1 <= listening[c]
        /\ listening[c] <= n + 1
        /\ heard[c] = SubSeq(emitted, listening[c], Len(emitted))
    <3>1. listening[c] = listening'[c] /\ listening[c] \in 0..(MaxUpdates + 1)
      BY <1>1, <1>5
    <3>2. listening[c] # 0 /\ 1 <= listening[c]
      BY <1>2, <1>9, <3>1
    <3>3. listening[c] <= Len(emitted) + 1 /\ heard[c] = SubSeq(emitted, listening[c], Len(emitted))
      BY <3>2 DEF StreamIInv
    <3>4. listening[c] \in Int
      BY <1>2, <3>1
    <3> QED BY <3>2, <3>3, <3>4 DEF n
  <2>2. SubSeq(Append(emitted, offset'), listening[c], Len(Append(emitted, offset'))) =
          Append(SubSeq(emitted, listening[c], Len(emitted)), offset')
    BY <1>4, <1>5, <2>1, SubSeqOfAppended DEF n
  <2>3. listening'[c] <= Len(emitted') + 1
    BY <1>1, <1>3, <1>6, <2>1
  <2> QED BY <1>1, <2>1, <2>2, <2>3
<1>10. heard' \in [Clients -> Seq(1..MaxUpdates)]
  <2>1. heard \in [Clients -> Seq(1..MaxUpdates)]
    BY DEF StreamIInv
  <2>2. \A c \in Clients : Append(heard[c], offset') \in Seq(1..MaxUpdates)
    BY <1>4, <2>1, AppendProperties
  <2> QED BY <1>1, <2>1, <2>2
<1>11. Stream!TypeOK'
  BY <1>1, <1>2, <1>3, <1>4, <1>6, SMTT(25) DEF StreamIInv, Stream!TypeOK
<1>12. emitted' = [k \in 1..(offset' - begun') |-> begun' + k]
  BY <1>1, <1>4, <1>8
<1>13. loop' = "read" /\ connection' = offset'
  BY <1>1
<1> QED BY <1>4, <1>9, <1>10, <1>11, <1>12, <1>13 DEF StreamIInv

LEMMA ClientStep ==
  ASSUME StreamIInv, NEW c \in Clients, Stream!Listen(c) \/ Stream!Leave(c)
  PROVE  StreamIInv'
<1>1. UNCHANGED <<ledgerEnd, isRunning, loop, offset, begun, connection, emitted>>
  BY DEF Stream!Listen, Stream!Leave, Stream!streamVars
<1>2. /\ emitted \in Seq(1..MaxUpdates) /\ listening \in [Clients -> 0..(MaxUpdates + 1)]
      /\ heard \in [Clients -> Seq(1..MaxUpdates)]
  BY DEF StreamIInv, Stream!TypeOK
<1>3. Len(emitted) \in Nat /\ Len(emitted) <= MaxUpdates /\ MaxUpdates \in Nat
  <2>1. MaxUpdates \in Nat /\ {offset, begun} \subseteq 0..MaxUpdates
    BY StreamAssumption DEF Stream!ConstantsAssumption, StreamIInv, Stream!TypeOK
  <2> QED BY <2>1, EmittedIsLong
<1>4. CASE Stream!Listen(c)
  <2>1. /\ heard[c] = <<>> /\ heard' = heard
        /\ listening' = [listening EXCEPT ![c] = Len(emitted) + 1]
    BY <1>4 DEF Stream!Listen
  <2>2. Len(emitted) + 1 \in 0..(MaxUpdates + 1)
    BY <1>3
  <2>3. SubSeq(emitted, Len(emitted) + 1, Len(emitted)) = <<>>
    BY <1>3, SubSeqEmpty
  <2>4. /\ listening' \in [Clients -> 0..(MaxUpdates + 1)]
        /\ \A d \in Clients :
             listening'[d] = IF d = c THEN Len(emitted) + 1 ELSE listening[d]
    BY <1>2, <2>1, <2>2
  <2>5. ASSUME NEW d \in Clients, listening'[d] # 0
        PROVE  /\ listening'[d] <= Len(emitted) + 1
               /\ heard'[d] = SubSeq(emitted, listening'[d], Len(emitted))
    <3>1. CASE d = c
      <4>1. listening'[d] = Len(emitted) + 1 /\ heard'[d] = <<>>
        BY <2>1, <2>4, <3>1
      <4> QED BY <1>3, <2>3, <4>1
    <3>2. CASE d # c
      BY <2>1, <2>4, <2>5, <3>2 DEF StreamIInv
    <3> QED BY <3>1, <3>2
  <2>6. Stream!TypeOK'
    BY <1>1, <2>4 DEF StreamIInv, Stream!TypeOK
  <2> QED BY <1>1, <2>1, <2>5, <2>6 DEF StreamIInv
<1>5. CASE Stream!Leave(c)
  <2>1. /\ listening' = [listening EXCEPT ![c] = 0] /\ heard' = [heard EXCEPT ![c] = <<>>]
    BY <1>5 DEF Stream!Leave
  <2>2. <<>> \in Seq(1..MaxUpdates)
    OBVIOUS
  <2>3. /\ listening' \in [Clients -> 0..(MaxUpdates + 1)]
        /\ heard' \in [Clients -> Seq(1..MaxUpdates)]
        /\ listening'[c] = 0
        /\ \A d \in Clients \ {c} : listening'[d] = listening[d] /\ heard'[d] = heard[d]
    BY <1>2, <1>3, <2>1, <2>2
  <2>4. Stream!TypeOK'
    BY <1>1, <2>3 DEF StreamIInv, Stream!TypeOK
  <2> QED BY <1>1, <2>3, <2>4 DEF StreamIInv
<1> QED BY <1>4, <1>5

LEMMA StreamGoesOn ==
  ASSUME StreamIInv, [Stream!Next]_streamVars
  PROVE  StreamIInv'
  BY QuietStep, ReadStep, ClientStep DEF Stream!Next

---------------------------------------------------------------------------
(* The cached contract of the platform.                                    *)

(* A contract is not known longer, to the cache or to a call, than it has  *)
(* been replaced.                                                          *)
KnownSince(cid, age) == cid \in DOMAIN replaced => replaced[cid] <= age

ConfigIInv ==
  /\ Config!TypeOK
  /\ KnownSince(configCache.cid, configCache.age)
  /\ \A w \in Rebalances : syncs[w].step = "answer" => KnownSince(syncs[w].cid, syncs[w].age)

SyncStates ==
  [step : {"idle", "query", "answer", "sync"}, cid : {0} \union Config!Contracts,
   age : Config!Ages]

LEMMA ConfigConstants == Ttl \in Nat \ {0} /\ MaxCapUpdates \in Nat
  BY ConfigAssumption DEF Config!ConstantsAssumption

LEMMA ConfigTypes ==
  ASSUME ConfigIInv
  PROVE  /\ replaced \in Seq(0..Ttl) /\ Len(replaced) <= MaxCapUpdates
         /\ Len(replaced) \in Nat /\ DOMAIN replaced = 1..Len(replaced)
         /\ \A k \in DOMAIN replaced : replaced[k] \in 0..Ttl
         /\ configCache \in [cid : {0} \union Config!Contracts, age : 0..Ttl]
         /\ syncs \in [Rebalances -> SyncStates]
         /\ \A w \in Rebalances : syncs[w] \in SyncStates /\ syncs[w].age \in 0..Ttl
         /\ configCache.age \in 0..Ttl
<1>1. /\ replaced \in Seq(0..Ttl) /\ Len(replaced) <= MaxCapUpdates
      /\ configCache \in [cid : {0} \union Config!Contracts, age : 0..Ttl]
      /\ syncs \in [Rebalances -> SyncStates]
  BY DEF ConfigIInv, Config!TypeOK, Config!Ages, SyncStates
<1>2. Len(replaced) \in Nat /\ DOMAIN replaced = 1..Len(replaced)
  BY <1>1
<1>3. \A k \in DOMAIN replaced : replaced[k] \in 0..Ttl
  <2>1. replaced \in Seq(0..Ttl)
    BY <1>1
  <2> QED BY <1>2, <2>1, ElementOfSeq
<1>4. \A w \in Rebalances : syncs[w] \in SyncStates /\ syncs[w].age \in 0..Ttl
  BY <1>1 DEF SyncStates, Config!Ages
<1>5. configCache.age \in 0..Ttl
  <2>1. configCache \in [cid : {0} \union Config!Contracts, age : 0..Ttl]
    BY <1>1
  <2> QED BY <2>1
<1> QED BY <1>1, <1>2, <1>3, <1>4, <1>5

LEMMA ConfigStart ==
  ASSUME Config!Init
  PROVE  ConfigIInv
<1>1. /\ replaced = <<>> /\ configCache = [cid |-> 0, age |-> Ttl]
      /\ syncs = [w \in Rebalances |-> [step |-> "idle", cid |-> 0, age |-> 0]]
  BY DEF Config!Init, Config!NoEntry, Config!Idle
<1>2. Config!TypeOK
  BY <1>1, ConfigConstants DEF Config!TypeOK, Config!Ages
<1> QED BY <1>1, <1>2 DEF ConfigIInv, KnownSince

LEMMA UpdateStep ==
  ASSUME ConfigIInv, Config!UpdateMaxPortfolioCC
  PROVE  ConfigIInv'
<1>1. /\ replaced' = Append(replaced, 0) /\ UNCHANGED <<configCache, syncs>>
      /\ Len(replaced) < MaxCapUpdates
  BY DEF Config!UpdateMaxPortfolioCC
<1>2. /\ replaced \in Seq(0..Ttl) /\ Len(replaced) \in Nat
      /\ configCache \in [cid : {0} \union Config!Contracts, age : 0..Ttl]
      /\ syncs \in [Rebalances -> SyncStates] /\ 0 \in 0..Ttl
  BY ConfigTypes, ConfigConstants
<1>3. /\ replaced' \in Seq(0..Ttl) /\ Len(replaced') = Len(replaced) + 1
      /\ \A k \in 1..Len(replaced) : replaced'[k] = replaced[k]
      /\ replaced'[Len(replaced) + 1] = 0
  BY <1>1, <1>2, AppendProperties
<1>4. /\ DOMAIN replaced = 1..Len(replaced)
      /\ DOMAIN replaced' = 1..(Len(replaced) + 1)
  BY <1>2, <1>3
<1>5. \A k \in DOMAIN replaced' :
        \/ k \in DOMAIN replaced /\ replaced'[k] = replaced[k]
        \/ replaced'[k] = 0
  BY <1>2, <1>3, <1>4
<1>6. configCache.age \in 0..Ttl /\ \A w \in Rebalances : syncs[w].age \in 0..Ttl
  BY ConfigTypes
<1>7. Config!TypeOK'
  BY <1>1, <1>2, <1>3, ConfigConstants
  DEF ConfigIInv, Config!TypeOK, Config!Ages, Config!Contracts
<1>8. \A cid, age : age \in 0..Ttl /\ KnownSince(cid, age) => KnownSince(cid, age)'
  BY <1>5 DEF KnownSince
<1> QED BY <1>1, <1>2, <1>6, <1>7, <1>8 DEF ConfigIInv

LEMMA TimeStep ==
  ASSUME ConfigIInv, Config!Tick
  PROVE  ConfigIInv'
<1> DEFINE older(n) == IF n < Ttl THEN n + 1 ELSE Ttl
<1>1. /\ replaced' = [k \in DOMAIN replaced |-> older(replaced[k])]
      /\ configCache' = [configCache EXCEPT !.age = older(@)]
      /\ syncs' = [w \in Rebalances |->
           IF syncs[w].step = "idle" THEN Config!Idle
           ELSE [syncs[w] EXCEPT !.age = older(@)]]
  BY DEF Config!Tick, Config!Older
<1>2. /\ replaced \in Seq(0..Ttl) /\ Len(replaced) \in Nat /\ DOMAIN replaced = 1..Len(replaced)
      /\ \A k \in DOMAIN replaced : replaced[k] \in 0..Ttl
      /\ configCache \in [cid : {0} \union Config!Contracts, age : 0..Ttl]
      /\ syncs \in [Rebalances -> SyncStates] /\ Ttl \in Nat
  BY ConfigTypes, ConfigConstants
<1>3. /\ \A n \in 0..Ttl : older(n) \in 0..Ttl
      /\ \A n, m \in 0..Ttl : n <= m => older(n) <= older(m)
  BY <1>2
<1> HIDE DEF older
<1>4. /\ replaced' \in Seq(0..Ttl) /\ Len(replaced') = Len(replaced)
      /\ DOMAIN replaced' = DOMAIN replaced
      /\ \A k \in DOMAIN replaced : replaced'[k] = older(replaced[k])
  <2>1. \A k \in 1..Len(replaced) : older(replaced[k]) \in 0..Ttl
    BY <1>2, <1>3
  <2>2. replaced' = [k \in 1..Len(replaced) |-> older(replaced[k])]
    BY <1>1, <1>2
  <2>3. [k \in 1..Len(replaced) |-> older(replaced[k])] \in Seq(0..Ttl)
    BY <1>2, <2>1, IsASeq
  <2> QED BY <1>2, <2>2, <2>3
<1>5. /\ configCache' \in [cid : {0} \union Config!Contracts, age : 0..Ttl]
      /\ configCache'.cid = configCache.cid /\ configCache'.age = older(configCache.age)
  BY <1>1, <1>2, <1>3
<1>6. ASSUME NEW w \in Rebalances
      PROVE  /\ syncs'[w] \in SyncStates
             /\ syncs'[w].step = "answer" =>
                  /\ syncs[w].step = "answer" /\ syncs'[w].cid = syncs[w].cid
                  /\ syncs'[w].age = older(syncs[w].age)
  <2>1. syncs[w] \in SyncStates /\ syncs[w].age \in 0..Ttl
    BY ConfigTypes
  <2>2. CASE syncs[w].step = "idle"
    BY <1>1, <1>2, <2>2 DEF SyncStates, Config!Idle, Config!Ages
  <2>3. CASE syncs[w].step # "idle"
    <3>1. syncs'[w] = [syncs[w] EXCEPT !.age = older(syncs[w].age)]
      BY <1>1, <2>3
    <3> QED BY <1>3, <2>1, <3>1 DEF SyncStates, Config!Ages
  <2> QED BY <2>2, <2>3
<1>8. syncs' \in [Rebalances -> SyncStates]
  BY <1>1, <1>6
<1>9. Config!TypeOK'
  BY <1>4, <1>5, <1>8 DEF ConfigIInv, Config!TypeOK, Config!Ages, SyncStates
<1>10. ASSUME NEW cid, NEW age \in 0..Ttl, KnownSince(cid, age)
       PROVE  cid \in DOMAIN replaced' => replaced'[cid] <= older(age)
  BY <1>2, <1>3, <1>4, <1>10 DEF KnownSince
<1>11. KnownSince(configCache.cid, configCache.age)'
  <2>1. KnownSince(configCache.cid, configCache.age) /\ configCache.age \in 0..Ttl
    BY ConfigTypes DEF ConfigIInv
  <2> QED BY <1>5, <1>10, <2>1 DEF KnownSince
<1>12. ASSUME NEW w \in Rebalances, syncs'[w].step = "answer"
       PROVE  KnownSince(syncs[w].cid, syncs[w].age)'
  <2>1. KnownSince(syncs[w].cid, syncs[w].age) /\ syncs[w].age \in 0..Ttl
    BY <1>6, <1>12, ConfigTypes DEF ConfigIInv
  <2> QED BY <1>6, <1>10, <1>12, <2>1 DEF KnownSince
<1> QED BY <1>9, <1>11, <1>12 DEF ConfigIInv

LEMMA SyncStep ==
  ASSUME ConfigIInv, NEW w \in Rebalances,
         \/ Config!FromCache(w) \/ Config!AskLedger(w) \/ Config!Query(w)
         \/ Config!Resolve(w) \/ Config!Done(w)
  PROVE  ConfigIInv'
<1> DEFINE cids == {0} \union Config!Contracts
<1>1. /\ UNCHANGED replaced /\ Ttl \in Nat
      /\ replaced \in Seq(0..Ttl) /\ Len(replaced) <= MaxCapUpdates
      /\ configCache \in [cid : cids, age : 0..Ttl]
      /\ syncs \in [Rebalances -> SyncStates] /\ syncs[w] \in SyncStates
      /\ syncs[w].age \in 0..Ttl
  BY ConfigTypes, ConfigConstants
  DEF Config!FromCache, Config!AskLedger, Config!Query, Config!Resolve, Config!Done
<1>2. /\ syncs' \in [Rebalances -> SyncStates]
      /\ \A v \in Rebalances \ {w} : syncs'[v] = syncs[v]
      /\ syncs'[w].step = "answer" => syncs'[w].cid \notin DOMAIN replaced
  <2>1. CASE Config!FromCache(w)
    <3>1. [step |-> "sync", cid |-> configCache.cid, age |-> 0] \in SyncStates
      BY <1>1 DEF SyncStates, Config!Ages
    <3> QED BY <1>1, <2>1, <3>1 DEF Config!FromCache
  <2>2. CASE Config!AskLedger(w)
    BY <1>1, <2>2 DEF Config!AskLedger, SyncStates
  <2>3. CASE Config!Query(w)
    <3>1. Config!Active = Len(replaced) + 1 /\ Len(replaced) \in Nat
          /\ DOMAIN replaced = 1..Len(replaced)
      BY ConfigTypes DEF Config!Active
    <3>2. Config!Active \in cids /\ Config!Active \notin DOMAIN replaced
      BY <1>1, <3>1, ConfigConstants DEF Config!Contracts
    <3> QED BY <1>1, <2>3, <3>2 DEF Config!Query, SyncStates
  <2>4. CASE Config!Resolve(w)
    BY <1>1, <2>4 DEF Config!Resolve, SyncStates
  <2>5. CASE Config!Done(w)
    <3>1. Config!Idle \in SyncStates /\ Config!Idle.step = "idle"
      BY <1>1 DEF SyncStates, Config!Idle, Config!Ages
    <3> QED BY <1>1, <2>5, <3>1 DEF Config!Done
  <2> QED BY <2>1, <2>2, <2>3, <2>4, <2>5
<1>3. /\ configCache' \in [cid : cids, age : 0..Ttl]
      /\ KnownSince(configCache.cid, configCache.age)'
  <2>1. CASE Config!Resolve(w)
    <3>1. /\ configCache' = [cid |-> syncs[w].cid, age |-> syncs[w].age]
          /\ KnownSince(syncs[w].cid, syncs[w].age)
      BY <2>1 DEF Config!Resolve, ConfigIInv
    <3> QED BY <1>1, <3>1 DEF SyncStates, KnownSince
  <2>2. CASE ~ Config!Resolve(w)
    <3>1. UNCHANGED configCache
      BY <2>2 DEF Config!FromCache, Config!AskLedger, Config!Query, Config!Done
    <3> QED BY <1>1, <3>1 DEF ConfigIInv, KnownSince
  <2> QED BY <2>1, <2>2
<1>4. Config!TypeOK'
  BY <1>1, <1>2, <1>3 DEF Config!TypeOK, Config!Ages, SyncStates
<1>5. ASSUME NEW v \in Rebalances, syncs'[v].step = "answer"
      PROVE  KnownSince(syncs[v].cid, syncs[v].age)'
  <2>1. CASE v = w
    BY <1>1, <1>2, <1>5, <2>1 DEF KnownSince
  <2>2. CASE v # w
    BY <1>1, <1>2, <1>5, <2>2 DEF KnownSince, ConfigIInv
  <2> QED BY <2>1, <2>2
<1> QED BY <1>3, <1>4, <1>5 DEF ConfigIInv

LEMMA ConfigGoesOn ==
  ASSUME ConfigIInv, [Config!Next]_configVars
  PROVE  ConfigIInv'
<1>1. CASE UNCHANGED configVars
  BY <1>1 DEF configVars, ConfigIInv, Config!TypeOK, KnownSince
<1>2. CASE Config!Next
  BY <1>2, UpdateStep, TimeStep, SyncStep DEF Config!Next
<1> QED BY <1>1, <1>2

---------------------------------------------------------------------------
(* The parts together.  Each keeps its invariant, since the steps of the   *)
(* others leave its state alone.                                           *)

PartsIInv == BreakerIInv /\ TriggersIInv /\ ListingIInv /\ StreamIInv /\ ConfigIInv

LEMMA PartsStart == ResilienceInit => PartsIInv
  BY BreakerStarts, TriggersStart, ListingStart, StreamStart, ConfigStart
  DEF ResilienceInit, PartsIInv

LEMMA PartsStep ==
  [ResilienceNext]_resilienceVars =>
    /\ [Next]_vars /\ [Triggers!Next]_triggerVars /\ [Listings!Next]_listingVars
    /\ [Stream!Next]_streamVars /\ [Config!Next]_configVars
  BY DEF ResilienceNext, resilienceVars

LEMMA PartsGoOn == PartsIInv /\ [ResilienceNext]_resilienceVars => PartsIInv'
<1> SUFFICES ASSUME PartsIInv, [ResilienceNext]_resilienceVars
             PROVE  PartsIInv'
  OBVIOUS
<1>1. BreakerIInv'
  BY PartsStep, BreakerGoesOn DEF PartsIInv
<1>2. TriggersIInv'
  BY PartsStep, TriggersGoOn DEF PartsIInv
<1>3. ListingIInv'
  BY PartsStep, ListingGoesOn DEF PartsIInv
<1>4. StreamIInv'
  BY PartsStep, StreamGoesOn DEF PartsIInv
<1>5. ConfigIInv'
  BY PartsStep, ConfigGoesOn DEF PartsIInv
<1> QED BY <1>1, <1>2, <1>3, <1>4, <1>5 DEF PartsIInv

LEMMA PartsInvariance == ResilienceSpec => []PartsIInv
  BY PartsStart, PartsGoOn, PTL DEF ResilienceSpec

(* Every variable of the parts keeps its type.                             *)
THEOREM ResilienceTypes == ResilienceSpec => []TypesOK
<1>1. PartsIInv => TypesOK
  BY TriggersAreTyped
  DEF PartsIInv, BreakerIInv, ListingIInv, StreamIInv, ConfigIInv, TypesOK
<1> QED BY <1>1, PartsInvariance, PTL

(* A listing that ends is not cut off, the stream emits every update once  *)
(* and in order to all who listen, however often the connection breaks,    *)
(* and a cached contract was not replaced longer ago than its entry is old *)
(* (ledger.ts, transaction-stream.ts and roil-config.ts).                  *)
THEOREM ReadingIsExact == ResilienceSpec => []ReadsAreExact
<1>1. PartsIInv => ReadsAreExact
  BY DEF PartsIInv, ListingIInv, StreamIInv, ConfigIInv, KnownSince, ReadsAreExact,
         Stream!EventsAreExact, Config!StaleIdsExpire
<1> QED BY <1>1, PartsInvariance, PTL

(* A portfolio is only brought back to its targets while its owner has it  *)
(* in automatic mode, though that was read a jitter ago                    *)
(* (trigger-manager.ts, handlePortfolioRebalance).                         *)
THEOREM OnlyAutomatic == ResilienceSpec => ActsOnWhatItSaw
<1> DEFINE Acts == \A p \in Portfolios :
                     ledger[p].drifted /\ ~ledger'[p].drifted /\ changes' = changes
                       => ledger[p].auto
<1>1. PartsIInv /\ [ResilienceNext]_resilienceVars => [Acts]_(Triggers!vars)
  BY PartsStep, ActsOnContracts DEF PartsIInv
<1>2. ResilienceSpec => [][Acts]_(Triggers!vars)
  BY <1>1, PartsInvariance, PTL DEF ResilienceSpec
<1> QED BY <1>2 DEF ActsOnWhatItSaw, Triggers!ActsOnWhatItSaw
===========================================================================
