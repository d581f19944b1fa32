---------------------------- MODULE ServiceGate ----------------------------
(***************************************************************************)
(* What a circuit breaker promises its callers, without its counters: it   *)
(* changes mode only on the outcome of a call that it still counts (or to  *)
(* probe, or by force); each change of mode disowns every call in flight;  *)
(* and outside mode "closed" it counts at most one call at a time.         *)
(***************************************************************************)
CONSTANT Callers

VARIABLES
  mode,   \* the state callers see
  calls   \* the call each caller has in flight, if any

vars == <<mode, calls>>

Modes == {"closed", "open", "half-open"}

Counted == {c \in Callers : calls[c] = "counted"}

(* Every call in flight is disowned, except that d's becomes what.         *)
DisownAllBut(d, what) ==
  calls' = [c \in Callers |-> IF c = d THEN what
                              ELSE IF calls[c] = "none" THEN "none"
                              ELSE "disowned"]

Init ==
  /\ mode = "closed"
  /\ calls = [c \in Callers |-> "none"]

Pass(c) ==
  /\ mode = "closed"
  /\ calls[c] = "none"
  /\ calls' = [calls EXCEPT ![c] = "counted"]
  /\ UNCHANGED mode

Probe(c) ==
  /\ mode # "closed"
  /\ calls[c] = "none"
  /\ Counted = {}
  /\ mode' = "half-open"
  /\ DisownAllBut(c, "counted")

(* A disowned call returns: nobody notices.                                *)
ReturnDisowned(c) ==
  /\ calls[c] = "disowned"
  /\ calls' = [calls EXCEPT ![c] = "none"]
  /\ UNCHANGED mode

Return(c) ==
  /\ calls[c] = "counted"
  /\ \/ /\ calls' = [calls EXCEPT ![c] = "none"]
        /\ UNCHANGED mode
     \/ /\ <<mode, mode'>> \in {<<"closed", "open">>, <<"half-open", "open">>,
                                <<"half-open", "closed">>}
        /\ DisownAllBut(c, "none")

Force ==
  /\ mode' = "closed"
  /\ calls' = [c \in Callers |-> IF calls[c] = "none" THEN "none"
                                 ELSE "disowned"]

Next ==
  \/ \E c \in Callers : Pass(c) \/ Probe(c) \/ ReturnDisowned(c) \/ Return(c)
  \/ Force

Spec == Init /\ [][Next]_vars
===========================================================================
