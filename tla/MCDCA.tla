------------------------------- MODULE MCDCA -------------------------------
(* Small instances of DCA.                                                 *)
EXTENDS DCA

CONSTANTS s1, s2, t1, t2

(* Temple is real and Cantex has no sidecar: every kind of answer occurs.  *)
CantexIsMocked == {{"cantex"}}

AllReal == {{}}

OneAttempt == [cantex |-> 1, temple |-> 1]
===========================================================================
