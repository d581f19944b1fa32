------------------------- MODULE MCCircuitBreaker -------------------------
(* A small instance of CircuitBreaker.                                     *)
EXTENDS CircuitBreaker

CONSTANTS c1, c2, c3
===========================================================================
