--------------------------- MODULE MCIdempotency ---------------------------
(* Small instances of Idempotency.                                         *)
EXTENDS Idempotency

CONSTANTS r1, r2, r3, k1, k2
===========================================================================
