---------------------------- MODULE MCRebalance ----------------------------
(* Small instances of Rebalance.                                           *)
EXTENDS Rebalance

CONSTANTS w1, w2, u1

(* Two assets: everything in the first, to be split evenly.                *)
OneSided == {<<6, 0>>}
Even == {<<3, 3>>}

(* Three assets: two legs, so that a rebalance can stop half way.  The     *)
(* whole of the first asset moves, so that a leg executed twice leaves too *)
(* little for the other one.                                               *)
OneSided3 == {<<4, 0, 0>>}
Moved3 == {<<0, 2, 2>>}

(* Both venues are real, or Temple has no key.                             *)
TempleMayBeMocked == {{}, {"temple"}}

AllReal == {{}}

(* cantex-sidecar.ts: maxRetries 1; temple-client.ts: maxRetries 2.        *)
AttemptsOfTheCode == [cantex |-> 2, temple |-> 3]

FewAttempts == [cantex |-> 2, temple |-> 1]
===========================================================================
