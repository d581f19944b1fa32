-------------------------- MODULE MCTreasurySwap --------------------------
(* Small instances of TreasurySwap.                                        *)
EXTENDS TreasurySwap

CONSTANTS cc, usdc, u1, u2, c1, c2

(* The price of cc jumps by half, or stays.                                *)
Stable == [a \in Assets |-> IF a = cc THEN 2 ELSE 1]
Jumped == [a \in Assets |-> IF a = cc THEN 3 ELSE 1]
MCMarkets == {Stable, Jumped}
StableMarket == {Stable}

(* Enough of usdc for one swap of two cc, not for two.                     *)
MCBalances == [a \in Assets |-> IF a = cc THEN 2 ELSE 6]

(* Enough for every swap.                                                 *)
RichBalances == [a \in Assets |-> 10]
===========================================================================
