---------------------------- MODULE MCBuyerBridge ----------------------------
(***************************************************************************)
(* An instance of BuyerBridge for TLC: a capped automatic bridge beside    *)
(* manual ones on the same ledger file.                                    *)
(***************************************************************************)
EXTENDS BuyerBridge

CONSTANTS c1

OneAuto == [c \in PaidCalls |-> IF c = c1 THEN "auto" ELSE "manual"]
=============================================================================
