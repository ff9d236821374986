---------------------------- MODULE MCPricePromo ----------------------------
(***************************************************************************)
(* An instance of PricePromo for TLC: prices 2 and 4 with floor 2 and 3, a *)
(* promotion at 1, below both floors; a request, a batch and a page all    *)
(* ask about the tool whose price is also kept in a legacy setting.        *)
(***************************************************************************)
EXTENDS PricePromo

CONSTANTS t1, t2, b1

OneTool == [s \in Requests \cup Pages |-> t1]
Units == [r \in Requests |-> IF r = b1 THEN 2 ELSE 1]

BasePrices == [t \in Tools |-> IF t = t1 THEN 2 ELSE 4]
Floors == [t \in Tools |-> IF t = t1 THEN 2 ELSE 3]
=============================================================================
