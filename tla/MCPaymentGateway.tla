-------------------------- MODULE MCPaymentGateway --------------------------
(***************************************************************************)
(* Instances of PaymentGateway for TLC.  Calls, ids, requests and          *)
(* authorizations are model values; what clients sign is chosen here.      *)
(***************************************************************************)
EXTENDS PaymentGateway, TLC

CONSTANTS p1, p2, a1, a2

\* Clients that may send any authorization under any id.
AnyAuth == [p \in PaymentIds |-> Auths]

\* Clients that sign once per id, as catalog/x402-payment-flow.md asks.
SignOnce == p1 :> {a1} @@ p2 :> {a2}

\* One price for everything, and a price that changed between two signatures.
OnePrice == [a \in Auths |-> 1]
TwoPrices == [a \in Auths |-> IF a = a1 THEN 1 ELSE 2]

RaceSymmetry == Permutations(Calls) \cup Permutations(PaymentIds) \cup Permutations(Fingerprints) \cup Permutations(Auths)
=============================================================================
