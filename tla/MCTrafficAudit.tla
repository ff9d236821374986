--------------------------- MODULE MCTrafficAudit ---------------------------
(***************************************************************************)
(* Two calls with one of two payments, one of them the owner's.            *)
(***************************************************************************)
EXTENDS TrafficAudit, TLC

CONSTANTS c1, c2, p1, p2

TwoCalls == {c1, c2}
TwoPayments == {p1, p2}
Owners == {p2}

Asks(via, client, referral, claims, sends) ==
    [via |-> via, client |-> client, referral |-> referral, claims |-> claims, sends |-> sends]

\* One payment over two ways, the other of the owner, and those who send none.
Mixed ==
    {Asks(via, "visitor", "direct", FALSE, p1) : via \in {"rest", "mcp"}}
    \cup {Asks(via, "owner", "direct", FALSE, p2) : via \in {"browser", "mcp"}}
    \cup {Asks("mcp", "visitor", "smithery", TRUE, "nothing"), Asks("rest", "visitor", "direct", TRUE, p1),
          Asks("rest", "smoke", "direct", FALSE, "nothing"),
          Asks("list", "visitor", "direct", FALSE, "nothing")}
    \cup {Asks(via, "visitor", "direct", FALSE, "garbage") : via \in {"rest", "mcp"}}

Symmetry == Permutations(TwoCalls)
=============================================================================
