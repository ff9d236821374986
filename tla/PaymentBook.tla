----------------------------- MODULE PaymentBook -----------------------------
(***************************************************************************)
(* What the payment gateway promises about a payment identifier, without   *)
(* calls, sessions, quotas or a facilitator: an identifier is opened once, *)
(* for one request; at most once it becomes settled, with one on-chain     *)
(* transfer that backs no other entry; and a settled entry is final, which *)
(* is what lets a later call be answered from it.                          *)
(***************************************************************************)
CONSTANTS PaymentIds, Fingerprints, Auths, None

VARIABLES
    book,  \* the entry of each payment identifier
    moved  \* authorizations whose money has moved on chain

vars == <<book, moved>>

Free == [state |-> "free", fp |-> None, tx |-> None]
Open(f) == [state |-> "open", fp |-> f, tx |-> None]
Settled(f, a) == [state |-> "settled", fp |-> f, tx |-> a]

Init ==
    /\ book = [p \in PaymentIds |-> Free]
    /\ moved = {}

OpenEntry(p, f) ==
    /\ book[p] = Free
    /\ book' = [book EXCEPT ![p] = Open(f)]
    /\ UNCHANGED moved

Move(a) ==
    /\ a \notin moved
    /\ moved' = moved \cup {a}
    /\ UNCHANGED book

SettleEntry(p, a) ==
    /\ book[p].state = "open"
    /\ a \in moved
    /\ \A q \in PaymentIds : book[q].tx # a
    /\ book' = [book EXCEPT ![p] = Settled(@.fp, a)]
    /\ UNCHANGED moved

Next ==
    \/ \E p \in PaymentIds, f \in Fingerprints : OpenEntry(p, f)
    \/ \E a \in Auths : Move(a)
    \/ \E p \in PaymentIds, a \in Auths : SettleEntry(p, a)

Spec == Init /\ [][Next]_vars
=============================================================================
