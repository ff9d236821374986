---------------------------- MODULE SpendPromise ----------------------------
(***************************************************************************)
(* What the buyer bridge promises its user about one fingerprint (a tool,  *)
(* its input and its price): at most one payment is open at a time, money  *)
(* moves only for an open payment and once for each, and only a confirmed  *)
(* payment makes room for the next.  A payment with an unknown outcome is  *)
(* simply never confirmed, so the fingerprint stays closed for good.       *)
(***************************************************************************)
CONSTANTS Fingerprints, Entries, None

VARIABLES
    open,      \* the open payment of each fingerprint
    used,      \* entries that have been opened
    charged,   \* entries whose money has moved
    confirmed  \* entries confirmed to the user

vars == <<open, used, charged, confirmed>>

Init ==
    /\ open = [f \in Fingerprints |-> None]
    /\ used = {}
    /\ charged = {}
    /\ confirmed = {}

Start(f, e) ==
    /\ open[f] = None
    /\ e \notin used
    /\ open' = [open EXCEPT ![f] = e]
    /\ used' = used \cup {e}
    /\ UNCHANGED <<charged, confirmed>>

Charge(e) ==
    /\ \E f \in Fingerprints : open[f] = e
    /\ e \notin charged
    /\ charged' = charged \cup {e}
    /\ UNCHANGED <<open, used, confirmed>>

Confirm(f) ==
    /\ open[f] \in charged
    /\ confirmed' = confirmed \cup {open[f]}
    /\ open' = [open EXCEPT ![f] = None]
    /\ UNCHANGED <<used, charged>>

Next ==
    \/ \E f \in Fingerprints, e \in Entries : Start(f, e)
    \/ \E e \in Entries : Charge(e)
    \/ \E f \in Fingerprints : Confirm(f)

Spec == Init /\ [][Next]_vars
=============================================================================
