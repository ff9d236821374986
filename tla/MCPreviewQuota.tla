--------------------------- MODULE MCPreviewQuota ---------------------------
(***************************************************************************)
(* An instance of PreviewQuota for TLC: an hour of one tick, a day of two  *)
(* hours; live demos and previews of one client, a preview of another.     *)
(***************************************************************************)
EXTENDS PreviewQuota, TLC

CONSTANTS a, b, t1, t2, t3

TwoClients == [r \in Requests |-> IF r = t3 THEN b ELSE a]

Symmetry == Permutations(Live) \cup Permutations({t1, t2})
=============================================================================
