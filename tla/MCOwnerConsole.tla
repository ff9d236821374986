--------------------------- MODULE MCOwnerConsole ---------------------------
(***************************************************************************)
(* An instance of OwnerConsole for TLC: two settings that the preset       *)
(* "safe" changes one after the other, and one that it leaves alone; one   *)
(* typed value.                                                            *)
(***************************************************************************)
EXTENDS OwnerConsole, TLC

Symmetry == Permutations(Tokens) \cup Permutations(Undos)
=============================================================================
