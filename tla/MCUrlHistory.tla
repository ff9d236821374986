---------------------------- MODULE MCUrlHistory ----------------------------
(***************************************************************************)
(* An instance of UrlHistory for TLC: a batch, whose two URLs are two      *)
(* spellings of one page (distinct_urls compares them before they are      *)
(* normalized), beside a fresh url_diff that shares its artifacts, and a   *)
(* url_changed of the same page. The two comparisons may overlap, and hash *)
(* two texts.                                                              *)
(***************************************************************************)
EXTENDS UrlHistory, TLC

CONSTANTS u1, c1, c2, c3

Mixed == c1 :> "batch" @@ c2 :> "url_diff" @@ c3 :> "changed"
TwoSpellings == [c \in Calls |-> IF c = c1 THEN <<u1, u1>> ELSE <<u1>>]
=============================================================================
