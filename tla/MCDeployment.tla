---------------------------- MODULE MCDeployment ----------------------------
(***************************************************************************)
(* A release to the present head 9, with two tools of the catalog before   *)
(* and one that 0009 adds.                                                 *)
(***************************************************************************)
EXTENDS Deployment

MCOldTools == {"url_status", "url_links"}
MCNewTools == {"url_tables"}
=============================================================================
