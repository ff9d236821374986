------------------------------ MODULE MCFetcher ------------------------------
(***************************************************************************)
(* An instance of Fetcher for TLC: two names, public and private addresses *)
(* and URLs that the guard refuses each for another reason.                *)
(***************************************************************************)
EXTENDS Fetcher

CONSTANTS site, other, public1, public2, private

Https(host, kind, port) ==
    [scheme |-> "https", credentials |-> FALSE, host |-> host, kind |-> kind, port |-> port]

Site == Https(site, "name", 443)
All ==
    {Site, Https(other, "name", 443), Https(private, "literal", 443),
     Https(site, "name", 8080), Https(site, "local", 443),
     [Site EXCEPT !.credentials = TRUE], [Site EXCEPT !.scheme = "other"]}
=============================================================================
