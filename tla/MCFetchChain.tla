----------------------------- MODULE MCFetchChain -----------------------------
(***************************************************************************)
(* FetchChain on three requests, two of them of one venue.                 *)
(***************************************************************************)
EXTENDS FetchChain

CONSTANTS r1, r2, r3

MCVenueOf  == [r \in Requests |-> IF r = r3 THEN "other" ELSE "club"]
MCCrawlers == DOMAIN CrawlerNamed
=============================================================================
