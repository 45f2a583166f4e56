---------------------------- MODULE MCCrawlFetch ----------------------------
(***************************************************************************)
(* CrawlFetch for a provider with a handful of interchangeable requests.   *)
(***************************************************************************)
EXTENDS CrawlFetch, TLC

RequestSymmetry == Permutations(Requests)
=============================================================================
