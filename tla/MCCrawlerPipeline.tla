-------------------------- MODULE MCCrawlerPipeline --------------------------
(***************************************************************************)
(* CrawlerPipeline on small sets of providers.                             *)
(***************************************************************************)
EXTENDS CrawlerPipeline, TLC

CONSTANTS better, plain, th, s1, s2

MCSessions   == {s1, s2}
UuidSymmetry == Permutations(Uuids)
MCEntries    == [slot : Slots, spaces : 0..MaxSpaces, request : Activities]

\* A Better venue with a 40 and a 60 minute activity, each with its sessions,
\* and a venue with a single request.
UpsertVenues == {better, plain}
UpsertLists ==
  [va \in UpsertVenues \X Activities |->
     CASE va = <<better, 1>> -> {s1}
       [] va = <<better, 2>> -> {s2}
       [] va = <<plain, 1>>  -> {s1}
       [] OTHER              -> {}]

\* The badminton table: a venue that is upserted and one that is reloaded, whose
\* two activities both list the first session.
BothVenues == {plain, th}
BothLists ==
  [va \in BothVenues \X Activities |->
     CASE va = <<plain, 1>> -> {s1}
       [] va = <<th, 1>>    -> {s1}
       [] va = <<th, 2>>    -> {s1, s2}
       [] OTHER             -> {}]

NoVenues == {}
ThVenues == {th}
=============================================================================
