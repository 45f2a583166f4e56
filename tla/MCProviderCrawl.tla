--------------------------- MODULE MCProviderCrawl ---------------------------
(***************************************************************************)
(* ProviderCrawl on small timetables: each pairs the sessions that one of  *)
(* the parsers could confuse.                                              *)
(***************************************************************************)
EXTENDS ProviderCrawl

CONSTANTS v1, v2

Session(venue, court, activity, day, start, len) ==
  [venue |-> venue, court |-> court, activity |-> activity, day |-> day, start |-> start,
   len |-> len, blocked |-> FALSE]
Blocked(s) == [s EXCEPT !.blocked = TRUE]

First == Session(v1, 1, "main", 4, 2, 1)

\* What it is paired with, free or full: another court at the same time, the next
\* hour, another activity.
Neighbours ==
  {Session(v1, 2, "main", 4, 2, 1), Session(v1, 1, "main", 4, 3, 1),
   Session(v1, 2, "second", 4, 2, 1)}

\* And free: another court of the same hall, a longer booking, the last hour of
\* the day, the next day, its first hour, that of the day after the crawl's,
\* another sport, the other venue, its own activity, what the web cannot book.
Strangers ==
  {Session(v1, 3, "main", 4, 2, 1), Session(v1, 3, "main", 4, 3, 2),
   Session(v1, 1, "main", 4, 5, 1), Session(v1, 1, "main", 5, 2, 1),
   Session(v1, 1, "main", 5, 0, 1), Session(v1, 1, "main", 6, 0, 1),
   Session(v1, 2, "other", 4, 2, 1), Session(v2, 1, "main", 4, 2, 1),
   Session(v2, 1, "special", 5, 3, 1), Blocked(Session(v1, 2, "main", 4, 2, 1))}

\* A slot without a price between one of its venue and one of another that have.
Trio == {Session(v1, 1, "main", 4, 3, 1), Session(v2, 1, "main", 4, 2, 1)}

MCTimetables ==
  {(First :> 1) @@ (s :> n) : s \in Neighbours, n \in {0, 2}}
    \cup {(First :> 1) @@ (s :> 2) : s \in Strangers}
    \cup {(First :> 1) @@ [s \in Trio |-> 2]}

\* Both venues publish a price for the second hour only.
MCTariff ==
  [v \in Venues |-> [h \in 0..HoursPerDay - 1 |->
     IF h # 2 THEN NoPrice ELSE IF v = v1 THEN 2 ELSE 8]]

MCVenueKeys   == <<v1, v2>>
MCNamesWithin == [v \in Venues |-> IF v = v1 THEN {v1, v2} ELSE {v2}]
MCSearchDates == {4, 5}

\* Those left out share the parser of one that is here, and send its requests,
\* or those of fewer activities.
MCCrawlers == DOMAIN CrawlerNamed \
  {"betterSquash", "betterPickleball", "betterTennis", "haringey",
   "lambethBadminton", "lambethSquash", "visionSquash", "southwarkPickleball",
   "mytimeSquash", "placesPickleball", "playtomicTennis", "playtomicPickleball"}
=============================================================================
