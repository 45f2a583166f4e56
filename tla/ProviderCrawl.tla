---------------------------- MODULE ProviderCrawl ----------------------------
(***************************************************************************)
(* One crawl of one provider, from the requests its scraper generates to   *)
(* the slots the pipeline stores: requests are answered in any order, some *)
(* fail or come back garbled, and members go on booking while the crawl    *)
(* runs.  CrawlFetch and FetchChain model how one request is sent and      *)
(* retried; here a request is either answered or lost.                     *)
(***************************************************************************)
EXTENDS ProviderParsers

CONSTANTS
  Crawlers,      \* the names of the crawlers the instance looks at
  DefaultPrice,  \* _DEFAULT_ESTIMATED_PRICE_PER_SPORT
  MaxEvents,     \* bound on the bookings and cancellations during the crawl
  MaxFaults      \* bound on the requests that fail or are garbled

VARIABLES
  crawler,   \* which crawler runs
  delta,     \* how many days ahead it looks
  pending,   \* requests not answered yet
  listings,  \* all_slots: what the parsers have returned so far
  lost,      \* requests that failed or were garbled
  prices,    \* twice the price of each listing, once they have been filled in
  most,      \* the most places each session has had during the crawl,
  least,     \* and the fewest
  events

crawl == <<crawler, delta>>
vars == <<platform, crawl, pending, listings, lost, prices, most, least, events>>

CrawlerNamed ==
  [betterBadminton |-> BetterBadminton, betterSquash |-> BetterSquash,
   betterPickleball |-> BetterPickleball, betterTennis |-> BetterTennis,
   lambethBadminton |-> ActiveLambethBadminton, lambethSquash |-> ActiveLambethSquash,
   haringey |-> HaringeyBadminton,
   visionBadminton |-> VisionRclBadminton, visionSquash |-> VisionRclSquash,
   eaBadminton |-> EveryoneActiveBadminton, eaSquash |-> EveryoneActiveSquash,
   southwarkBadminton |-> SouthwarkBadminton, southwarkPickleball |-> SouthwarkPickleball,
   citysports |-> CitySportsBadminton, uel |-> UelBadminton,
   mytimeBadminton |-> MytimeBadminton, mytimeSquash |-> MytimeSquash,
   towerhamlets |-> TowerHamletsBadminton, decathlon |-> DecathlonPickleball,
   placesBadminton |-> PlacesBadminton, placesPickleball |-> PlacesPickleball,
   playtomicPadel |-> PlaytomicPadel, playtomicTennis |-> PlaytomicTennis,
   playtomicPickleball |-> PlaytomicPickleball, courtreserve |-> CourtReservePickleball,
   matchiPadel |-> MatchiPadel, matchiTennis |-> MatchiTennis,
   padelmates |-> PadelMatesPadel, stratford |-> StratfordPadel, clubspark |-> ClubSparkTennis]

ASSUME CrawlersAssumption == Crawlers \subseteq DOMAIN CrawlerNamed
ASSUME DefaultAssumption == DefaultPrice \in Nat
ASSUME BoundsAssumption == MaxEvents \in Nat /\ MaxFaults \in Nat

\* What Matchi and Places Leisure rely on: the sessions of one activity that start
\* together at a venue, for Places Leisure in one hall, end together.  Matchi shows
\* one panel for a start, Places Leisure is asked for a start and a hall once, and
\* either gives it one end.
ASSUME OneEndAssumption ==
  \A t \in Timetables : \A s1, s2 \in DOMAIN t :
    (/\ s1.venue = s2.venue /\ s1.activity = s2.activity
     /\ s1.day = s2.day /\ s1.start = s2.start
     /\ \/ Crawlers \cap {"matchiPadel", "matchiTennis"} # {}
        \/ /\ Crawlers \cap {"placesBadminton", "placesPickleball"} # {}
           /\ Hall(s1.court) = Hall(s2.court)) => s1.len = s2.len

This == CrawlerNamed[crawler]
Done == pending = {}

Init ==
  /\ PlatformInit
  /\ crawler \in Crawlers
  /\ delta \in DOMAIN This.requests
  /\ pending = This.requests[delta]
  /\ listings = {} /\ lost = {}
  /\ prices = << >>
  /\ most = places /\ least = places
  /\ events = 0

-----------------------------------------------------------------------------
\* ordered[k]: the price with k prices or fewer below it, more than k up to it.
Ordered(slots, k) ==
  CHOOSE p \in {l.price : l \in slots} :
    /\ Cardinality({l \in slots : l.price < p}) <= k
    /\ k < Cardinality({l \in slots : l.price <= p})

\* _median, doubled.
Median(slots) ==
  LET mid == Cardinality(slots) \div 2
  IN  IF Cardinality(slots) % 2 = 1 THEN 2 * Ordered(slots, mid)
      ELSE Ordered(slots, mid - 1) + Ordered(slots, mid)

Known(slots)          == {l \in slots : l.price # NoPrice}
KnownAt(venue, slots) == {l \in Known(slots) : l.venue = venue}

\* Mutant: a venue's own prices are not looked at first.
SportPrices(slots) ==
  [l \in slots |->
     IF l.price # NoPrice THEN 2 * l.price
     ELSE IF Known(slots) # {} THEN Median(Known(slots))
     ELSE 2 * DefaultPrice]

FillEstimatedPrices(slots) ==
  [l \in slots |->
     IF l.price # NoPrice THEN 2 * l.price
     ELSE IF KnownAt(l.venue, slots) # {} THEN Median(KnownAt(l.venue, slots))
     ELSE IF Known(slots) # {} THEN Median(Known(slots))
     ELSE 2 * DefaultPrice]

\* Mutant: prices are filled in while requests are still out.
CollectUnpriced(r, slots, next) ==
  /\ pending' = (pending \ {r}) \cup next
  /\ listings' = listings \cup slots
  /\ prices' = FillEstimatedPrices(listings)
  /\ UNCHANGED <<platform, crawl, most, least, events>>

Collect(r, slots, next) ==
  /\ pending' = (pending \ {r}) \cup next
  /\ listings' = listings \cup slots
  /\ prices' = IF pending' = {} THEN FillEstimatedPrices(listings') ELSE prices
  /\ UNCHANGED <<platform, crawl, most, least, events>>

\* A request is answered and parsed.
Answered(r) ==
  /\ r \in pending
  /\ LET S == Answer(This.api, r) IN
       IF This.api = "places" /\ r.start = Anytime
       THEN Collect(r, {}, ScheduledRequests(r, S))
       ELSE Collect(r, Parse(This, r, S), {})
  /\ UNCHANGED lost

\* The request has failed for good: an error status, a lost connection.
Fails(r) ==
  /\ r \in pending /\ Cardinality(lost) < MaxFaults
  /\ lost' = lost \cup {r}
  /\ Collect(r, {}, {})

\* It was answered by a page that is not the JSON asked for.
Garbled(r) ==
  /\ r \in pending /\ Cardinality(lost) < MaxFaults
  /\ lost' = lost \cup {r}
  /\ Collect(r, ParseGarbled(This, r), {})

\* CourtReserve's answers are parsed when the last has come, outside what catches
\* the errors of its requests: one event whose date cannot be read ends the crawl,
\* with all that it asked for.
ParseRaises(r) ==
  /\ This.api = "courtreserve" /\ pending = {r} /\ Cardinality(lost) < MaxFaults
  /\ pending' = {} /\ listings' = {}
  /\ lost' = lost \cup {Request(Venues, SearchDates, Activities)}
  /\ prices' = FillEstimatedPrices({})
  /\ UNCHANGED <<platform, crawl, most, least, events>>

MembersAct ==
  /\ ~Done /\ events < MaxEvents
  /\ events' = events + 1
  /\ \E s \in Sessions : Book(s) \/ Cancel(s)
  /\ most' = [s \in Sessions |-> Max({most[s], places'[s]})]
  /\ least' = [s \in Sessions |-> Min({least[s], places'[s]})]
  /\ UNCHANGED <<crawl, pending, listings, lost, prices>>

Next ==
  \/ \E r \in pending : Answered(r) \/ Fails(r) \/ Garbled(r) \/ ParseRaises(r)
  \/ MembersAct

Spec == Init /\ [][Next]_vars

-----------------------------------------------------------------------------
TypeOK ==
  /\ summer \in {0, 1} /\ places \in [Sessions -> 0..MaxPlaces]
  /\ crawler \in Crawlers /\ delta \in DOMAIN This.requests
  /\ \A l \in listings :
       /\ l.venue \in Venues /\ l.date \in Nat /\ l.spaces \in Nat
       /\ l.start \in 0..HoursPerDay - 1 /\ l.end \in 0..HoursPerDay - 1
       /\ l.price \in Nat \cup {NoPrice}
  /\ Done => DOMAIN prices = listings
  /\ events \in 0..MaxEvents /\ Cardinality(lost) <= MaxFaults

(* What the providers really sell (external): which sessions are the        *)
(* sport's, can be booked on the web, and are at a venue the crawler knows. *)
SoldAs(venue) ==
  IF /\ crawler \in {"betterBadminton", "betterSquash", "betterPickleball", "betterTennis"}
     /\ venue \in SpecialVenues
  THEN {"special"}
  ELSE CASE crawler \in {"betterBadminton", "betterPickleball", "lambethBadminton", "visionSquash",
                          "towerhamlets", "decathlon", "placesBadminton", "placesPickleball"} ->
              {"main", "second"}
         [] crawler = "stratford" -> Activities
         [] crawler = "courtreserve" -> Activities \ {"other"}
         [] OTHER -> {"main"}

KnowsVenue(venue) ==
  venue \in Mapped \/ This.api \in {"better", "citysports", "uel", "decathlon", "courtreserve",
                                    "stratford", "clubspark"}

OnSale == {s \in Sessions : /\ s.activity \in SoldAs(s.venue) /\ KnowsVenue(s.venue)
                            /\ s.blocked => This.api \notin {"mytime", "towerhamlets", "padelmates"}
                            /\ This.api = "stratford" => InGrid(s)}

\* The date a session is found under: its own.  But three of the platforms are
\* asked for a day of UTC, and the answer is filed under that day: in summer the
\* session at midnight is the last of the day before.
FiledUnder(s) ==
  IF This.api \in {"everyoneactive", "southwark", "playtomic"} /\ s.start < summer
  THEN s.day - 1 ELSE s.day

\* Some crawlers count courts, the others add up places.
Spaces(n) ==
  IF This.api \in {"towerhamlets", "places", "playtomic", "matchi", "padelmates", "clubspark"}
  THEN Min({n, 1}) ELSE n
SpacesAt(count) == [s \in Sessions |-> Spaces(count[s])]

\* The sessions a listing is about.
About(l) ==
  {s \in OnSale :
     /\ s.venue = l.venue /\ FiledUnder(s) = l.date /\ s.start = l.start /\ EndHour(s) = l.end
     /\ <<s.activity, s.court>> \in l.of}

\* NothingInvented: no slot is offered with more spaces than its sessions have
\* had at some time during the crawl, and a free interval of a Stratford court
\* never covers an hour that was taken all along.  Date windows, titles, courts,
\* categories and the clocks of each platform are between the two.
NothingInvented ==
  \A l \in listings : l.spaces > 0 =>
    IF This.api = "stratford"
    THEN \A s \in OnSale :
           (s.venue = l.venue /\ s.day = l.date /\ <<s.activity, s.court>> \in l.of
              /\ s.start < l.end /\ l.start < EndOf(s)) => most[s] > 0
    ELSE l.spaces <= SumFunctionOnSet(SpacesAt(most), About(l))

\* CourtsCounted: what a listing offers is no less than the fewest places its
\* sessions had together, over however many courts or entries the crawlers that
\* add up find them.  A listing that is about one court or one hall may share its
\* slot with others, between which the upsert then chooses.
CourtsCounted ==
  This.api # "stratford" =>
    \A l \in listings : l.of # {} =>
      l.spaces >= SumFunctionOnSet(SpacesAt(least), About(l))

\* What a request asks for, and what the crawl is meant to find.
AsksFor(r, s) ==
  /\ s.venue \in r.venues /\ s.activity \in r.activities
  /\ Hall(s.court) \in r.halls /\ r.start \in {Anytime, s.start}
  /\ This.api \in {"towerhamlets", "decathlon"} \/ FiledUnder(s) \in r.dates
Wanted(s) ==
  \/ This.api \in {"towerhamlets", "decathlon"}
  \/ FiledUnder(s) \in SearchDates /\ FiledUnder(s) < delta

\* NothingHidden: once the crawl is over, a session that had places all along is
\* offered, unless its own request was lost: the failure of another venue, date
\* or activity, and the blanks a garbled answer is turned into, hide nothing.
NothingHidden ==
  Done => \A s \in OnSale :
    (least[s] > 0 /\ Wanted(s) /\ ~\E r \in lost : AsksFor(r, s)) =>
      \E l \in listings :
        /\ l.spaces > 0 /\ l.venue = s.venue /\ l.date = FiledUnder(s)
        /\ IF This.api = "stratford"
           THEN <<s.activity, s.court>> \in l.of /\ l.start <= s.start /\ EndOf(s) <= l.end
           ELSE l.start = s.start /\ l.end = EndHour(s)

\* BlanksAreStoredRows: the rows without spaces that stand for an empty or a
\* garbled answer describe slots of the timetable, so that the upsert finds the
\* rows they are meant to zero.
BlanksAreStoredRows ==
  \A l \in listings : l.of = {} =>
    \E s \in Sessions :
      s.venue = l.venue /\ s.day = l.date /\ s.start = l.start /\ EndHour(s) = l.end

\* EstimatesAreGrounded: a published price is stored as it is; a missing one is
\* estimated within the range of the venue's published prices, else within that
\* of the whole list, else as the sport's default.
EstimatesAreGrounded ==
  Done => \A l \in listings :
    LET near == IF KnownAt(l.venue, listings) # {} THEN KnownAt(l.venue, listings) ELSE Known(listings)
    IN  CASE l.price # NoPrice -> prices[l] = 2 * l.price
          [] near = {} -> prices[l] = 2 * DefaultPrice
          [] OTHER -> /\ \E k \in near : 2 * k.price <= prices[l]
                      /\ \E k \in near : prices[l] <= 2 * k.price
=============================================================================
