--------------------------- MODULE ProviderParsers ---------------------------
(***************************************************************************)
(* The response parsers: what each provider's parse makes of the sessions  *)
(* in an answer.  A listing is a UnifiedParserSchema without its booking   *)
(* link; "of" keeps apart slots that a list may hold twice: the activities *)
(* and courts that a listing of one and the same time is about.            *)
(***************************************************************************)
EXTENDS ProviderRequests

CONSTANTS
  VenueKeys,   \* VENUE_KEY_TO_SLUG: the venues in the order their names are tried
  NamesWithin  \* the venue names that occur in the titles of a venue's sessions

\* A title contains its venue's name, and no other known name that is tried
\* before it: the longer names come first.
ASSUME NamesAssumption ==
  /\ DOMAIN VenueKeys \subseteq Nat
  /\ \A v \in Venues : \E i \in DOMAIN VenueKeys :
       /\ VenueKeys[i] = v /\ v \in NamesWithin[v]
       /\ \A j \in DOMAIN VenueKeys : VenueKeys[j] \in NamesWithin[v] => i <= j

Listing(venue, date, start, end, spaces, price, of) ==
  [venue |-> venue, date |-> date, start |-> start, end |-> end,
   spaces |-> spaces, price |-> price, of |-> of]

Only(s)  == {<<s.activity, s.court>>}
Anything == Activities \X Courts

\* An instant on the clock of London, and the date it falls on.
LondonHour(t) == (t + summer) % HoursPerDay
LondonDate(t) == (t + summer) \div HoursPerDay
LondonEnd(s)  == LondonHour(Utc(s) + s.len)

DateOf(r)  == CHOOSE d \in r.dates : TRUE
VenueOf(r) == CHOOSE v \in r.venues : TRUE

\* Better and Decathlon print a missing price as a zero.
PriceOf(crawler, s) ==
  LET asked == Tariff[s.venue][s.start] IN
  CASE crawler.price = "flat" -> FlatPrice
    [] crawler.price = "none" -> NoPrice
    [] crawler.price = "listed" ->
         IF asked = NoPrice /\ crawler.api \in {"better", "decathlon"} THEN 0 ELSE asked

PlacesIn(S) == SumFunctionOnSet(places, S)
FreeIn(S)   == Cardinality({s \in S : places[s] > 0})

\* One listing for each group of sessions with the same key.
Grouped(S, key(_), listing(_)) == {listing({s \in S : key(s) = k}) : k \in {key(s) : s \in S}}

AnyOf(S) == CHOOSE s \in S : TRUE

-----------------------------------------------------------------------------
\* BetterLeisureResponseParserStrategy.parse, also for the flow.onl tenants.
BetterParse(crawler, r, S) ==
  {Listing(VenueOf(r), DateOf(r), s.start, EndHour(s), places[s], PriceOf(crawler, s),
           Only(s)) : s \in S}

\* Mutant: the blanks are one hour long.
HourBlanks(crawler, r) ==
  {Listing(s.venue, s.day, s.start, (s.start + 1) % HoursPerDay, 0, PriceOf(crawler, s), {})
     : s \in {s \in Sessions : s.venue = VenueOf(r) /\ s.day = DateOf(r)}}

\* populate_blank_response_for_upserts: the stored rows of the venue and date,
\* of whatever activity, without spaces.  An earlier crawl has stored them all.
BetterBlanks(crawler, r) ==
  {Listing(s.venue, s.day, s.start, EndHour(s), 0, PriceOf(crawler, s), {})
     : s \in {s \in Sessions : s.venue = VenueOf(r) /\ s.day = DateOf(r)}}

\* The slot timings of populate_date_and_booking_timings.
Timing(s) == <<LondonDate(Utc(s)), LondonHour(Utc(s)), LondonEnd(s)>>

\* Mutant: a court's availability replaces that of the court before.
LastCourt(S) == Grouped(S, Timing, LAMBDA G : <<Timing(AnyOf(G)), places[AnyOf(G)]>>)

\* aggregate_court_availability: the courts with the same timing, summed.
AggregateCourts(S) == Grouped(S, Timing, LAMBDA G : <<Timing(AnyOf(G)), PlacesIn(G)>>)

\* The date is the request's, not the slot's.
EveryoneActiveParse(crawler, r, S) ==
  {Listing(VenueOf(r), DateOf(r), slot[1][2], slot[1][3], slot[2],
           PriceOf(crawler, AnyOf(S)), Anything) : slot \in AggregateCourts(S)}

SouthwarkTiming(s) == <<LondonDate(Utc(s)), LondonHour(Utc(s)), LondonEnd(s)>>
SouthwarkParse(crawler, r, S) ==
  Grouped(S, SouthwarkTiming,
    LAMBDA G : LET s == AnyOf(G) IN
      Listing(VenueOf(r), DateOf(r), SouthwarkTiming(s)[2], SouthwarkTiming(s)[3],
              PlacesIn(G), PriceOf(crawler, s), Anything))

\* Mutant: the timetable of the whole site is taken for badminton.
ParseWholeSite(crawler, r, S) ==
  {Listing(VenueOf(r), s.day, s.start, EndHour(s), places[s], PriceOf(crawler, s),
           Only(s)) : s \in S}

\* The timetable lists every activity of the site.
CitySportsParse(crawler, r, S) ==
  {Listing(VenueOf(r), s.day, s.start, EndHour(s), places[s], PriceOf(crawler, s),
           Only(s)) : s \in {s \in S : s.activity = "main"}}
UelParse(crawler, r, S) ==
  {Listing(VenueOf(r), s.day, s.start, EndHour(s), places[s], PriceOf(crawler, s),
           Only(s)) : s \in {s \in S : s.activity = "main"}}

\* GladstoneGoResponseParserStrategy.parse.
MytimeKey(s) == <<LondonHour(Utc(s)), LondonEnd(s)>>
MytimeParse(crawler, r, S) ==
  Grouped({s \in S : s.day \in r.dates /\ s.venue \in r.venues /\ ~s.blocked}, MytimeKey,
    LAMBDA G : LET k == MytimeKey(AnyOf(G)) IN
      Listing(VenueOf(r), DateOf(r), k[1], k[2], PlacesIn(G), PriceOf(crawler, AnyOf(G)), Anything))

\* The sessions of every day of the answer; a court counts once.
TowerHamletsKey(s) == <<s.day, Utc(s), Utc(s) + s.len>>
TowerHamletsParse(crawler, r, S) ==
  Grouped(S, TowerHamletsKey,
    LAMBDA G : LET k == TowerHamletsKey(AnyOf(G)) IN
      Listing(VenueOf(r), k[1], LondonHour(k[2]), LondonHour(k[3]), FreeIn(G),
              PriceOf(crawler, AnyOf(G)), r.activities \X Courts))

DecathlonParse(crawler, r, S) ==
  {Listing(VenueOf(r), LondonDate(Utc(s)), LondonHour(Utc(s)), LondonEnd(s), places[s],
           PriceOf(crawler, s), Only(s)) : s \in S}

\* Mutant: the halls of a start are not told apart.
OneHallEach(r, S) ==
  {LET s == CHOOSE s \in S : s.start = h
   IN  [venues |-> r.venues, dates |-> {LondonDate(Utc(s))}, activities |-> {s.activity},
        halls |-> {Hall(s.court)}, start |-> s.start] : h \in {s.start : s \in S}}

\* crawl_venue and _fetch_schedule: an availability request for every distinct
\* start, activity and hall in the centre's schedule that is on one of the dates.
ScheduledRequests(r, S) ==
  {[venues |-> r.venues, dates |-> {LondonDate(Utc(s))}, activities |-> {s.activity},
    halls |-> {Hall(s.court)}, start |-> s.start]
     : s \in {s \in S : LondonDate(Utc(s)) \in r.dates}}

CourtsIn(halls) == {c \in Courts : Hall(c) \in halls}

\* _fetch_and_build: the courts of that start, activity and hall are in one answer
\* and make one listing.
PlacesParse(crawler, r, S) ==
  Grouped(S, LAMBDA s : Utc(s),
    LAMBDA G : LET s == AnyOf(G) IN
      Listing(s.venue, LondonDate(Utc(s)), LondonHour(Utc(s)), LondonEnd(s), FreeIn(G),
              PriceOf(crawler, s), r.activities \X CourtsIn(r.halls)))

\* _resources_to_unified.  Courts are told apart as indoor and outdoor.
PlaytomicKey(s) == <<Utc(s), s.len, Hall(s.court)>>
PlaytomicParse(crawler, r, S) ==
  Grouped(S, PlaytomicKey,
    LAMBDA G : LET s == AnyOf(G) IN
      Listing(VenueOf(r), DateOf(r), LondonHour(Utc(s)), (LondonHour(Utc(s)) + s.len) % HoursPerDay,
              Cardinality(G), PriceOf(crawler, s), Activities \X CourtsIn({Hall(s.court)})))

\* The known names that the title of a session contains, by their place in the
\* list; the title of an event for everyone names no venue.
NamesIn(s) ==
  {i \in DOMAIN VenueKeys : s.activity # "other" /\ VenueKeys[i] \in NamesWithin[s.venue]}

\* Mutant: names are tried shortest first.
ShortestName(s) == VenueKeys[Max(NamesIn(s))]

\* venue_slug_from_event_title: the first of the known names the title contains.
VenueInTitle(s) == VenueKeys[Min(NamesIn(s))]

CourtReserveParse(crawler, r, S) ==
  {Listing(VenueInTitle(s), LondonDate(Utc(s)), LondonHour(Utc(s)), LondonEnd(s),
           places[s], PriceOf(crawler, s), Only(s))
     : s \in {s \in S : NamesIn(s) # {} /\ VenueInTitle(s) \in r.venues}}

\* A button for each start, with the ids of its free courts.
MatchiHour(t) == (t + 1 + summer) % HoursPerDay  \* Stockholm, _ms_to_booking_time
MatchiSlots(S) == Grouped({s \in S : places[s] > 0}, StockholmStamp, LAMBDA G : G)
MatchiParse(crawler, r, S) ==
  {LET s == AnyOf(G) IN
     Listing(VenueOf(r), DateOf(r), MatchiHour(StockholmStamp(s)),
             MatchiHour(StockholmStamp(s) + s.len), Cardinality(G), PriceOf(crawler, s), Anything)
     : G \in MatchiSlots(S)}

\* Mutant: a slot that overlaps a reservation is counted.
ClippedSlots(crawler, r, S) ==
  Grouped(S, LAMBDA s : <<Utc(s), s.len>>,
    LAMBDA G : LET s == AnyOf(G) IN
      Listing(VenueOf(r), LondonDate(Utc(s)), LondonHour(Utc(s)), LondonEnd(s), Cardinality(G),
              PriceOf(crawler, s), Anything))

\* PadelMatesResponseParserStrategy.parse: not reservedIntersection.
PadelMatesParse(crawler, r, S) ==
  Grouped({s \in S : ~s.blocked}, LAMBDA s : <<Utc(s), s.len>>,
    LAMBDA G : LET s == AnyOf(G) IN
      Listing(VenueOf(r), LondonDate(Utc(s)), LondonHour(Utc(s)), LondonEnd(s), Cardinality(G),
              PriceOf(crawler, s), Anything))

\* One step of _free_intervals_within_opening_hours.
Sweep(acc, block) ==
  IF block[2] <= acc.cursor \/ block[1] >= Closing THEN acc
  ELSE [cursor |-> Max({acc.cursor, Min({block[2], Closing})}),
        free |-> acc.free \cup (IF block[1] > acc.cursor THEN {<<acc.cursor, block[1]>>} ELSE {})]

\* The last of the blocks in the order of sorted(): by start, then by end.
LastOf(blocks) ==
  CHOOSE b \in blocks : \A a \in blocks : a[1] < b[1] \/ (a[1] = b[1] /\ a[2] <= b[2])

\* Where the cursor stands after some blocks, and the gaps it has passed: the
\* last block is swept after all the others.
Swept(busy) ==
  MapThenFoldSet(LAMBDA b, acc : Sweep(acc, b), [cursor |-> Opening, free |-> {}],
                 LAMBDA b : b, LastOf, busy)

FreeIntervals(busy) ==
  LET swept == Swept(busy)
  IN  swept.free \cup (IF swept.cursor < Closing THEN {<<swept.cursor, Closing>>} ELSE {})

\* A busy row for every occupancy, an open one for every gap between them.
StratfordParse(crawler, r, S) ==
  LET courts  == {s.court : s \in {s \in Sessions : s.venue \in r.venues}}
      busy(c) == {<<s.start, EndOf(s)>> : s \in {s \in S : s.court = c /\ places[s] = 0}}
      row(c, block, spaces) ==
        Listing(VenueOf(r), DateOf(r), block[1], block[2], spaces, NoPrice, Activities \X {c})
  IN  UNION {{row(c, b, 0) : b \in busy(c)} \cup {row(c, b, 1) : b \in FreeIntervals(busy(c))}
               : c \in courts}

\* Every session of the bookable category is a listing of its own.
ClubSparkParse(crawler, r, S) ==
  {Listing(VenueOf(r), s.day, s.start, EndHour(s), 1, PriceOf(crawler, s), Only(s))
     : s \in {s \in S : Category(s) = BookableCategory}}

-----------------------------------------------------------------------------
Parse(crawler, r, S) ==
  CASE crawler.api = "better" ->
         IF S = {} THEN BetterBlanks(crawler, r) ELSE BetterParse(crawler, r, S)
    [] crawler.api = "everyoneactive" -> EveryoneActiveParse(crawler, r, S)
    [] crawler.api = "southwark"      -> SouthwarkParse(crawler, r, S)
    [] crawler.api = "citysports"     -> CitySportsParse(crawler, r, S)
    [] crawler.api = "uel"            -> UelParse(crawler, r, S)
    [] crawler.api = "mytime"         -> MytimeParse(crawler, r, S)
    [] crawler.api = "towerhamlets"   -> TowerHamletsParse(crawler, r, S)
    [] crawler.api = "decathlon"      -> DecathlonParse(crawler, r, S)
    [] crawler.api = "places"         -> PlacesParse(crawler, r, S)
    [] crawler.api = "playtomic"      -> PlaytomicParse(crawler, r, S)
    [] crawler.api = "courtreserve"   -> CourtReserveParse(crawler, r, S)
    [] crawler.api = "matchi"         -> MatchiParse(crawler, r, S)
    [] crawler.api = "padelmates"     -> PadelMatesParse(crawler, r, S)
    [] crawler.api = "stratford"      -> StratfordParse(crawler, r, S)
    [] crawler.api = "clubspark"      -> ClubSparkParse(crawler, r, S)

\* A 200 that is not JSON is validated to None, which only the Better-style
\* crawlers turn into rows.  What CourtReserve may do instead is ParseRaises of
\* ProviderCrawl.
ParseGarbled(crawler, r) == IF crawler.api = "better" THEN BetterBlanks(crawler, r) ELSE {}
=============================================================================
