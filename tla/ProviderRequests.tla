--------------------------- MODULE ProviderRequests ---------------------------
(***************************************************************************)
(* The requests each crawler sends (generate_request_details and           *)
(* coroutines of the scraper modules, and the crawlers that build their    *)
(* own): which venues, dates and activities one request asks for, and      *)
(* which sessions the platform answers it with.                            *)
(***************************************************************************)
EXTENDS BookingPlatform, FiniteSetsExt

CONSTANTS
  SearchDates,  \* the dates the pipeline asks for
  FlatPrice     \* the price some crawlers hard-code for every slot

ASSUME DateAssumption == SearchDates \subseteq Nat /\ SearchDates # {}
ASSUME PriceAssumption == FlatPrice \in Nat

Anytime == HoursPerDay  \* no hour

\* A request.  An availability request of Places Leisure is for one start in one
\* hall, every other one for any.
Request(venues, dates, activities) ==
  [venues |-> venues, dates |-> dates, activities |-> activities, halls |-> Halls,
   start |-> Anytime]

AllDates == 1000  \* delta=None: every date asked for

\* Mutant: one day too few.
FilterOneShort(delta) == {d \in SearchDates : d < delta - 1}

\* filter_for_allowable_search_dates_for_venue: today is day 0.
AllowableDates(delta) == {d \in SearchDates : d \in 0..delta - 1}

\* One request for each venue, date and activity: what ScraperCoroutines makes
\* of a strategy that returns one request for each of its activities.
RequestFor(v, d, a) == Request({v}, {d}, {a})
PerActivity(venues, dates, slugs(_)) ==
  UNION {{RequestFor(v, d, a) : a \in slugs(v)} : v \in venues, d \in dates}

\* One request for each venue and date, whatever is played there.
WholeDay(v, d) == Request({v}, {d}, Activities)
PerVenueAndDate(venues, dates) == {WholeDay(v, d) : v \in venues, d \in dates}

-----------------------------------------------------------------------------
(* The crawlers: the api they talk to, the sport, the price a request      *)
(* carries ("listed": the session has its own; "none": there is none) and, *)
(* for the delta of each of its entry points (coroutines, run), the        *)
(* requests it sends.                                                      *)
Crawler(api, sport, price, deltas, requests(_)) ==
  [api |-> api, sport |-> sport, price |-> price,
   requests |-> [delta \in deltas |-> requests(AllowableDates(delta))]]

Mapped == Venues \ Unmapped

DefaultSlugs(sport) ==
  CASE sport = "Badminton"  -> {"main", "second"}
    [] sport = "Squash"     -> {"main"}
    [] sport = "Pickleball" -> {"main", "second"}
    [] sport = "Tennis"     -> {"main"}

\* Mutant: the venues that sell the sport as one activity are forgotten.
NoOverrides(sport, venue) == DefaultSlugs(sport)

\* activity_slug_pairs.  The fallback slugs are CrawlFetch's url variants.
ActivitySlugs(sport, venue) ==
  IF venue \in SpecialVenues THEN {"special"} ELSE DefaultSlugs(sport)

BetterCrawler(sport) ==
  Crawler("better", sport, "listed", {5, 6},
          LAMBDA dates : PerActivity(Venues, dates, LAMBDA v : ActivitySlugs(sport, v)))
BetterBadminton  == BetterCrawler("Badminton")
BetterSquash     == BetterCrawler("Squash")
BetterPickleball == BetterCrawler("Pickleball")
BetterTennis     == BetterCrawler("Tennis")

\* The flow.onl tenants: the same API with hard-coded activities.
FlowCrawler(sport, deltas, slugs) ==
  Crawler("better", sport, "listed", deltas,
          LAMBDA dates : PerActivity(Venues, dates, LAMBDA v : slugs))
ActiveLambethBadminton == FlowCrawler("Badminton", {6}, {"main", "second"})
ActiveLambethSquash    == FlowCrawler("Squash", {6}, {"main"})
HaringeyBadminton      == FlowCrawler("Badminton", {5, 6}, {"main"})

VisionRclRequests(dates, slugs) == PerActivity(Venues, dates, LAMBDA v : slugs)
VisionRclBadminton ==
  Crawler("better", "Badminton", "listed", {6}, LAMBDA dates : VisionRclRequests(dates, {"main"}))
VisionRclSquash ==
  Crawler("better", "Squash", "listed", {6},
          LAMBDA dates : VisionRclRequests(dates, {"main", "second"}))

\* Everyone Active and Southwark share a platform.  Three of the four builders
\* ask for an unmapped venue with activityId=None, which sells nothing.
EveryoneActiveBadminton ==
  Crawler("everyoneactive", "Badminton", "flat", {AllDates},
          LAMBDA dates : PerActivity(Venues, dates, LAMBDA v : IF v \in Mapped THEN {"main"} ELSE {"None"}))
EveryoneActiveSquash ==
  Crawler("everyoneactive", "Squash", "none", {AllDates},
          LAMBDA dates : PerActivity(Mapped, dates, LAMBDA v : {"main"}))
SouthwarkCrawler(sport) ==
  Crawler("southwark", sport, "flat", {AllDates},
          LAMBDA dates : PerActivity(Venues, dates, LAMBDA v : IF v \in Mapped THEN {"main"} ELSE {"None"}))
SouthwarkBadminton  == SouthwarkCrawler("Badminton")
SouthwarkPickleball == SouthwarkCrawler("Pickleball")

\* One site each; its timetable lists every activity.
CitySportsBadminton ==
  Crawler("citysports", "Badminton", "listed", {6}, LAMBDA dates : PerVenueAndDate(Venues, dates))
UelBadminton ==
  Crawler("uel", "Badminton", "listed", {AllDates}, LAMBDA dates : PerVenueAndDate(Venues, dates))

MytimeRequests(dates) == PerActivity(Mapped, dates, LAMBDA v : {"main"})
MytimeBadminton == Crawler("mytime", "Badminton", "none", {6}, MytimeRequests)
MytimeSquash    == Crawler("mytime", "Squash", "none", {6}, MytimeRequests)

\* One response holds a month: the dates asked for are replaced by today.
TowerHamletsRequests == PerActivity(Mapped, {0}, LAMBDA v : {"main", "second"})
TowerHamletsBadminton ==
  Crawler("towerhamlets", "Badminton", "flat", {AllDates}, LAMBDA dates : TowerHamletsRequests)

\* The time slots of both activities from now on; the first date stands for all.
DecathlonPickleball ==
  Crawler("decathlon", "Pickleball", "listed", {AllDates},
          LAMBDA dates : PerActivity(Venues, {Min(dates)}, LAMBDA v : {"main", "second"}))

\* The centre's schedule first: one request for each venue, answered with the
\* activities of the sport's group.  ScheduledRequests (in ProviderParsers) follow.
PlacesCrawler(sport) ==
  Crawler("places", sport, "flat", {AllDates},
          LAMBDA dates : {Request({v}, dates, {"main", "second"}) : v \in Mapped})
PlacesBadminton  == PlacesCrawler("Badminton")
PlacesPickleball == PlacesCrawler("Pickleball")

PlaytomicCrawler(sport) ==
  Crawler("playtomic", sport, "listed", {AllDates},
          LAMBDA dates : PerActivity(Mapped, dates, LAMBDA v : {"main"}))
PlaytomicPadel      == PlaytomicCrawler("Padel")
PlaytomicTennis     == PlaytomicCrawler("Tennis")
PlaytomicPickleball == PlaytomicCrawler("Pickleball")

\* The calendar is the organisation's: one request for each date.
CourtReservePickleball ==
  Crawler("courtreserve", "Pickleball", "none", {AllDates},
          LAMBDA dates : {Request(Venues, {d}, Activities) : d \in dates})

MatchiRequests(dates) == PerActivity(Mapped, dates, LAMBDA v : {"main"})
MatchiPadel  == Crawler("matchi", "Padel", "flat", {AllDates}, MatchiRequests)
MatchiTennis == Crawler("matchi", "Tennis", "none", {AllDates}, MatchiRequests)

PadelMatesPadel ==
  Crawler("padelmates", "Padel", "listed", {6},
          LAMBDA dates : PerActivity(Mapped, dates, LAMBDA v : {"main"}))

\* The court grid of a date.
StratfordPadel ==
  Crawler("stratford", "Padel", "none", {AllDates}, LAMBDA dates : PerVenueAndDate(Venues, dates))

\* One request for each venue covers the whole range of dates.
ClubSparkTennis ==
  Crawler("clubspark", "Tennis", "listed", {AllDates},
          LAMBDA dates : {Request({v}, Min(dates)..Max(dates), Activities) : v \in Venues})

-----------------------------------------------------------------------------
\* What the platform has in its answer (external).  Some leave out what cannot
\* be booked, one is asked to leave out what cannot be booked on the web.
Asked(r) ==
  {s \in Sessions : /\ s.venue \in r.venues /\ s.activity \in r.activities
                    /\ Hall(s.court) \in r.halls /\ r.start \in {Anytime, s.start}}

Answer(api, r) ==
  CASE api \in {"everyoneactive", "southwark"} ->  \* fromUTC, toUTC
         {s \in Asked(r) : Utc(s) \div HoursPerDay \in r.dates}
    [] api = "playtomic" ->                        \* a UTC day, free slots
         {s \in Asked(r) : Utc(s) \div HoursPerDay \in r.dates /\ places[s] > 0}
    [] api = "padelmates" -> {s \in Asked(r) : s.day \in r.dates /\ places[s] > 0}
    [] api = "mytime" -> {s \in Asked(r) : \E d \in r.dates : s.day >= d}  \* dateFrom
    [] api = "towerhamlets" ->
         {s \in Asked(r) : ~s.blocked /\ \E d \in r.dates : s.day >= d}
    [] api = "decathlon" -> Asked(r)               \* startDate: now
    [] api = "stratford" -> {s \in Asked(r) : s.day \in r.dates /\ InGrid(s)}
    [] OTHER -> {s \in Asked(r) : s.day \in r.dates}
=============================================================================
