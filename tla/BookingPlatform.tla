--------------------------- MODULE BookingPlatform ---------------------------
(***************************************************************************)
(* What the crawlers look at: the booking platforms of the leisure         *)
(* providers.  None of this is the repository's code; it is what the       *)
(* request builders and parsers under sportscanner/crawlers/parsers rely   *)
(* on.  A platform keeps a timetable of sessions in the venue's wall-clock *)
(* time and publishes most of them as UTC instants; members book and       *)
(* cancel while a crawl is running.                                        *)
(***************************************************************************)
EXTENDS Integers, FiniteSets, Sequences, SequencesExt

CONSTANTS
  Venues,         \* venues of the sport in the table sportsvenue
  Unmapped,       \* those missing from the provider's hard-coded id map
  SpecialVenues,  \* those that sell the sport as an activity of their own
  Courts,         \* numbers of courts
  HoursPerDay,    \* bound on the clock
  Opening, Closing,  \* the hours that a grid of courts shows
  Timetables,     \* the timetables the instance looks at: sessions -> places
  MaxPlaces,      \* bound on the places of a session
  NoPrice,        \* a model value: no price is published
  Tariff          \* what a venue asks for a session that starts at an hour

VARIABLES
  summer,  \* 1 while London is on British Summer Time
  places   \* places left in each session of the timetable

platform == <<summer, places>>

\* "main" and "second" are the durations a sport is usually sold in, "special"
\* is a venue's own activity, "other" another sport of the same site.
Activities == {"main", "second", "special", "other"}

SessionType ==
  [venue : Venues, court : Courts, activity : Activities, day : Nat,
   start : 0..HoursPerDay - 1, len : 1..HoursPerDay,
   blocked : BOOLEAN]  \* not for a web booking, though it may look free

ASSUME VenueAssumption == Unmapped \subseteq Venues /\ SpecialVenues \subseteq Venues
ASSUME ClockAssumption ==
  /\ HoursPerDay \in Nat /\ MaxPlaces \in Nat
  /\ Opening \in Nat /\ Closing \in Nat
  /\ Opening < Closing /\ Closing < HoursPerDay
\* A session may start or end at midnight, but does not go on beyond it, and the
\* sessions of a court do not overlap.
ASSUME TimetableAssumption ==
  \A t \in Timetables :
    /\ DOMAIN t \subseteq SessionType /\ t \in [DOMAIN t -> 0..MaxPlaces]
    /\ IsFiniteSet(DOMAIN t)
    /\ \A s \in DOMAIN t : s.start + s.len <= HoursPerDay
    /\ \A s1, s2 \in DOMAIN t :
         (s1 # s2 /\ s1.venue = s2.venue /\ s1.court = s2.court /\ s1.day = s2.day) =>
           s1.start + s1.len <= s2.start \/ s2.start + s2.len <= s1.start

ASSUME TariffAssumption ==
  /\ NoPrice \notin Nat
  /\ Tariff \in [Venues -> [0..HoursPerDay - 1 -> Nat \cup {NoPrice}]]

Sessions == DOMAIN places

EndOf(s) == s.start + s.len

\* What the clock shows when a session ends: 0 at midnight.
EndHour(s) == EndOf(s) % HoursPerDay

\* A court is in one of the halls of its venue, or outdoors: here the odd and the
\* even ones.
Hall(court) == court % 2
Halls == {Hall(c) : c \in Courts}

\* Whether a session lies within the hours that a grid shows.
InGrid(s) == Opening <= s.start /\ EndOf(s) <= Closing

\* The instant a session starts at, in hours since midnight UTC of day 0.
Utc(s) == s.day * HoursPerDay + s.start - summer

\* Matchi stamps the wall-clock time as if the venue were in Stockholm.
StockholmStamp(s) == Utc(s) - 1

\* ClubSpark gives a session the bookable category while it is free and open to
\* the public.
BookableCategory == 1000
Category(s) == IF s.activity = "main" /\ places[s] > 0 THEN BookableCategory ELSE 0

PlatformInit ==
  /\ summer \in {0, 1}
  /\ places \in Timetables

\* A member books a place, or gives one back.
Book(s) ==
  /\ places[s] > 0
  /\ places' = [places EXCEPT ![s] = @ - 1]
  /\ UNCHANGED summer

Cancel(s) ==
  /\ places[s] < MaxPlaces
  /\ places' = [places EXCEPT ![s] = @ + 1]
  /\ UNCHANGED summer
=============================================================================
