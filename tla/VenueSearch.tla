----------------------------- MODULE VenueSearch -----------------------------
(***************************************************************************)
(* A search, from the postcode to the sorted listing: the geocoding        *)
(* service, the two cached answers in Valkey, and three separate reads of  *)
(* the database, while the crawler pipeline rewrites the slots and the     *)
(* database may be initialised anew.  Slots are seen for one sport and     *)
(* date: of each venue, whether something can be booked, and whether its   *)
(* earliest slot has a published or an estimated price.                    *)
(***************************************************************************)
EXTENDS Naturals, FiniteSets

CONSTANTS
  Workers,      \* API processes
  Venues,       \* venues within the radius
  Games,        \* those of GAMES_ORGANISATIONS
  Mappings,     \* the venue sheets that may be loaded
  Omissions,    \* the sets of fields a caller may leave out
  Ttl,          \* CACHE_TTL_SECONDS, in ticks
  MaxSearches,  \* how many searches are made
  MaxEvents,    \* how many other things happen, payloads that lack a field among them
  Nothing

ASSUME SearchAssumption ==
  /\ Games \subseteq Venues /\ Mappings \subseteq SUBSET Venues
  /\ Omissions \subseteq SUBSET {"postcode", "radius", "analytics", "timeRange"}
  /\ Ttl \in Nat \ {0}

VARIABLES
  catalogue,  \* the rows of sportsvenue
  board,      \* of each venue: "none", "priced" or "estimated"
  loading,    \* how far initialize_db_and_tables has come
  reachable,  \* whether Valkey answers
  client,     \* _client of each process
  geocode,    \* the cached position: ok is FALSE for a payload without result
  near,       \* the cached venue list
  search,     \* the search each process is serving
  count       \* how often each bounded thing has happened

database == <<catalogue, board, loading>>
cache    == <<reachable, client, geocode, near>>
vars == <<database, cache, search, count>>

\* sortBy of the payload: the default is a string and no member of SortByOptions.
SortBy == {"distance", "price", "default"}
Idle == [at |-> "idle"]

Event == count.events < MaxEvents /\ count' = [count EXCEPT !.events = @ + 1]

-----------------------------------------------------------------------------
(* cache.py.  The first use in a process connects; if that fails, the       *)
(* process does without for the rest of its life.                           *)
ClientOf(w) ==
  IF client[w] = "untried" THEN (IF reachable THEN "connected" ELSE "off") ELSE client[w]

Cached(w, entry) == IF ClientOf(w) = "connected" /\ reachable THEN entry ELSE Nothing

Stored(w, new, old) == IF ClientOf(w) = "connected" /\ reachable THEN new ELSE old

UseClient(w) == client' = [client EXCEPT ![w] = ClientOf(w)] /\ UNCHANGED reachable

-----------------------------------------------------------------------------
Init ==
  /\ catalogue \in Mappings /\ board = [v \in Venues |-> "none"] /\ loading = "no"
  /\ reachable \in BOOLEAN
  /\ client = [w \in Workers |-> "untried"]
  /\ geocode = Nothing /\ near = Nothing
  /\ search = [w \in Workers |-> Idle]
  /\ count = [searches |-> 0, events |-> 0]

Becomes(w, next) == search' = [search EXCEPT ![w] = next]

\* specified: the venues the caller names, in analytics, instead of those nearby;
\* omits: the optional fields the payload lacks.
Ask(w, specified, omits) ==
  /\ search[w].at \in {"idle", "answered"} /\ count.searches < MaxSearches
  /\ "analytics" \in omits => specified = {}
  /\ omits # {} => count.events < MaxEvents
  /\ count' = [searches |-> count.searches + 1,
               events |-> IF omits = {} THEN count.events ELSE count.events + 1]
  /\ Becomes(w, [at |-> "near", specified |-> specified, omits |-> omits])
  /\ UNCHANGED <<database, cache>>

\* Whether the table of venues was written after this search had read the games.
Overtaken(s) == s.at \in {"slots", "format"} /\ s.overtaken

\* What the caller gets: why names the reason of a failure, age is how old the
\* answer of the geocoding service was.
Answer(w, status, why, age) ==
  Becomes(w, [at |-> "answered", status |-> status, why |-> why, age |-> age, found |-> {},
              omits |-> search[w].omits, overtaken |-> Overtaken(search[w])])

WithVenues(w, list) ==
  Becomes(w, [at |-> "games", specified |-> search[w].specified, omits |-> search[w].omits,
              venues |-> list.venues, age |-> list.age, located |-> list.located])

\* The optional field that each stage uses without asking whether it is there.
Needs == [near |-> "postcode", query |-> "radius", games |-> "analytics", slots |-> "timeRange"]

Lacks(s) == s.at \in DOMAIN Needs /\ Needs[s.at] \in s.omits

\* None has no such attribute, or is no operand: a 500, before the stage does
\* anything.
FieldMissing(w) ==
  /\ Lacks(search[w])
  /\ Answer(w, 500, Needs[search[w].at], 0)
  /\ UNCHANGED <<database, cache, count>>

\* One of the four reads of the database fails.
DatabaseFails(w) ==
  /\ search[w].at \in {"query", "games", "slots", "format"} /\ ~Lacks(search[w]) /\ Event
  /\ Answer(w, 500, "database", 0)
  /\ UNCHANGED <<database, cache>>

\* Mutant: a hit renews the entry.
RenewingHit(entry) == [entry EXCEPT !.left = Ttl]

AfterHit(entry) == entry

\* get_venues_near_postcode: the cached list, else the position.  The radius is
\* part of the key, and nothing is ever stored for a search without one.
LookUpNear(w) ==
  /\ search[w].at = "near" /\ ~Lacks(search[w]) /\ UseClient(w)
  /\ LET hit == IF "radius" \in search[w].omits THEN Nothing ELSE Cached(w, near) IN
       IF hit = Nothing
       THEN Becomes(w, [search[w] EXCEPT !.at = "geocode"]) /\ UNCHANGED near
       ELSE near' = AfterHit(hit) /\ WithVenues(w, hit)
  /\ UNCHANGED <<database, geocode, count>>

ToQuery(w, age) ==
  Becomes(w, [at |-> "query", specified |-> search[w].specified, omits |-> search[w].omits,
              located |-> age])

\* geocode_postcode: a payload without a result is cached like any other.
LookUpGeocode(w) ==
  /\ search[w].at = "geocode" /\ UseClient(w)
  /\ LET hit == Cached(w, geocode) IN
       IF hit = Nothing THEN Becomes(w, [search[w] EXCEPT !.at = "asking"])
       ELSE IF hit.ok THEN ToQuery(w, hit.age)
       ELSE Answer(w, 400, "error", hit.age)
  /\ UNCHANGED <<database, geocode, near, count>>

\* The service finds the postcode, or answers without a result.
Geocoded(w, ok) ==
  /\ search[w].at = "asking" /\ UseClient(w)
  /\ IF ok THEN UNCHANGED count ELSE Event
  /\ geocode' = Stored(w, [ok |-> ok, left |-> Ttl, age |-> 0], geocode)
  /\ IF ok THEN ToQuery(w, 0) ELSE Answer(w, 400, "error", 0)
  /\ UNCHANGED <<database, near>>

\* What is not the JSON expected is a ValueError too; a lost connection is not.
GeocodingFails(w, how) ==
  /\ search[w].at = "asking" /\ Event
  /\ Answer(w, IF how = "garbled" THEN 400 ELSE 500, how, 0)
  /\ UNCHANGED <<database, cache>>

QueryNear(w) ==
  /\ search[w].at = "query" /\ ~Lacks(search[w]) /\ UseClient(w)
  /\ LET list == [venues |-> catalogue, age |-> 0, located |-> search[w].located] IN
       /\ near' = Stored(w, [f \in DOMAIN list \cup {"left"} |-> IF f = "left" THEN Ttl ELSE list[f]], near)
       /\ WithVenues(w, list)
  /\ UNCHANGED <<database, geocode, count>>

\* Mutant: the venues a caller names are searched as they are.
SpecifiedOrNear(s) ==
  IF s.specified # {} THEN s.specified ELSE s.venues \ (Games \cap catalogue)

\* Whole courts only.
CourtKeys(s) ==
  (IF s.specified # {} THEN s.specified ELSE s.venues) \ (Games \cap catalogue)

ReadGames(w) ==
  LET s == search[w] IN
  /\ s.at = "games" /\ ~Lacks(s)
  /\ Becomes(w, [at |-> "slots", keys |-> CourtKeys(s), omits |-> s.omits, overtaken |-> FALSE])
  /\ UNCHANGED <<database, cache, count>>

ReadSlots(w) ==
  LET s == search[w]
      found == {v \in s.keys : board[v] # "none"} IN
  /\ s.at = "slots" /\ ~Lacks(s)
  /\ Becomes(w, [at |-> "format", omits |-> s.omits, overtaken |-> s.overtaken, found |-> found,
                 estimates |-> {v \in found : board[v] = "estimated"}])
  /\ UNCHANGED <<database, cache, count>>

\* Why a listing fails: a venue that is gone has no metadata; "~13.00" is not a
\* number; the default order has no name; 29 February is not a day of 1900.
Failures(s, by, leapDay) ==
  {"venue" : v \in s.found \ catalogue}
    \cup {"estimate" : v \in IF by = "price" THEN s.estimates ELSE {}}
    \cup {"order" : v \in IF by = "default" THEN s.found ELSE {}}
    \cup {"day" : v \in IF leapDay THEN s.found ELSE {}}

\* sort_and_format_grouped_slots_for_ui, then the sort.  The order asked for and
\* the day only matter here, and are chosen here.
Respond(w, by, leapDay) ==
  LET s == search[w]
      wrong == Failures(s, by, leapDay) IN
  /\ s.at = "format"
  /\ \/ /\ wrong = {}
        /\ Becomes(w, [at |-> "answered", status |-> 200, why |-> "found", age |-> 0,
                       found |-> s.found, omits |-> s.omits, overtaken |-> s.overtaken])
     \/ \E why \in wrong : Answer(w, 500, why, 0)
  /\ UNCHANGED <<database, cache, count>>

\* A process is replaced: its request is lost, and its client with it.
Restart(w) ==
  /\ search[w].at \notin {"idle", "answered"}
  /\ search' = [search EXCEPT ![w] = Idle]
  /\ client' = [client EXCEPT ![w] = "untried"]
  /\ UNCHANGED <<database, reachable, geocode, near, count>>

-----------------------------------------------------------------------------
(* What goes on meanwhile.                                                  *)

\* The pipeline commits; slots refer to a venue of the catalogue.
Refresh(v, what) ==
  /\ v \in catalogue /\ board[v] # what /\ Event
  /\ board' = [board EXCEPT ![v] = what]
  /\ UNCHANGED <<catalogue, loading, cache, search>>

\* The table of venues is written, which overtakes a search that has read the
\* games and has not yet read the metadata of the venues.
Overtaking == search' = [w \in Workers |->
  IF search[w].at \in {"slots", "format"} THEN [search[w] EXCEPT !.overtaken = TRUE]
  ELSE search[w]]

\* initialize_db_and_tables, a transaction for each table.
TruncateSlots ==
  /\ loading = "no" /\ Event
  /\ loading' = "slots"
  /\ board' = [v \in Venues |-> "none"]
  /\ UNCHANGED <<catalogue, cache, search>>

\* Mutant: nothing keeps the venues of slots from being deleted.
ForcedTruncate ==
  /\ loading = "slots"
  /\ loading' = "venues" /\ catalogue' = {} /\ Overtaking
  /\ UNCHANGED <<board, cache, count>>

\* The pipeline may have brought slots back: they refer to their venues.
TruncateVenues ==
  /\ loading = "slots"
  /\ IF \A v \in Venues : board[v] = "none"
     THEN loading' = "venues" /\ catalogue' = {} /\ Overtaking
     ELSE loading' = "no" /\ UNCHANGED <<catalogue, search>>
  /\ UNCHANGED <<board, cache, count>>

LoadSportsCentreMappings ==
  /\ loading = "venues"
  /\ catalogue' \in Mappings
  /\ loading' = "no"
  /\ Overtaking
  /\ UNCHANGED <<board, cache, count>>

\* Killed in between; it has to be run again.
InitialisationDies ==
  /\ loading # "no"
  /\ loading' = "no"
  /\ UNCHANGED <<catalogue, board, cache, search, count>>

Aged(entry) ==
  IF entry = Nothing \/ entry.left = 1 THEN Nothing
  ELSE [entry EXCEPT !.left = @ - 1, !.age = @ + 1]

Tick ==
  /\ geocode # Nothing \/ near # Nothing
  /\ geocode' = Aged(geocode)
  /\ near' = Aged(IF near = Nothing THEN near ELSE [near EXCEPT !.located = @ + 1])
  /\ UNCHANGED <<database, reachable, client, search, count>>

ValkeyComesOrGoes ==
  /\ Event
  /\ reachable' = ~reachable
  /\ UNCHANGED <<database, client, geocode, near, search>>

Next ==
  \/ \E w \in Workers :
       \/ \E specified \in {{}, Venues}, omits \in Omissions : Ask(w, specified, omits)
       \/ FieldMissing(w) \/ DatabaseFails(w)
       \/ LookUpNear(w) \/ LookUpGeocode(w)
       \/ \E ok \in BOOLEAN : Geocoded(w, ok)
       \/ \E how \in {"garbled", "lost"} : GeocodingFails(w, how)
       \/ QueryNear(w) \/ ReadGames(w) \/ ReadSlots(w) \/ Restart(w)
       \/ \E by \in SortBy, leapDay \in BOOLEAN : Respond(w, by, leapDay)
  \/ \E v \in Venues, what \in {"none", "priced", "estimated"} : Refresh(v, what)
  \/ TruncateSlots \/ TruncateVenues \/ LoadSportsCentreMappings \/ InitialisationDies
  \/ Tick \/ ValkeyComesOrGoes

Spec == Init /\ [][Next]_vars

-----------------------------------------------------------------------------
Searches == {search[w] : w \in {w \in Workers : search[w] # Idle}}

\* CacheIsRecent: whatever the cache went through, the list of venues a search
\* works with was read from the database less than the TTL before, the position
\* it belongs to was looked up less than twice that before, because both are
\* cached, and a postcode is only refused on an answer younger than the TTL.
CacheIsRecent ==
  \A s \in Searches :
    /\ s.at = "games" => s.age < Ttl /\ s.located < 2 * Ttl
    /\ s.at = "query" => s.located < Ttl
    /\ s.at = "answered" /\ s.status = 400 => s.why \in {"error", "garbled"} /\ s.age < Ttl

Answers == {s \in Searches : s.at = "answered"}

\* AnswersExplained: the four reads of a search are not one transaction, its list
\* of venues may come from the cache, and the pipeline and an initialisation, which
\* may be killed between its tables, write between them.  Yet only a search that a
\* rewrite of the venue table overtakes between its reads can take a game for a
\* court or miss the metadata of a venue it found; any other, in the middle of an
\* initialisation or after a killed one too, fails only for the network, the
\* database, a field its own payload lacks, or the sort.
AnswersExplained ==
  \A s \in Answers :
    /\ s.found \cap Games # {} => s.overtaken
    /\ s.status = 500 =>
         \/ s.why \in {"lost", "database", "estimate", "order", "day"} \cup s.omits
         \/ s.why = "venue" /\ s.overtaken

\* SortedSearchAnswers: every search that finds courts can be put in order, with
\* an estimated price among them, without sortBy, and on every day
\* (api/routers/search/schemas.py on sortBy, crawlers/pipeline.py on the "~").
SortedSearchAnswers ==
  \A s \in Answers : s.why \notin {"estimate", "order", "day"}
=============================================================================
