-------------------------- MODULE VenueSearchProofs --------------------------
(***************************************************************************)
(* Proofs about VenueSearch, for any processes, venues, games, sheets and  *)
(* time to live: how old the answers of the cache can be, and what an      *)
(* answer can say, however the reads of a search fall between the commits  *)
(* of the pipeline and the steps of an initialisation.                     *)
(***************************************************************************)
EXTENDS VenueSearch, TLAPS

\* The stages of a search, and what it remembers in each.
Fields   == {"postcode", "radius", "analytics", "timeRange"}
Starting == [at : {"near", "geocode", "asking"}, specified : SUBSET Venues, omits : SUBSET Fields]
Querying == [at : {"query"}, specified : SUBSET Venues, omits : SUBSET Fields, located : Nat]
Listed   == [at : {"games"}, specified : SUBSET Venues, omits : SUBSET Fields,
             venues : SUBSET Venues, age : Nat, located : Nat]
Keyed    == [at : {"slots"}, keys : SUBSET Venues, omits : SUBSET Fields, overtaken : BOOLEAN]
Read     == [at : {"format"}, omits : SUBSET Fields, overtaken : BOOLEAN, found : SUBSET Venues,
             estimates : SUBSET Venues]
Sound    == {"lost", "database", "estimate", "order", "day"}
Reasons  == {"found", "error", "garbled", "venue"} \cup Sound \cup Fields
Answered == [at : {"answered"}, status : {200, 400, 500}, why : Reasons, age : Nat,
             found : SUBSET Venues, omits : SUBSET Fields, overtaken : BOOLEAN]

SearchStates == {Idle} \cup Starting \cup Querying \cup Listed \cup Keyed \cup Read \cup Answered

Positions == [ok : BOOLEAN, left : Nat, age : Nat]
Lists     == [venues : SUBSET Venues, age : Nat, located : Nat, left : Nat]

SearchTypeOK ==
  /\ catalogue \in SUBSET Venues
  /\ board \in [Venues -> {"none", "priced", "estimated"}]
  /\ search \in [Workers -> SearchStates]
  /\ geocode \in {Nothing} \cup Positions
  /\ near \in {Nothing} \cup Lists

\* An entry of the cache is as old as the time it has lost; the position of a
\* cached list was itself less than the time to live old when the list was read.
CacheAges ==
  /\ geocode # Nothing => geocode.left > 0 /\ geocode.left + geocode.age = Ttl
  /\ near # Nothing => /\ near.left > 0 /\ near.left + near.age = Ttl
                       /\ near.located < near.age + Ttl

\* The foreign key of the slots, through an initialisation as well.
SlotsHaveVenues ==
  /\ \A v \in Venues : board[v] # "none" => v \in catalogue
  /\ loading = "venues" => catalogue = {}

Recent(s) ==
  /\ s.at = "games" => s.age < Ttl /\ s.located < 2 * Ttl
  /\ s.at = "query" => s.located < Ttl
  /\ s.at = "answered" /\ s.status = 400 => s.why \in {"error", "garbled"} /\ s.age < Ttl

\* What a search has read still agrees with the catalogue, unless overtaken.
Grounded(s) ==
  /\ s.at = "slots" /\ ~s.overtaken => s.keys \cap (Games \cap catalogue) = {}
  /\ s.at = "format" /\ ~s.overtaken => s.found \subseteq catalogue /\ s.found \cap Games = {}
  /\ s.at = "answered" =>
       /\ s.found \cap Games # {} => s.overtaken
       /\ s.status = 500 => s.why \in Sound \cup s.omits \/ (s.why = "venue" /\ s.overtaken)

SearchInv ==
  /\ SearchTypeOK
  /\ CacheAges
  /\ SlotsHaveVenues
  /\ \A w \in Workers : Recent(search[w]) /\ Grounded(search[w])

-----------------------------------------------------------------------------
LEMMA StageOf ==
  ASSUME NEW s \in SearchStates
  PROVE  /\ s.at \in {"near", "geocode", "asking"} => s \in Starting
         /\ s.at = "query" => s \in Querying
         /\ s.at = "games" => s \in Listed
         /\ s.at = "slots" => s \in Keyed
         /\ s.at = "format" => s \in Read
         /\ s.at = "answered" => s \in Answered
BY DEF SearchStates, Idle, Starting, Querying, Listed, Keyed, Read, Answered

\* A search that is between its reads is only marked.
LEMMA Marked ==
  ASSUME NEW s \in SearchStates, s.at \in {"slots", "format"}
  PROVE  LET d == [s EXCEPT !.overtaken = TRUE] IN
           d \in SearchStates /\ d.at = s.at /\ d.overtaken = TRUE
<1>1. CASE s \in Keyed
  BY <1>1 DEF SearchStates, Keyed
<1>2. CASE s \in Read
  BY <1>2 DEF SearchStates, Read
<1> QED BY <1>1, <1>2, StageOf

LEMMA InvParts ==
  SearchInv => /\ SearchTypeOK /\ CacheAges /\ SlotsHaveVenues
               /\ search \in [Workers -> SearchStates]
               /\ \A w \in Workers : Recent(search[w]) /\ Grounded(search[w])
BY DEF SearchInv, SearchTypeOK

\* A step of one search, that leaves the database alone.
LEMMA WorkerStep ==
  ASSUME SearchInv, NEW w \in Workers, NEW next \in SearchStates, Recent(next), Grounded(next),
         search' = [search EXCEPT ![w] = next], UNCHANGED <<catalogue, board, loading>>,
         geocode' \in {Nothing} \cup Positions, near' \in {Nothing} \cup Lists, CacheAges'
  PROVE  SearchInv'
<1>1. search' \in [Workers -> SearchStates]
  BY InvParts
<1>2. SearchTypeOK'
  BY <1>1, InvParts DEF SearchTypeOK
<1>3. SlotsHaveVenues'
  BY InvParts DEF SlotsHaveVenues
<1>4. ASSUME NEW u \in Workers PROVE Recent(search'[u]) /\ Grounded(search[u])'
  <2>1. CASE u = w
    BY <2>1, InvParts DEF Grounded
  <2>2. CASE u # w
    BY <2>2, InvParts DEF Grounded
  <2> QED BY <2>1, <2>2
<1>5. (\A u \in Workers : Recent(search[u]) /\ Grounded(search[u]))'
  BY <1>4 DEF Recent
<1> QED BY <1>2, <1>3, <1>5 DEF SearchInv

\* A step of the surroundings, that leaves the searches alone.
LEMMA SearchesStay ==
  ASSUME SearchInv, UNCHANGED <<catalogue, search>>, SearchTypeOK', CacheAges', SlotsHaveVenues'
  PROVE  SearchInv'
BY DEF SearchInv, Recent, Grounded

\* A step of the initialisation that writes the table of venues.
LEMMA SearchesOvertaken ==
  ASSUME SearchInv, Overtaking, UNCHANGED <<geocode, near>>,
         catalogue' \in SUBSET Venues, board' \in [Venues -> {"none", "priced", "estimated"}],
         SlotsHaveVenues'
  PROVE  SearchInv'
<1>1. ASSUME NEW w \in Workers
      PROVE  search'[w] \in SearchStates /\ Recent(search[w])' /\ Grounded(search[w])'
  <2>1. CASE search[w].at \in {"slots", "format"}
    <3>1. search'[w] = [search[w] EXCEPT !.overtaken = TRUE]
      BY <2>1 DEF Overtaking
    <3>2. /\ search'[w] \in SearchStates /\ search'[w].overtaken = TRUE
          /\ search'[w].at \in {"slots", "format"}
      BY <2>1, <3>1, InvParts, Marked
    <3> QED BY <3>2 DEF Recent, Grounded
  <2>2. CASE search[w].at \notin {"slots", "format"}
    <3>1. search'[w] = search[w]
      BY <2>2 DEF Overtaking
    <3> QED BY <2>2, <3>1, InvParts DEF Recent, Grounded
  <2> QED BY <2>1, <2>2
<1>2. search' \in [Workers -> SearchStates]
  BY <1>1 DEF Overtaking
<1>3. SearchTypeOK' /\ CacheAges'
  BY <1>2, InvParts DEF SearchTypeOK, CacheAges
<1> QED BY <1>1, <1>3 DEF SearchInv

-----------------------------------------------------------------------------
LEMMA SearchStarts == Init => SearchInv
<1> SUFFICES ASSUME Init PROVE SearchInv
  OBVIOUS
<1>1. \A w \in Workers : search[w] = Idle
  BY DEF Init
<1>2. SearchTypeOK
  <2>1. search \in [Workers -> SearchStates]
    BY DEF Init, SearchStates
  <2>2. catalogue \in SUBSET Venues
    BY SearchAssumption DEF Init
  <2> QED BY <2>1, <2>2 DEF Init, SearchTypeOK
<1>3. CacheAges /\ SlotsHaveVenues
  BY DEF Init, CacheAges, SlotsHaveVenues
<1>4. \A w \in Workers : Recent(search[w]) /\ Grounded(search[w])
  BY <1>1 DEF Idle, Recent, Grounded
<1> QED BY <1>2, <1>3, <1>4 DEF SearchInv

\* A step that leaves the cache alone.
LEMMA CacheStays ==
  ASSUME SearchInv, UNCHANGED cache
  PROVE  geocode' \in {Nothing} \cup Positions /\ near' \in {Nothing} \cup Lists /\ CacheAges'
BY InvParts DEF SearchTypeOK, CacheAges, cache

LEMMA AskKeeps ==
  ASSUME SearchInv, NEW w \in Workers, NEW specified \in SUBSET Venues, NEW omits \in Omissions,
         Ask(w, specified, omits)
  PROVE  SearchInv'
<1> DEFINE next == [at |-> "near", specified |-> specified, omits |-> omits]
<1>1. omits \in SUBSET Fields
  BY SearchAssumption DEF Fields
<1>2. next \in SearchStates /\ Recent(next) /\ Grounded(next)
  BY <1>1 DEF SearchStates, Starting, Recent, Grounded
<1>3. search' = [search EXCEPT ![w] = next] /\ UNCHANGED <<catalogue, board, loading, cache>>
  BY DEF Ask, Becomes, database
<1>4. geocode' \in {Nothing} \cup Positions /\ near' \in {Nothing} \cup Lists /\ CacheAges'
  BY <1>3, CacheStays
<1> HIDE DEF next
<1> QED BY <1>2, <1>3, <1>4, WorkerStep

\* What a search that is under way remembers whatever its stage.
LEMMA UnderWay ==
  ASSUME NEW s \in SearchStates, s.at \notin {"idle", "answered"}
  PROVE  s.omits \in SUBSET Fields /\ Overtaken(s) \in BOOLEAN
BY DEF SearchStates, Idle, Starting, Querying, Listed, Keyed, Read, Answered, Overtaken

\* A failure is final.
LEMMA Refused ==
  ASSUME SearchInv, NEW w \in Workers, NEW status \in {400, 500}, NEW why \in Reasons,
         NEW age \in Nat, search[w].at \notin {"idle", "answered"},
         status = 400 => why \in {"error", "garbled"} /\ age < Ttl,
         status = 500 => \/ why \in Sound \cup search[w].omits
                         \/ why = "venue" /\ Overtaken(search[w]),
         Answer(w, status, why, age), UNCHANGED <<catalogue, board, loading>>,
         geocode' \in {Nothing} \cup Positions, near' \in {Nothing} \cup Lists, CacheAges'
  PROVE  SearchInv'
<1> DEFINE next == [at |-> "answered", status |-> status, why |-> why, age |-> age, found |-> {},
                    omits |-> search[w].omits, overtaken |-> Overtaken(search[w])]
<1>1. search[w].omits \in SUBSET Fields /\ Overtaken(search[w]) \in BOOLEAN
  BY InvParts, UnderWay
<1>2. next \in SearchStates
  BY <1>1 DEF SearchStates, Answered
<1>3. Recent(next) /\ Grounded(next)
  BY DEF Recent, Grounded
<1>4. search' = [search EXCEPT ![w] = next]
  BY DEF Answer, Becomes
<1>5. UNCHANGED <<catalogue, board, loading>> /\ geocode' \in {Nothing} \cup Positions
      /\ near' \in {Nothing} \cup Lists /\ CacheAges'
  OBVIOUS
<1> HIDE DEF next
<1> QED BY ONLY SearchInv, w \in Workers, <1>2, <1>3, <1>4, <1>5, WorkerStep

\* The payload lacks what the stage needs.
LEMMA FieldMissingKeeps ==
  ASSUME SearchInv, NEW w \in Workers, FieldMissing(w)
  PROVE  SearchInv'
<1> DEFINE field == Needs[search[w].at]
<1>1. search[w].at \in {"near", "query", "games", "slots"} /\ field \in search[w].omits
  BY DEF FieldMissing, Lacks, Needs
<1>2. field \in Reasons
  BY <1>1, InvParts, UnderWay DEF Reasons
<1>3. Answer(w, 500, field, 0) /\ UNCHANGED <<catalogue, board, loading, cache>>
  BY DEF FieldMissing, database
<1> HIDE DEF field
<1> QED BY <1>1, <1>2, <1>3, CacheStays, Refused

LEMMA DatabaseFailsKeeps ==
  ASSUME SearchInv, NEW w \in Workers, DatabaseFails(w)
  PROVE  SearchInv'
<1>1. search[w].at \in {"query", "games", "slots", "format"} /\ Answer(w, 500, "database", 0)
      /\ UNCHANGED <<catalogue, board, loading, cache>>
  BY DEF DatabaseFails, database
<1>2. "database" \in Sound /\ "database" \in Reasons
  BY DEF Sound, Reasons
<1> QED BY <1>1, <1>2, CacheStays, Refused

LEMMA LookUpNearKeeps ==
  ASSUME SearchInv, NEW w \in Workers, LookUpNear(w)
  PROVE  SearchInv'
<1> DEFINE s == search[w]
           hit == IF "radius" \in s.omits THEN Nothing ELSE Cached(w, near)
<1>1. s \in Starting /\ s.at = "near"
  BY InvParts, StageOf DEF LookUpNear
<1>2. UNCHANGED <<catalogue, board, loading, geocode>>
  BY DEF LookUpNear, database
<1>3. CASE hit = Nothing
  <2> DEFINE next == [s EXCEPT !.at = "geocode"]
  <2>1. search' = [search EXCEPT ![w] = next] /\ near' = near
    BY <1>3 DEF LookUpNear, Becomes
  <2>2. next \in Starting /\ next.at = "geocode"
    BY <1>1 DEF Starting
  <2>3. next \in SearchStates /\ Recent(next) /\ Grounded(next)
    BY <2>2 DEF SearchStates, Recent, Grounded
  <2> QED BY <1>2, <2>1, <2>3, InvParts, WorkerStep DEF SearchTypeOK, CacheAges
<1>4. CASE hit # Nothing
  <2> DEFINE next == [at |-> "games", specified |-> s.specified, omits |-> s.omits,
                      venues |-> near.venues, age |-> near.age, located |-> near.located]
  <2>1. hit = near /\ near # Nothing
    BY <1>4 DEF Cached
  <2>2. search' = [search EXCEPT ![w] = next] /\ near' = near
    BY <1>4, <2>1 DEF LookUpNear, WithVenues, Becomes, AfterHit
  <2>3. near \in Lists /\ near.age < Ttl /\ near.located < 2 * Ttl
    BY <2>1, InvParts, SearchAssumption DEF SearchTypeOK, CacheAges, Lists
  <2>4. next \in Listed
    BY <1>1, <2>3 DEF Starting, Listed, Lists
  <2>5. next \in SearchStates /\ Recent(next) /\ Grounded(next)
    BY <2>3, <2>4 DEF SearchStates, Recent, Grounded
  <2> QED BY <1>2, <2>2, <2>5, InvParts, WorkerStep DEF SearchTypeOK, CacheAges
<1> QED BY <1>3, <1>4

\* With a position of that age the database is asked.
LEMMA QueryNext ==
  ASSUME SearchInv, NEW w \in Workers, search[w] \in Starting, NEW age \in Nat, age < Ttl,
         ToQuery(w, age), UNCHANGED <<catalogue, board, loading>>,
         geocode' \in {Nothing} \cup Positions, near' \in {Nothing} \cup Lists, CacheAges'
  PROVE  SearchInv'
<1> DEFINE s == search[w]
           next == [at |-> "query", specified |-> s.specified, omits |-> s.omits,
                    located |-> age]
<1>1. next \in Querying
  BY DEF Starting, Querying
<1>2. next \in SearchStates /\ Recent(next) /\ Grounded(next)
  BY <1>1 DEF SearchStates, Recent, Grounded
<1>3. search' = [search EXCEPT ![w] = next]
  BY DEF ToQuery, Becomes
<1> QED BY <1>2, <1>3, WorkerStep

LEMMA LookUpGeocodeKeeps ==
  ASSUME SearchInv, NEW w \in Workers, LookUpGeocode(w)
  PROVE  SearchInv'
<1> DEFINE s == search[w]
           hit == Cached(w, geocode)
<1>1. s \in Starting /\ s.at = "geocode"
  BY InvParts, StageOf DEF LookUpGeocode
<1>2. UNCHANGED <<catalogue, board, loading, geocode, near>>
  BY DEF LookUpGeocode, database
<1>3. geocode' \in {Nothing} \cup Positions /\ near' \in {Nothing} \cup Lists /\ CacheAges'
  BY <1>2, InvParts DEF SearchTypeOK, CacheAges
<1>4. CASE hit = Nothing
  <2> DEFINE next == [s EXCEPT !.at = "asking"]
  <2>1. search' = [search EXCEPT ![w] = next]
    BY <1>4 DEF LookUpGeocode, Becomes
  <2>2. next \in Starting /\ next.at = "asking"
    BY <1>1 DEF Starting
  <2>3. next \in SearchStates /\ Recent(next) /\ Grounded(next)
    BY <2>2 DEF SearchStates, Recent, Grounded
  <2> QED BY <1>2, <1>3, <2>1, <2>3, WorkerStep
<1>5. CASE hit # Nothing
  <2>1. hit = geocode /\ geocode # Nothing
    BY <1>5 DEF Cached
  <2>2. geocode.age \in Nat /\ geocode.age < Ttl /\ geocode.ok \in BOOLEAN
    BY <2>1, InvParts, SearchAssumption DEF SearchTypeOK, CacheAges, Positions
  <2>3. CASE geocode.ok
    <3>1. ToQuery(w, geocode.age)
      BY <1>5, <2>1, <2>3 DEF LookUpGeocode
    <3> QED BY <1>1, <1>2, <1>3, <2>2, <3>1, QueryNext
  <2>4. CASE ~geocode.ok
    <3>1. Answer(w, 400, "error", geocode.age)
      BY <1>5, <2>1, <2>4 DEF LookUpGeocode
    <3>2. "error" \in Reasons
      BY DEF Reasons
    <3> QED BY <1>1, <1>2, <1>3, <2>2, <3>1, <3>2, Refused
  <2> QED BY <2>3, <2>4
<1> QED BY <1>4, <1>5

LEMMA GeocodedKeeps ==
  ASSUME SearchInv, NEW w \in Workers, NEW ok \in BOOLEAN, Geocoded(w, ok)
  PROVE  SearchInv'
<1> DEFINE s == search[w]
           entry == [ok |-> ok, left |-> Ttl, age |-> 0]
<1>1. s \in Starting /\ s.at = "asking"
  BY InvParts, StageOf DEF Geocoded
<1>2. UNCHANGED <<catalogue, board, loading, near>> /\ geocode' \in {geocode, entry}
  BY DEF Geocoded, database, Stored
<1>3. Ttl \in Nat /\ Ttl > 0 /\ entry \in Positions
  BY SearchAssumption DEF Positions
<1>4. geocode' \in {Nothing} \cup Positions /\ near' \in {Nothing} \cup Lists
  BY <1>2, <1>3, InvParts DEF SearchTypeOK
<1>5. CacheAges'
  <2>1. entry.left > 0 /\ entry.left + entry.age = Ttl
    BY <1>3
  <2> QED BY <1>2, <2>1, InvParts DEF CacheAges
<1>6. CASE ok
  <2>1. ToQuery(w, 0)
    BY <1>6 DEF Geocoded
  <2> QED BY <1>1, <1>2, <1>3, <1>4, <1>5, <2>1, QueryNext
<1>7. CASE ~ok
  <2>1. Answer(w, 400, "error", 0)
    BY <1>7 DEF Geocoded
  <2>2. "error" \in Reasons
    BY DEF Reasons
  <2> QED BY <1>1, <1>2, <1>3, <1>4, <1>5, <2>1, <2>2, Refused
<1> QED BY <1>6, <1>7

LEMMA GeocodingFailsKeeps ==
  ASSUME SearchInv, NEW w \in Workers, NEW how \in {"garbled", "lost"}, GeocodingFails(w, how)
  PROVE  SearchInv'
<1>1. search[w].at = "asking"
  BY DEF GeocodingFails
<1>2. UNCHANGED <<catalogue, board, loading, geocode, near>>
  BY DEF GeocodingFails, database, cache
<1>3. geocode' \in {Nothing} \cup Positions /\ near' \in {Nothing} \cup Lists /\ CacheAges'
  BY <1>2, InvParts DEF SearchTypeOK, CacheAges
<1>4. how \in Reasons /\ "lost" \in Sound /\ Ttl \in Nat /\ Ttl > 0
  BY SearchAssumption DEF Reasons, Sound
<1>5. CASE how = "garbled"
  <2>1. Answer(w, 400, "garbled", 0)
    BY <1>5 DEF GeocodingFails
  <2> QED BY <1>1, <1>2, <1>3, <1>4, <1>5, <2>1, Refused
<1>6. CASE how = "lost"
  <2>1. Answer(w, 500, "lost", 0)
    BY <1>6 DEF GeocodingFails
  <2> QED BY <1>1, <1>2, <1>3, <1>4, <1>6, <2>1, Refused
<1> QED BY <1>5, <1>6

LEMMA QueryNearKeeps ==
  ASSUME SearchInv, NEW w \in Workers, QueryNear(w)
  PROVE  SearchInv'
<1> DEFINE s == search[w]
           list == [venues |-> catalogue, age |-> 0, located |-> s.located]
           entry == [f \in DOMAIN list \cup {"left"} |-> IF f = "left" THEN Ttl ELSE list[f]]
           next == [at |-> "games", specified |-> s.specified, omits |-> s.omits,
                    venues |-> catalogue, age |-> 0, located |-> s.located]
<1>1. s \in Querying /\ s.located < Ttl /\ s.located \in Nat
  BY InvParts, StageOf DEF QueryNear, Recent, Querying
<1>2. Ttl \in Nat /\ Ttl > 0 /\ catalogue \in SUBSET Venues
  BY InvParts, SearchAssumption DEF SearchTypeOK
<1>3. /\ UNCHANGED <<catalogue, board, loading, geocode>> /\ near' \in {near, entry}
      /\ search' = [search EXCEPT ![w] = next]
  BY DEF QueryNear, database, Stored, WithVenues, Becomes
<1>4. entry = [venues |-> catalogue, age |-> 0, located |-> s.located, left |-> Ttl]
  OBVIOUS
<1>5. entry \in Lists
  BY <1>1, <1>2, <1>4 DEF Lists
<1>6. entry.left > 0 /\ entry.left + entry.age = Ttl /\ entry.located < entry.age + Ttl
  BY <1>1, <1>2, <1>4
<1> HIDE DEF entry
<1>7. geocode' \in {Nothing} \cup Positions /\ near' \in {Nothing} \cup Lists
  BY <1>3, <1>5, InvParts DEF SearchTypeOK
<1>8. CacheAges'
  BY <1>3, <1>6, InvParts DEF CacheAges
<1>9. next \in Listed
  BY <1>1, <1>2 DEF Querying, Listed
<1>10. next \in SearchStates /\ Recent(next) /\ Grounded(next)
  BY <1>1, <1>2, <1>9 DEF SearchStates, Recent, Grounded
<1> QED BY <1>3, <1>7, <1>8, <1>10, WorkerStep

\* No game of the catalogue is among the courts that are looked for.
LEMMA ReadGamesKeeps ==
  ASSUME SearchInv, NEW w \in Workers, ReadGames(w)
  PROVE  SearchInv'
<1> DEFINE s == search[w]
           next == [at |-> "slots", keys |-> CourtKeys(s), omits |-> s.omits, overtaken |-> FALSE]
<1>1. s \in Listed
  BY InvParts, StageOf DEF ReadGames
<1>2. CourtKeys(s) \in SUBSET Venues /\ CourtKeys(s) \cap (Games \cap catalogue) = {}
  BY <1>1 DEF CourtKeys, Listed
<1>3. next \in SearchStates /\ Recent(next) /\ Grounded(next)
  BY <1>1, <1>2 DEF SearchStates, Listed, Keyed, Recent, Grounded
<1>4. search' = [search EXCEPT ![w] = next] /\ UNCHANGED <<catalogue, board, loading, cache>>
  BY DEF ReadGames, Becomes, database
<1> QED BY <1>3, <1>4, CacheStays, WorkerStep

\* What is found has a venue, and the games were left out.
LEMMA ReadSlotsKeeps ==
  ASSUME SearchInv, NEW w \in Workers, ReadSlots(w)
  PROVE  SearchInv'
<1> DEFINE s == search[w]
           found == {v \in s.keys : board[v] # "none"}
           estimates == {v \in found : board[v] = "estimated"}
           next == [at |-> "format", omits |-> s.omits, overtaken |-> s.overtaken, found |-> found,
                    estimates |-> estimates]
<1>1. s \in Keyed /\ s.at = "slots"
  BY InvParts, StageOf DEF ReadSlots
<1>2. found \in SUBSET Venues /\ estimates \in SUBSET Venues /\ found \subseteq catalogue
  BY <1>1, InvParts DEF Keyed, SlotsHaveVenues
<1>3. ~s.overtaken => found \cap Games = {}
  BY <1>1, <1>2, InvParts DEF Grounded
<1>4. search' = [search EXCEPT ![w] = next] /\ UNCHANGED <<catalogue, board, loading, cache>>
  BY DEF ReadSlots, Becomes, database
<1> HIDE DEF found, estimates
<1>5. next \in SearchStates
  BY <1>1, <1>2 DEF SearchStates, Keyed, Read
<1>6. Recent(next) /\ Grounded(next)
  BY <1>2, <1>3 DEF Recent, Grounded
<1> QED BY <1>4, <1>5, <1>6, CacheStays, WorkerStep

LEMMA RespondKeeps ==
  ASSUME SearchInv, NEW w \in Workers, NEW by \in SortBy, NEW leapDay \in BOOLEAN,
         Respond(w, by, leapDay)
  PROVE  SearchInv'
<1> DEFINE s == search[w]
           wrong == Failures(s, by, leapDay)
<1>1. s \in Read /\ s.at = "format"
  BY InvParts, StageOf DEF Respond
<1>2. UNCHANGED <<catalogue, board, loading, cache>>
  BY DEF Respond, database
<1>3. ~s.overtaken => s.found \subseteq catalogue /\ s.found \cap Games = {}
  BY <1>1, InvParts DEF Grounded
<1>4. CASE Becomes(w, [at |-> "answered", status |-> 200, why |-> "found", age |-> 0,
                       found |-> s.found, omits |-> s.omits, overtaken |-> s.overtaken])
  <2> DEFINE next == [at |-> "answered", status |-> 200, why |-> "found", age |-> 0,
                      found |-> s.found, omits |-> s.omits, overtaken |-> s.overtaken]
  <2>1. next \in SearchStates
    BY <1>1 DEF SearchStates, Read, Answered, Reasons
  <2>2. Recent(next) /\ Grounded(next)
    BY <1>3 DEF Recent, Grounded
  <2>3. search' = [search EXCEPT ![w] = next]
    BY <1>4 DEF Becomes
  <2> QED BY <1>2, <2>1, <2>2, <2>3, CacheStays, WorkerStep
<1>5. ASSUME NEW why \in wrong, Answer(w, 500, why, 0) PROVE SearchInv'
  <2>1. why \in {"venue", "estimate", "order", "day"} /\ (why = "venue" => s.found \ catalogue # {})
    BY <1>5 DEF Failures
  <2>2. why \in Reasons /\ s.overtaken \in BOOLEAN
    BY <1>1, <2>1 DEF Reasons, Sound, Read
  <2>3. why \in Sound \/ (why = "venue" /\ Overtaken(s))
    BY <1>1, <1>3, <2>1, <2>2 DEF Sound, Overtaken
  <2> QED BY <1>1, <1>2, <1>5, <2>2, <2>3, CacheStays, Refused
<1> QED BY <1>4, <1>5 DEF Respond

LEMMA RestartKeeps ==
  ASSUME SearchInv, NEW w \in Workers, Restart(w)
  PROVE  SearchInv'
<1>1. Idle \in SearchStates /\ Recent(Idle) /\ Grounded(Idle)
  BY DEF Idle, SearchStates, Recent, Grounded
<1>2. search' = [search EXCEPT ![w] = Idle] /\ UNCHANGED <<catalogue, board, loading, geocode, near>>
  BY DEF Restart, database
<1> QED BY <1>1, <1>2, InvParts, WorkerStep DEF SearchTypeOK, CacheAges

-----------------------------------------------------------------------------
LEMMA RefreshKeeps ==
  ASSUME SearchInv, NEW v \in Venues, NEW what \in {"none", "priced", "estimated"},
         Refresh(v, what)
  PROVE  SearchInv'
<1>1. /\ v \in catalogue /\ board' = [board EXCEPT ![v] = what]
      /\ UNCHANGED <<catalogue, loading, cache, search>>
  BY DEF Refresh
<1>2. SearchTypeOK' /\ CacheAges'
  BY <1>1, InvParts, CacheStays DEF SearchTypeOK
<1>3. SlotsHaveVenues'
  BY <1>1, InvParts DEF SlotsHaveVenues, SearchTypeOK
<1> QED BY <1>1, <1>2, <1>3, SearchesStay

LEMMA TruncateSlotsKeeps ==
  ASSUME SearchInv, TruncateSlots
  PROVE  SearchInv'
<1>1. UNCHANGED <<catalogue, cache, search>> /\ board' = [v \in Venues |-> "none"]
      /\ loading' = "slots"
  BY DEF TruncateSlots
<1>2. SearchTypeOK' /\ CacheAges' /\ SlotsHaveVenues'
  BY <1>1, InvParts, CacheStays DEF SearchTypeOK, SlotsHaveVenues
<1> QED BY <1>1, <1>2, SearchesStay

\* The venues go only when no slot refers to one.
LEMMA TruncateVenuesKeeps ==
  ASSUME SearchInv, TruncateVenues
  PROVE  SearchInv'
<1>1. UNCHANGED <<board, geocode, near>>
  BY DEF TruncateVenues, cache
<1>2. CASE \A v \in Venues : board[v] = "none"
  <2>1. Overtaking /\ catalogue' = {}
    BY <1>2 DEF TruncateVenues
  <2>2. SlotsHaveVenues'
    BY <1>1, <1>2, <2>1 DEF SlotsHaveVenues
  <2> QED BY <1>1, <2>1, <2>2, InvParts, SearchesOvertaken DEF SearchTypeOK
<1>3. CASE ~ \A v \in Venues : board[v] = "none"
  <2>1. UNCHANGED <<catalogue, search>> /\ loading' = "no"
    BY <1>3 DEF TruncateVenues
  <2>2. SearchTypeOK' /\ CacheAges' /\ SlotsHaveVenues'
    BY <1>1, <2>1, InvParts DEF SearchTypeOK, CacheAges, SlotsHaveVenues
  <2> QED BY <2>1, <2>2, SearchesStay
<1> QED BY <1>2, <1>3

LEMMA LoadSportsCentreMappingsKeeps ==
  ASSUME SearchInv, LoadSportsCentreMappings
  PROVE  SearchInv'
<1>1. Overtaking /\ UNCHANGED <<board, geocode, near>>
  BY DEF LoadSportsCentreMappings, cache
<1>2. catalogue' \in SUBSET Venues
  BY SearchAssumption DEF LoadSportsCentreMappings
<1>3. SlotsHaveVenues'
  BY InvParts DEF SlotsHaveVenues, LoadSportsCentreMappings
<1> QED BY <1>1, <1>2, <1>3, InvParts, SearchesOvertaken DEF SearchTypeOK

LEMMA InitialisationDiesKeeps ==
  ASSUME SearchInv, InitialisationDies
  PROVE  SearchInv'
<1>1. UNCHANGED <<catalogue, board, cache, search>> /\ loading' = "no"
  BY DEF InitialisationDies
<1>2. SearchTypeOK' /\ CacheAges' /\ SlotsHaveVenues'
  BY <1>1, InvParts, CacheStays DEF SearchTypeOK, SlotsHaveVenues
<1> QED BY <1>1, <1>2, SearchesStay

LEMMA TickKeeps ==
  ASSUME SearchInv, Tick
  PROVE  SearchInv'
<1> DEFINE older == [near EXCEPT !.located = @ + 1]
<1>1. UNCHANGED <<catalogue, board, loading, search>>
  BY DEF Tick, database
<1>2. ASSUME geocode' # Nothing
      PROVE  geocode' \in Positions /\ geocode'.left > 0 /\ geocode'.left + geocode'.age = Ttl
  <2>1. /\ geocode \in Positions /\ geocode # Nothing /\ geocode.left # 1
        /\ geocode' = [geocode EXCEPT !.left = geocode.left - 1, !.age = geocode.age + 1]
    BY <1>2, InvParts DEF Tick, Aged, SearchTypeOK, Positions
  <2>2. geocode.left \in Nat /\ geocode.age \in Nat /\ geocode.left > 0
        /\ geocode.left + geocode.age = Ttl
    BY <2>1, InvParts DEF CacheAges, Positions
  <2>3. geocode.left - 1 \in Nat /\ geocode.age + 1 \in Nat
    BY <2>2
  <2>4. geocode' \in Positions
    BY <2>1, <2>3 DEF Positions
  <2>5. geocode'.left = geocode.left - 1 /\ geocode'.age = geocode.age + 1
    BY <2>1 DEF Positions
  <2>6. geocode'.left > 0 /\ geocode'.left + geocode'.age = Ttl
    BY <2>1, <2>2, <2>5
  <2> QED BY <2>4, <2>6
<1>3. ASSUME near' # Nothing
      PROVE  /\ near' \in Lists /\ near'.left > 0 /\ near'.left + near'.age = Ttl
             /\ near'.located < near'.age + Ttl
  <2>1. near \in Lists /\ near # Nothing
    BY <1>3, InvParts DEF Tick, Aged, SearchTypeOK
  <2>2. older \in Lists /\ older.left = near.left /\ older.age = near.age
        /\ older.located = near.located + 1
    BY <2>1 DEF Lists
  <2>3. near.left \in Nat /\ near.age \in Nat /\ near.located \in Nat /\ near.left > 0
        /\ near.left + near.age = Ttl /\ near.located < near.age + Ttl
    BY <2>1, InvParts DEF CacheAges, Lists
  <2>4. older.left # 1 /\ near' = [older EXCEPT !.left = older.left - 1, !.age = older.age + 1]
    BY <1>3, <2>1, <2>2 DEF Tick, Aged, Lists
  <2> HIDE DEF older
  <2>5. older.left - 1 \in Nat /\ older.age + 1 \in Nat
    BY <2>2, <2>3, <2>4
  <2>6. near' \in Lists
    BY <2>2, <2>4, <2>5 DEF Lists
  <2>7. near'.left = older.left - 1 /\ near'.age = older.age + 1 /\ near'.located = older.located
    BY <2>2, <2>4 DEF Lists
  <2>8. near'.left > 0 /\ near'.left + near'.age = Ttl /\ near'.located < near'.age + Ttl
    BY <2>2, <2>3, <2>4, <2>7, SearchAssumption
  <2> QED BY <2>6, <2>8
<1>4. geocode' \in {Nothing} \cup Positions /\ near' \in {Nothing} \cup Lists
  BY <1>2, <1>3
<1>5. CacheAges'
  BY <1>2, <1>3 DEF CacheAges
<1>6. SearchTypeOK' /\ SlotsHaveVenues'
  BY <1>1, <1>4, InvParts DEF SearchTypeOK, SlotsHaveVenues
<1> QED BY <1>1, <1>5, <1>6, SearchesStay

LEMMA SearchStep == SearchInv /\ [Next]_vars => SearchInv'
<1> SUFFICES ASSUME SearchInv, [Next]_vars PROVE SearchInv'
  OBVIOUS
<1>1. CASE UNCHANGED vars
  <2>1. UNCHANGED <<catalogue, board, loading, cache, search>>
    BY <1>1 DEF vars, database
  <2>2. SearchTypeOK' /\ CacheAges' /\ SlotsHaveVenues'
    BY <2>1, InvParts, CacheStays DEF SearchTypeOK, SlotsHaveVenues
  <2> QED BY <2>1, <2>2, SearchesStay
<1>2. CASE ValkeyComesOrGoes
  <2>1. UNCHANGED <<catalogue, board, loading, geocode, near, search>>
    BY <1>2 DEF ValkeyComesOrGoes, database
  <2>2. SearchTypeOK' /\ CacheAges' /\ SlotsHaveVenues'
    BY <2>1, InvParts DEF SearchTypeOK, CacheAges, SlotsHaveVenues
  <2> QED BY <2>1, <2>2, SearchesStay
<1>3. ASSUME NEW w \in Workers, NEW specified \in {{}, Venues}, NEW omits \in Omissions,
             Ask(w, specified, omits)
      PROVE  SearchInv'
  BY <1>3, AskKeeps
<1> QED BY <1>1, <1>2, <1>3, FieldMissingKeeps, DatabaseFailsKeeps, LookUpNearKeeps, LookUpGeocodeKeeps, GeocodedKeeps,
           GeocodingFailsKeeps, QueryNearKeeps, ReadGamesKeeps, ReadSlotsKeeps, RespondKeeps,
           RestartKeeps, RefreshKeeps, TruncateSlotsKeeps, TruncateVenuesKeeps,
           LoadSportsCentreMappingsKeeps, InitialisationDiesKeeps, TickKeeps
        DEF Next

LEMMA SearchInvariant == Spec => []SearchInv
BY SearchStarts, SearchStep, PTL DEF Spec

-----------------------------------------------------------------------------
\* Whatever Valkey, the geocoding service and the other processes do, a search
\* never works with a list, a position or a refusal that the time to live has
\* run out on (get_venues_near_postcode, geocode_postcode).
THEOREM AnswersAreRecent == Spec => []CacheIsRecent
<1>1. SearchInv => CacheIsRecent
  BY DEF SearchInv, Recent, CacheIsRecent, Searches
<1> QED BY <1>1, SearchInvariant, PTL

\* However the reads of a search fall between the commits of the pipeline and the
\* steps of an initialisation, finished or killed, only a search between whose
\* reads the venue table is rewritten may offer a game among the courts or miss
\* a venue it found; any other fails for the network, the database, a field its
\* payload lacks, or the sort, and nothing else (search,
\* sort_and_format_grouped_slots_for_ui).
THEOREM AnswersAreExplained == Spec => []AnswersExplained
<1>1. SearchInv => AnswersExplained
  BY DEF SearchInv, Grounded, Sound, AnswersExplained, Answers, Searches
<1> QED BY <1>1, SearchInvariant, PTL
=============================================================================
