# shuttlebot / Sportscanner in TLA+

Sportscanner crawls the booking systems of London's leisure centres and serves
the courts that can be booked from one PostgreSQL database. This directory holds
TLA+ models of that system, TLC runs that check them on small instances, and
proofs, checked by TLAPS, of what holds for every instance.

Paths below are relative to the repository.

## 1. The system

### Components, their state and operations

| Component | State | Operations | Interacts with |
|---|---|---|---|
| Slot store (`sportscanner/storage/postgres/database.py`) | one master table per sport; primary key `uid` | `insert_records_to_table` (upsert, then mark stale), `truncate_by_composite_key_and_reload`, `delete_past_slots` | called by the pipeline; read by search, games, and by the Better parser when it blanks |
| Crawl engine (`crawlers/parsers/core/interfaces.py`) | per provider and run: asyncio tasks, semaphore, circuit breaker | `_fetch_and_transform`, `_bounded`, the wait loop of `_send_concurrent_requests`, `_CircuitBreaker.record` | drives request strategies and parsers; result goes to the pipeline |
| Pipeline (`crawlers/pipeline.py`, `crawlers/helpers.py`) | none that survives a run | per sport: gather the providers, flatten, estimate prices, purge, upsert (badminton: and reload) | crawl engine, slot store; started every 15 minutes by a workflow that cancels the run in progress |
| Provider strategies (`crawlers/parsers/*`, some twenty providers) | session tokens, Matchi's and Playtomic's page caches | build requests, parse responses, blank withdrawn listings, aggregate courts | plugged into the crawl engine; a dozen crawlers bring a fetch loop of their own |
| Fallback chain, FlareSolverr (`crawlers/anonymize`) | the browser profile in rotation | one request over a chain of hops: direct, impersonated, through FlareSolverr | Playtomic, Matchi, ClubSpark |
| Search and games API (`api/routers/search`, `games`, `dataset_transform.py`) | none | filter, group, format and order rows of the master tables | slot store, venues |
| Venues, geocoding, cache (`api/routers/venues`, `cache.py`) | Valkey entries, a client per process that may be disabled | geocode, nearest venues | Valkey, postcodes.io, the venue table |
| Users, notifications, API tokens (`user_repository.py`, `api_token_repository.py`, their routers) | rows of their tables | profile and preferences, create/edit/acknowledge, create/revoke/authenticate | MCP authenticates by token |
| MCP server (`mcp`) | authorised clients | OIDC proxy, grant tracking, tools | HTTP API, user tables |
| Bootstrap (`initialize_db_and_tables`) | all tables | create, empty, load the venue sheet | everything |

### What is hard

* **Concurrency.** All requests of a provider share one event loop and one
  breaker; permits must survive failures and cancellation. Two pipeline
  processes may write one table (the workflow serialises itself, the Makefile's
  `crawler-pipeline-container` does not take part in that).
* **Failure.** Any request, any provider, the process and the connection may
  fail at any point; a cancelled run stops between its transactions.
* **Absence as information.** A provider does not say that a slot is gone. The
  store concludes it from what a batch leaves out, and so does not know a
  dropped slot from one whose request failed.
* **Ordering.** Responses arrive in any order, are merged with "first with
  spaces wins", and midnight passes while a run is in flight.
* **Conversion.** Every provider has its own idea of a date, an instant, a
  court, a price and a full session, and some of them of the venue.
* **Staleness.** A search reads the cache, the venues, the slots and the venues
  again, none of it in one transaction; the API's processes load a row, and
  write it back after others have committed.

### What makes each component correct

* Slot store: after a batch the board shows exactly the open slots of the batch
  for the venues and dates the batch speaks for, and everything else is as it
  was; an upserted slot has one row; the two writers of the badminton table
  never take each other's rows; rows only leave when their day has passed.
* Crawl engine: permits are conserved, breaker counts are exact, nothing fetched
  is lost, only a trip skips a request, the crawl returns.
* Pipeline: what was fully answered is offered exactly; failures and killed runs
  only make the table older; it converges once the world settles; the table does
  not grow without bound.
* Providers: nothing is offered that was not on sale, every court is counted,
  nothing that was free and asked for is hidden, blanks zero rows that exist,
  estimated prices come from prices that were published.
* Fetch loops: permits and locks are given back, a venue's page is read once,
  paced requests stay apart, every crawl comes back.
* Search: cached answers are as young as promised, games are no courts, and a
  search fails for a reason.
* Account rows: a commit changes what its request asked for, and
  acknowledgements do not pile up.

## 2. Modules

| Module | Models | Refines / is composed from |
|---|---|---|
| `SlotBoard` | the promise to readers: a set of bookable slots, and what a list of slots does to it | abstract |
| `SlotStore` | rows and the three transactions, each one step | implements `SlotBoard` (`BoardSpec`) |
| `SlotWriters` | the same transactions statement by statement and row by row, for a set of runs | extends `SlotStore`; for one run it executes that module's transactions, each on the run's batch (`StoreSpec`) |
| `CrawlFetch` | the tasks of one provider's crawl | |
| `CrawlerPipeline` | one sport's pipeline between changing providers and the table | extends `SlotStore`, uses its three transactions; implements its `Spec` |
| `BookingPlatform` | what the crawlers look at: the providers' timetables, and members who book and cancel | external |
| `ProviderRequests` | the requests each crawler sends, and what the provider selects for them | extends `BookingPlatform` |
| `ProviderParsers` | what each `parse` makes of an answer | extends `ProviderRequests` |
| `ProviderCrawl` | one crawl of one provider, from its requests to the priced list the pipeline stores | extends `ProviderParsers` |
| `FetchChain` | the fetch loops that bypass the crawl engine: hops, permits, locks, pacing, handshakes | |
| `VenueSearch` | a search, with the cache and the geocoding service, while the pipeline commits and the database is initialised | |
| `Accounts` | users, preferences, notifications and tokens under concurrent processes | |
| `SlotStoreProofs`, `SlotWritersProofs`, `CrawlFetchProofs`, `CrawlerPipelineProofs`, `ProviderCrawlProofs`, `FetchChainProofs`, `VenueSearchProofs`, `AccountsProofs` | theorems | extend the module they are about |
| `MCSlotStore`, `MCSlotWriters`, `MCCrawlFetch`, `MCCrawlerPipeline`, `MCProviderCrawl`, `MCFetchChain`, `MCVenueSearch`, `MCAccounts` | values of the constants | |

How they fit together: `FetchChain` and `CrawlFetch` say how one request is sent
and what becomes of it, `ProviderCrawl` what the answers to a provider's
requests turn into, `CrawlerPipeline` what a sport's collected lists do to the
table, `SlotWriters` how PostgreSQL executes that, `VenueSearch` and `SlotBoard`
what a reader sees. Each takes as one step what the one before it takes apart.

Operators marked "Mutant" are the bugs that each checked property was shown to
catch: put in place of the definition that follows them, TLC reports the
property violated.

### SlotStore

`table` is the master table; a row keeps `uid`, the slot it describes (venue =
`composite_key`, date, session = category with start and end time) and `spaces`.
Prices, links, capacity, `starts_at` and `last_refreshed` are columns the upsert
copies along. The md5 of the slot's fields is taken to be injective, so `UidOf`
is the slot itself; a `uuid4` is a value of `Uuids`, disjoint from the hashes,
that no row of the table has.

* `InsertRecordsToTable`: de-duplication (`Deduplicated`: for each uid the first
  entry with spaces, else the first; a batch is in the order responses
  completed, so any entry with spaces may be first), the upsert (`Upserted`) and
  the stale `UPDATE` (`MarkedStale`), in one transaction.
* `TruncateByCompositeKeyAndReload`, `DeletePastSlots`: as the code.
* `NextDay`: `date.today()` moves on.

`SlotBoard!Covered` makes explicit what the two `IN` clauses mean: a batch
speaks for every venue of it on every date of it, the *product*, also for pairs
it does not list.

### SlotWriters

The engine has no isolation level, so transactions are READ COMMITTED. A
statement takes a snapshot of what is committed plus its own writes (`Seen`),
visits its rows in any order, waits for a row another transaction holds
(`Free`), and reads a row again that it waited for. `written[w]` holds the
uncommitted versions; its domain is the set of row locks. `BeginUpsert`,
`UpsertRow`, `BeginMarking`, `MarkRow`, `CommitUpsert` are
`insert_records_to_table`; `BeginReload`, `DeleteRow`, `CommitReload` are
`truncate_by_composite_key_and_reload`; `PurgePast` is `delete_past_slots`.
`Crash` ends a transaction anywhere without a trace, `BreakDeadlock` is
PostgreSQL's deadlock detector. Lock, snapshot and deadlock operators model
PostgreSQL and are mapped as external.

### CrawlFetch

A step is what runs between two awaits. `task` and `attempt` place each
coroutine, `completed`, `failures`, `tripped` are the breaker, `permits` the
semaphore, `collected` the results `_send_concurrent_requests` has appended. A
response that arrives and makes `parser.parse` (or `_on_empty_response`) raise
is recorded twice, as the code does (`HandlingRaises`). `Collect` is one return
of `asyncio.wait` with the whole loop body, the cancellation included.

### CrawlerPipeline

`open` is what can be booked at the providers, which customers change
(`BookOrCancel`). A run generates its requests from today's date (`StartRun`),
fetches them in any order (`Fetch`, `FailToFetch`), does the reloading
provider's, and then purges, upserts and reloads. `Response` is what the parser
hands over: a listing, or for Better-style providers on an empty listing the
venue's rows of that date, read from the table *then*, with no spaces. `Abort`
is the cancelled job, a crash, or a provider that raises out of
`SportscannerCrawlerBot`. Each of `Fetch` and the three transactions is one step
here: `CrawlFetch` and `SlotWriters` have their insides. A sport without a
reloading provider is the instance with no `ReloadVenues`; those pipelines skip
the insert when nothing was collected, which `Upsert` does too.

### BookingPlatform, ProviderRequests, ProviderParsers, ProviderCrawl

A session is a venue, a court, an activity, a day, a start and a length on the
venue's clock, `places` what is left of it; `summer` is the offset of London, so
`Utc` and `StockholmStamp` are the instants providers publish. `Book` and
`Cancel` change `places` while a crawl runs.

`ProviderRequests` has an operator for each entry point of the scraper modules:
which venues, dates (`AllowableDates`) and activities one request asks for, and
`Answer`, what the provider then selects (a UTC day, a month, all from now on,
only what is free). `ProviderParsers` has an operator for each `parse`; a listing
is a `UnifiedParserSchema` without its booking link. `ProviderCrawl` answers the
requests in any order (`Answered`), loses some (`Fails`) or has them answered by
a page that is not JSON (`Garbled`), and prices the collected list at the end
(`FillEstimatedPrices`; prices are kept doubled, so that a median is whole, and
`Ordered` finds the middle ones by their rank, as `statistics.median` does by
sorting). Stratford's free intervals are the fold the code's loop is: `Swept`
takes the last block in the order of `sorted()` after all the others, `Sweep` is
the loop's body. `most` and `least` record what each session has had during the crawl, which is
what the properties compare a listing with.

A session may start or end at midnight (`EndHour` is then 0), but does not go on
beyond it. Three crawlers ask for a day of UTC and file the answer under that day
(Everyone Active, Southwark, Playtomic), so in summer they file a session at
midnight a day early; `FiledUnder` is the one place where the properties say so,
and "Words and code" reports it. A court is in one of two halls (`Hall`), which
Playtomic's crawler tells apart as indoor and outdoor and Places Leisure's asks
for one by one: its second round of requests (`ScheduledRequests`) has one for
each distinct start, activity and hall, and each makes a listing of its own.
`ParseRaises` is CourtReserve's parsing, which happens after `gather` and outside
its `return_exceptions`: one date that cannot be read ends the crawl with nothing.

A list may hold several listings for one slot (venue, date, sport, hours):
`of` keeps apart the courts, halls or activities they are about. The properties
of this module speak of listings; which of them a table row keeps is
`SlotStore!Deduplicated`.

Assumed of the world: at Matchi, sessions of one activity that start together at
a venue end together, and so do those of one hall at Places Leisure
(`OneEndAssumption`: Matchi shows one panel for a start, Places Leisure is asked
for a start, activity and hall once, so either gives it one end; with a timetable
of two lengths at one start TLC finds `NothingInvented` and `NothingHidden`
violated for both); Stratford's grid shows the hours from `Opening` to `Closing`,
and its properties speak of the sessions within them (`InGrid`); ClubSpark gives a
session the category that the code tests for while it is free and public
(`Category`), because the code tests nothing else; an earlier crawl has stored
the timetable, so that the rows `BetterBlanks` reads are there. Left out: what Matchi's and Playtomic's pages say
of indoor courts (a filter column), a Matchi panel without booking links
(`matchi/core/strategy.py`, whose 90 minutes are a guess), Decathlon's page
limit, and the second url of an activity, which is a variant of `CrawlFetch`.

### FetchChain

A crawler is the list of hops its requests go through, the answers that send a
request to the next hop, whether it reads a page per venue, and its handshake.
`TakePermit`, `TryAgain`, `EndRequest` are a request's life; `LookUpPage`,
`TakeLock`, `EndPage` the page cache with its lock; `TakePace`, `SendPaced`,
`BackOff`, `ComeBack` and `Tick` Places Leisure's pacing; `OpenSession`,
`FetchJwt`, `OpenBrowser` the handshakes, after which Mytime and Tower Hamlets
go on in `CrawlFetch`. A crawl that has gathered its requests returns (`Return`),
or, at CourtReserve, may raise while it parses what they brought (`ParseRaises`). An error status other than 403 and 429 at an impersonated
or FlareSolverr hop is returned as if it had succeeded (`proxies.py:109-166`
checks the status of the first hop only); the callers then fail to parse it and
bring no rows, which is what `EndRequest` does. A page that could not be read is
remembered as an empty one for the life of the process (`EndPage`).

### VenueSearch

`near` and `geocode` are the two cached answers for one postcode, with the time
they have left and how old their content is; `client` is the module-level client
of each API process, tried once. A search goes through `LookUpNear`,
`LookUpGeocode`, `Geocoded` or `GeocodingFails`, `QueryNear`, `ReadGames`,
`ReadSlots` and `Respond`, a step for each read. Slots are seen for one sport and
date, of each venue: none, some, or some with an estimated price first.
`TruncateSlots`, `TruncateVenues`, `LoadSportsCentreMappings` are the
transactions of `initialize_db_and_tables`, and `InitialisationDies` leaves some of
them undone. No search is exempt from the properties: `overtaken` only marks one
that had read the games and not yet the metadata of its venues when the table of
venues was written, which is the one way to offer a game or to miss a venue. A
payload may leave out `postcode`, `radius`, `analytics` or `timeRange` (`omits`):
each is optional, and each is used without asking (`Needs`, `FieldMissing`). A
read of the database may fail (`DatabaseFails`). A tick is long compared
to a request: ages count from when an answer was stored. `json.JSONDecodeError`
and pydantic's `ValidationError` are `ValueError`s, so a garbled page of the
geocoding service is reported as an invalid postcode (400), as is a cached error
payload until it expires.

### Accounts

A request is a sequence of database sessions, each about one row: `Load` reads
it, `Insert`, `Update` or `AddAck` commit. There is no `await` inside a session,
so only processes interleave; they read without locks at READ COMMITTED. An
UPDATE names the columns whose value differs from what was loaded (`Dirty`,
SQLAlchemy's unit of work); `DeepMergePreferences` merges into what was loaded,
not into what is stored. Names, titles and timestamps are left out, and an
expired token is a `Refuse` at any time.

## 3. Runs

| Run | Question | Result |
|---|---|---|
| `SlotStore_board` | does the table implement the board, list each upserted slot once, keep writers apart, shrug off a rerun, lose no row early? | holds |
| `CrawlFetch_crawl` | for every order of answers, failures and trips: are permits and breaker exact, is nothing lost, does the crawl return? | holds |
| `SlotWriters_alone` | does one run, killed anywhere, execute whole transactions only? | holds |
| `SlotWriters_overlap` | what survives when two runs overlap, and do waits and deadlocks end? | holds: keys, single listing, whole batches, progress |
| `CrawlerPipeline_refresh` | does a finished run offer exactly what it was told, and purge; does the table settle on the truth? | holds |
| `CrawlerPipeline_badminton` | the same promise, with an upserting and a reloading venue in one table | holds |
| `ProviderCrawl_all` | every kind of provider, against a timetable that changes meanwhile, with a lost or garbled answer: is the list true, complete, counted, blanked and priced as it should be? | holds |
| `FetchChain_crawl` | every fetch loop, whatever answers: are permits, locks, pages and pacing kept, does the crawl come back? | holds |
| `Accounts_requests` | two processes, killed anywhere: does a commit change only what was asked, do acknowledgements stay bounded? | holds |
| `VenueSearch_cached` | cache, geocoding, database and pipeline in any order: how old can an answer be, which searches can offer a game or miss a venue, and why else can one fail? | holds |
| `VenueSearch_sorted` | schema: a search is sorted by distance or price; comment: estimated prices carry a "~" | violated: an estimate, a missing `sortBy` or 29 February makes it fail with 500 |
| `SlotWriters_reload` | docstring: reload replaces the rows of the venue | violated when runs overlap: rows twice |

### Words and code

More disagreements were met while modelling. The models follow the code; these
have no run of their own.

* `interfaces.py:177-180`: "A 4xx anywhere in the chain means some server
  understood the request". The code (`:218`) blames the provider when a later
  variant loses its connection (`LoseConnection`).
* `database.py:236-238`: a row marked stale "no longer appears in the source API
  response". It may also be one whose request failed (`FailToFetch`); that is
  why `ExactWhereAnswered` speaks of fully answered venues and dates.
* `database.py:168-170`: slots not in the incoming data "will be marked as
  spaces=0". Not if the venue or the date is absent from the whole batch
  (`SlotBoard!Covered`), so a provider that drops a venue's last slot leaves it
  available, unless it blanks.
* `docs/database.md:103-104`: a slot listed twice gets "whatever the latest
  response said". `Deduplicated` keeps the first entry with spaces.
* A response whose parsing raises is recorded twice (`HandlingRaises`), so the
  breaker's "at least 20 requests" (`docs/crawlers.md`) can be fewer.
* The purge precedes the insert, so a run that crosses midnight ends with rows of
  the past day although `docs/database.md` puts `delete_past_slots` at the end of
  a run; hence `HousekeepingKeepsUp` speaks of the dates the run crawled, and
  `PastRowsArePurged` of the runs to come.
* When runs overlap, a row one of them inserts is invisible to the other's stale
  marking and stays available after its commit (`BeginMarking`).
* `user_repository.py:58-61`: "Existing keys not in `preferences` are preserved."
  With two processes they are not: each merges into the blob it loaded and writes
  all of it. `OnlyWhatWasAsked` therefore speaks of single preferences only while
  one process serves. Registering again sets `onboarding` back to False, and of
  two concurrent first logins one ends in an IntegrityError.
* `search/schemas.py:24-27` declares `postcode`, `timeRange`, `radius` and
  `analytics` optional with `None` as default. A payload without one of them gets
  a 500: `venues/utils.py:81` substitutes in the postcode, `:143` multiplies the
  radius (unless the cache has the list), `search/endpoints.py:67` and `:93-94`
  take attributes of `None` (`FieldMissing`).
* `playtomic/core/strategy.py:9-10`: slots are "in local venue time (UK time), so
  no timezone conversion is needed". `_utc_to_london` (`:192-202`) converts them
  from UTC, and the date stays the one asked for (`:256`). So the slot that
  answers 23:00 UTC in summer is London's midnight and is filed under the day
  before it takes place. Everyone Active
  (`everyoneactive/core/strategy.py:100`) and Southwark keep the request's date in
  the same way; Padel Mates buckets by the local date, for just this slot
  (`padelmates/core/strategy.py:172-173`). `FiledUnder` follows the code.
* `matchi/core/strategy.py:6-7` and `:14-19`: timestamps are true UTC and
  "converted to London local time". `_ms_to_booking_time` (`:127-139`) reads them
  on Stockholm's clock, as `:89-92` explains: Matchi encodes UK times as if they
  were Stockholm's. The two comments contradict each other, and only one can be
  true of Matchi; `StockholmStamp` takes the one that the code acts on. If the
  other held, every Matchi slot would be listed an hour late.
* `playtomic/core/strategy.py:226-231`: indoor and outdoor courts are listed apart
  because merging them would "silently misreport which courts are actually
  available". The uid has no `indoor` (`database.py:189`), so of the two listings
  of a time the upsert keeps one, with its spaces only. ClubSpark's courts and
  Places Leisure's halls and activities share a uid in the same way.
* `parsers/utils.py:6-11`: callers treat a garbled answer "the same as an empty
  body". At Better-style providers it therefore zeroes what the venue had free
  that day (`Garbled`), until the next run; of those rows `NothingHidden` says
  nothing. Likewise a failed Tower Hamlets request leaves its activity's rows out
  of a reload that deletes the whole venue.
* `proxies.py:25-27`: each retry has "a materially different handshake". The
  rotation is shared by all tasks of the process, so four requests in step can
  wear the same profile twice. Which profile a hop wears is not in `FetchChain`.

### Bounds, and why they are enough

* Store: two upserted venues, one reloaded, two dates, two sessions: the smallest table on
  which the product of venues and dates is more than the listed pairs, and on
  which a batch can leave out a venue, a date, or a session. One slot is listed
  open and full, alone or in one batch, which exercises the de-duplication;
  another has two spaces, so that "fewer" is told from "none".
* Crawl: four requests, two permits, sample of three, two variants: requests
  queue, fly, are cancelled in both states, and the trip can come before, at and
  after the sample.
* Writers: two runs, two rows: overlapping in both lock orders, so that
  deadlock, lost rows and re-reads occur. One run suffices for `StoreSpec`.
* Pipeline: two requests of a venue and one of another, one change of a court,
  one failed request, one killed run, one midnight: each hazard once, at every
  point. `MaxChanges`, `MaxFailures`, `MaxAborts` and `LastDay` are the bounds;
  the number of runs is not bounded.

* Providers: two venues, one of them with an activity of its own or missing from
  the id map, three courts, a day of six hours, dates at the edge of the search
  window (one inside, one at its end), timetables of two or three sessions in
  every arrangement that a parser could confuse (same time on two courts, two
  lengths, two activities, two halls, adjacent, a blocked one), one booking or
  cancellation and one fault. Sessions touch midnight from both sides: in the last
  hour of day 4 and the first of days 5 and 6, which are the edges of the window.
  Crawlers that share a parser with another and send its requests, or those of
  fewer activities, are represented by it (`MCCrawlers`).
* Fetch loops: three requests, two of one venue, two permits, all four profiles:
  requests queue for permits, for a venue's lock and for the pace at once.
* Accounts: two processes, five requests, one user's rows and one of each other
  kind: a conflict needs two requests, and a lost one is seen by a third.
* Search: two processes, three searches (one fills the cache, one uses it, one
  uses what the second left), two other events, of which a payload that lacks a
  field is one, entries of two ticks.

### Fairness

* `CrawlFetch!Fairness`: weak fairness of each task and of the collecting loop.
  The event loop is cooperative and serves what is ready; a request ends by
  answer or `HTTPX_CLIENT_TIMEOUT`; `asyncio.Semaphore` wakes waiters in order.
* `SlotWriters!WritersFairSpec`: strong fairness of a run's statements, because
  a row lock is granted to waiters in queue order, and weak fairness of the
  deadlock detector. `Crash` and new transactions are not fair.
* `CrawlerPipeline!PipelineFairSpec`: weak fairness of `RunStep`: the trigger
  keeps coming and a run that is not killed goes on. Failures, bookings and
  aborts are not fair and are bounded, so "eventually" means after the last.
* `FetchChain!FairSpec`: weak fairness of the next step: the event loop runs what
  is ready, every request has a timeout, and no step can be taken for ever.
* The other modules state safety only.

## 4. Proofs

All theorems hold for every value of the constants that satisfies the named
`ASSUME`s of the module.

* `SlotStoreProofs`. `TypeOK` is inductive by itself, `UidKeepsWritersApart`
  with it: the upsert replaces rows by the hash of their own slot, the reload
  deletes a venue's rows before it inserts fresh uuids. `OneRowPerUpsertedSlot`
  follows from it. `RerunIsSafe` rests on the lemma `UpsertTwice`: after a batch
  its winners are in place and nothing is stale for it.
  `StoreImplementsBoard` is the refinement, batch by batch: committing a batch
  posts exactly its slots on the board, and those with spaces as open
  (`UpsertPosts`, from `RefreshStep` and `OpenWinners`; `ReloadPosts`). That the
  batch is the one committed matters: the board's own `Next` may post anything,
  and `StoreIsABoard` says only that. `RowsOnlyExpire` is an action property from
  the same invariant.
* `CrawlFetchProofs`. `Inv` joins `TypeOK`, the permit equation, the breaker's
  ledger and what is known of collected, cancelled and skipped tasks: the counts
  are sums over sets of tasks, so neither the permits nor the ledger is
  inductive without the other parts. One lemma per action; `AddOne` and
  `RemoveOne` are the cardinality facts.
* `SlotWritersProofs`. `WInv` adds to the table's key discipline that locks are
  exclusive and that each uncommitted row obeys the same discipline and belongs
  to its run's batch; then a commit, the only change of the table by a writer,
  keeps it. `TInv` adds the types and the progress of a transaction: while it
  upserts, every slot of its batch is either still to be visited or written;
  while it marks, all are written and what is left to visit is none of them.
  `WritersTyped` and `CommitsAreWhole` follow from it, for any number of runs.
  `OneRunIsAtomic` is the refinement: for one run (`OneRun`) `Visits` says that
  what a statement has visited and will visit is exactly what the whole
  transaction would touch, so that a commit is the step of `SlotStore` with the
  run's batch (`UpsertWhole`, `ReloadWhole`) and every other step a stutter. The
  hypothesis `OneRun` is the promise's own: `SlotWriters_reload` shows it fail
  for two.
* `CrawlerPipelineProofs`. Every step of the pipeline is a transaction of
  `SlotStore` or leaves the table alone, given that what was heard are entries
  of the requests' venues (`HeardStep`); the store's theorems, the board
  included, carry over. `PipelineIsExact` (`ExactWhereAnswered`) and
  `PipelineKeepsHouse` (`HousekeepingKeepsUp`) need `PipelineInv`, which follows
  an answer from the provider to the table: requests are for activities the
  venue offers and for dates a run can have begun with (`AskedOffered`,
  `AskedByNow`); an answer lists slots its request asks for (`HeardAbout`); rows
  have an offered slot, and those of the run's dates one it asks for
  (`RowsOffered`, `RowsAsked`); an answer that was empty met no stored row, or it
  would have blanked it (`EmptyMetNoRow`, the part that makes the exactness
  survive the product of the two `IN` clauses); and from the upsert on the table
  says what was heard (`AsTold`). `PipelineTyped` is the type invariant.
* `ProviderCrawlProofs`. For any timetable, clock, tariff, number of bookings and
  faults, and every crawler. `CrawlInv` (`BlanksAreStored`, `EstimatesHold`):
  every listing names its sessions or is a row of the timetable, lists are finite
  with prices that are numbers, and estimates are made from the list that is
  stored; one lemma per parser (`BetterWell` ... `ParseWell`). That a median lies
  within what it is taken of is `MedianIsWithin`, ties included. `CountInv`
  (`CourtsAreCounted`): each request has the shape its crawler's parser relies on
  (one venue, or one date, or one activity: `RequestFits`, `RequestFacts`), and
  each listing has the places of its sessions added up; one lemma per parser
  again. Where a parser groups or merges, the lemma shows that its key tells
  apart what must be told apart: that days and hours are recovered from instants
  (`Clocks`), a venue from an event's title (`TitleNamesVenue`), a slot from its
  session (`OwnSlot`). The community modules' sum is a recursive function, of
  which the proof shows that there is one (`AddsExists`) and how it grows
  (`SumStep`, `SumMonotone`, `SumOfOnes`). Induction over finite sets and numbers
  is by a least counterexample (`WFMin`), because the library's induction
  theorems take an operator as a parameter.

  `TellInv` (`NothingIsInvented`, `NothingIsHidden`) follows a session from the
  timetable to the list. No property is inductive by itself, for neither says
  anything of a request that is still out. The invariant says: every request out
  asks for what the provider sells, or for a whole site (`PendingMeant`);
  every listing is `Sound`, that is, at hours a slot can have (`IsSlot`) and with no
  more spaces than the sessions it is about have had (`AllSound`); and a session
  that has had places all along is asked for by a request that is out, or by one
  that was lost, or is offered (`AllFound`). Three kinds of lemma carry it.
  `RequestsMeantAndWhole`: for each crawler the initial requests ask for every
  session on sale within reach, and for nothing that is not sold
  (`ScheduledAsks`: Places Leisure's second round of requests leaves nothing out
  either). `BetterTells` ... `StratfordTells`, joined in `ParseTells`: a parser
  makes of an answer sound listings, and one for every session in it with places;
  where it groups, the group is within `About` of its listing, so the sum over
  the one bounds the sum over the other. `CollectTells` and `MembersTell`: an
  answer moves a session from asked to offered, and a booking only widens the
  range between `least` and `most`. `RaisedTells` is CourtReserve's parser raising,
  after which nothing is offered and everything that was asked for is lost. Where a
  session touches midnight, `HoursOf` recovers its length from what the clock shows
  at both ends, and `Filed` the day it is found under from the instant the platform
  publishes. `CrawlTyped` is the type invariant, which needs soundness for a
  listing's hours.

  For Stratford, where a listing is a gap and not a session, `FreeIsComplement`
  says what `FreeIntervals` computes for every finite set of blocks: no gap meets
  a block, and any stretch of the opening hours that meets none lies within a gap.
  The fold is a recursive function on sets; `SweptStep` unfolds it at its last
  block, and `SweptWell` is the loop's invariant: gaps are apart from all
  blocks that were swept and end where one begins or before, and the cursor is the
  latest end.
* `FetchChainProofs`. `ChainInv` adds to `ResourcesConserved` what the page tasks
  may be doing for each kind of crawler (`PageTasks`), that a venue's reads and
  its cache entry are together at most one (`PagesCounted`) and that only a
  pacing crawler sleeps, until its interval is over (`Sleepers`).
  `ChainConserves` and `OnePage` follow, and the action property `PacedApart`,
  for any number of requests, permits and profiles.
* `VenueSearchProofs`. `SearchInv` gives each stage of a search the fields it has
  (`SearchTypeOK`), and carries two promises through it: an entry's age and what
  it has left are together its time to live (`CacheAges`, `Recent`), for
  `AnswersAreRecent`; and, between its reads, what every search has found is of
  venues that exist and of no game unless a rewrite of the venue table has overtaken it
  (`SlotsHaveVenues`, `Grounded`), for `AnswersAreExplained`: slots refer to venues,
  so the table of venues cannot be emptied while there are any.

* `AccountsProofs`. `AcksBounded` becomes inductive by counting the processes
  that have found no acknowledgement and are about to add one (`Adding`): rows
  and such processes together are no more than the processes that serve.
  `OnlyWhatWasAsked` needs `RowsInv`: a session has loaded a row of the table it
  works on, an inserting session is complete, a row that was loaded is still
  there, and while one process serves it is still what was loaded. `RequestsFit`
  is where the requests come in, `Commit` the step that changes a row.

The assumptions, and what they stand for: finite sets of requests, workers and
sessions; a grid's hours within a day, sessions that do not go on beyond midnight, those of a
court one after the other (`ClockAssumption`, `TimetableAssumption`); one end for each start at Matchi,
and in each hall at Places Leisure (`OneEndAssumption`, section 2; it says nothing when neither is
among `Crawlers`, and of the theorems only `NothingIsInvented`, `NothingIsHidden`
and `CrawlTyped` use it); bounds are numbers (`BoundsAssumption`); prices are numbers (`TariffAssumption`,
`DefaultAssumption`); a session's title contains its venue's name, and longer
names are tried first, as `VENUE_KEY_TO_SLUG` is ordered (`NamesAssumption`); only
the modelled crawlers are run (`CrawlersAssumption`); a provider that blanks is
not the one that reloads (`BlankingAssumption`: Better's parser against Tower
Hamlets').

Only model-checked:

* Liveness: `CrawlReturns` of both crawls, `TransactionsEnd`,
  `EventuallyAccurate`, `PastRowsArePurged`. The prover does not reach fairness.

Every safety invariant and action property of the passing runs is a theorem.

## 5. Not modelled

* Urls, headers, wording and logging, where no property is about them.
* TLS fingerprints, Firestore, cloud storage, vendor SDKs: I/O.
* The connection pool and its limits: transactions of one process do not overlap.
* MCP grant tracking: what it does depends on when FastMCP's proxy calls its
  hooks, which the code here does not determine.
* The MCP tools, the health endpoint and the games listing: one request or query
  each, without a state.
* `analytics/consecutive.py`: nothing imports it.
* The trigger of the workflow as a clock: whether a run outlasts its 15 minutes
  is a matter of durations that nothing in the code bounds.

## 6. Plan

1. **Composition**: `ProviderCrawl`'s lists as the batches of `CrawlerPipeline`,
   in place of its abstract `Response`.
2. **Indoor courts**: what the venue pages of Matchi and Playtomic say, and the
   filter of the search that reads it.
3. **Grant tracking**, once its caller is pinned down by a version of FastMCP.
