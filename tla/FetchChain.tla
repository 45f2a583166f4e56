------------------------------ MODULE FetchChain ------------------------------
(***************************************************************************)
(* The crawlers that bypass the engine of CrawlFetch: how one of them goes *)
(* through its requests, what each answer makes a request do next, and the *)
(* page that Playtomic and Matchi read once per venue.  The event loop is  *)
(* one thread: an action is what runs between two awaits.  What the        *)
(* answers list is in ProviderParsers; here a request brings rows or none. *)
(***************************************************************************)
EXTENDS Naturals, FiniteSets, Sequences

CONSTANTS
  Requests,      \* the (venue, date) pairs of one crawl
  VenueOf,       \* the venue of each
  Crawlers,      \* names of the crawlers considered
  Permits,       \* CRAWLER_MAX_CONCURRENT_REQUESTS_PER_PROVIDER
  Profiles,      \* browser profiles in rotation
  Interval,      \* ticks between two paced requests
  Backoff,       \* ticks a throttled request sleeps
  FlareSolverr,  \* whether FLARESOLVERR_URL is set
  None

ASSUME ChainAssumption ==
  /\ IsFiniteSet(Requests) /\ None \notin Requests
  /\ Permits \in Nat \ {0} /\ Profiles \in Nat \ {0}
  /\ Interval \in Nat /\ Backoff \in Nat /\ FlareSolverr \in BOOLEAN

VARIABLES
  crawler,   \* the crawler at work
  stage,     \* "opening", "fetching", "returned" or "raised"
  knocks,    \* handshake attempts
  pc, tries, timer,  \* of each task; attempts while it is in flight
  rows,      \* the requests that brought rows
  permits,   \* free permits of the crawl's semaphore
  known,     \* the venue page cache
  lock,      \* holder of each venue's lock
  pages,     \* pages read of each venue
  pace, gap  \* the pacing lock; time since the last paced request

opening == <<stage, knocks>>
chain   == <<pc, tries, timer, rows>>
page    == <<known, lock, pages>>
vars == <<crawler, opening, chain, page, permits, pace, gap>>

(***************************************************************************)
(* What answers a request, and the hops of each crawler's chain.           *)
(***************************************************************************)
Blocked == {"forbidden", "throttled"}
Answers == Blocked \cup {"slots", "nothing", "error", "garbled", "lost"}

Rotating(n) == [i \in 1..n |-> "rotating"]
SolverHop   == IF FlareSolverr THEN <<"solver">> ELSE <<>>

Simple == [hops |-> <<"direct">>, again |-> {}, page |-> "none", key |-> "none"]

EveryoneActiveBadminton == [Simple EXCEPT !.hops = Rotating(5), !.again = Blocked]
EveryoneActiveSquash    == EveryoneActiveBadminton
UelBadminton            == [Simple EXCEPT !.hops = Rotating(4),
                                          !.again = Blocked \cup {"garbled", "lost"}]
CitySportsBadminton     == [Simple EXCEPT !.hops = <<"fixed">>]
ProxyFallback           == [Simple EXCEPT !.hops = <<"direct">> \o Rotating(Profiles) \o SolverHop,
                                          !.again = Blocked \cup {"lost"}]
ClubSparkTennis         == ProxyFallback
Playtomic               == [ProxyFallback EXCEPT !.page = "after"]
Matchi                  == [ProxyFallback EXCEPT !.page = "beside"]
PlacesLeisure           == [Simple EXCEPT !.hops = [i \in 1..4 |-> "paced"]]
CourtReserve            == Simple
StratfordPadel          == [Simple EXCEPT !.key = "session"]
MytimeActive            == [Simple EXCEPT !.hops = Rotating(4) \o SolverHop, !.key = "jwt"]
TowerHamlets            == [Simple EXCEPT !.key = "browser"]

CrawlerNamed ==
  [everyoneBadminton |-> EveryoneActiveBadminton, everyoneSquash |-> EveryoneActiveSquash,
   uel |-> UelBadminton, citySports |-> CitySportsBadminton, clubSpark |-> ClubSparkTennis,
   playtomic |-> Playtomic, matchi |-> Matchi, placesLeisure |-> PlacesLeisure,
   courtReserve |-> CourtReserve, stratford |-> StratfordPadel, mytime |-> MytimeActive,
   towerHamlets |-> TowerHamlets]

ASSUME CrawlersAssumption == Crawlers \subseteq DOMAIN CrawlerNamed

This == CrawlerNamed[crawler]

Slots(r) == <<r, "slots">>
Page(r)  == <<r, "page">>
Tasks    == Requests \X {"slots", "page"}
Venues   == {VenueOf[r] : r \in Requests}

\* Playtomic reads the page with one impersonated request; Matchi goes
\* through the whole fallback.
Hops(t) == IF t[2] = "page" /\ This.page = "after" THEN Rotating(1) ELSE This.hops
Paced   == This.hops[1] = "paced"

\* After answer a, t goes on to its next hop.
TriesAgain(t, a) ==
  /\ tries[t] < Len(Hops(t))
  /\ a \in CASE Hops(t)[tries[t]] = "direct"   -> Blocked
             [] Hops(t)[tries[t]] = "rotating" -> This.again
             [] Hops(t)[tries[t]] = "paced"    -> {"throttled"}
             [] OTHER -> {}

(***************************************************************************)
(* The crawl starts.                                                       *)
(***************************************************************************)
Begin == [t \in Tasks |-> IF t[2] = "slots" THEN "queued"
                          ELSE IF This.page = "beside" THEN "new" ELSE "absent"]

Init ==
  /\ crawler \in Crawlers
  /\ stage = IF This.key = "none" THEN "fetching" ELSE "opening"
  /\ knocks = 0
  /\ pc = Begin
  /\ tries = [t \in Tasks |-> 0] /\ timer = [t \in Tasks |-> 0]
  /\ rows = {}
  /\ permits = Permits
  /\ known = [v \in Venues |-> "absent"] /\ lock = [v \in Venues |-> None]
  /\ pages = [v \in Venues |-> 0]
  /\ pace = None /\ gap = Interval

\* t puts its next request on the wire.
Send(t) == tries' = [tries EXCEPT ![t] = @ + 1]

\* t has its last answer.
Forget(t) == tries' = [tries EXCEPT ![t] = 0]

(***************************************************************************)
(* Handshakes, before the first request.                                   *)
(***************************************************************************)
KeepTheRest == UNCHANGED <<crawler, chain, page, permits, pace, gap>>

\* Stratford: without a session key the crawl is over.
OpenSession(a) ==
  /\ stage = "opening" /\ This.key = "session"
  /\ stage' = IF a = "slots" THEN "fetching" ELSE "returned"
  /\ knocks' = 1
  /\ KeepTheRest

\* Mytime: one chain of attempts in the constructor and, while there is no
\* token, another for every request it prepares.  The engine takes over then.
FetchJwt(a) ==
  /\ stage = "opening" /\ This.key = "jwt"
  /\ knocks' = knocks + 1
  /\ stage' = IF a = "slots" \/ knocks' = Len(This.hops) * (1 + Cardinality(Requests))
              THEN "returned" ELSE "opening"
  /\ KeepTheRest

\* Tower Hamlets: a page without the cookie leaves the requests without a
\* token; a browser that fails raises out of the constructor.
OpenBrowser(a) ==
  /\ stage = "opening" /\ This.key = "browser"
  /\ stage' = IF a \in {"slots", "nothing"} THEN "returned" ELSE "raised"
  /\ knocks' = 1
  /\ KeepTheRest

(***************************************************************************)
(* A request takes its permit, and keeps it over all its hops.             *)
(***************************************************************************)
Fetching == stage = "fetching"

TakePermit(t) ==
  /\ Fetching /\ ~Paced /\ pc[t] = "queued" /\ permits > 0
  /\ pc' = [pc EXCEPT ![t] = "asking"]
  /\ permits' = permits - 1
  /\ Send(t)
  /\ UNCHANGED <<crawler, opening, page, timer, rows, pace, gap>>

TryAgain(t, a) ==
  /\ Fetching /\ ~Paced /\ pc[t] = "asking" /\ TriesAgain(t, a)
  /\ Send(t)
  /\ UNCHANGED <<crawler, opening, page, pc, timer, rows, permits, pace, gap>>

\* Mutant: the permit of a request that ends on a lost connection is kept.
LeakPermit(a) == permits' = IF Paced \/ a = "lost" THEN permits ELSE permits + 1

Release(a) == permits' = IF Paced THEN permits ELSE permits + 1

\* The chain of a request ends: with rows, or with none.  Playtomic reads the
\* venue's page next.
EndRequest(r, a) ==
  LET t == Slots(r) IN
  /\ Fetching /\ pc[t] = "asking" /\ ~TriesAgain(t, a)
  /\ pc' = [pc EXCEPT ![t] = "done",
                      ![Page(r)] = IF This.page = "after" /\ a \in {"slots", "nothing"}
                                   THEN "new" ELSE @]
  /\ rows' = IF a = "slots" THEN rows \cup {r} ELSE rows
  /\ Release(a)
  /\ pace' = IF Paced THEN None ELSE pace
  /\ Forget(t)
  /\ UNCHANGED <<crawler, opening, page, timer, gap>>

(***************************************************************************)
(* The page of a venue: looked up, then read under the venue's lock.       *)
(***************************************************************************)
LookUpPage(r) ==
  /\ Fetching /\ pc[Page(r)] = "new"
  /\ pc' = [pc EXCEPT ![Page(r)] = IF known[VenueOf[r]] = "absent" THEN "waiting" ELSE "done"]
  /\ UNCHANGED <<crawler, opening, page, tries, timer, rows, permits, pace, gap>>

\* Mutant: the cache is not looked up again once the lock is there.
PageIsKnownTrusting(v) == FALSE

PageIsKnown(v) == known[v] # "absent"

\* Matchi queues for a permit while it holds the lock; Playtomic takes none.
TakeLock(r) ==
  LET v == VenueOf[r]
      t == Page(r) IN
  /\ Fetching /\ pc[t] = "waiting" /\ lock[v] = None
  /\ IF PageIsKnown(v)
     THEN /\ pc' = [pc EXCEPT ![t] = "done"]
          /\ UNCHANGED <<lock, tries>>
     ELSE /\ lock' = [lock EXCEPT ![v] = r]
          /\ IF This.page = "beside"
             THEN pc' = [pc EXCEPT ![t] = "queued"] /\ UNCHANGED tries
             ELSE pc' = [pc EXCEPT ![t] = "asking"] /\ Send(t)
  /\ UNCHANGED <<crawler, opening, known, pages, timer, rows, permits, pace, gap>>

\* A page that could not be read is remembered as one that says nothing.
EndPage(r, a) ==
  LET v == VenueOf[r]
      t == Page(r) IN
  /\ Fetching /\ pc[t] = "asking" /\ ~TriesAgain(t, a)
  /\ known' = [known EXCEPT ![v] = IF a = "slots" THEN "read" ELSE "empty"]
  /\ pages' = [pages EXCEPT ![v] = @ + 1]
  /\ lock' = [lock EXCEPT ![v] = None]
  /\ pc' = [pc EXCEPT ![t] = "done"]
  /\ permits' = IF This.page = "beside" THEN permits + 1 ELSE permits
  /\ Forget(t)
  /\ UNCHANGED <<crawler, opening, timer, rows, pace, gap>>

(***************************************************************************)
(* Places Leisure: one request at a time, an interval apart.               *)
(***************************************************************************)
\* Mutant: the wait is worked out before the lock is taken.
PaceIsFreeAnyway == TRUE

PaceIsFree == pace = None

TakePace(r) ==
  LET t == Slots(r) IN
  /\ Fetching /\ Paced /\ pc[t] = "queued" /\ PaceIsFree
  /\ pace' = r
  /\ timer' = [timer EXCEPT ![t] = Interval - gap]
  /\ pc' = [pc EXCEPT ![t] = "sleeping"]
  /\ UNCHANGED <<crawler, opening, page, tries, rows, permits, gap>>

SendPaced(r) ==
  LET t == Slots(r) IN
  /\ Fetching /\ pc[t] = "sleeping" /\ timer[t] = 0
  /\ pc' = [pc EXCEPT ![t] = "asking"]
  /\ gap' = 0
  /\ Send(t)
  /\ UNCHANGED <<crawler, opening, page, timer, rows, permits, pace>>

BackOff(r) ==
  LET t == Slots(r) IN
  /\ Fetching /\ Paced /\ pc[t] = "asking" /\ TriesAgain(t, "throttled")
  /\ pace' = None
  /\ timer' = [timer EXCEPT ![t] = Backoff]
  /\ pc' = [pc EXCEPT ![t] = "backing off"]
  /\ UNCHANGED <<crawler, opening, page, tries, rows, permits, gap>>

ComeBack(r) ==
  LET t == Slots(r) IN
  /\ Fetching /\ pc[t] = "backing off" /\ timer[t] = 0
  /\ pc' = [pc EXCEPT ![t] = "queued"]
  /\ UNCHANGED <<crawler, opening, page, tries, timer, rows, permits, pace, gap>>

Tick ==
  /\ Fetching /\ Paced
  /\ gap < Interval \/ \E t \in Tasks : timer[t] > 0
  /\ gap' = IF gap < Interval THEN gap + 1 ELSE gap
  /\ timer' = [t \in Tasks |-> IF timer[t] > 0 THEN timer[t] - 1 ELSE 0]
  /\ UNCHANGED <<crawler, opening, page, pc, tries, rows, permits, pace>>

\* gather: every task has come to its end.
Gathered == Fetching /\ \A t \in Tasks : pc[t] \in {"done", "absent"}
End(how) ==
  /\ stage' = how
  /\ UNCHANGED <<crawler, knocks, chain, page, permits, pace, gap>>

\* The crawl hands over what every task brought.
Return == Gathered /\ End("returned")

\* CourtReserve parses only now, outside what catches the errors of a request:
\* an event whose date cannot be read takes the rest of the answers with it.
ParseRaises == Gathered /\ crawler = "courtReserve" /\ rows # {} /\ End("raised")

Next ==
  \/ \E a \in Answers : OpenSession(a) \/ FetchJwt(a) \/ OpenBrowser(a)
  \/ \E t \in Tasks : TakePermit(t) \/ \E a \in Answers : TryAgain(t, a)
  \/ \E r \in Requests :
       \/ LookUpPage(r) \/ TakeLock(r)
       \/ TakePace(r) \/ SendPaced(r) \/ BackOff(r) \/ ComeBack(r)
       \/ \E a \in Answers : EndRequest(r, a) \/ EndPage(r, a)
  \/ Tick
  \/ Return \/ ParseRaises

Spec == Init /\ [][Next]_vars

\* The loop runs whatever is ready, and every request has a timeout.
FairSpec == Spec /\ WF_vars(Next)

(***************************************************************************)
(* Properties                                                              *)
(***************************************************************************)
InFlight == {t \in Tasks : pc[t] = "asking"}

\* A task is on the wire with a permit of the semaphore (Playtomic's page
\* aside) or as the holder of the pacing lock, and a venue's lock is held by
\* exactly the task that is reading its page.
ResourcesConserved ==
  /\ permits + Cardinality({t \in InFlight : ~Paced /\ ~(t[2] = "page" /\ This.page = "after")})
       = Permits
  /\ \A r \in Requests : pace = r <=> (Paced /\ pc[Slots(r)] \in {"sleeping", "asking"})
  /\ \A r \in Requests :
       lock[VenueOf[r]] = r <=> \/ pc[Page(r)] = "asking"
                               \/ (This.page = "beside" /\ pc[Page(r)] = "queued")

\* However the tasks of one venue interleave, its page is read at most once,
\* and read or given up before any of them goes on
\* (_fetch_resource_indoor_map, _fetch_facility_indoor_map).
OnePagePerVenue ==
  \A v \in Venues :
    /\ pages[v] <= 1
    /\ \A r \in Requests : VenueOf[r] = v /\ pc[Page(r)] = "done" => known[v] # "absent"

\* Two paced requests are an interval apart, retries included (_paced_get).
RequestsArePaced ==
  [][\A r \in Requests :
       pc[Slots(r)] = "sleeping" /\ pc'[Slots(r)] = "asking" => gap >= Interval]_vars

\* Every crawl comes back, or raises before its first request or after its last:
\* no permit, lock or retry keeps the others waiting (_crawl_async).
CrawlReturns == <>(stage \in {"returned", "raised"})
=============================================================================
