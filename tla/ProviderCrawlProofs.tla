-------------------------- MODULE ProviderCrawlProofs --------------------------
(***************************************************************************)
(* Proofs about ProviderCrawl, for any timetable, clock, tariff and number *)
(* of bookings and faults, and for every crawler: the blanks that stand    *)
(* for an empty or garbled answer are rows of the timetable, estimated     *)
(* prices lie within the published ones, a slot counts no less than the    *)
(* fewest places its sessions had together and no more than the most, and  *)
(* what can be booked all along is found unless its request is lost.       *)
(***************************************************************************)
EXTENDS ProviderCrawl, FiniteSetTheorems, WellFoundedInduction, TLAPS

-----------------------------------------------------------------------------
(* Finite sets of numbers.  The library's induction theorems take a         *)
(* predicate; a least counterexample (WFMin) does the same with a set.      *)

LEMMA LeastNumber ==
  ASSUME NEW T \in SUBSET Nat, T # {}
  PROVE  \E m \in T : \A n \in T : m <= n
<1>1. PICK m \in T : \A n \in T : ~(<<n, m>> \in OpToRel(<, Nat))
  BY Zenon, NatLessThanWellFounded, WFMin
<1>2. \A n \in T : ~(n < m)
  BY <1>1 DEF OpToRel
<1> QED BY <1>2

LEMMA FiniteIsBounded ==
  ASSUME NEW S \in SUBSET Nat, IsFiniteSet(S)
  PROVE  \E b \in Nat : \A n \in S : n <= b
<1> DEFINE Unbounded == {T \in FiniteSubsetsOf(S) : ~ \E b \in Nat : \A n \in T : n <= b}
<1> SUFFICES ASSUME Unbounded # {} PROVE FALSE
  BY DEF FiniteSubsetsOf
<1>1. PICK T \in Unbounded : \A U \in Unbounded : <<U, T>> \notin StrictSubsetOrdering(S)
  BY FS_StrictSubsetOrderingWellFounded, WFMin
<1>2. T \in SUBSET S /\ IsFiniteSet(T)
  BY <1>1 DEF FiniteSubsetsOf
<1>3. PICK x \in T : TRUE
  BY <1>1
<1>4. IsFiniteSet(T \ {x}) /\ <<T \ {x}, T>> \in StrictSubsetOrdering(S)
  BY <1>2, <1>3, FS_RemoveElement DEF StrictSubsetOrdering
<1>5. PICK b \in Nat : \A n \in T \ {x} : n <= b
  BY <1>1, <1>2, <1>4 DEF FiniteSubsetsOf
<1>6. PICK c \in Nat : b <= c /\ x <= c
  BY <1>2, <1>3
<1>7. \A n \in T : n <= c
  BY <1>2, <1>5, <1>6
<1> QED BY <1>1, <1>7

\* Every rank of a finite list of prices is the price of some of its slots.
LEMMA OrderedIsAPrice ==
  ASSUME NEW slots, IsFiniteSet(slots), \A l \in slots : l.price \in Nat,
         NEW k \in Nat, k < Cardinality(slots)
  PROVE  \E l \in slots : Ordered(slots, k) = l.price
<1> DEFINE UpTo(n)  == {l \in slots : l.price <= n}
           Below(n) == {l \in slots : l.price < n}
           Beyond   == {n \in Nat : k < Cardinality(UpTo(n))}
<1>1. \A n \in Nat : /\ IsFiniteSet(UpTo(n)) /\ Cardinality(UpTo(n)) \in Nat
                     /\ IsFiniteSet(Below(n)) /\ Cardinality(Below(n)) \in Nat
  BY FS_Subset, FS_CardinalityType
<1>2. Beyond # {}
  <2>1. PICK f \in Surjection(slots, {l.price : l \in slots}) : TRUE
    <3>1. [l \in slots |-> l.price] \in Surjection(slots, {l.price : l \in slots})
      BY DEF Surjection
    <3> QED BY <3>1
  <2>2. IsFiniteSet({l.price : l \in slots})
    BY <2>1, FS_Surjection
  <2>3. PICK b \in Nat : \A n \in {l.price : l \in slots} : n <= b
    BY <2>2, FiniteIsBounded
  <2>4. UpTo(b) = slots
    BY <2>3
  <2> QED BY <2>4
<1>3. PICK p \in Beyond : \A n \in Beyond : p <= n
  BY <1>2, LeastNumber
<1>4. Cardinality(Below(p)) <= k
  <2>1. CASE p = 0
    <3>1. Below(p) = {}
      BY <2>1
    <3> QED BY <3>1, FS_EmptySet
  <2>2. CASE p # 0
    <3>1. p - 1 \in Nat /\ Below(p) = UpTo(p - 1)
      BY <1>3, <2>2
    <3>2. ~(k < Cardinality(UpTo(p - 1)))
      BY <1>3, <3>1
    <3>3. Cardinality(UpTo(p - 1)) \in Nat /\ Cardinality(Below(p)) = Cardinality(UpTo(p - 1))
      BY <1>1, <3>1
    <3> HIDE DEF UpTo, Below
    <3> QED BY <3>2, <3>3
  <2> QED BY <2>1, <2>2
<1>5. p \in {l.price : l \in slots}
  <2> SUFFICES ASSUME \A l \in slots : l.price # p PROVE FALSE
    OBVIOUS
  <2>1. UpTo(p) = Below(p)
    <3>1. \A l \in slots : l.price <= p <=> l.price < p
      BY <1>3
    <3> QED BY <3>1
  <2>2. k < Cardinality(UpTo(p)) /\ Cardinality(UpTo(p)) \in Nat
    BY <1>1, <1>3
  <2> HIDE DEF UpTo, Below
  <2> QED BY <1>4, <2>1, <2>2
<1>6. \E q \in {l.price : l \in slots} :
        /\ Cardinality({l \in slots : l.price < q}) <= k
        /\ k < Cardinality({l \in slots : l.price <= q})
  BY <1>3, <1>4, <1>5
<1> QED BY <1>6 DEF Ordered

\* The median of some prices lies between two of them.
LEMMA MedianIsWithin ==
  ASSUME NEW slots, IsFiniteSet(slots), slots # {}, \A l \in slots : l.price \in Nat
  PROVE  /\ \E l \in slots : 2 * l.price <= Median(slots)
         /\ \E l \in slots : Median(slots) <= 2 * l.price
<1> DEFINE c == Cardinality(slots)
           mid == c \div 2
<1>1. c \in Nat /\ c # 0
  BY FS_CardinalityType, FS_EmptySet
<1>2. CASE c % 2 = 1
  <2>1. mid \in Nat /\ mid < c
    BY <1>1, <1>2
  <2>2. PICK l \in slots : Ordered(slots, mid) = l.price
    BY <2>1, OrderedIsAPrice
  <2>3. Median(slots) = 2 * l.price
    BY <1>2, <2>2 DEF Median
  <2> QED BY <2>3
<1>3. CASE c % 2 # 1
  <2>1. mid \in Nat /\ mid < c /\ mid - 1 \in Nat /\ mid - 1 < c
    BY <1>1, <1>3
  <2>2. PICK l1 \in slots, l2 \in slots :
          Ordered(slots, mid - 1) = l1.price /\ Ordered(slots, mid) = l2.price
    BY <2>1, OrderedIsAPrice
  <2>3. Median(slots) = l1.price + l2.price
    BY <1>3, <2>2 DEF Median
  <2> QED BY <2>3
<1> QED BY <1>2, <1>3

-----------------------------------------------------------------------------
(* The crawlers and the answers they get.                                   *)

Apis == {"better", "everyoneactive", "southwark", "citysports", "uel", "mytime", "towerhamlets",
         "decathlon", "places", "playtomic", "courtreserve", "matchi", "padelmates", "stratford",
         "clubspark"}

Pricings == {"flat", "none", "listed"}

LEMMA BetterFamily ==
  \A c \in {BetterBadminton, BetterSquash, BetterPickleball, BetterTennis, ActiveLambethBadminton,
            ActiveLambethSquash, HaringeyBadminton, VisionRclBadminton, VisionRclSquash} :
    c.api = "better" /\ c.price \in Pricings
<1>1. \A sport : BetterCrawler(sport).api = "better" /\ BetterCrawler(sport).price \in Pricings
  BY DEF BetterCrawler, Crawler, Pricings
<1>2. \A sport, deltas, slugs : /\ FlowCrawler(sport, deltas, slugs).api = "better"
                                /\ FlowCrawler(sport, deltas, slugs).price \in Pricings
  BY DEF FlowCrawler, Crawler, Pricings
<1>3. /\ VisionRclBadminton.api = "better" /\ VisionRclBadminton.price \in Pricings
      /\ VisionRclSquash.api = "better" /\ VisionRclSquash.price \in Pricings
  BY DEF VisionRclBadminton, VisionRclSquash, Crawler, Pricings
<1> QED BY <1>1, <1>2, <1>3
        DEF BetterBadminton, BetterSquash, BetterPickleball, BetterTennis, ActiveLambethBadminton,
            ActiveLambethSquash, HaringeyBadminton

LEMMA CourtCounters ==
  \A c \in {EveryoneActiveBadminton, EveryoneActiveSquash, SouthwarkBadminton,
            SouthwarkPickleball, MytimeBadminton, MytimeSquash, TowerHamletsBadminton,
            PlacesBadminton, PlacesPickleball} :
    c.api \in Apis /\ c.price \in Pricings
<1>1. /\ EveryoneActiveBadminton.api \in Apis /\ EveryoneActiveBadminton.price \in Pricings
      /\ EveryoneActiveSquash.api \in Apis /\ EveryoneActiveSquash.price \in Pricings
  BY DEF EveryoneActiveBadminton, EveryoneActiveSquash, Crawler, Apis, Pricings
<1>2. /\ SouthwarkBadminton.api \in Apis /\ SouthwarkBadminton.price \in Pricings
      /\ SouthwarkPickleball.api \in Apis /\ SouthwarkPickleball.price \in Pricings
  BY DEF SouthwarkBadminton, SouthwarkPickleball, SouthwarkCrawler, Crawler, Apis, Pricings
<1>3. /\ MytimeBadminton.api \in Apis /\ MytimeBadminton.price \in Pricings
      /\ MytimeSquash.api \in Apis /\ MytimeSquash.price \in Pricings
  BY DEF MytimeBadminton, MytimeSquash, Crawler, Apis, Pricings
<1>4. TowerHamletsBadminton.api \in Apis /\ TowerHamletsBadminton.price \in Pricings
  BY DEF TowerHamletsBadminton, Crawler, Apis, Pricings
<1>5. /\ PlacesBadminton.api \in Apis /\ PlacesBadminton.price \in Pricings
      /\ PlacesPickleball.api \in Apis /\ PlacesPickleball.price \in Pricings
  BY DEF PlacesBadminton, PlacesPickleball, PlacesCrawler, Crawler, Apis, Pricings
<1> QED BY <1>1, <1>2, <1>3, <1>4, <1>5

LEMMA OtherCrawlers ==
  \A c \in {CitySportsBadminton, UelBadminton, DecathlonPickleball, PlaytomicPadel,
            PlaytomicTennis, PlaytomicPickleball, CourtReservePickleball, MatchiPadel,
            MatchiTennis, PadelMatesPadel, StratfordPadel, ClubSparkTennis} :
    c.api \in Apis /\ c.price \in Pricings
<1>1. /\ CitySportsBadminton.api \in Apis /\ CitySportsBadminton.price \in Pricings
      /\ UelBadminton.api \in Apis /\ UelBadminton.price \in Pricings
  BY DEF CitySportsBadminton, UelBadminton, Crawler, Apis, Pricings
<1>2. DecathlonPickleball.api \in Apis /\ DecathlonPickleball.price \in Pricings
  BY DEF DecathlonPickleball, Crawler, Apis, Pricings
<1>3. /\ PlaytomicPadel.api \in Apis /\ PlaytomicPadel.price \in Pricings
      /\ PlaytomicTennis.api \in Apis /\ PlaytomicTennis.price \in Pricings
      /\ PlaytomicPickleball.api \in Apis /\ PlaytomicPickleball.price \in Pricings
  BY DEF PlaytomicPadel, PlaytomicTennis, PlaytomicPickleball, PlaytomicCrawler, Crawler, Apis, Pricings
<1>4. CourtReservePickleball.api \in Apis /\ CourtReservePickleball.price \in Pricings
  BY DEF CourtReservePickleball, Crawler, Apis, Pricings
<1>5. /\ MatchiPadel.api \in Apis /\ MatchiPadel.price \in Pricings
      /\ MatchiTennis.api \in Apis /\ MatchiTennis.price \in Pricings
  BY DEF MatchiPadel, MatchiTennis, Crawler, Apis, Pricings
<1>6. PadelMatesPadel.api \in Apis /\ PadelMatesPadel.price \in Pricings
  BY DEF PadelMatesPadel, Crawler, Apis, Pricings
<1>7. StratfordPadel.api \in Apis /\ StratfordPadel.price \in Pricings
  BY DEF StratfordPadel, Crawler, Apis, Pricings
<1>8. ClubSparkTennis.api \in Apis /\ ClubSparkTennis.price \in Pricings
  BY DEF ClubSparkTennis, Crawler, Apis, Pricings
<1> QED BY <1>1, <1>2, <1>3, <1>4, <1>5, <1>6, <1>7, <1>8

LEMMA CrawlerFacts ==
  ASSUME crawler \in Crawlers
  PROVE  This.api \in Apis /\ This.price \in Pricings
<1> DEFINE Better  == {BetterBadminton, BetterSquash, BetterPickleball, BetterTennis,
                       ActiveLambethBadminton, ActiveLambethSquash, HaringeyBadminton,
                       VisionRclBadminton, VisionRclSquash}
           Counters == {EveryoneActiveBadminton, EveryoneActiveSquash, SouthwarkBadminton,
                        SouthwarkPickleball, MytimeBadminton, MytimeSquash, TowerHamletsBadminton,
                        PlacesBadminton, PlacesPickleball}
           Others   == {CitySportsBadminton, UelBadminton, DecathlonPickleball, PlaytomicPadel,
                        PlaytomicTennis, PlaytomicPickleball, CourtReservePickleball, MatchiPadel,
                        MatchiTennis, PadelMatesPadel, StratfordPadel, ClubSparkTennis}
<1>1. \A name \in DOMAIN CrawlerNamed : CrawlerNamed[name] \in (Better \cup Counters) \cup Others
  BY DEF CrawlerNamed
<1>2. This \in (Better \cup Counters) \cup Others
  BY <1>1, CrawlersAssumption DEF This
<1>3. \A c \in Better : c.api \in Apis /\ c.price \in Pricings
  BY BetterFamily DEF Apis
<1>4. \A c \in Counters : c.api \in Apis /\ c.price \in Pricings
  BY CourtCounters
<1>5. \A c \in Others : c.api \in Apis /\ c.price \in Pricings
  BY OtherCrawlers
<1> HIDE DEF Better, Counters, Others
<1> QED BY <1>2, <1>3, <1>4, <1>5

\* The timetable stays what it is; its sessions are finitely many.
PlatformOK ==
  /\ summer \in {0, 1}
  /\ places \in [Sessions -> 0..MaxPlaces]
  /\ Sessions \subseteq SessionType /\ IsFiniteSet(Sessions)
  /\ crawler \in Crawlers

LEMMA AnswerFacts ==
  ASSUME NEW api, NEW r
  PROVE  Answer(api, r) \subseteq {s \in Sessions : /\ s.venue \in r.venues /\ s.activity \in r.activities
                                                  /\ Hall(s.court) \in r.halls}
BY DEF Answer, Asked

LEMMA PriceFacts ==
  ASSUME PlatformOK, NEW crw, crw.price \in Pricings, NEW s \in Sessions
  PROVE  PriceOf(crw, s) \in Nat \cup {NoPrice}
<1>1. Tariff[s.venue][s.start] \in Nat \cup {NoPrice}
  <2>1. s.venue \in Venues /\ s.start \in 0..HoursPerDay - 1
    BY DEF PlatformOK, SessionType
  <2> QED BY <2>1, TariffAssumption
<1>2. CASE crw.price = "flat"
  BY <1>2, PriceAssumption DEF PriceOf
<1>3. CASE crw.price = "none"
  BY <1>3 DEF PriceOf
<1>4. CASE crw.price = "listed"
  BY <1>1, <1>4 DEF PriceOf
<1> QED BY <1>2, <1>3, <1>4 DEF Pricings

-----------------------------------------------------------------------------
(* What the parsers return: finitely many prices, and no row without         *)
(* sessions but for the slots of the timetable.                              *)

IsStoredRow(l) ==
  \E s \in Sessions : s.venue = l.venue /\ s.day = l.date /\ s.start = l.start /\ EndHour(s) = l.end

ParsedWell(T) ==
  /\ IsFiniteSet(Known(T))
  /\ \A l \in T : l.price \in Nat \cup {NoPrice}
  /\ \A l \in T : l.of = {} => IsStoredRow(l)

LEMMA FiniteImage ==
  ASSUME NEW S, IsFiniteSet(S), NEW f, NEW T, \A l \in T : \E s \in S : l = f[s]
  PROVE  IsFiniteSet(T)
<1>1. [s \in S |-> f[s]] \in Surjection(S, {f[s] : s \in S})
  BY DEF Surjection
<1>2. IsFiniteSet({f[s] : s \in S})
  BY <1>1, FS_Surjection
<1>3. T \in SUBSET {f[s] : s \in S}
  OBVIOUS
<1> QED BY <1>2, <1>3, FS_Subset

LEMMA FiniteParsedWell ==
  ASSUME NEW T, IsFiniteSet(T),
         \A l \in T : l.price \in Nat \cup {NoPrice} /\ (l.of = {} => IsStoredRow(l))
  PROVE  ParsedWell(T)
BY FS_Subset DEF ParsedWell, Known

LEMMA ImageParsedWell ==
  ASSUME NEW S, IsFiniteSet(S), NEW f, NEW T,
         \A l \in T : /\ \E s \in S : l = f[s]
                      /\ l.price \in Nat \cup {NoPrice}
                      /\ l.of = {} => IsStoredRow(l)
  PROVE  ParsedWell(T)
<1>1. IsFiniteSet(T)
  BY FiniteImage
<1> QED BY <1>1, FiniteParsedWell

LEMMA BetterWell ==
  ASSUME PlatformOK, NEW crw, crw.price \in Pricings, NEW r, NEW S \in SUBSET Sessions
  PROVE  ParsedWell(BetterParse(crw, r, S)) /\ ParsedWell(BetterBlanks(crw, r))
<1>1. IsFiniteSet(S)
  BY FS_Subset DEF PlatformOK
<1>2. ParsedWell(BetterParse(crw, r, S))
  <2> DEFINE f == [s \in S |-> Listing(VenueOf(r), DateOf(r), s.start, EndHour(s), places[s],
                                       PriceOf(crw, s), Only(s))]
  <2>1. \A l \in BetterParse(crw, r, S) : \E s \in S : l = f[s]
    BY DEF BetterParse
  <2>2. \A s \in S : f[s].price \in Nat \cup {NoPrice} /\ f[s].of # {}
    BY PriceFacts DEF Listing, Only
  <2> HIDE DEF f
  <2> QED BY <1>1, <2>1, <2>2, ImageParsedWell
<1>3. ParsedWell(BetterBlanks(crw, r))
  <2> DEFINE f == [s \in Sessions |-> Listing(s.venue, s.day, s.start, EndHour(s), 0, PriceOf(crw, s), {})]
  <2>1. \A l \in BetterBlanks(crw, r) : \E s \in Sessions : l = f[s]
    BY DEF BetterBlanks
  <2>2. \A s \in Sessions : f[s].price \in Nat \cup {NoPrice} /\ IsStoredRow(f[s])
    BY PriceFacts DEF Listing, IsStoredRow
  <2> HIDE DEF f
  <2> QED BY <2>1, <2>2, ImageParsedWell DEF PlatformOK
<1> QED BY <1>2, <1>3

\* The crawlers that take every session for a slot of its own.
LEMMA OneByOneWell ==
  ASSUME PlatformOK, NEW crw, crw.price \in Pricings, NEW r, NEW S \in SUBSET Sessions
  PROVE  /\ ParsedWell(CitySportsParse(crw, r, S)) /\ ParsedWell(UelParse(crw, r, S))
         /\ ParsedWell(DecathlonParse(crw, r, S)) /\ ParsedWell(CourtReserveParse(crw, r, S))
         /\ ParsedWell(ClubSparkParse(crw, r, S))
<1>1. IsFiniteSet(S)
  BY FS_Subset DEF PlatformOK
<1>2. ParsedWell(CitySportsParse(crw, r, S)) /\ ParsedWell(UelParse(crw, r, S))
  <2> DEFINE f == [s \in S |-> Listing(VenueOf(r), s.day, s.start, EndHour(s), places[s],
                                       PriceOf(crw, s), Only(s))]
  <2>1. /\ \A l \in CitySportsParse(crw, r, S) : \E s \in S : l = f[s]
        /\ \A l \in UelParse(crw, r, S) : \E s \in S : l = f[s]
    BY DEF CitySportsParse, UelParse
  <2>2. \A s \in S : f[s].price \in Nat \cup {NoPrice} /\ f[s].of # {}
    BY PriceFacts DEF Listing, Only
  <2> HIDE DEF f
  <2>3. ParsedWell(CitySportsParse(crw, r, S))
    BY <1>1, <2>1, <2>2, ImageParsedWell, SMTT(30)
  <2>4. ParsedWell(UelParse(crw, r, S))
    BY <1>1, <2>1, <2>2, ImageParsedWell, SMTT(30)
  <2> QED BY <2>3, <2>4
<1>3. ParsedWell(DecathlonParse(crw, r, S))
  <2> DEFINE f == [s \in S |-> Listing(VenueOf(r), LondonDate(Utc(s)), LondonHour(Utc(s)),
                                       LondonEnd(s), places[s], PriceOf(crw, s), Only(s))]
  <2>1. \A l \in DecathlonParse(crw, r, S) : \E s \in S : l = f[s]
    BY DEF DecathlonParse
  <2>2. \A s \in S : f[s].price \in Nat \cup {NoPrice} /\ f[s].of # {}
    BY PriceFacts DEF Listing, Only
  <2> HIDE DEF f
  <2> QED BY <1>1, <2>1, <2>2, ImageParsedWell
<1>4. ParsedWell(CourtReserveParse(crw, r, S))
  <2> DEFINE f == [s \in S |-> Listing(VenueInTitle(s), LondonDate(Utc(s)), LondonHour(Utc(s)),
                                       LondonEnd(s), places[s], PriceOf(crw, s), Only(s))]
  <2>1. \A l \in CourtReserveParse(crw, r, S) : \E s \in S : l = f[s]
    BY DEF CourtReserveParse
  <2>2. \A s \in S : f[s].price \in Nat \cup {NoPrice} /\ f[s].of # {}
    BY PriceFacts DEF Listing, Only
  <2> HIDE DEF f
  <2> QED BY <1>1, <2>1, <2>2, ImageParsedWell
<1>5. ParsedWell(ClubSparkParse(crw, r, S))
  <2> DEFINE f == [s \in S |-> Listing(VenueOf(r), s.day, s.start, EndHour(s), 1, PriceOf(crw, s), Only(s))]
  <2>1. \A l \in ClubSparkParse(crw, r, S) : \E s \in S : l = f[s]
    BY DEF ClubSparkParse
  <2>2. \A s \in S : f[s].price \in Nat \cup {NoPrice} /\ f[s].of # {}
    BY PriceFacts DEF Listing, Only
  <2> HIDE DEF f
  <2> QED BY <1>1, <2>1, <2>2, ImageParsedWell
<1> QED BY <1>2, <1>3, <1>4, <1>5


\* A session has a court, in one of the halls, and an activity.
LEMMA SessionFacts ==
  ASSUME PlatformOK
  PROVE  /\ \A s \in Sessions : s.activity \in Activities /\ s.court \in Courts
         /\ \A s \in Sessions : <<s.activity, s.court>> \in Anything
         /\ \A s \in Sessions : Hall(s.court) \in Halls /\ s.court \in CourtsIn({Hall(s.court)})
BY DEF PlatformOK, SessionType, Anything, Halls, CourtsIn

LEMMA SouthwarkWell ==
  ASSUME PlatformOK, NEW crw, crw.price \in Pricings, NEW r, NEW S \in SUBSET Sessions
  PROVE  ParsedWell(SouthwarkParse(crw, r, S))
<1> DEFINE B == S
           G(s) == {t \in B : SouthwarkTiming(t) = SouthwarkTiming(s)}
           f == [s \in B |-> LET a == AnyOf(G(s)) IN
                   Listing(VenueOf(r), DateOf(r), SouthwarkTiming(a)[2], SouthwarkTiming(a)[3],
                           PlacesIn(G(s)), PriceOf(crw, a), Anything)]
<1>1. \A l \in SouthwarkParse(crw, r, S) : \E s \in B : l = f[s]
  BY DEF SouthwarkParse, Grouped
<1>2. \A s \in B : AnyOf(G(s)) \in Sessions /\ AnyOf(G(s)) \in S
  BY DEF AnyOf
<1>3. \A a \in S : Anything # {}
  BY SessionFacts
<1>4. \A s \in B : f[s].price \in Nat \cup {NoPrice} /\ f[s].of # {}
  BY <1>2, <1>3, PriceFacts DEF Listing
<1>5. IsFiniteSet(B)
  BY FS_Subset DEF PlatformOK
<1> HIDE DEF f, B, G
<1>6. \A l \in SouthwarkParse(crw, r, S) :
        /\ \E s \in B : l = f[s]
        /\ l.price \in Nat \cup {NoPrice}
        /\ l.of = {} => IsStoredRow(l)
  BY <1>1, <1>4
<1>7. IsFiniteSet(SouthwarkParse(crw, r, S))
  BY <1>1, <1>5, FiniteImage
<1> QED BY <1>6, <1>7, FiniteParsedWell

LEMMA MytimeWell ==
  ASSUME PlatformOK, NEW crw, crw.price \in Pricings, NEW r, NEW S \in SUBSET Sessions
  PROVE  ParsedWell(MytimeParse(crw, r, S))
<1> DEFINE B == {s \in S : s.day \in r.dates /\ s.venue \in r.venues /\ ~s.blocked}
           G(s) == {t \in B : MytimeKey(t) = MytimeKey(s)}
           f == [s \in B |-> LET a == AnyOf(G(s)) IN
                   Listing(VenueOf(r), DateOf(r), MytimeKey(a)[1], MytimeKey(a)[2],
                           PlacesIn(G(s)), PriceOf(crw, a), Anything)]
<1>1. \A l \in MytimeParse(crw, r, S) : \E s \in B : l = f[s]
  BY DEF MytimeParse, Grouped
<1>2. \A s \in B : AnyOf(G(s)) \in Sessions /\ AnyOf(G(s)) \in S
  BY DEF AnyOf
<1>3. \A a \in S : Anything # {}
  BY SessionFacts
<1>4. \A s \in B : f[s].price \in Nat \cup {NoPrice} /\ f[s].of # {}
  BY <1>2, <1>3, PriceFacts DEF Listing
<1>5. IsFiniteSet(B)
  BY FS_Subset DEF PlatformOK
<1> HIDE DEF f, B, G
<1>6. \A l \in MytimeParse(crw, r, S) :
        /\ \E s \in B : l = f[s]
        /\ l.price \in Nat \cup {NoPrice}
        /\ l.of = {} => IsStoredRow(l)
  BY <1>1, <1>4
<1>7. IsFiniteSet(MytimeParse(crw, r, S))
  BY <1>1, <1>5, FiniteImage
<1> QED BY <1>6, <1>7, FiniteParsedWell

LEMMA TowerHamletsWell ==
  ASSUME PlatformOK, NEW crw, crw.price \in Pricings, NEW r, NEW S \in SUBSET Sessions,
         \A s \in S : s.activity \in r.activities
  PROVE  ParsedWell(TowerHamletsParse(crw, r, S))
<1> DEFINE B == S
           G(s) == {t \in B : TowerHamletsKey(t) = TowerHamletsKey(s)}
           f == [s \in B |-> LET a == AnyOf(G(s)) IN
                   Listing(VenueOf(r), TowerHamletsKey(a)[1], LondonHour(TowerHamletsKey(a)[2]),
                           LondonHour(TowerHamletsKey(a)[3]), FreeIn(G(s)), PriceOf(crw, a),
                           r.activities \X Courts)]
<1>1. \A l \in TowerHamletsParse(crw, r, S) : \E s \in B : l = f[s]
  BY DEF TowerHamletsParse, Grouped
<1>2. \A s \in B : AnyOf(G(s)) \in Sessions /\ AnyOf(G(s)) \in S
  BY DEF AnyOf
<1>3. \A a \in S : r.activities \X Courts # {}
  <2>1. \A a \in S : <<a.activity, a.court>> \in r.activities \X Courts
    BY SessionFacts
  <2> QED BY <2>1
<1>4. \A s \in B : f[s].price \in Nat \cup {NoPrice} /\ f[s].of # {}
  BY <1>2, <1>3, PriceFacts DEF Listing
<1>5. IsFiniteSet(B)
  BY FS_Subset DEF PlatformOK
<1> HIDE DEF f, B, G
<1>6. \A l \in TowerHamletsParse(crw, r, S) :
        /\ \E s \in B : l = f[s]
        /\ l.price \in Nat \cup {NoPrice}
        /\ l.of = {} => IsStoredRow(l)
  BY <1>1, <1>4
<1>7. IsFiniteSet(TowerHamletsParse(crw, r, S))
  BY <1>1, <1>5, FiniteImage
<1> QED BY <1>6, <1>7, FiniteParsedWell

LEMMA PlacesWell ==
  ASSUME PlatformOK, NEW crw, crw.price \in Pricings, NEW r, NEW S \in SUBSET Sessions,
         \A s \in S : s.activity \in r.activities /\ Hall(s.court) \in r.halls
  PROVE  ParsedWell(PlacesParse(crw, r, S))
<1> DEFINE B == S
           G(s) == {t \in B : Utc(t) = Utc(s)}
           f == [s \in B |-> LET a == AnyOf(G(s)) IN
                   Listing(a.venue, LondonDate(Utc(a)), LondonHour(Utc(a)), LondonEnd(a), FreeIn(G(s)),
                           PriceOf(crw, a), r.activities \X CourtsIn(r.halls))]
<1>1. \A l \in PlacesParse(crw, r, S) : \E s \in B : l = f[s]
  BY DEF PlacesParse, Grouped
<1>2. \A s \in B : AnyOf(G(s)) \in Sessions /\ AnyOf(G(s)) \in S
  BY DEF AnyOf
<1>3. \A a \in S : r.activities \X CourtsIn(r.halls) # {}
  <2>1. \A a \in S : <<a.activity, a.court>> \in r.activities \X CourtsIn(r.halls)
    BY SessionFacts DEF CourtsIn
  <2> QED BY <2>1
<1>4. \A s \in B : f[s].price \in Nat \cup {NoPrice} /\ f[s].of # {}
  BY <1>2, <1>3, PriceFacts DEF Listing
<1>5. IsFiniteSet(B)
  BY FS_Subset DEF PlatformOK
<1> HIDE DEF f, B, G
<1>6. \A l \in PlacesParse(crw, r, S) :
        /\ \E s \in B : l = f[s]
        /\ l.price \in Nat \cup {NoPrice}
        /\ l.of = {} => IsStoredRow(l)
  BY <1>1, <1>4
<1>7. IsFiniteSet(PlacesParse(crw, r, S))
  BY <1>1, <1>5, FiniteImage
<1> QED BY <1>6, <1>7, FiniteParsedWell

LEMMA PlaytomicWell ==
  ASSUME PlatformOK, NEW crw, crw.price \in Pricings, NEW r, NEW S \in SUBSET Sessions
  PROVE  ParsedWell(PlaytomicParse(crw, r, S))
<1> DEFINE B == S
           G(s) == {t \in B : PlaytomicKey(t) = PlaytomicKey(s)}
           f == [s \in B |-> LET a == AnyOf(G(s)) IN
                   Listing(VenueOf(r), DateOf(r), LondonHour(Utc(a)),
                           (LondonHour(Utc(a)) + a.len) % HoursPerDay, Cardinality(G(s)),
                           PriceOf(crw, a), Activities \X CourtsIn({Hall(a.court)}))]
<1>1. ASSUME NEW l \in PlaytomicParse(crw, r, S) PROVE \E s \in B : l = f[s]
  <2>1. PICK k \in {PlaytomicKey(s) : s \in S} :
          LET a == AnyOf({t \in S : PlaytomicKey(t) = k})
          IN  l = Listing(VenueOf(r), DateOf(r), LondonHour(Utc(a)),
                          (LondonHour(Utc(a)) + a.len) % HoursPerDay,
                          Cardinality({t \in S : PlaytomicKey(t) = k}),
                          PriceOf(crw, a), Activities \X CourtsIn({Hall(a.court)}))
    BY Zenon DEF PlaytomicParse, Grouped
  <2>2. PICK s \in S : k = PlaytomicKey(s)
    OBVIOUS
  <2> QED BY <2>1, <2>2
<1>2. \A s \in B : AnyOf(G(s)) \in Sessions /\ AnyOf(G(s)) \in S
  BY DEF AnyOf
<1>3. \A a \in S : (Activities \X CourtsIn({Hall(a.court)})) # {}
  <2>1. \A a \in S : <<a.activity, a.court>> \in Activities \X CourtsIn({Hall(a.court)})
    BY SessionFacts
  <2> QED BY <2>1
<1>4. \A s \in B : f[s].price \in Nat \cup {NoPrice} /\ f[s].of # {}
  BY <1>2, <1>3, PriceFacts DEF Listing
<1>5. IsFiniteSet(B)
  BY FS_Subset DEF PlatformOK
<1> HIDE DEF f, B, G
<1>6. \A l \in PlaytomicParse(crw, r, S) :
        /\ \E s \in B : l = f[s]
        /\ l.price \in Nat \cup {NoPrice}
        /\ l.of = {} => IsStoredRow(l)
  BY <1>1, <1>4
<1>7. IsFiniteSet(PlaytomicParse(crw, r, S))
  BY <1>1, <1>5, FiniteImage
<1> QED BY <1>6, <1>7, FiniteParsedWell

LEMMA MatchiWell ==
  ASSUME PlatformOK, NEW crw, crw.price \in Pricings, NEW r, NEW S \in SUBSET Sessions
  PROVE  ParsedWell(MatchiParse(crw, r, S))
<1> DEFINE B == {s \in S : places[s] > 0}
           G(s) == {t \in B : StockholmStamp(t) = StockholmStamp(s)}
           f == [s \in B |-> LET a == AnyOf(G(s)) IN
                   Listing(VenueOf(r), DateOf(r), MatchiHour(StockholmStamp(a)),
                           MatchiHour(StockholmStamp(a) + a.len), Cardinality(G(s)),
                           PriceOf(crw, a), Anything)]
<1>1. \A l \in MatchiParse(crw, r, S) : \E s \in B : l = f[s]
  BY DEF MatchiParse, Grouped, MatchiSlots
<1>2. \A s \in B : AnyOf(G(s)) \in Sessions /\ AnyOf(G(s)) \in S
  BY DEF AnyOf
<1>3. \A a \in S : Anything # {}
  BY SessionFacts
<1>4. \A s \in B : f[s].price \in Nat \cup {NoPrice} /\ f[s].of # {}
  BY <1>2, <1>3, PriceFacts DEF Listing
<1>5. IsFiniteSet(B)
  BY FS_Subset DEF PlatformOK
<1> HIDE DEF f, B, G
<1>6. \A l \in MatchiParse(crw, r, S) :
        /\ \E s \in B : l = f[s]
        /\ l.price \in Nat \cup {NoPrice}
        /\ l.of = {} => IsStoredRow(l)
  BY <1>1, <1>4
<1>7. IsFiniteSet(MatchiParse(crw, r, S))
  BY <1>1, <1>5, FiniteImage
<1> QED BY <1>6, <1>7, FiniteParsedWell

LEMMA PadelMatesWell ==
  ASSUME PlatformOK, NEW crw, crw.price \in Pricings, NEW r, NEW S \in SUBSET Sessions
  PROVE  ParsedWell(PadelMatesParse(crw, r, S))
<1> DEFINE B == {s \in S : ~s.blocked}
           G(s) == {t \in B : <<Utc(t), t.len>> = <<Utc(s), s.len>>}
           f == [s \in B |-> LET a == AnyOf(G(s)) IN
                   Listing(VenueOf(r), LondonDate(Utc(a)), LondonHour(Utc(a)), LondonEnd(a),
                           Cardinality(G(s)), PriceOf(crw, a), Anything)]
<1>1. \A l \in PadelMatesParse(crw, r, S) : \E s \in B : l = f[s]
  BY DEF PadelMatesParse, Grouped
<1>2. \A s \in B : AnyOf(G(s)) \in Sessions /\ AnyOf(G(s)) \in S
  BY DEF AnyOf
<1>3. \A a \in S : Anything # {}
  BY SessionFacts
<1>4. \A s \in B : f[s].price \in Nat \cup {NoPrice} /\ f[s].of # {}
  BY <1>2, <1>3, PriceFacts DEF Listing
<1>5. IsFiniteSet(B)
  BY FS_Subset DEF PlatformOK
<1> HIDE DEF f, B, G
<1>6. \A l \in PadelMatesParse(crw, r, S) :
        /\ \E s \in B : l = f[s]
        /\ l.price \in Nat \cup {NoPrice}
        /\ l.of = {} => IsStoredRow(l)
  BY <1>1, <1>4
<1>7. IsFiniteSet(PadelMatesParse(crw, r, S))
  BY <1>1, <1>5, FiniteImage
<1> QED BY <1>6, <1>7, FiniteParsedWell

\* The slots of AggregateCourts are one for each timing of a session.
LEMMA EveryoneActiveWell ==
  ASSUME PlatformOK, NEW crw, crw.price \in Pricings, NEW r, NEW S \in SUBSET Sessions
  PROVE  ParsedWell(EveryoneActiveParse(crw, r, S))
<1> DEFINE slotOf == [s \in S |-> LET G == {t \in S : Timing(t) = Timing(s)} IN
                                    <<Timing(AnyOf(G)), PlacesIn(G)>>]
           f == [slot \in AggregateCourts(S) |->
                   Listing(VenueOf(r), DateOf(r), slot[1][2], slot[1][3], slot[2],
                           PriceOf(crw, AnyOf(S)), Anything)]
<1>1. \A slot \in AggregateCourts(S) : \E s \in S : slot = slotOf[s]
  BY DEF AggregateCourts, Grouped
<1>2. IsFiniteSet(S)
  BY FS_Subset DEF PlatformOK
<1>3. \A l \in EveryoneActiveParse(crw, r, S) : \E slot \in AggregateCourts(S) : l = f[slot]
  BY DEF EveryoneActiveParse
<1>4. \A slot \in AggregateCourts(S) : AnyOf(S) \in Sessions /\ Anything # {}
  BY <1>1, SessionFacts DEF AnyOf
<1>5. \A slot \in AggregateCourts(S) : f[slot].price \in Nat \cup {NoPrice} /\ f[slot].of # {}
  BY <1>4, PriceFacts DEF Listing
<1> HIDE DEF f, slotOf
<1>6. \A l \in EveryoneActiveParse(crw, r, S) :
        l.price \in Nat \cup {NoPrice} /\ (l.of = {} => IsStoredRow(l))
  BY <1>3, <1>5
<1>7. IsFiniteSet(AggregateCourts(S))
  BY <1>1, <1>2, FiniteImage
<1>8. IsFiniteSet(EveryoneActiveParse(crw, r, S))
  BY <1>3, <1>7, FiniteImage
<1> QED BY <1>6, <1>8, FiniteParsedWell

\* The rows of a Stratford court carry no price, and each is about its court.
LEMMA StratfordWell ==
  ASSUME NEW crw, NEW r, NEW S
  PROVE  ParsedWell(StratfordParse(crw, r, S))
<1>1. \A l \in StratfordParse(crw, r, S) : \E c : l.price = NoPrice /\ l.of = Activities \X {c}
  <2> TAKE l \in StratfordParse(crw, r, S)
  <2>1. PICK c, b, n : l = Listing(VenueOf(r), DateOf(r), b[1], b[2], n, NoPrice, Activities \X {c})
    BY ZenonT(40) DEF StratfordParse
  <2> QED BY <2>1 DEF Listing
<1>2. \A c : <<"main", c>> \in Activities \X {c}
  BY DEF Activities
<1>3. Known(StratfordParse(crw, r, S)) = {}
  BY <1>1 DEF Known
<1>4. IsFiniteSet(Known(StratfordParse(crw, r, S)))
  BY <1>3, FS_EmptySet
<1> QED BY <1>1, <1>2, <1>4 DEF ParsedWell

LEMMA EmptyWell == ParsedWell({})
BY FS_EmptySet, FiniteParsedWell

LEMMA ParseWell ==
  ASSUME PlatformOK, NEW crw, crw.api \in Apis, crw.price \in Pricings, NEW r,
         NEW S \in SUBSET Sessions,
         \A s \in S : s.activity \in r.activities /\ Hall(s.court) \in r.halls
  PROVE  ParsedWell(Parse(crw, r, S)) /\ ParsedWell(ParseGarbled(crw, r))
<1>1. ParsedWell(ParseGarbled(crw, r))
  BY BetterWell, EmptyWell DEF ParseGarbled
<1>2. ParsedWell(Parse(crw, r, S))
  <2>1. CASE crw.api = "better"
    BY <2>1, BetterWell DEF Parse
  <2>2. CASE crw.api \in {"citysports", "uel", "decathlon", "courtreserve", "clubspark"}
    <3>1. CASE crw.api = "citysports"   BY <3>1, OneByOneWell DEF Parse
    <3>2. CASE crw.api = "uel"          BY <3>2, OneByOneWell DEF Parse
    <3>3. CASE crw.api = "decathlon"    BY <3>3, OneByOneWell DEF Parse
    <3>4. CASE crw.api = "courtreserve" BY <3>4, OneByOneWell DEF Parse
    <3>5. CASE crw.api = "clubspark"    BY <3>5, OneByOneWell DEF Parse
    <3> QED BY <2>2, <3>1, <3>2, <3>3, <3>4, <3>5
  <2>3. CASE crw.api = "everyoneactive"
    BY <2>3, EveryoneActiveWell DEF Parse
  <2>4. CASE crw.api = "southwark"
    BY <2>4, SouthwarkWell DEF Parse
  <2>5. CASE crw.api = "mytime"
    BY <2>5, MytimeWell DEF Parse
  <2>6. CASE crw.api = "towerhamlets"
    BY <2>6, TowerHamletsWell DEF Parse
  <2>7. CASE crw.api = "places"
    BY <2>7, PlacesWell DEF Parse
  <2>8. CASE crw.api = "playtomic"
    BY <2>8, PlaytomicWell DEF Parse
  <2>9. CASE crw.api = "matchi"
    BY <2>9, MatchiWell DEF Parse
  <2>10. CASE crw.api = "padelmates"
    BY <2>10, PadelMatesWell DEF Parse
  <2>11. CASE crw.api = "stratford"
    BY <2>11, StratfordWell DEF Parse
  <2> QED BY <2>1, <2>2, <2>3, <2>4, <2>5, <2>6, <2>7, <2>8, <2>9, <2>10, <2>11 DEF Apis
<1> QED BY <1>1, <1>2

-----------------------------------------------------------------------------
(* The invariant.                                                           *)

Estimated ==
  Done => \A l \in listings : prices[l] = FillEstimatedPrices(listings)[l]

CrawlInv ==
  /\ PlatformOK
  /\ ParsedWell(listings)
  /\ Estimated

LEMMA InitCrawl == Init => CrawlInv
<1> SUFFICES ASSUME Init PROVE CrawlInv
  OBVIOUS
<1>1. PlatformOK
  BY TimetableAssumption DEF Init, PlatformInit, PlatformOK, Sessions
<1>2. ParsedWell(listings)
  BY EmptyWell DEF Init
<1>3. Estimated
  BY DEF Init, Estimated
<1> QED BY <1>1, <1>2, <1>3 DEF CrawlInv

\* Two lists put together.
LEMMA UnionWell ==
  ASSUME NEW T, NEW U, ParsedWell(T), ParsedWell(U)
  PROVE  ParsedWell(T \cup U)
<1>1. Known(T \cup U) = Known(T) \cup Known(U)
  BY DEF Known
<1>2. IsFiniteSet(Known(T \cup U))
  BY <1>1, FS_Union DEF ParsedWell
<1> QED BY <1>2 DEF ParsedWell

\* Whatever the answer was made of, it joins the list, and the last one to come
\* in has the prices filled in.
LEMMA CollectKeeps ==
  ASSUME CrawlInv, NEW r, NEW slots, NEW next, Collect(r, slots, next), ParsedWell(slots)
  PROVE  CrawlInv'
<1>1. PlatformOK'
  BY DEF CrawlInv, PlatformOK, Collect, platform, crawl, Sessions
<1>2. ParsedWell(listings)'
  <2>1. ParsedWell(listings \cup slots)
    BY UnionWell DEF CrawlInv
  <2>2. places' = places /\ listings' = listings \cup slots
    BY DEF Collect, platform
  <2>3. \A l : IsStoredRow(l) => IsStoredRow(l)'
    BY <2>2 DEF IsStoredRow, Sessions, EndHour, EndOf
  <2>4. Known(listings)' = Known(listings \cup slots)
    BY <2>2 DEF Known
  <2> QED BY <2>1, <2>2, <2>3, <2>4 DEF ParsedWell
<1>3. Estimated'
  BY DEF Collect, Estimated, Done, FillEstimatedPrices, Known, KnownAt
<1> QED BY <1>1, <1>2, <1>3 DEF CrawlInv

LEMMA MembersKeep ==
  ASSUME CrawlInv, MembersAct
  PROVE  CrawlInv'
<1>1. PICK s \in Sessions : Book(s) \/ Cancel(s)
  BY DEF MembersAct
<1>2. places' \in [Sessions -> 0..MaxPlaces] /\ summer' = summer /\ Sessions' = Sessions
  BY <1>1, ClockAssumption DEF Book, Cancel, CrawlInv, PlatformOK, Sessions
<1>3. PlatformOK'
  BY <1>2 DEF CrawlInv, PlatformOK, MembersAct, crawl
<1>4. ParsedWell(listings)'
  <2>1. listings' = listings
    BY DEF MembersAct
  <2>2. \A l : IsStoredRow(l) => IsStoredRow(l)'
    BY <1>2 DEF IsStoredRow, EndHour, EndOf
  <2>3. Known(listings)' = Known(listings)
    BY <2>1 DEF Known
  <2> QED BY <2>1, <2>2, <2>3 DEF CrawlInv, ParsedWell
<1>5. Estimated'
  BY DEF MembersAct, Estimated, Done
<1> QED BY <1>3, <1>4, <1>5 DEF CrawlInv

\* A crawl that ends in the parser has no rows at all.
LEMMA RaisedKeeps ==
  ASSUME CrawlInv, NEW r, ParseRaises(r)
  PROVE  CrawlInv'
<1>1. PlatformOK'
  BY DEF CrawlInv, PlatformOK, ParseRaises, platform, crawl, Sessions
<1>2. listings' = {}
  BY DEF ParseRaises
<1>3. ParsedWell(listings)'
  BY <1>2, FS_EmptySet DEF ParsedWell, Known
<1>4. Estimated'
  BY <1>2 DEF Estimated
<1> QED BY <1>1, <1>3, <1>4 DEF CrawlInv

LEMMA NextCrawl == CrawlInv /\ [Next]_vars => CrawlInv'
<1> SUFFICES ASSUME CrawlInv, [Next]_vars PROVE CrawlInv'
  OBVIOUS
<1>1. This.api \in Apis /\ This.price \in Pricings
  BY CrawlerFacts DEF CrawlInv, PlatformOK
<1>2. ASSUME NEW r \in pending, Answered(r)
      PROVE  CrawlInv'
  <2> DEFINE S == Answer(This.api, r)
  <2>1. S \in SUBSET Sessions /\ \A s \in S : s.activity \in r.activities /\ Hall(s.court) \in r.halls
    BY AnswerFacts
  <2>2. ParsedWell(Parse(This, r, S))
    BY <1>1, <2>1, ParseWell DEF CrawlInv
  <2>3. \/ Collect(r, {}, ScheduledRequests(r, S))
        \/ Collect(r, Parse(This, r, S), {})
    BY <1>2 DEF Answered
  <2> HIDE DEF S
  <2> QED BY <2>2, <2>3, EmptyWell, CollectKeeps
<1>3. ASSUME NEW r \in pending, Fails(r)
      PROVE  CrawlInv'
  BY <1>3, EmptyWell, CollectKeeps DEF Fails
<1>4. ASSUME NEW r \in pending, Garbled(r)
      PROVE  CrawlInv'
  <2>1. {} \in SUBSET Sessions /\ \A s \in {} : s.activity \in r.activities /\ Hall(s.court) \in r.halls
    OBVIOUS
  <2>2. ParsedWell(ParseGarbled(This, r))
    BY <1>1, <2>1, ParseWell DEF CrawlInv
  <2> QED BY <1>4, <2>2, CollectKeeps DEF Garbled
<1>7. ASSUME NEW r \in pending, ParseRaises(r)
      PROVE  CrawlInv'
  BY <1>7, RaisedKeeps
<1>5. CASE MembersAct
  BY <1>5, MembersKeep
<1>6. CASE UNCHANGED vars
  <2>1. /\ summer' = summer /\ places' = places /\ crawler' = crawler
        /\ pending' = pending /\ listings' = listings /\ prices' = prices
    BY <1>6 DEF vars, platform, crawl
  <2>2. PlatformOK'
    BY <2>1 DEF CrawlInv, PlatformOK, Sessions
  <2>3. ParsedWell(listings)'
    BY <2>1 DEF CrawlInv, ParsedWell, Known, IsStoredRow, Sessions, EndHour, EndOf
  <2>4. Estimated'
    BY <2>1 DEF CrawlInv, Estimated, Done, FillEstimatedPrices, Known, KnownAt
  <2> QED BY <2>2, <2>3, <2>4 DEF CrawlInv
<1> QED BY <1>2, <1>3, <1>4, <1>5, <1>6, <1>7 DEF Next

LEMMA CrawlInvariant == Spec => []CrawlInv
BY InitCrawl, NextCrawl, PTL DEF Spec

-----------------------------------------------------------------------------
(* What follows from it.                                                    *)

\* Whichever crawler runs, the rows without spaces that it hands over when an
\* answer was empty or garbled are slots of the timetable, for every timetable
\* and however members book meanwhile: the upsert finds the rows it is to zero.
THEOREM BlanksAreStored == Spec => []BlanksAreStoredRows
<1>1. CrawlInv => BlanksAreStoredRows
  BY DEF CrawlInv, ParsedWell, IsStoredRow, BlanksAreStoredRows
<1> QED BY <1>1, CrawlInvariant, PTL

\* Once the crawl is over, every slot has its published price or an estimate
\* within the range of the prices near it, however many there are and even when
\* some of them are the same.
THEOREM EstimatesHold == Spec => []EstimatesAreGrounded
<1>1. CrawlInv => EstimatesAreGrounded
  <2> SUFFICES ASSUME CrawlInv, Done, NEW l \in listings
               PROVE  LET near == IF KnownAt(l.venue, listings) # {}
                                  THEN KnownAt(l.venue, listings) ELSE Known(listings)
                      IN  CASE l.price # NoPrice -> prices[l] = 2 * l.price
                            [] near = {} -> prices[l] = 2 * DefaultPrice
                            [] OTHER -> /\ \E k \in near : 2 * k.price <= prices[l]
                                        /\ \E k \in near : prices[l] <= 2 * k.price
    BY DEF EstimatesAreGrounded
  <2>1. prices[l] = FillEstimatedPrices(listings)[l]
    BY DEF CrawlInv, Estimated
  <2> DEFINE near == IF KnownAt(l.venue, listings) # {}
                     THEN KnownAt(l.venue, listings) ELSE Known(listings)
  <2>2. IsFiniteSet(near) /\ \A k \in near : k.price \in Nat
    BY FS_Subset DEF CrawlInv, ParsedWell, Known, KnownAt
  <2>3. CASE l.price # NoPrice
    <3>1. l \in near
      BY <2>3 DEF Known, KnownAt
    <3>2. prices[l] = 2 * l.price
      BY <2>1, <2>3 DEF FillEstimatedPrices
    <3> HIDE DEF near
    <3>3. near # {}
      BY <3>1
    <3> QED BY <2>3, <3>2, <3>3 DEF near
  <2>4. CASE l.price = NoPrice /\ near = {}
    BY <2>1, <2>4 DEF FillEstimatedPrices
  <2>5. CASE l.price = NoPrice /\ near # {}
    <3>1. prices[l] = Median(near)
      BY <2>1, <2>5 DEF FillEstimatedPrices
    <3> HIDE DEF near
    <3>2. /\ \E k \in near : 2 * k.price <= prices[l]
          /\ \E k \in near : prices[l] <= 2 * k.price
      BY <2>2, <2>5, <3>1, MedianIsWithin
    <3> QED BY <2>5, <3>2 DEF near
  <2> QED BY <2>3, <2>4, <2>5
<1> QED BY <1>1, CrawlInvariant, PTL

-----------------------------------------------------------------------------
(* Sums over finite sets.  SumFunctionOnSet is a recursive function on the   *)
(* subsets of a set, so it has to be shown that there is one.               *)

First(T) == CHOOSE x \in T : TRUE

Adds(f, g, S) == g = [T \in SUBSET S |-> IF T = {} THEN 0 ELSE f[First(T)] + g[T \ {First(T)}]]

LEMMA SumIs ==
  ASSUME NEW f, NEW S
  PROVE  SumFunctionOnSet(f, S) = (CHOOSE g : Adds(f, g, S))[S]
BY DEF SumFunctionOnSet, FoldFunctionOnSet, MapThenFoldSet, Adds, First

\* Two functions that add up agree wherever both are defined.
LEMMA AddsAgree ==
  ASSUME NEW f, NEW S, NEW T, NEW g, NEW h, Adds(f, g, S), Adds(f, h, T),
         NEW U, IsFiniteSet(U), U \subseteq S, U \subseteq T
  PROVE  g[U] = h[U]
<1> DEFINE Differ == {V \in FiniteSubsetsOf(U) : g[V] # h[V]}
<1> SUFFICES ASSUME Differ # {} PROVE FALSE
  BY DEF FiniteSubsetsOf
<1>1. PICK V \in Differ : \A W \in Differ : <<W, V>> \notin StrictSubsetOrdering(U)
  BY FS_StrictSubsetOrderingWellFounded, WFMin
<1>2. V \in SUBSET U /\ IsFiniteSet(V) /\ g[V] # h[V]
  BY <1>1 DEF FiniteSubsetsOf
<1>3. /\ g[V] = IF V = {} THEN 0 ELSE f[First(V)] + g[V \ {First(V)}]
      /\ h[V] = IF V = {} THEN 0 ELSE f[First(V)] + h[V \ {First(V)}]
  BY <1>2 DEF Adds
<1>4. V # {} /\ First(V) \in V
  BY <1>2, <1>3 DEF First
<1>5. V \ {First(V)} \in FiniteSubsetsOf(U) /\ <<V \ {First(V)}, V>> \in StrictSubsetOrdering(U)
  BY <1>2, <1>4, FS_RemoveElement DEF FiniteSubsetsOf, StrictSubsetOrdering
<1>6. g[V \ {First(V)}] = h[V \ {First(V)}]
  BY <1>1, <1>5
<1> QED BY <1>2, <1>3, <1>6

\* There is such a function for every finite set: the functions for the sets
\* with an element less agree, and together they are nearly all of it.
LEMMA AddsExists ==
  ASSUME NEW f, NEW S, IsFiniteSet(S)
  PROVE  \E g : Adds(f, g, S)
<1> DEFINE Without == {T \in FiniteSubsetsOf(S) : ~ \E g : Adds(f, g, T)}
<1> SUFFICES ASSUME Without # {} PROVE FALSE
  BY DEF FiniteSubsetsOf
<1>1. PICK T \in Without : \A U \in Without : <<U, T>> \notin StrictSubsetOrdering(S)
  BY FS_StrictSubsetOrderingWellFounded, WFMin
<1>2. T \in SUBSET S /\ IsFiniteSet(T) /\ ~ \E g : Adds(f, g, T)
  BY <1>1 DEF FiniteSubsetsOf
<1> DEFINE Less(x) == CHOOSE g : Adds(f, g, T \ {x})
           Out(U)  == First(T \ U)
           Part(U) == Less(Out(U))[U]
           whole   == [U \in SUBSET T |->
                         IF U = {} THEN 0
                         ELSE f[First(U)] + Part(U \ {First(U)})]
<1>3. \A x \in T : Adds(f, Less(x), T \ {x})
  <2> TAKE x \in T
  <2>1. T \ {x} \in FiniteSubsetsOf(S) /\ <<T \ {x}, T>> \in StrictSubsetOrdering(S)
    BY <1>2, FS_RemoveElement DEF FiniteSubsetsOf, StrictSubsetOrdering
  <2>2. \E g : Adds(f, g, T \ {x})
    BY <1>1, <2>1
  <2> QED BY <2>2
<1>4. \A U \in SUBSET T : U # T => Out(U) \in T \ U /\ U \in SUBSET (T \ {Out(U)})
  BY DEF First
<1>5. \A U \in SUBSET T : IsFiniteSet(U)
  BY <1>2, FS_Subset
<1> HIDE DEF Less, Out
\* A part of T is summed up alike whatever element is left out.
<1>6. \A U \in SUBSET T, x \in T : x \notin U => Part(U) = Less(x)[U]
  <2> TAKE U \in SUBSET T, x \in T
  <2> HAVE x \notin U
  <2>1. U # T /\ U \subseteq T \ {x} /\ Out(U) \in T /\ U \subseteq T \ {Out(U)} /\ IsFiniteSet(U)
    BY <1>4, <1>5
  <2>2. Adds(f, Less(Out(U)), T \ {Out(U)}) /\ Adds(f, Less(x), T \ {x})
    BY <1>3, <2>1
  <2>3. Less(Out(U))[U] = Less(x)[U]
    BY <2>1, <2>2, AddsAgree
  <2> QED BY <2>3
<1>7. \A U \in SUBSET T : U # T =>
        Part(U) = IF U = {} THEN 0 ELSE f[First(U)] + Part(U \ {First(U)})
  <2> TAKE U \in SUBSET T
  <2> HAVE U # T
  <2>1. Out(U) \in T /\ U \in SUBSET (T \ {Out(U)})
    BY <1>4
  <2>2. Part(U) = IF U = {} THEN 0 ELSE f[First(U)] + Less(Out(U))[U \ {First(U)}]
    BY <1>3, <2>1 DEF Adds
  <2>3. Part(U \ {First(U)}) = Less(Out(U))[U \ {First(U)}]
    <3>1. U \ {First(U)} \in SUBSET T /\ Out(U) \notin U \ {First(U)}
      BY <2>1
    <3> QED BY <1>6, <2>1, <3>1
  <2> QED BY <2>2, <2>3
<1>8. \A U \in SUBSET T : U # T => Part(U) = whole[U]
  BY <1>7
<1>9. \A U \in SUBSET T : U # {} => /\ U \ {First(U)} \in SUBSET T
                                    /\ U \ {First(U)} # T
  BY DEF First
<1> HIDE DEF Part
<1>10. Adds(f, whole, T)
  <2>1. \A U \in SUBSET T : whole[U] = IF U = {} THEN 0
                                       ELSE f[First(U)] + whole[U \ {First(U)}]
    BY <1>8, <1>9
  <2>2. whole = [U \in SUBSET T |-> whole[U]]
    OBVIOUS
  <2> HIDE DEF whole
  <2> QED BY <2>1, <2>2 DEF Adds
<1> QED BY <1>2, <1>10

LEMMA SumStep ==
  ASSUME NEW f, NEW S, IsFiniteSet(S)
  PROVE  SumFunctionOnSet(f, S) = IF S = {} THEN 0
                                  ELSE f[First(S)] + SumFunctionOnSet(f, S \ {First(S)})
<1> DEFINE g == CHOOSE g : Adds(f, g, S)
           h == CHOOSE h : Adds(f, h, S \ {First(S)})
<1>1. IsFiniteSet(S \ {First(S)})
  BY FS_Subset
<1>2. Adds(f, g, S) /\ Adds(f, h, S \ {First(S)})
  BY <1>1, AddsExists
<1>3. SumFunctionOnSet(f, S) = g[S] /\ SumFunctionOnSet(f, S \ {First(S)}) = h[S \ {First(S)}]
  BY SumIs
<1> HIDE DEF g, h
<1>4. g[S \ {First(S)}] = h[S \ {First(S)}]
  BY <1>1, <1>2, AddsAgree
<1>5. g[S] = IF S = {} THEN 0 ELSE f[First(S)] + g[S \ {First(S)}]
  BY <1>2 DEF Adds
<1> QED BY <1>3, <1>4, <1>5

\* What a sum of numbers is made of: a number, and any of its terms can be the
\* first.
SumsWell(f, S) ==
  /\ SumFunctionOnSet(f, S) \in Nat
  /\ \A x \in S : SumFunctionOnSet(f, S) = f[x] + SumFunctionOnSet(f, S \ {x})

LEMMA Summing ==
  ASSUME NEW f, NEW S, IsFiniteSet(S), \A s \in S : f[s] \in Nat
  PROVE  SumsWell(f, S)
<1> DEFINE Bad == {T \in FiniteSubsetsOf(S) : ~SumsWell(f, T)}
<1> SUFFICES ASSUME Bad # {} PROVE FALSE
  BY DEF FiniteSubsetsOf
<1>1. PICK T \in Bad : \A U \in Bad : <<U, T>> \notin StrictSubsetOrdering(S)
  BY FS_StrictSubsetOrderingWellFounded, WFMin
<1>2. T \in SUBSET S /\ IsFiniteSet(T) /\ ~SumsWell(f, T)
  BY <1>1 DEF FiniteSubsetsOf
<1> DEFINE a == First(T)
           sum(U) == SumFunctionOnSet(f, U)
<1>3. T # {} /\ a \in T
  <2>1. ASSUME T = {} PROVE FALSE
    <3>1. SumFunctionOnSet(f, T) = 0
      BY <1>2, <2>1, SumStep
    <3> QED BY <1>2, <2>1, <3>1 DEF SumsWell
  <2> QED BY <2>1 DEF First
<1>4. \A x \in T : SumsWell(f, T \ {x}) /\ IsFiniteSet(T \ {x})
  <2> TAKE x \in T
  <2>1. T \ {x} \in FiniteSubsetsOf(S) /\ <<T \ {x}, T>> \in StrictSubsetOrdering(S)
    BY <1>2, FS_RemoveElement DEF FiniteSubsetsOf, StrictSubsetOrdering
  <2> QED BY <1>1, <2>1 DEF FiniteSubsetsOf
<1>5. sum(T) = f[a] + sum(T \ {a})
  BY <1>2, <1>3, SumStep
<1>6. ASSUME NEW x \in T
      PROVE  sum(T) = f[x] + sum(T \ {x})
  <2>1. CASE x = a
    BY <1>5, <2>1
  <2>2. CASE x # a
    <3> DEFINE V == T \ {a, x}
    <3>1. (T \ {a}) \ {x} = V /\ (T \ {x}) \ {a} = V
      OBVIOUS
    <3>2. x \in T \ {a} /\ a \in T \ {x}
      BY <1>3, <2>2
    <3>3. sum(T \ {a}) = f[x] + sum(V)
      BY <1>3, <1>4, <3>1, <3>2 DEF SumsWell
    <3>4. sum(T \ {x}) = f[a] + sum(V)
      BY <1>4, <3>1, <3>2 DEF SumsWell
    <3>5. sum(V) \in Nat
      <4>1. V \in FiniteSubsetsOf(S) /\ <<V, T>> \in StrictSubsetOrdering(S)
        BY <1>2, <1>3, FS_Subset DEF FiniteSubsetsOf, StrictSubsetOrdering
      <4> QED BY <1>1, <4>1 DEF SumsWell
    <3>6. f[a] \in Nat /\ f[x] \in Nat
      BY <1>2, <1>3
    <3> HIDE DEF V, a
    <3> QED BY <1>5, <3>3, <3>4, <3>5, <3>6
  <2> QED BY <2>1, <2>2
<1>7. sum(T) \in Nat
  <2>1. sum(T \ {a}) \in Nat
    BY <1>3, <1>4 DEF SumsWell
  <2> QED BY <1>2, <1>3, <1>5, <2>1
<1> QED BY <1>2, <1>6, <1>7 DEF SumsWell


LEMMA SumOfNone == \A f : SumFunctionOnSet(f, {}) = 0
BY FS_EmptySet, SumStep

\* A part of the terms, none of them grown, sums up to no more.
LEMMA SumMonotone ==
  ASSUME NEW B, IsFiniteSet(B), NEW A \in SUBSET B, NEW f, NEW g,
         \A s \in A : f[s] \in Nat /\ f[s] <= g[s],
         \A s \in B : g[s] \in Nat
  PROVE  SumFunctionOnSet(f, A) <= SumFunctionOnSet(g, B)
<1> DEFINE sum(h, U) == SumFunctionOnSet(h, U)
           Bad == {T \in FiniteSubsetsOf(B) : ~(sum(f, T \cap A) <= sum(g, T))}
<1> SUFFICES ASSUME Bad # {} PROVE FALSE
  <2>1. B \in FiniteSubsetsOf(B) /\ B \cap A = A
    BY DEF FiniteSubsetsOf
  <2> QED BY <2>1
<1>1. PICK T \in Bad : \A U \in Bad : <<U, T>> \notin StrictSubsetOrdering(B)
  BY FS_StrictSubsetOrderingWellFounded, WFMin
<1>2. T \in SUBSET B /\ IsFiniteSet(T) /\ ~(sum(f, T \cap A) <= sum(g, T))
  BY <1>1 DEF FiniteSubsetsOf
<1>3. T # {}
  <2>1. ASSUME T = {} PROVE FALSE
    <3>1. T \cap A = {}
      BY <2>1
    <3> QED BY <1>2, <2>1, <3>1, SumOfNone
  <2> QED BY <2>1
<1>4. PICK x \in T : TRUE
  BY <1>3
<1> DEFINE U == T \ {x}
<1>5. IsFiniteSet(U) /\ IsFiniteSet(T \cap A) /\ IsFiniteSet(U \cap A)
  BY <1>2, FS_Subset
<1>6. sum(f, U \cap A) <= sum(g, U)
  <2>1. U \in FiniteSubsetsOf(B) /\ <<U, T>> \in StrictSubsetOrdering(B)
    BY <1>2, <1>4, <1>5 DEF FiniteSubsetsOf, StrictSubsetOrdering
  <2> HIDE DEF U
  <2> QED BY <1>1, <2>1
<1>7. SumsWell(g, T) /\ SumsWell(g, U) /\ SumsWell(f, T \cap A) /\ SumsWell(f, U \cap A)
  <2>1. SumsWell(g, T)
    BY <1>2, Summing
  <2>2. SumsWell(g, U)
    BY <1>2, <1>5, Summing
  <2>3. SumsWell(f, T \cap A)
    BY <1>2, <1>5, Summing
  <2>4. SumsWell(f, U \cap A)
    BY <1>2, <1>5, Summing
  <2> QED BY <2>1, <2>2, <2>3, <2>4
<1>8. sum(g, T) = g[x] + sum(g, U) /\ g[x] \in Nat
  BY <1>2, <1>4, <1>7 DEF SumsWell
<1>9. sum(f, T \cap A) <= g[x] + sum(f, U \cap A)
  <2>1. CASE x \in A
    <3>1. (T \cap A) \ {x} = U \cap A
      OBVIOUS
    <3>2. sum(f, T \cap A) = f[x] + sum(f, U \cap A)
      BY <1>4, <1>7, <2>1, <3>1 DEF SumsWell
    <3>3. sum(f, U \cap A) \in Nat /\ f[x] \in Nat /\ f[x] <= g[x]
      BY <1>7, <2>1 DEF SumsWell
    <3> HIDE DEF U
    <3> QED BY <1>8, <3>2, <3>3
  <2>2. CASE x \notin A
    <3>1. T \cap A = U \cap A
      BY <2>2
    <3>2. sum(f, U \cap A) \in Nat
      BY <1>7 DEF SumsWell
    <3> HIDE DEF U
    <3> QED BY <1>8, <3>1, <3>2
  <2> QED BY <2>1, <2>2
<1>10. sum(f, U \cap A) \in Nat /\ sum(g, U) \in Nat /\ sum(f, T \cap A) \in Nat
  BY <1>7 DEF SumsWell
<1> HIDE DEF U
<1> QED BY <1>2, <1>6, <1>8, <1>9, <1>10

\* Terms that are at most one, and one only in G, sum up to no more than there
\* are elements in G.
LEMMA SumOfOnes ==
  ASSUME NEW A, IsFiniteSet(A), NEW G, IsFiniteSet(G), NEW f,
         \A s \in A : f[s] \in {0, 1} /\ (f[s] = 1 => s \in G)
  PROVE  SumFunctionOnSet(f, A) <= Cardinality(G)
<1> DEFINE sum(U) == SumFunctionOnSet(f, U)
           Bad == {T \in FiniteSubsetsOf(A) : ~(sum(T) <= Cardinality(T \cap G))}
<1>1. ASSUME Bad # {} PROVE FALSE
  <2>1. PICK T \in Bad : \A U \in Bad : <<U, T>> \notin StrictSubsetOrdering(A)
    BY <1>1, FS_StrictSubsetOrderingWellFounded, WFMin
  <2>2. T \in SUBSET A /\ IsFiniteSet(T) /\ ~(sum(T) <= Cardinality(T \cap G))
    BY <2>1 DEF FiniteSubsetsOf
  <2>3. T # {}
    <3>1. ASSUME T = {} PROVE FALSE
      <4>1. T \cap G = {}
        BY <3>1
      <4> QED BY <2>2, <3>1, <4>1, SumOfNone, FS_EmptySet
    <3> QED BY <3>1
  <2>4. PICK x \in T : TRUE
    BY <2>3
  <2> DEFINE U == T \ {x}
  <2>5. IsFiniteSet(U) /\ IsFiniteSet(U \cap G)
    BY <2>2, FS_Subset
  <2>6. sum(U) <= Cardinality(U \cap G)
    <3>1. U \in FiniteSubsetsOf(A) /\ <<U, T>> \in StrictSubsetOrdering(A)
      BY <2>2, <2>4, <2>5 DEF FiniteSubsetsOf, StrictSubsetOrdering
    <3> HIDE DEF U
    <3> QED BY <2>1, <3>1
  <2>7. SumsWell(f, T) /\ SumsWell(f, U)
    <3>1. SumsWell(f, T)
      BY <2>2, Summing
    <3>2. SumsWell(f, U)
      BY <2>2, <2>5, Summing
    <3> QED BY <3>1, <3>2
  <2>8. sum(T) = f[x] + sum(U) /\ sum(U) \in Nat /\ f[x] \in {0, 1}
    BY <2>2, <2>4, <2>7 DEF SumsWell
  <2>9. Cardinality(U \cap G) \in Nat /\ Cardinality(T \cap G) \in Nat
    BY <2>2, <2>5, FS_CardinalityType, FS_Subset
  <2>10. f[x] + Cardinality(U \cap G) <= Cardinality(T \cap G)
    <3>1. CASE x \in G
      <4>1. T \cap G = (U \cap G) \cup {x} /\ x \notin U \cap G
        BY <2>4, <3>1
      <4>2. Cardinality(T \cap G) = Cardinality(U \cap G) + 1
        BY <2>5, <4>1, FS_AddElement
      <4> HIDE DEF U
      <4> QED BY <2>8, <2>9, <4>2
    <3>2. CASE x \notin G
      <4>1. T \cap G = U \cap G /\ f[x] = 0
        BY <2>2, <2>4, <3>2
      <4> HIDE DEF U
      <4> QED BY <2>9, <4>1
    <3> QED BY <3>1, <3>2
  <2> HIDE DEF U
  <2> QED BY <2>2, <2>6, <2>8, <2>10, <2>9
<1>2. sum(A) <= Cardinality(A \cap G)
  BY <1>1 DEF FiniteSubsetsOf
<1>3. Cardinality(A \cap G) <= Cardinality(G) /\ Cardinality(A \cap G) \in Nat /\ Cardinality(G) \in Nat
  BY FS_Subset, FS_CardinalityType
<1>4. SumsWell(f, A)
  BY Summing
<1> QED BY <1>2, <1>3, <1>4 DEF SumsWell


-----------------------------------------------------------------------------
(* Clocks.                                                                  *)

\* Sessions lie within the opening hours, and those of a court do not overlap.
SessionsFit ==
  /\ \A s \in Sessions : EndOf(s) <= HoursPerDay
  /\ \A s, t \in Sessions :
       s.venue = t.venue /\ s.court = t.court /\ s.day = t.day /\ s.start = t.start => s = t

LEMMA DaysAndHours ==
  ASSUME NEW d \in Int, NEW h \in 0..HoursPerDay - 1
  PROVE  (d * HoursPerDay + h) % HoursPerDay = h /\ (d * HoursPerDay + h) \div HoursPerDay = d
BY ClockAssumption

\* An hour of a day, and midnight at its end.
LEMMA HourOfDay ==
  ASSUME NEW d \in Int, NEW h \in 0..HoursPerDay
  PROVE  (d * HoursPerDay + h) % HoursPerDay = h % HoursPerDay
<1>1. HoursPerDay \in Nat /\ HoursPerDay > 0 /\ d + 1 \in Int
  BY ClockAssumption
<1>2. CASE h \in 0..HoursPerDay - 1
  <2>1. (d * HoursPerDay + h) % HoursPerDay = h
    BY <1>2, DaysAndHours
  <2>2. h % HoursPerDay = h
    BY <1>1, <1>2
  <2> QED BY <2>1, <2>2
<1>3. CASE h = HoursPerDay
  <2>1. 0 \in 0..HoursPerDay - 1
    BY <1>1
  <2>2. ((d + 1) * HoursPerDay + 0) % HoursPerDay = 0
    BY <1>1, <2>1, DaysAndHours
  <2>3. d * HoursPerDay + h = (d + 1) * HoursPerDay + 0
    BY <1>1, <1>3
  <2>4. h % HoursPerDay = 0
    BY <1>1, <1>3
  <2> QED BY <2>2, <2>3, <2>4
<1> QED BY <1>1, <1>2, <1>3

\* The platforms that are asked for a day of UTC.
UtcDays == {"everyoneactive", "southwark", "playtomic"}

\* Whatever a provider publishes, the crawler ends up with the venue's clock; a
\* day of UTC is what a session is filed under.
LEMMA Clocks ==
  ASSUME PlatformOK, SessionsFit, NEW s \in Sessions
  PROVE  /\ LondonHour(Utc(s)) = s.start /\ LondonDate(Utc(s)) = s.day
         /\ LondonEnd(s) = EndHour(s) /\ LondonHour(Utc(s) + s.len) = EndHour(s)
         /\ Utc(s) \div HoursPerDay = IF s.start < summer THEN s.day - 1 ELSE s.day
         /\ MatchiHour(StockholmStamp(s)) = s.start
         /\ MatchiHour(StockholmStamp(s) + s.len) = EndHour(s)
<1>1. /\ s.day \in Nat /\ s.start \in 0..HoursPerDay - 1 /\ s.len \in 1..HoursPerDay
      /\ summer \in {0, 1} /\ HoursPerDay \in Nat /\ HoursPerDay > 1
  BY ClockAssumption DEF PlatformOK, SessionType
<1>2. s.start + s.len \in 0..HoursPerDay
  BY <1>1 DEF SessionsFit, EndOf
<1> DEFINE noon == s.day * HoursPerDay
<1>3. noon \in Nat
  BY <1>1
<1>4. /\ (noon + s.start) % HoursPerDay = s.start
      /\ (noon + s.start) \div HoursPerDay = s.day
      /\ (noon + (s.start + s.len)) % HoursPerDay = EndHour(s)
  <2>1. s.day \in Int
    BY <1>1
  <2>2. (noon + s.start) % HoursPerDay = s.start /\ (noon + s.start) \div HoursPerDay = s.day
    BY <1>1, <2>1, DaysAndHours
  <2>3. (noon + (s.start + s.len)) % HoursPerDay = (s.start + s.len) % HoursPerDay
    BY <1>2, <2>1, HourOfDay
  <2> QED BY <2>2, <2>3 DEF EndHour, EndOf
<1>5. (noon + (s.start - summer)) \div HoursPerDay = IF s.start < summer THEN s.day - 1 ELSE s.day
  <2>1. CASE s.start < summer
    <3>1. s.start - summer = -1 /\ s.day - 1 \in Int /\ HoursPerDay - 1 \in 0..HoursPerDay - 1
      BY <1>1, <2>1
    <3>2. ((s.day - 1) * HoursPerDay + (HoursPerDay - 1)) \div HoursPerDay = s.day - 1
      BY <3>1, DaysAndHours
    <3>3. noon + (s.start - summer) = (s.day - 1) * HoursPerDay + (HoursPerDay - 1)
      BY <1>1, <3>1
    <3> QED BY <2>1, <3>2, <3>3
  <2>2. CASE ~(s.start < summer)
    <3>1. s.start - summer \in 0..HoursPerDay - 1 /\ s.day \in Int
      BY <1>1, <2>2
    <3> QED BY <2>2, <3>1, DaysAndHours
  <2> QED BY <2>1, <2>2
<1> HIDE DEF noon
<1>6. /\ Utc(s) = noon + (s.start - summer) /\ Utc(s) + summer = noon + s.start
      /\ (Utc(s) + s.len) + summer = noon + (s.start + s.len)
      /\ (StockholmStamp(s) + 1) + summer = noon + s.start
      /\ ((StockholmStamp(s) + s.len) + 1) + summer = noon + (s.start + s.len)
  <2>1. Utc(s) = noon + s.start - summer /\ Utc(s) \in Int
    BY <1>1, <1>3 DEF Utc, noon
  <2>2. StockholmStamp(s) = Utc(s) - 1
    BY DEF StockholmStamp
  <2> QED BY <1>1, <1>3, <2>1, <2>2
<1> QED BY <1>4, <1>5, <1>6 DEF LondonHour, LondonDate, LondonEnd, MatchiHour

LEMMA Filed ==
  ASSUME PlatformOK, SessionsFit, NEW s \in Sessions
  PROVE  /\ This.api \in UtcDays => Utc(s) \div HoursPerDay = FiledUnder(s)
         /\ This.api \notin UtcDays => FiledUnder(s) = s.day
<1>1. Utc(s) \div HoursPerDay = IF s.start < summer THEN s.day - 1 ELSE s.day
  BY Clocks
<1> QED BY <1>1 DEF FiledUnder, UtcDays

\* A session's hours on the clock, and its length from them.
LEMMA HoursOf ==
  ASSUME PlatformOK, SessionsFit, NEW s \in Sessions
  PROVE  /\ s.start \in 0..HoursPerDay - 1 /\ EndHour(s) \in 0..HoursPerDay - 1
         /\ \A t \in Sessions : s.start = t.start /\ EndHour(s) = EndHour(t) => s.len = t.len
<1>1. HoursPerDay \in Nat /\ HoursPerDay > 1
  BY ClockAssumption
<1>2. \A t \in Sessions : /\ t.start \in 0..HoursPerDay - 1 /\ t.len \in 1..HoursPerDay
                          /\ EndOf(t) \in 1..HoursPerDay /\ EndOf(t) = t.start + t.len
  BY <1>1 DEF PlatformOK, SessionsFit, SessionType, EndOf
<1>3. \A n \in 1..HoursPerDay : n % HoursPerDay = IF n = HoursPerDay THEN 0 ELSE n
  BY <1>1
<1>4. \A t \in Sessions : EndHour(t) = IF EndOf(t) = HoursPerDay THEN 0 ELSE EndOf(t)
  BY <1>2, <1>3 DEF EndHour
<1>5. ASSUME NEW t \in Sessions, s.start = t.start, EndHour(s) = EndHour(t)
      PROVE  s.len = t.len
  <2>1. EndOf(s) = EndOf(t)
    BY <1>1, <1>2, <1>4, <1>5
  <2> QED BY <1>1, <1>2, <1>5, <2>1
<1> QED BY <1>1, <1>2, <1>4, <1>5

-----------------------------------------------------------------------------
(* What the requests ask for.                                               *)

\* The crawlers whose requests are for one date, and those that ask for the
\* sport's one activity by its id.
DayByDay   == {"better", "everyoneactive", "southwark", "mytime", "playtomic", "matchi"}
MainById   == {"everyoneactive", "southwark", "mytime", "playtomic", "matchi", "padelmates"}

RequestFits(api, r) ==
  /\ api # "places" => r.halls = Halls /\ r.start = Anytime
  /\ api # "courtreserve" => \E v \in Venues : r.venues = {v}
  /\ api \in DayByDay => \E d : r.dates = {d}
  /\ api \in MainById => r.activities \cap Activities \subseteq {"main"}

AsksWell(c) == \A reach \in DOMAIN c.requests : \A r \in c.requests[reach] : RequestFits(c.api, r)

LEMMA OneByOneFits ==
  ASSUME NEW v \in Venues, NEW d, NEW a
  PROVE  \A api : api \notin MainById \/ a \in {"main", "None"}
                    => RequestFits(api, RequestFor(v, d, a))
BY DEF RequestFits, RequestFor, Request, Activities

LEMMA WholeVenueFits ==
  ASSUME NEW api, api \notin DayByDay, NEW v \in Venues, NEW D, NEW A,
         api \notin MainById \/ A = {"main"}
  PROVE  RequestFits(api, Request({v}, D, A))
BY DEF RequestFits, Request, Activities


\* One lemma for each way to make up the requests.
LEMMA BetterAsks ==
  \A c \in {BetterBadminton, BetterSquash, BetterPickleball, BetterTennis, ActiveLambethBadminton,
            ActiveLambethSquash, HaringeyBadminton, VisionRclBadminton, VisionRclSquash} :
    AsksWell(c)
<1>1. ASSUME NEW sport PROVE AsksWell(BetterCrawler(sport))
  <2>1. BetterCrawler(sport).api = "better"
    BY DEF BetterCrawler, Crawler
  <2>2. \A reach \in DOMAIN BetterCrawler(sport).requests : \A r \in BetterCrawler(sport).requests[reach] :
          \E v \in Venues : \E d, a : r = RequestFor(v, d, a)
    BY DEF BetterCrawler, Crawler, PerActivity
  <2> QED BY <2>1, <2>2, OneByOneFits DEF AsksWell, MainById
<1>2. ASSUME NEW sport, NEW deltas, NEW slugs PROVE AsksWell(FlowCrawler(sport, deltas, slugs))
  <2> DEFINE c == FlowCrawler(sport, deltas, slugs)
  <2>1. c.api = "better"
    BY DEF FlowCrawler, Crawler
  <2>2. \A reach \in DOMAIN c.requests : \A r \in c.requests[reach] :
          \E v \in Venues : \E d, a : r = RequestFor(v, d, a)
    BY DEF FlowCrawler, Crawler, PerActivity
  <2> QED BY <2>1, <2>2, OneByOneFits DEF AsksWell, MainById
<1>3. AsksWell(VisionRclBadminton)
  <2>1. VisionRclBadminton.api = "better"
    BY DEF VisionRclBadminton, Crawler
  <2>2. \A reach \in DOMAIN VisionRclBadminton.requests : \A r \in VisionRclBadminton.requests[reach] :
          \E v \in Venues : \E d, a : r = RequestFor(v, d, a)
    BY DEF VisionRclBadminton, VisionRclRequests, Crawler, PerActivity
  <2> QED BY <2>1, <2>2, OneByOneFits DEF AsksWell, MainById
<1>4. AsksWell(VisionRclSquash)
  <2>1. VisionRclSquash.api = "better"
    BY DEF VisionRclSquash, Crawler
  <2>2. \A reach \in DOMAIN VisionRclSquash.requests : \A r \in VisionRclSquash.requests[reach] :
          \E v \in Venues : \E d, a : r = RequestFor(v, d, a)
    BY DEF VisionRclSquash, VisionRclRequests, Crawler, PerActivity
  <2> QED BY <2>1, <2>2, OneByOneFits DEF AsksWell, MainById
<1> QED BY <1>1, <1>2, <1>3, <1>4
        DEF BetterBadminton, BetterSquash, BetterPickleball, BetterTennis, ActiveLambethBadminton,
            ActiveLambethSquash, HaringeyBadminton

LEMMA MainByIdAsks ==
  \A c \in {EveryoneActiveBadminton, EveryoneActiveSquash, SouthwarkBadminton, SouthwarkPickleball,
            MytimeBadminton, MytimeSquash, PlaytomicPadel, PlaytomicTennis, PlaytomicPickleball,
            MatchiPadel, MatchiTennis, PadelMatesPadel} :
    AsksWell(c)
<1> DEFINE Fits(c) == \A reach \in DOMAIN c.requests : \A r \in c.requests[reach] :
                        \E v \in Venues : \E d, a : r = RequestFor(v, d, a) /\ a \in {"main", "None"}
<1>1. \A c : Fits(c) => AsksWell(c)
  BY OneByOneFits DEF AsksWell
<1>2. Fits(EveryoneActiveBadminton)
  BY DEF EveryoneActiveBadminton, Crawler, PerActivity
<1>3. Fits(EveryoneActiveSquash)
  BY DEF EveryoneActiveSquash, Crawler, PerActivity, Mapped
<1>4. Fits(SouthwarkBadminton) /\ Fits(SouthwarkPickleball)
  <2>1. \A sport : Fits(SouthwarkCrawler(sport))
    BY DEF SouthwarkCrawler, Crawler, PerActivity
  <2> QED BY <2>1 DEF SouthwarkBadminton, SouthwarkPickleball
<1>5. Fits(MytimeBadminton)
  BY DEF MytimeBadminton, MytimeRequests, Crawler, PerActivity, Mapped
<1>6. Fits(MytimeSquash)
  BY DEF MytimeSquash, MytimeRequests, Crawler, PerActivity, Mapped
<1>7. Fits(PlaytomicPadel) /\ Fits(PlaytomicTennis) /\ Fits(PlaytomicPickleball)
  <2>1. \A sport : Fits(PlaytomicCrawler(sport))
    BY DEF PlaytomicCrawler, Crawler, PerActivity, Mapped
  <2> QED BY <2>1 DEF PlaytomicPadel, PlaytomicTennis, PlaytomicPickleball
<1>8. Fits(MatchiPadel)
  BY DEF MatchiPadel, MatchiRequests, Crawler, PerActivity, Mapped
<1>9. Fits(MatchiTennis)
  BY DEF MatchiTennis, MatchiRequests, Crawler, PerActivity, Mapped
<1>10. Fits(PadelMatesPadel)
  BY DEF PadelMatesPadel, Crawler, PerActivity, Mapped
<1> HIDE DEF Fits
<1> QED BY <1>1, <1>2, <1>3, <1>4, <1>5, <1>6, <1>7, <1>8, <1>9, <1>10

LEMMA OtherAsks ==
  \A c \in {TowerHamletsBadminton, PlacesBadminton, PlacesPickleball, CitySportsBadminton,
            UelBadminton, DecathlonPickleball, CourtReservePickleball, StratfordPadel,
            ClubSparkTennis} :
    AsksWell(c)
<1>1. AsksWell(TowerHamletsBadminton)
  <2>1. TowerHamletsBadminton.api = "towerhamlets"
    BY DEF TowerHamletsBadminton, Crawler
  <2>2. \A reach \in DOMAIN TowerHamletsBadminton.requests : \A r \in TowerHamletsBadminton.requests[reach] :
          \E v \in Venues : \E d, a : r = RequestFor(v, d, a)
    BY DEF TowerHamletsBadminton, TowerHamletsRequests, Crawler, PerActivity, Mapped
  <2> QED BY <2>1, <2>2, OneByOneFits DEF AsksWell, MainById
<1>2. AsksWell(PlacesBadminton) /\ AsksWell(PlacesPickleball)
  <2> SUFFICES ASSUME NEW sport PROVE AsksWell(PlacesCrawler(sport))
    BY DEF PlacesBadminton, PlacesPickleball
  <2>1. PlacesCrawler(sport).api = "places"
    BY DEF PlacesCrawler, Crawler
  <2>2. \A reach \in DOMAIN PlacesCrawler(sport).requests : \A r \in PlacesCrawler(sport).requests[reach] :
          \E v \in Venues : \E D : r = Request({v}, D, {"main", "second"})
    BY DEF PlacesCrawler, Crawler, Mapped
  <2>3. \A v \in Venues : \A D : RequestFits("places", Request({v}, D, {"main", "second"}))
    BY WholeVenueFits DEF DayByDay, MainById
  <2>4. ASSUME NEW reach \in DOMAIN PlacesCrawler(sport).requests, NEW r \in PlacesCrawler(sport).requests[reach]
        PROVE  RequestFits("places", r)
    <3>1. PICK v \in Venues : \E D : r = Request({v}, D, {"main", "second"})
      BY <2>2
    <3> QED BY <2>3, <3>1
  <2> QED BY <2>1, <2>4 DEF AsksWell
<1>3. AsksWell(CitySportsBadminton)
  <2>1. CitySportsBadminton.api = "citysports"
    BY DEF CitySportsBadminton, Crawler
  <2>2. \A reach \in DOMAIN CitySportsBadminton.requests : \A r \in CitySportsBadminton.requests[reach] :
          \E v \in Venues : \E d : r = WholeDay(v, d)
    BY DEF CitySportsBadminton, Crawler, PerVenueAndDate
  <2>3. \A v \in Venues : \A d : RequestFits("citysports", WholeDay(v, d))
    BY WholeVenueFits DEF WholeDay, DayByDay, MainById
  <2> QED BY <2>1, <2>2, <2>3 DEF AsksWell
<1>4. AsksWell(UelBadminton)
  <2>1. UelBadminton.api = "uel"
    BY DEF UelBadminton, Crawler
  <2>2. \A reach \in DOMAIN UelBadminton.requests : \A r \in UelBadminton.requests[reach] :
          \E v \in Venues : \E d : r = WholeDay(v, d)
    BY DEF UelBadminton, Crawler, PerVenueAndDate
  <2>3. \A v \in Venues : \A d : RequestFits("uel", WholeDay(v, d))
    BY WholeVenueFits DEF WholeDay, DayByDay, MainById
  <2> QED BY <2>1, <2>2, <2>3 DEF AsksWell
<1>5. AsksWell(DecathlonPickleball)
  <2>1. DecathlonPickleball.api = "decathlon"
    BY DEF DecathlonPickleball, Crawler
  <2>2. \A reach \in DOMAIN DecathlonPickleball.requests : \A r \in DecathlonPickleball.requests[reach] :
          \E v \in Venues : \E d, a : r = RequestFor(v, d, a)
    BY DEF DecathlonPickleball, Crawler, PerActivity
  <2> QED BY <2>1, <2>2, OneByOneFits DEF AsksWell, MainById
<1>6. AsksWell(CourtReservePickleball)
  <2>1. CourtReservePickleball.api = "courtreserve"
    BY DEF CourtReservePickleball, Crawler
  <2>2. \A reach \in DOMAIN CourtReservePickleball.requests : \A r \in CourtReservePickleball.requests[reach] :
          \E V, D, A : r = Request(V, D, A)
    BY DEF CourtReservePickleball, Crawler
  <2> QED BY <2>1, <2>2 DEF AsksWell, RequestFits, Request, DayByDay, MainById
<1>7. AsksWell(StratfordPadel)
  <2>1. StratfordPadel.api = "stratford"
    BY DEF StratfordPadel, Crawler
  <2>2. \A reach \in DOMAIN StratfordPadel.requests : \A r \in StratfordPadel.requests[reach] :
          \E v \in Venues : \E d : r = WholeDay(v, d)
    BY DEF StratfordPadel, Crawler, PerVenueAndDate
  <2>3. \A v \in Venues : \A d : RequestFits("stratford", WholeDay(v, d))
    BY WholeVenueFits DEF WholeDay, DayByDay, MainById
  <2> QED BY <2>1, <2>2, <2>3 DEF AsksWell
<1>8. AsksWell(ClubSparkTennis)
  <2>1. ClubSparkTennis.api = "clubspark"
    BY DEF ClubSparkTennis, Crawler
  <2>2. \A reach \in DOMAIN ClubSparkTennis.requests : \A r \in ClubSparkTennis.requests[reach] :
          \E v \in Venues : \E D, A : r = Request({v}, D, A)
    BY DEF ClubSparkTennis, Crawler
  <2>3. \A v \in Venues : \A D, A : RequestFits("clubspark", Request({v}, D, A))
    BY WholeVenueFits DEF DayByDay, MainById
  <2>4. ASSUME NEW reach \in DOMAIN ClubSparkTennis.requests, NEW r \in ClubSparkTennis.requests[reach]
        PROVE  RequestFits("clubspark", r)
    <3>1. PICK v \in Venues : \E D, A : r = Request({v}, D, A)
      BY <2>2
    <3> QED BY <2>3, <3>1
  <2> QED BY <2>1, <2>4 DEF AsksWell
<1> QED BY <1>1, <1>2, <1>3, <1>4, <1>5, <1>6, <1>7, <1>8

LEMMA RequestFacts ==
  ASSUME crawler \in Crawlers
  PROVE  AsksWell(This)
<1> DEFINE Better == {BetterBadminton, BetterSquash, BetterPickleball, BetterTennis,
                      ActiveLambethBadminton, ActiveLambethSquash, HaringeyBadminton,
                      VisionRclBadminton, VisionRclSquash}
           ById   == {EveryoneActiveBadminton, EveryoneActiveSquash, SouthwarkBadminton,
                      SouthwarkPickleball, MytimeBadminton, MytimeSquash, PlaytomicPadel,
                      PlaytomicTennis, PlaytomicPickleball, MatchiPadel, MatchiTennis,
                      PadelMatesPadel}
           Others == {TowerHamletsBadminton, PlacesBadminton, PlacesPickleball,
                      CitySportsBadminton, UelBadminton, DecathlonPickleball,
                      CourtReservePickleball, StratfordPadel, ClubSparkTennis}
<1>1. \A name \in DOMAIN CrawlerNamed : CrawlerNamed[name] \in (Better \cup ById) \cup Others
  BY DEF CrawlerNamed
<1>2. This \in (Better \cup ById) \cup Others
  BY <1>1, CrawlersAssumption DEF This
<1>3. /\ \A c \in Better : AsksWell(c)
      /\ \A c \in ById : AsksWell(c)
      /\ \A c \in Others : AsksWell(c)
  BY BetterAsks, MainByIdAsks, OtherAsks
<1> HIDE DEF Better, ById, Others
<1> QED BY <1>2, <1>3

\* What the providers sell to the crawlers that ask for one activity by its id.
LEMMA SoldById ==
  ASSUME crawler \in Crawlers, This.api \in MainById
  PROVE  \A venue : SoldAs(venue) = {"main"}
<1>1. /\ BetterBadminton.api = "better" /\ BetterSquash.api = "better"
      /\ BetterPickleball.api = "better" /\ BetterTennis.api = "better"
      /\ ActiveLambethBadminton.api = "better" /\ VisionRclSquash.api = "better"
  BY BetterFamily
<1>2. /\ TowerHamletsBadminton.api = "towerhamlets" /\ DecathlonPickleball.api = "decathlon"
      /\ StratfordPadel.api = "stratford" /\ CourtReservePickleball.api = "courtreserve"
      /\ PlacesBadminton.api = "places" /\ PlacesPickleball.api = "places"
  BY DEF TowerHamletsBadminton, DecathlonPickleball, StratfordPadel, CourtReservePickleball,
         PlacesBadminton, PlacesPickleball, PlacesCrawler, Crawler
<1> DEFINE Elsewhere == {"betterBadminton", "betterSquash", "betterPickleball", "betterTennis",
                         "lambethBadminton", "visionSquash", "towerhamlets", "decathlon",
                         "stratford", "courtreserve", "placesBadminton", "placesPickleball"}
<1>3. \A name \in Elsewhere : CrawlerNamed[name].api \in {"better", "towerhamlets", "decathlon",
                                                          "stratford", "courtreserve", "places"}
  BY <1>1, <1>2 DEF CrawlerNamed
<1>4. crawler \notin Elsewhere
  BY <1>3 DEF This, MainById
<1> QED BY <1>4 DEF SoldAs


-----------------------------------------------------------------------------
(* A listing counts what its sessions have.                                 *)

CountsCourts == {"towerhamlets", "places", "playtomic", "matchi", "padelmates", "clubspark"}

LeastOK ==
  /\ least \in [Sessions -> Nat]
  /\ \A s \in Sessions : least[s] <= places[s]

Counted(l) ==
  l.of # {} => l.spaces \in Nat /\ SumFunctionOnSet(SpacesAt(least), About(l)) <= l.spaces

LEMMA MinOfTwo ==
  ASSUME NEW m \in Nat, NEW n \in Nat
  PROVE  Min({m, n}) = IF m <= n THEN m ELSE n
<1>1. CASE m <= n
  <2>1. \A x \in {m, n} : (\A y \in {m, n} : x <= y) <=> x = m
    BY <1>1
  <2> QED BY <1>1, <2>1 DEF Min
<1>2. CASE ~(m <= n)
  <2>1. \A x \in {m, n} : (\A y \in {m, n} : x <= y) <=> x = n
    BY <1>2
  <2> QED BY <1>2, <2>1 DEF Min
<1> QED BY <1>1, <1>2

LEMMA SpacesFacts ==
  ASSUME NEW n \in Nat
  PROVE  /\ This.api \notin CountsCourts => Spaces(n) = n
         /\ This.api \in CountsCourts => Spaces(n) = IF n = 0 THEN 0 ELSE 1
<1>1. This.api \notin CountsCourts => Spaces(n) = n
  BY DEF Spaces, CountsCourts
<1>2. Min({n, 1}) = IF n = 0 THEN 0 ELSE 1
  BY MinOfTwo
<1> QED BY <1>1, <1>2 DEF Spaces, CountsCourts

LEMMA PlacesAdded ==
  ASSUME PlatformOK, LeastOK, This.api \notin CountsCourts,
         NEW l, NEW G \in SUBSET Sessions, About(l) \subseteq G, l.spaces = PlacesIn(G)
  PROVE  Counted(l)
<1>1. IsFiniteSet(G) /\ \A s \in G : places[s] \in Nat
  BY FS_Subset DEF PlatformOK
<1>2. l.spaces \in Nat
  BY <1>1, Summing DEF PlacesIn, SumsWell
<1>3. \A s \in Sessions : SpacesAt(least)[s] = least[s]
  BY SpacesFacts DEF SpacesAt, LeastOK
<1>4. SumFunctionOnSet(SpacesAt(least), About(l)) <= SumFunctionOnSet(places, G)
  <2>1. \A s \in About(l) : SpacesAt(least)[s] \in Nat /\ SpacesAt(least)[s] <= places[s]
    BY <1>3 DEF LeastOK
  <2> QED BY <1>1, <2>1, SumMonotone
<1> QED BY <1>2, <1>4 DEF Counted, PlacesIn

LEMMA CourtsAdded ==
  ASSUME PlatformOK, LeastOK, This.api \in CountsCourts,
         NEW l, NEW G \in SUBSET Sessions, \A s \in About(l) : places[s] > 0 => s \in G,
         l.spaces = Cardinality(G)
  PROVE  Counted(l)
<1>1. IsFiniteSet(G) /\ IsFiniteSet(About(l)) /\ About(l) \subseteq Sessions
  BY FS_Subset DEF PlatformOK, About, OnSale
<1>2. l.spaces \in Nat
  BY <1>1, FS_CardinalityType
<1>3. \A s \in About(l) : SpacesAt(least)[s] \in {0, 1} /\ (SpacesAt(least)[s] = 1 => s \in G)
  <2> TAKE s \in About(l)
  <2>1. SpacesAt(least)[s] = IF least[s] = 0 THEN 0 ELSE 1
    BY <1>1, SpacesFacts DEF SpacesAt, LeastOK
  <2>2. least[s] # 0 => places[s] > 0
    BY <1>1 DEF LeastOK, PlatformOK
  <2> QED BY <2>1, <2>2
<1>4. SumFunctionOnSet(SpacesAt(least), About(l)) <= Cardinality(G)
  BY <1>1, <1>3, SumOfOnes
<1> QED BY <1>2, <1>4 DEF Counted

\* A slot of its own is about its session.
LEMMA OwnSlot ==
  ASSUME PlatformOK, SessionsFit, This.api \notin UtcDays, NEW s \in Sessions, NEW l,
         l.venue = s.venue, l.date = s.day, l.start = s.start, l.of = Only(s)
  PROVE  About(l) \subseteq {s}
<1>1. \A t \in Sessions : FiledUnder(t) = t.day
  BY Filed
<1> QED BY <1>1 DEF About, OnSale, Only, SessionsFit

LEMMA PlacesOfOne ==
  ASSUME PlatformOK, NEW s \in Sessions
  PROVE  PlacesIn({s}) = places[s]
<1>1. SumsWell(places, {s})
  <2>1. IsFiniteSet({s})
    BY FS_Singleton
  <2>2. places[s] \in Nat
    BY DEF PlatformOK
  <2> QED BY <2>1, <2>2, Summing
<1>2. {s} \ {s} = {} /\ places[s] \in Nat
  BY DEF PlatformOK
<1> QED BY <1>1, <1>2, SumOfNone DEF SumsWell, PlacesIn

\* Each parser in turn.  A request is for one venue, except CourtReserve's.
LEMMA OwnSlotsCounted ==
  ASSUME PlatformOK, SessionsFit, LeastOK, This.api \notin CountsCourts,
         This.api \notin UtcDays,
         NEW s \in Sessions, NEW l, l.venue = s.venue, l.date = s.day, l.start = s.start,
         l.of = Only(s), l.spaces = places[s]
  PROVE  Counted(l)
<1>1. About(l) \subseteq {s} /\ {s} \in SUBSET Sessions
  BY OwnSlot
<1> QED BY <1>1, PlacesOfOne, PlacesAdded


\* Each parser in turn, on the answer to a request it sends.
CountingOK ==
  PlatformOK /\ SessionsFit /\ LeastOK /\ crawler \in Crawlers

LEMMA VenueAndDate ==
  ASSUME NEW r, RequestFits(This.api, r), This.api # "courtreserve"
  PROVE  /\ r.venues = {VenueOf(r)}
         /\ This.api \in DayByDay => r.dates = {DateOf(r)}
BY DEF RequestFits, VenueOf, DateOf

LEMMA BetterCounts ==
  ASSUME CountingOK, This.api = "better", NEW r, RequestFits("better", r),
         NEW S, S = Answer("better", r)
  PROVE  /\ \A l \in BetterParse(This, r, S) : Counted(l)
         /\ \A l \in BetterBlanks(This, r) : Counted(l)
<1>1. \A l \in BetterBlanks(This, r) : Counted(l)
  BY DEF BetterBlanks, Listing, Counted
<1>2. ASSUME NEW s \in S
      PROVE  Counted(Listing(VenueOf(r), DateOf(r), s.start, EndHour(s), places[s],
                             PriceOf(This, s), Only(s)))
  <2>1. s \in Sessions /\ s.venue \in r.venues /\ s.day \in r.dates
    BY DEF Answer, Asked
  <2>2. s.venue = VenueOf(r) /\ s.day = DateOf(r)
    BY <2>1, VenueAndDate DEF DayByDay
  <2> QED BY <2>1, <2>2, OwnSlotsCounted DEF CountingOK, CountsCourts, UtcDays, Listing
<1> QED BY <1>1, <1>2 DEF BetterParse

LEMMA OneSiteCounts ==
  ASSUME CountingOK, This.api \in {"citysports", "uel"}, NEW r, RequestFits(This.api, r),
         NEW S, S = Answer(This.api, r)
  PROVE  /\ \A l \in CitySportsParse(This, r, S) : Counted(l)
         /\ \A l \in UelParse(This, r, S) : Counted(l)
<1>1. ASSUME NEW s \in S
      PROVE  Counted(Listing(VenueOf(r), s.day, s.start, EndHour(s), places[s],
                             PriceOf(This, s), Only(s)))
  <2>1. s \in Sessions /\ s.venue \in r.venues
    BY DEF Answer, Asked
  <2>2. s.venue = VenueOf(r)
    BY <2>1, VenueAndDate
  <2> QED BY <2>1, <2>2, OwnSlotsCounted DEF CountingOK, CountsCourts, UtcDays, Listing
<1> QED BY <1>1 DEF CitySportsParse, UelParse

LEMMA DecathlonCounts ==
  ASSUME CountingOK, This.api = "decathlon", NEW r, RequestFits("decathlon", r),
         NEW S, S = Answer("decathlon", r)
  PROVE  \A l \in DecathlonParse(This, r, S) : Counted(l)
<1>1. ASSUME NEW s \in S
      PROVE  Counted(Listing(VenueOf(r), LondonDate(Utc(s)), LondonHour(Utc(s)), LondonEnd(s),
                             places[s], PriceOf(This, s), Only(s)))
  <2>1. s \in Sessions /\ s.venue \in r.venues
    BY DEF Answer, Asked
  <2>2. s.venue = VenueOf(r) /\ LondonDate(Utc(s)) = s.day /\ LondonHour(Utc(s)) = s.start
    BY <2>1, VenueAndDate, Clocks DEF CountingOK
  <2> QED BY <2>1, <2>2, OwnSlotsCounted DEF CountingOK, CountsCourts, UtcDays, Listing
<1> QED BY <1>1 DEF DecathlonParse

\* The first known name in a title is that of the session's venue.
LEMMA TitleNamesVenue ==
  ASSUME PlatformOK, NEW s \in Sessions, NamesIn(s) # {}
  PROVE  VenueInTitle(s) = s.venue
<1>1. s.venue \in Venues /\ s.activity # "other"
  BY DEF PlatformOK, SessionType, NamesIn
<1>2. PICK i \in DOMAIN VenueKeys :
        /\ VenueKeys[i] = s.venue /\ s.venue \in NamesWithin[s.venue]
        /\ \A j \in DOMAIN VenueKeys : VenueKeys[j] \in NamesWithin[s.venue] => i <= j
  BY <1>1, NamesAssumption
<1>3. i \in NamesIn(s) /\ NamesIn(s) \subseteq Nat /\ \A j \in NamesIn(s) : i <= j
  BY <1>1, <1>2, NamesAssumption DEF NamesIn
<1>4. Min(NamesIn(s)) = i
  BY <1>3 DEF Min
<1> QED BY <1>2, <1>4 DEF VenueInTitle

LEMMA CourtReserveCounts ==
  ASSUME CountingOK, This.api = "courtreserve", NEW r, NEW S, S = Answer("courtreserve", r)
  PROVE  \A l \in CourtReserveParse(This, r, S) : Counted(l)
<1>1. ASSUME NEW s \in S, NamesIn(s) # {}
      PROVE  Counted(Listing(VenueInTitle(s), LondonDate(Utc(s)), LondonHour(Utc(s)), LondonEnd(s),
                             places[s], PriceOf(This, s), Only(s)))
  <2>1. s \in Sessions
    BY DEF Answer, Asked
  <2>2. VenueInTitle(s) = s.venue /\ LondonDate(Utc(s)) = s.day /\ LondonHour(Utc(s)) = s.start
    BY <1>1, <2>1, TitleNamesVenue, Clocks DEF CountingOK
  <2> QED BY <2>1, <2>2, OwnSlotsCounted DEF CountingOK, CountsCourts, UtcDays, Listing
<1> QED BY <1>1 DEF CourtReserveParse

LEMMA ClubSparkCounts ==
  ASSUME CountingOK, This.api = "clubspark", NEW r, RequestFits("clubspark", r),
         NEW S, S = Answer("clubspark", r)
  PROVE  \A l \in ClubSparkParse(This, r, S) : Counted(l)
<1>1. ASSUME NEW s \in S
      PROVE  Counted(Listing(VenueOf(r), s.day, s.start, EndHour(s), 1, PriceOf(This, s), Only(s)))
  <2> DEFINE l == Listing(VenueOf(r), s.day, s.start, EndHour(s), 1, PriceOf(This, s), Only(s))
  <2>1. s \in Sessions /\ s.venue \in r.venues
    BY DEF Answer, Asked
  <2>2. s.venue = VenueOf(r)
    BY <2>1, VenueAndDate
  <2>3. l.venue = s.venue /\ l.date = s.day /\ l.start = s.start /\ l.of = Only(s) /\ l.spaces = 1
    BY <2>2 DEF Listing
  <2> HIDE DEF l
  <2>4. About(l) \subseteq {s}
    BY <2>1, <2>3, OwnSlot DEF CountingOK, UtcDays
  <2>5. Cardinality({s}) = 1 /\ {s} \in SUBSET Sessions
    BY <2>1, FS_Singleton
  <2>6. This.api \in CountsCourts
    BY DEF CountsCourts
  <2>7. Counted(l)
    BY <2>3, <2>4, <2>5, <2>6, CourtsAdded DEF CountingOK
  <2> QED BY <2>7 DEF l
<1> QED BY <1>1 DEF ClubSparkParse


\* Two sessions of the same day and hour, and of the same length.
LEMMA SameTime ==
  ASSUME PlatformOK, SessionsFit, NEW a \in Sessions, NEW t \in Sessions,
         t.day = a.day, t.start = a.start
  PROVE  /\ Utc(t) = Utc(a) /\ StockholmStamp(t) = StockholmStamp(a)
         /\ EndHour(t) = EndHour(a) => t.len = a.len
BY HoursOf DEF Utc, StockholmStamp

LEMMA FiledAlike ==
  ASSUME PlatformOK, NEW a \in Sessions, NEW t \in Sessions,
         FiledUnder(t) = FiledUnder(a), t.start = a.start
  PROVE  t.day = a.day
<1>1. a.day \in Nat /\ t.day \in Nat
  BY DEF PlatformOK, SessionType
<1> QED BY <1>1 DEF FiledUnder

\* What is sold at the venue of a session in the answer was asked for too.
LEMMA AskedAlike ==
  ASSUME CountingOK, This.api \in MainById, NEW r, RequestFits(This.api, r),
         NEW a \in Asked(r), NEW t \in OnSale, t.venue \in r.venues
  PROVE  t \in Asked(r)
<1>1. a.activity \in Activities
  BY DEF Asked, CountingOK, PlatformOK, SessionType
<1>2. "main" \in r.activities
  BY <1>1 DEF Asked, RequestFits
<1>3. t.activity = "main" /\ t \in Sessions
  BY SoldById DEF CountingOK, OnSale
<1>4. /\ r.halls = Halls /\ r.start = Anytime /\ Hall(t.court) \in Halls
  BY <1>3, SessionFacts DEF RequestFits, MainById, CountingOK
<1> QED BY <1>2, <1>3, <1>4 DEF Asked

LEMMA SouthwarkCounts ==
  ASSUME CountingOK, This.api = "southwark", NEW r, RequestFits("southwark", r),
         NEW S, S = Answer("southwark", r)
  PROVE  \A l \in SouthwarkParse(This, r, S) : Counted(l)
<1> TAKE l \in SouthwarkParse(This, r, S)
<1>1. PICK k \in {SouthwarkTiming(s) : s \in S} :
        LET G == {s \in S : SouthwarkTiming(s) = k}
            a == AnyOf(G)
        IN  l = Listing(VenueOf(r), DateOf(r), SouthwarkTiming(a)[2], SouthwarkTiming(a)[3],
                        PlacesIn(G), PriceOf(This, a), Anything)
  BY Zenon DEF SouthwarkParse, Grouped
<1> DEFINE G == {s \in S : SouthwarkTiming(s) = k}
           a == AnyOf(G)
<1>2. a \in G
  BY DEF AnyOf
<1>3. \A s \in S : s \in Asked(r) /\ s \in Sessions /\ Utc(s) \div HoursPerDay \in r.dates
  BY DEF Answer, Asked
<1>4. \A s \in Sessions : SouthwarkTiming(s) = <<s.day, s.start, EndHour(s)>> /\ Utc(s) \div HoursPerDay = FiledUnder(s)
  BY Clocks, Filed DEF SouthwarkTiming, CountingOK, UtcDays
<1>5. r.venues = {VenueOf(r)} /\ r.dates = {DateOf(r)}
  BY VenueAndDate DEF DayByDay
<1> HIDE DEF a
<1>6. a \in Sessions /\ a \in Asked(r) /\ FiledUnder(a) = DateOf(r) /\ k = <<a.day, a.start, EndHour(a)>>
  BY <1>2, <1>3, <1>4, <1>5
<1>7. /\ l.venue = VenueOf(r) /\ l.date = FiledUnder(a) /\ l.start = a.start /\ l.end = EndHour(a)
      /\ l.spaces = PlacesIn(G)
  BY <1>1, <1>4, <1>6 DEF Listing, a
<1>8. About(l) \subseteq G
  <2> SUFFICES ASSUME NEW t \in About(l) PROVE t \in G
    OBVIOUS
  <2>1. /\ t \in OnSale /\ t \in Sessions /\ t.venue = VenueOf(r) /\ FiledUnder(t) = FiledUnder(a)
        /\ t.start = a.start /\ EndHour(t) = EndHour(a)
    BY <1>7 DEF About, OnSale
  <2>2. t \in Asked(r)
    BY <1>5, <1>6, <2>1, AskedAlike DEF MainById
  <2>3. t \in S
    BY <1>4, <1>5, <1>6, <2>1, <2>2 DEF Answer
  <2>4. t.day = a.day
    BY <1>6, <2>1, FiledAlike DEF CountingOK
  <2> QED BY <1>4, <1>6, <2>1, <2>3, <2>4
<1> QED BY <1>3, <1>7, <1>8, PlacesAdded DEF CountingOK, CountsCourts


LEMMA EveryoneActiveCounts ==
  ASSUME CountingOK, This.api = "everyoneactive", NEW r, RequestFits("everyoneactive", r),
         NEW S, S = Answer("everyoneactive", r)
  PROVE  \A l \in EveryoneActiveParse(This, r, S) : Counted(l)
<1> TAKE l \in EveryoneActiveParse(This, r, S)
<1>1. PICK slot \in AggregateCourts(S) :
        l = Listing(VenueOf(r), DateOf(r), slot[1][2], slot[1][3], slot[2],
                    PriceOf(This, AnyOf(S)), Anything)
  BY DEF EveryoneActiveParse
<1>2. PICK k \in {Timing(s) : s \in S} :
        slot = <<Timing(AnyOf({s \in S : Timing(s) = k})), PlacesIn({s \in S : Timing(s) = k})>>
  BY Zenon DEF AggregateCourts, Grouped
<1> DEFINE G == {s \in S : Timing(s) = k}
           a == AnyOf(G)
<1>3. a \in G
  BY DEF AnyOf
<1>4. \A s \in S : s \in Asked(r) /\ s \in Sessions /\ Utc(s) \div HoursPerDay \in r.dates
  BY DEF Answer, Asked
<1>5. \A s \in Sessions : Timing(s) = <<s.day, s.start, EndHour(s)>> /\ Utc(s) \div HoursPerDay = FiledUnder(s)
  BY Clocks, Filed DEF Timing, CountingOK, UtcDays
<1>6. r.venues = {VenueOf(r)} /\ r.dates = {DateOf(r)}
  BY VenueAndDate DEF DayByDay
<1> HIDE DEF a
<1>7. a \in Sessions /\ a \in Asked(r) /\ FiledUnder(a) = DateOf(r) /\ k = <<a.day, a.start, EndHour(a)>>
  BY <1>3, <1>4, <1>5, <1>6
<1>8. slot[1] = <<a.day, a.start, EndHour(a)>> /\ slot[2] = PlacesIn(G)
  BY <1>2, <1>5, <1>7 DEF a
<1>9. /\ l.venue = VenueOf(r) /\ l.date = FiledUnder(a) /\ l.start = a.start /\ l.end = EndHour(a)
      /\ l.spaces = PlacesIn(G)
  BY <1>1, <1>7, <1>8 DEF Listing
<1>10. About(l) \subseteq G
  <2> SUFFICES ASSUME NEW t \in About(l) PROVE t \in G
    OBVIOUS
  <2>1. /\ t \in OnSale /\ t \in Sessions /\ t.venue = VenueOf(r) /\ FiledUnder(t) = FiledUnder(a)
        /\ t.start = a.start /\ EndHour(t) = EndHour(a)
    BY <1>9 DEF About, OnSale
  <2>2. t \in Asked(r)
    BY <1>6, <1>7, <2>1, AskedAlike DEF MainById
  <2>3. t \in S
    BY <1>5, <1>6, <1>7, <2>1, <2>2 DEF Answer
  <2>4. t.day = a.day
    BY <1>7, <2>1, FiledAlike DEF CountingOK
  <2> QED BY <1>5, <1>7, <2>1, <2>3, <2>4
<1> QED BY <1>4, <1>9, <1>10, PlacesAdded DEF CountingOK, CountsCourts

LEMMA MytimeCounts ==
  ASSUME CountingOK, This.api = "mytime", NEW r, RequestFits("mytime", r),
         NEW S, S = Answer("mytime", r)
  PROVE  \A l \in MytimeParse(This, r, S) : Counted(l)
<1> TAKE l \in MytimeParse(This, r, S)
<1> DEFINE B == {s \in S : s.day \in r.dates /\ s.venue \in r.venues /\ ~s.blocked}
<1>1. PICK k \in {MytimeKey(s) : s \in B} :
        LET G == {s \in B : MytimeKey(s) = k}
            q == MytimeKey(AnyOf(G))
        IN  l = Listing(VenueOf(r), DateOf(r), q[1], q[2], PlacesIn(G), PriceOf(This, AnyOf(G)), Anything)
  BY Zenon DEF MytimeParse, Grouped
<1> DEFINE G == {s \in B : MytimeKey(s) = k}
           a == AnyOf(G)
<1>2. a \in G
  BY DEF AnyOf
<1>3. \A s \in S : s \in Asked(r) /\ s \in Sessions
  BY DEF Answer, Asked
<1>4. \A s \in Sessions : MytimeKey(s) = <<s.start, EndHour(s)>> /\ s.day \in Nat
  BY Clocks DEF MytimeKey, CountingOK, PlatformOK, SessionType
<1>5. r.venues = {VenueOf(r)} /\ r.dates = {DateOf(r)}
  BY VenueAndDate DEF DayByDay
<1> HIDE DEF a
<1>6. a \in Sessions /\ a \in Asked(r) /\ a.day = DateOf(r) /\ k = <<a.start, EndHour(a)>>
  BY <1>2, <1>3, <1>4, <1>5
<1>7. /\ l.venue = VenueOf(r) /\ l.date = a.day /\ l.start = a.start /\ l.end = EndHour(a)
      /\ l.spaces = PlacesIn(G)
  <2>1. l = Listing(VenueOf(r), DateOf(r), MytimeKey(a)[1], MytimeKey(a)[2], PlacesIn(G),
                    PriceOf(This, a), Anything)
    BY <1>1 DEF a
  <2>2. MytimeKey(a)[1] = a.start /\ MytimeKey(a)[2] = EndHour(a)
    BY <1>4, <1>6
  <2> QED BY <1>6, <2>1, <2>2 DEF Listing
<1>8. About(l) \subseteq G
  <2> SUFFICES ASSUME NEW t \in About(l) PROVE t \in G
    OBVIOUS
  <2>1. /\ t \in OnSale /\ t \in Sessions /\ t.venue = VenueOf(r) /\ t.day = a.day
        /\ t.start = a.start /\ EndHour(t) = EndHour(a) /\ ~t.blocked
    BY <1>7, Filed DEF About, OnSale, CountingOK, UtcDays
  <2>2. t \in Asked(r)
    BY <1>5, <1>6, <2>1, AskedAlike DEF MainById
  <2>3. \E d \in r.dates : t.day >= d
    BY <1>4, <1>5, <1>6, <2>1
  <2>4. t \in S
    BY <2>2, <2>3 DEF Answer
  <2> QED BY <1>4, <1>5, <1>6, <2>1, <2>4
<1> QED BY <1>3, <1>7, <1>8, PlacesAdded DEF CountingOK, CountsCourts

LEMMA TowerHamletsCounts ==
  ASSUME CountingOK, This.api = "towerhamlets", NEW r, RequestFits("towerhamlets", r),
         NEW S, S = Answer("towerhamlets", r)
  PROVE  \A l \in TowerHamletsParse(This, r, S) : Counted(l)
<1> TAKE l \in TowerHamletsParse(This, r, S)
<1>1. PICK k \in {TowerHamletsKey(s) : s \in S} :
        LET G == {s \in S : TowerHamletsKey(s) = k}
            q == TowerHamletsKey(AnyOf(G))
        IN  l = Listing(VenueOf(r), q[1], LondonHour(q[2]), LondonHour(q[3]), FreeIn(G),
                        PriceOf(This, AnyOf(G)), r.activities \X Courts)
  BY Zenon DEF TowerHamletsParse, Grouped
<1> DEFINE G == {s \in S : TowerHamletsKey(s) = k}
           F == {s \in G : places[s] > 0}
           a == AnyOf(G)
<1>2. a \in G
  BY DEF AnyOf
<1>3. \A s \in S : /\ s \in Asked(r) /\ s \in Sessions /\ s.venue \in r.venues
                   /\ \E d \in r.dates : s.day >= d
  BY DEF Answer, Asked
<1>4. r.venues = {VenueOf(r)} /\ r.halls = Halls /\ r.start = Anytime
  BY VenueAndDate DEF RequestFits
<1> HIDE DEF a
<1>5. a \in Sessions /\ a \in S /\ k = <<a.day, Utc(a), Utc(a) + a.len>>
  BY <1>2, <1>3 DEF TowerHamletsKey
<1>6. /\ l.venue = VenueOf(r) /\ l.date = a.day /\ l.start = a.start /\ l.end = EndHour(a)
      /\ l.spaces = Cardinality(F) /\ l.of = r.activities \X Courts
  <2>1. LondonHour(Utc(a)) = a.start /\ LondonHour(Utc(a) + a.len) = EndHour(a)
    BY <1>5, Clocks DEF CountingOK
  <2> QED BY <1>1, <2>1 DEF Listing, TowerHamletsKey, FreeIn, a
<1>7. ASSUME NEW t \in About(l), places[t] > 0 PROVE t \in F
  <2>1. /\ t \in OnSale /\ t \in Sessions /\ t.venue = VenueOf(r) /\ t.day = a.day
        /\ t.start = a.start /\ EndHour(t) = EndHour(a) /\ t.activity \in r.activities
        /\ ~t.blocked
    BY <1>6, Filed DEF About, OnSale, CountingOK, UtcDays
  <2>2. t \in S
    BY <1>3, <1>4, <1>5, <2>1, SessionFacts DEF Answer, Asked, CountingOK
  <2>3. Utc(t) = Utc(a) /\ t.len = a.len
    BY <1>5, <2>1, SameTime DEF CountingOK
  <2> QED BY <1>5, <1>7, <2>1, <2>2, <2>3 DEF TowerHamletsKey
<1>8. F \in SUBSET Sessions /\ This.api \in CountsCourts
  BY <1>3 DEF CountsCourts
<1> QED BY <1>6, <1>7, <1>8, CourtsAdded DEF CountingOK

LEMMA PlacesCounts ==
  ASSUME CountingOK, This.api = "places", NEW r, RequestFits("places", r),
         NEW S, S = Answer("places", r)
  PROVE  \A l \in PlacesParse(This, r, S) : Counted(l)
<1> TAKE l \in PlacesParse(This, r, S)
<1>1. PICK k \in {Utc(s) : s \in S} :
        LET G == {s \in S : Utc(s) = k}
            s == AnyOf(G)
        IN  l = Listing(s.venue, LondonDate(Utc(s)), LondonHour(Utc(s)), LondonEnd(s), FreeIn(G),
                        PriceOf(This, s), r.activities \X CourtsIn(r.halls))
  BY Zenon DEF PlacesParse, Grouped
<1> DEFINE G == {s \in S : Utc(s) = k}
           F == {s \in G : places[s] > 0}
           a == AnyOf(G)
<1>2. a \in G
  BY DEF AnyOf
<1>3. \A s \in S : s \in Asked(r) /\ s \in Sessions /\ s.venue \in r.venues /\ s.day \in r.dates
  BY DEF Answer, Asked
<1> HIDE DEF a
<1>4. a \in Sessions /\ a \in S /\ k = Utc(a)
  BY <1>2, <1>3
<1>5. /\ l.venue = a.venue /\ l.date = a.day /\ l.start = a.start /\ l.spaces = Cardinality(F)
      /\ l.of = r.activities \X CourtsIn(r.halls)
  <2>1. LondonHour(Utc(a)) = a.start /\ LondonDate(Utc(a)) = a.day
    BY <1>4, Clocks DEF CountingOK
  <2> QED BY <1>1, <2>1 DEF Listing, FreeIn, a
<1>6. ASSUME NEW t \in About(l), places[t] > 0 PROVE t \in F
  <2>1. /\ t \in OnSale /\ t \in Sessions /\ t.venue = a.venue /\ t.day = a.day
        /\ t.start = a.start /\ t.activity \in r.activities /\ t.court \in CourtsIn(r.halls)
    BY <1>5, Filed DEF About, OnSale, CountingOK, UtcDays
  <2>2. t \in Asked(r)
    BY <1>3, <1>4, <2>1 DEF Asked, CourtsIn
  <2>3. t \in S
    BY <1>3, <1>4, <2>1, <2>2 DEF Answer
  <2>4. Utc(t) = Utc(a)
    BY <1>4, <2>1, SameTime DEF CountingOK
  <2> QED BY <1>4, <1>6, <2>3, <2>4
<1>7. F \in SUBSET Sessions /\ This.api \in CountsCourts
  BY <1>3 DEF CountsCourts
<1> QED BY <1>5, <1>6, <1>7, CourtsAdded DEF CountingOK


LEMMA PlaytomicCounts ==
  ASSUME CountingOK, This.api = "playtomic", NEW r, RequestFits("playtomic", r),
         NEW S, S = Answer("playtomic", r)
  PROVE  \A l \in PlaytomicParse(This, r, S) : Counted(l)
<1> TAKE l \in PlaytomicParse(This, r, S)
<1>1. PICK k \in {PlaytomicKey(s) : s \in S} :
        LET G == {s \in S : PlaytomicKey(s) = k}
            s == AnyOf(G)
        IN  l = Listing(VenueOf(r), DateOf(r), LondonHour(Utc(s)),
                        (LondonHour(Utc(s)) + s.len) % HoursPerDay, Cardinality(G),
                        PriceOf(This, s), Activities \X CourtsIn({Hall(s.court)}))
  BY Zenon DEF PlaytomicParse, Grouped
<1> DEFINE G == {s \in S : PlaytomicKey(s) = k}
           a == AnyOf(G)
<1>2. a \in G
  BY DEF AnyOf
<1>3. \A s \in S : s \in Asked(r) /\ s \in Sessions /\ Utc(s) \div HoursPerDay \in r.dates
  BY DEF Answer, Asked
<1>4. r.venues = {VenueOf(r)} /\ r.dates = {DateOf(r)}
  BY VenueAndDate DEF DayByDay
<1> HIDE DEF a
<1>5. \A s \in Sessions : Utc(s) \div HoursPerDay = FiledUnder(s)
  BY Filed DEF CountingOK, UtcDays
<1>6. /\ a \in Sessions /\ a \in S /\ a \in Asked(r) /\ FiledUnder(a) = DateOf(r)
      /\ k = <<Utc(a), a.len, Hall(a.court)>>
  BY <1>2, <1>3, <1>4, <1>5 DEF PlaytomicKey
<1>7. /\ l.venue = VenueOf(r) /\ l.date = FiledUnder(a) /\ l.start = a.start /\ l.end = EndHour(a)
      /\ l.spaces = Cardinality(G) /\ l.of = Activities \X CourtsIn({Hall(a.court)})
  <2>1. LondonHour(Utc(a)) = a.start
    BY <1>6, Clocks DEF CountingOK
  <2>2. (a.start + a.len) % HoursPerDay = EndHour(a)
    BY DEF EndHour, EndOf
  <2> QED BY <1>1, <1>6, <2>1, <2>2 DEF Listing, a
<1>8. ASSUME NEW t \in About(l), places[t] > 0 PROVE t \in G
  <2>1. /\ t \in OnSale /\ t \in Sessions /\ t.venue = VenueOf(r) /\ FiledUnder(t) = FiledUnder(a)
        /\ t.start = a.start /\ EndHour(t) = EndHour(a) /\ Hall(t.court) = Hall(a.court)
    BY <1>7 DEF About, OnSale, CourtsIn
  <2>2. t \in Asked(r)
    BY <1>4, <1>6, <2>1, AskedAlike DEF MainById
  <2>3. t \in S
    BY <1>4, <1>5, <1>6, <1>8, <2>1, <2>2 DEF Answer
  <2>4. Utc(t) = Utc(a) /\ t.len = a.len
    BY <1>6, <2>1, FiledAlike, SameTime DEF CountingOK
  <2> QED BY <1>6, <2>1, <2>3, <2>4 DEF PlaytomicKey
<1>9. G \in SUBSET Sessions /\ This.api \in CountsCourts
  BY <1>3 DEF CountsCourts
<1> QED BY <1>7, <1>8, <1>9, CourtsAdded DEF CountingOK

LEMMA MatchiCounts ==
  ASSUME CountingOK, This.api = "matchi", NEW r, RequestFits("matchi", r),
         NEW S, S = Answer("matchi", r)
  PROVE  \A l \in MatchiParse(This, r, S) : Counted(l)
<1> TAKE l \in MatchiParse(This, r, S)
<1> DEFINE B == {s \in S : places[s] > 0}
<1>1. PICK G \in MatchiSlots(S) :
        LET s == AnyOf(G) IN
          l = Listing(VenueOf(r), DateOf(r), MatchiHour(StockholmStamp(s)),
                      MatchiHour(StockholmStamp(s) + s.len), Cardinality(G), PriceOf(This, s), Anything)
  BY DEF MatchiParse
<1>2. PICK k \in {StockholmStamp(s) : s \in B} : G = {s \in B : StockholmStamp(s) = k}
  BY Zenon DEF MatchiSlots, Grouped
<1> DEFINE a == AnyOf(G)
<1>3. a \in G
  BY <1>2 DEF AnyOf
<1>4. \A s \in S : s \in Asked(r) /\ s \in Sessions /\ s.day \in r.dates
  BY DEF Answer, Asked
<1>5. r.venues = {VenueOf(r)} /\ r.dates = {DateOf(r)}
  BY VenueAndDate DEF DayByDay
<1> HIDE DEF a
<1>6. /\ a \in Sessions /\ a \in S /\ a \in Asked(r) /\ a.day = DateOf(r)
      /\ k = StockholmStamp(a)
  BY <1>2, <1>3, <1>4, <1>5
<1>7. /\ l.venue = VenueOf(r) /\ l.date = a.day /\ l.start = a.start /\ l.spaces = Cardinality(G)
  <2>1. MatchiHour(StockholmStamp(a)) = a.start
    BY <1>6, Clocks DEF CountingOK
  <2> QED BY <1>1, <1>6, <2>1 DEF Listing, a
<1>8. ASSUME NEW t \in About(l), places[t] > 0 PROVE t \in G
  <2>1. /\ t \in OnSale /\ t \in Sessions /\ t.venue = VenueOf(r) /\ t.day = a.day
        /\ t.start = a.start
    BY <1>7, Filed DEF About, OnSale, CountingOK, UtcDays
  <2>2. t \in Asked(r)
    BY <1>5, <1>6, <2>1, AskedAlike DEF MainById
  <2>3. t \in S
    BY <1>5, <1>6, <2>1, <2>2 DEF Answer
  <2>4. StockholmStamp(t) = StockholmStamp(a)
    BY <1>6, <2>1, SameTime DEF CountingOK
  <2> QED BY <1>2, <1>6, <1>8, <2>3, <2>4
<1>9. G \in SUBSET Sessions /\ This.api \in CountsCourts
  BY <1>2, <1>4 DEF CountsCourts
<1> QED BY <1>7, <1>8, <1>9, CourtsAdded DEF CountingOK

LEMMA PadelMatesCounts ==
  ASSUME CountingOK, This.api = "padelmates", NEW r, RequestFits("padelmates", r),
         NEW S, S = Answer("padelmates", r)
  PROVE  \A l \in PadelMatesParse(This, r, S) : Counted(l)
<1> TAKE l \in PadelMatesParse(This, r, S)
<1> DEFINE B == {s \in S : ~s.blocked}
<1>1. PICK k \in {<<Utc(s), s.len>> : s \in B} :
        LET G == {s \in B : <<Utc(s), s.len>> = k}
            s == AnyOf(G)
        IN  l = Listing(VenueOf(r), LondonDate(Utc(s)), LondonHour(Utc(s)), LondonEnd(s), Cardinality(G),
                        PriceOf(This, s), Anything)
  BY Zenon DEF PadelMatesParse, Grouped
<1> DEFINE G == {s \in B : <<Utc(s), s.len>> = k}
           a == AnyOf(G)
<1>2. a \in G
  BY DEF AnyOf
<1>3. \A s \in S : s \in Asked(r) /\ s \in Sessions /\ s.day \in r.dates
  BY DEF Answer, Asked
<1>4. r.venues = {VenueOf(r)}
  BY VenueAndDate
<1> HIDE DEF a
<1>5. a \in Sessions /\ a \in S /\ a \in Asked(r) /\ a.day \in r.dates /\ k = <<Utc(a), a.len>>
  BY <1>2, <1>3
<1>6. /\ l.venue = VenueOf(r) /\ l.date = a.day /\ l.start = a.start /\ l.end = EndHour(a)
      /\ l.spaces = Cardinality(G)
  <2>1. LondonHour(Utc(a)) = a.start /\ LondonDate(Utc(a)) = a.day /\ LondonEnd(a) = EndHour(a)
    BY <1>5, Clocks DEF CountingOK
  <2> QED BY <1>1, <2>1 DEF Listing, a
<1>7. ASSUME NEW t \in About(l), places[t] > 0 PROVE t \in G
  <2>1. /\ t \in OnSale /\ t \in Sessions /\ t.venue = VenueOf(r) /\ t.day = a.day
        /\ t.start = a.start /\ EndHour(t) = EndHour(a) /\ ~t.blocked
    BY <1>6, Filed DEF About, OnSale, CountingOK, UtcDays
  <2>2. t \in Asked(r)
    BY <1>4, <1>5, <2>1, AskedAlike DEF MainById
  <2>3. t \in S
    BY <1>5, <1>7, <2>1, <2>2 DEF Answer
  <2>4. Utc(t) = Utc(a) /\ t.len = a.len
    BY <1>5, <2>1, SameTime DEF CountingOK
  <2> QED BY <1>5, <2>1, <2>3, <2>4
<1>8. G \in SUBSET Sessions /\ This.api \in CountsCourts
  BY <1>3 DEF CountsCourts
<1> QED BY <1>6, <1>7, <1>8, CourtsAdded DEF CountingOK


LEMMA ParseCounts ==
  ASSUME CountingOK, PlatformOK, This.api \in Apis, This.api # "stratford",
         NEW r, RequestFits(This.api, r)
  PROVE  /\ \A l \in Parse(This, r, Answer(This.api, r)) : Counted(l)
         /\ \A l \in ParseGarbled(This, r) : Counted(l)
<1>1. \A l \in ParseGarbled(This, r) : Counted(l)
  BY DEF ParseGarbled, BetterBlanks, Listing, Counted
<1>2. CASE This.api = "better"
  BY <1>1, <1>2, BetterCounts DEF Parse
<1>3. CASE This.api = "everyoneactive"
  BY <1>1, <1>3, EveryoneActiveCounts DEF Parse
<1>4. CASE This.api = "southwark"
  BY <1>1, <1>4, SouthwarkCounts DEF Parse
<1>5. CASE This.api = "citysports"
  BY <1>1, <1>5, OneSiteCounts DEF Parse
<1>6. CASE This.api = "uel"
  BY <1>1, <1>6, OneSiteCounts DEF Parse
<1>7. CASE This.api = "mytime"
  BY <1>1, <1>7, MytimeCounts DEF Parse
<1>8. CASE This.api = "towerhamlets"
  BY <1>1, <1>8, TowerHamletsCounts DEF Parse
<1>9. CASE This.api = "decathlon"
  BY <1>1, <1>9, DecathlonCounts DEF Parse
<1>10. CASE This.api = "places"
  BY <1>1, <1>10, PlacesCounts DEF Parse
<1>11. CASE This.api = "playtomic"
  BY <1>1, <1>11, PlaytomicCounts DEF Parse
<1>12. CASE This.api = "courtreserve"
  BY <1>1, <1>12, CourtReserveCounts DEF Parse
<1>13. CASE This.api = "matchi"
  BY <1>1, <1>13, MatchiCounts DEF Parse
<1>14. CASE This.api = "padelmates"
  BY <1>1, <1>14, PadelMatesCounts DEF Parse
<1>15. CASE This.api = "clubspark"
  BY <1>1, <1>15, ClubSparkCounts DEF Parse
<1> QED BY <1>2, <1>3, <1>4, <1>5, <1>6, <1>7, <1>8, <1>9, <1>10, <1>11, <1>12, <1>13, <1>14, <1>15
        DEF Apis

-----------------------------------------------------------------------------
(* The invariant of the counts: what was counted when an answer came in is   *)
(* no less than the fewest places the sessions have had by now.              *)

PendingFit == \A r \in pending : RequestFits(This.api, r)
AllCounted == This.api # "stratford" => \A l \in listings : Counted(l)

CountInv == SessionsFit /\ LeastOK /\ PendingFit /\ AllCounted

LEMMA InitCount == Init => CountInv
<1> SUFFICES ASSUME Init PROVE CountInv
  OBVIOUS
<1>1. PlatformOK
  BY InitCrawl DEF CrawlInv
<1>2. SessionsFit
  <2>1. \A s \in Sessions : EndOf(s) <= HoursPerDay
    BY TimetableAssumption DEF Init, PlatformInit, Sessions, EndOf
  <2>2. ASSUME NEW s \in Sessions, NEW t \in Sessions, s.venue = t.venue, s.court = t.court,
               s.day = t.day, s.start = t.start
        PROVE  s = t
    <3>1. s # t => s.start + s.len <= t.start \/ t.start + t.len <= s.start
      BY <2>2, TimetableAssumption DEF Init, PlatformInit, Sessions
    <3>2. s.start \in Int /\ s.len \in Int /\ t.len \in Int /\ 1 <= s.len /\ 1 <= t.len
      BY <1>1, ClockAssumption DEF PlatformOK, SessionType
    <3> QED BY <2>2, <3>1, <3>2
  <2> QED BY <2>1, <2>2 DEF SessionsFit
<1>3. LeastOK
  BY <1>1 DEF Init, LeastOK, PlatformOK
<1>4. PendingFit
  BY <1>1, RequestFacts DEF Init, PendingFit, AsksWell, PlatformOK
<1>5. AllCounted
  BY DEF Init, AllCounted
<1> QED BY <1>2, <1>3, <1>4, <1>5 DEF CountInv

LEMMA CollectCounts ==
  ASSUME CountInv, NEW r, NEW slots, NEW next, Collect(r, slots, next),
         This.api # "stratford" => \A l \in slots : Counted(l),
         \A q \in next : RequestFits(This.api, q)
  PROVE  CountInv'
<1>1. /\ summer' = summer /\ places' = places /\ least' = least /\ crawler' = crawler
      /\ pending' = (pending \ {r}) \cup next /\ listings' = listings \cup slots
  BY DEF Collect, platform, crawl
<1>2. This' = This /\ Sessions' = Sessions
  BY <1>1 DEF This, Sessions
<1>3. SessionsFit' /\ LeastOK'
  BY <1>1, <1>2 DEF CountInv, SessionsFit, LeastOK, EndOf
<1>4. PendingFit'
  BY <1>1, <1>2 DEF CountInv, PendingFit
<1>5. \A l : Counted(l)' <=> Counted(l)
  <2>1. OnSale' = OnSale
    BY <1>1, <1>2 DEF OnSale, SoldAs, KnowsVenue, InGrid, EndOf
  <2>2. \A l : About(l)' = About(l)
    BY <1>1, <1>2, <2>1 DEF About, FiledUnder, EndHour, EndOf
  <2>3. SpacesAt(least)' = SpacesAt(least)
    BY <1>1, <1>2 DEF SpacesAt, Spaces
  <2> QED BY <2>2, <2>3 DEF Counted
<1>6. AllCounted'
  BY <1>1, <1>2, <1>5 DEF CountInv, AllCounted
<1> QED BY <1>3, <1>4, <1>6 DEF CountInv

LEMMA MembersCount ==
  ASSUME CrawlInv, CountInv, MembersAct, CrawlInv'
  PROVE  CountInv'
<1>1. PICK b \in Sessions : Book(b) \/ Cancel(b)
  BY DEF MembersAct
<1>2. Sessions' = Sessions /\ summer' = summer
  BY <1>1 DEF Book, Cancel, Sessions, CrawlInv, PlatformOK
<1>3. /\ crawler' = crawler /\ pending' = pending /\ listings' = listings
      /\ least' = [s \in Sessions |-> Min({least[s], places'[s]})]
  BY DEF MembersAct, crawl
<1>4. This' = This
  BY <1>3 DEF This
<1>5. \A s \in Sessions : /\ places[s] \in Nat /\ places'[s] \in Nat /\ least[s] \in Nat
                          /\ places[s] \in 0..MaxPlaces
  BY <1>2 DEF CrawlInv, PlatformOK, CountInv, LeastOK
<1>6. \A s \in Sessions : least'[s] \in Nat /\ least'[s] <= least[s] /\ least'[s] <= places'[s]
  BY <1>3, <1>5, MinOfTwo
<1>7. SessionsFit'
  BY <1>2 DEF CountInv, SessionsFit, EndOf
<1>8. LeastOK'
  BY <1>2, <1>3, <1>6 DEF LeastOK
<1>9. PendingFit'
  BY <1>3, <1>4 DEF CountInv, PendingFit
<1>10. AllCounted'
  <2> SUFFICES ASSUME This.api # "stratford", NEW l \in listings PROVE Counted(l)'
    BY <1>3, <1>4 DEF AllCounted
  <2>1. OnSale' = OnSale
    BY <1>2, <1>3, <1>4 DEF OnSale, SoldAs, KnowsVenue, InGrid, EndOf
  <2>2. About(l)' = About(l) /\ About(l) \subseteq Sessions
    BY <1>2, <1>4, <2>1 DEF About, FiledUnder, EndHour, EndOf, OnSale
  <2>3. IsFiniteSet(About(l))
    BY <2>2, FS_Subset DEF CrawlInv, PlatformOK
  <2>4. \A s \in About(l) : /\ SpacesAt(least)'[s] \in Nat /\ SpacesAt(least)[s] \in Nat
                            /\ SpacesAt(least)'[s] <= SpacesAt(least)[s]
    <3> TAKE s \in About(l)
    <3>1. SpacesAt(least)'[s] = Spaces(least'[s]) /\ SpacesAt(least)[s] = Spaces(least[s])
      BY <1>2, <1>4, <2>2 DEF SpacesAt, Spaces
    <3>2. least'[s] \in Nat /\ least[s] \in Nat /\ least'[s] <= least[s]
      BY <1>5, <1>6, <2>2
    <3> QED BY <3>1, <3>2, SpacesFacts
  <2>5. SumFunctionOnSet(SpacesAt(least)', About(l)) <= SumFunctionOnSet(SpacesAt(least), About(l))
    BY <2>3, <2>4, SumMonotone
  <2>6. /\ SumFunctionOnSet(SpacesAt(least)', About(l)) \in Nat
        /\ SumFunctionOnSet(SpacesAt(least), About(l)) \in Nat
    BY <2>3, <2>4, Summing DEF SumsWell
  <2>7. Counted(l)
    BY DEF CountInv, AllCounted
  <2> QED BY <2>2, <2>5, <2>6, <2>7 DEF Counted
<1> QED BY <1>7, <1>8, <1>9, <1>10 DEF CountInv

\* The availability requests of Places Leisure are for the venue of the schedule.
LEMMA ScheduledFit ==
  ASSUME NEW r, RequestFits("places", r), NEW S
  PROVE  \A q \in ScheduledRequests(r, S) : RequestFits("places", q)
<1> TAKE q \in ScheduledRequests(r, S)
<1>1. q.venues = r.venues
  BY DEF ScheduledRequests
<1> QED BY <1>1 DEF RequestFits, DayByDay, MainById

LEMMA NextCount == CrawlInv /\ CrawlInv' /\ CountInv /\ [Next]_vars => CountInv'
<1> SUFFICES ASSUME CrawlInv, CrawlInv', CountInv, [Next]_vars PROVE CountInv'
  OBVIOUS
<1>1. PlatformOK /\ crawler \in Crawlers /\ This.api \in Apis /\ CountingOK
  BY CrawlerFacts DEF CrawlInv, PlatformOK, CountInv, CountingOK
<1>2. ASSUME NEW r \in pending, Answered(r)
      PROVE  CountInv'
  <2> DEFINE S == Answer(This.api, r)
  <2>1. RequestFits(This.api, r)
    BY DEF CountInv, PendingFit
  <2>2. CASE This.api = "places" /\ r.start = Anytime
    <3>1. Collect(r, {}, ScheduledRequests(r, S))
      BY <1>2, <2>2 DEF Answered
    <3>2. \A q \in ScheduledRequests(r, S) : RequestFits(This.api, q)
      BY <2>1, <2>2, ScheduledFit
    <3> HIDE DEF S
    <3> QED BY <3>1, <3>2, CollectCounts
  <2>3. CASE ~(This.api = "places" /\ r.start = Anytime)
    <3>1. Collect(r, Parse(This, r, S), {})
      BY <1>2, <2>3 DEF Answered
    <3>2. This.api # "stratford" => \A l \in Parse(This, r, S) : Counted(l)
      BY <1>1, <2>1, ParseCounts
    <3> HIDE DEF S
    <3> QED BY <3>1, <3>2, CollectCounts
  <2> QED BY <2>2, <2>3
<1>3. ASSUME NEW r \in pending, Fails(r)
      PROVE  CountInv'
  BY <1>3, CollectCounts DEF Fails
<1>4. ASSUME NEW r \in pending, Garbled(r)
      PROVE  CountInv'
  <2>1. RequestFits(This.api, r)
    BY DEF CountInv, PendingFit
  <2>2. This.api # "stratford" => \A l \in ParseGarbled(This, r) : Counted(l)
    BY <1>1, <2>1, ParseCounts
  <2> QED BY <1>4, <2>2, CollectCounts DEF Garbled
<1>7. ASSUME NEW r \in pending, ParseRaises(r)
      PROVE  CountInv'
  <2>1. /\ places' = places /\ least' = least /\ pending' = {} /\ listings' = {}
    BY <1>7 DEF ParseRaises, platform
  <2>2. SessionsFit' /\ LeastOK' /\ PendingFit' /\ AllCounted'
    BY <2>1 DEF CountInv, SessionsFit, LeastOK, PendingFit, AllCounted, Sessions, EndOf
  <2> QED BY <2>2 DEF CountInv
<1>5. CASE MembersAct
  BY <1>5, MembersCount
<1>6. CASE UNCHANGED vars
  <2>1. /\ summer' = summer /\ places' = places /\ least' = least /\ crawler' = crawler
        /\ pending' = pending /\ listings' = listings
    BY <1>6 DEF vars, platform, crawl
  <2>2. This' = This /\ Sessions' = Sessions
    BY <2>1 DEF This, Sessions
  <2>3. SessionsFit' /\ LeastOK' /\ PendingFit'
    BY <2>1, <2>2 DEF CountInv, SessionsFit, LeastOK, PendingFit, EndOf
  <2>4. OnSale' = OnSale
    BY <2>1, <2>2 DEF OnSale, SoldAs, KnowsVenue, InGrid, EndOf
  <2>5. \A l : About(l)' = About(l)
    BY <2>1, <2>2, <2>4 DEF About, FiledUnder, EndHour, EndOf
  <2>6. SpacesAt(least)' = SpacesAt(least)
    BY <2>1, <2>2 DEF SpacesAt, Spaces
  <2>7. AllCounted'
    BY <2>1, <2>2, <2>5, <2>6 DEF CountInv, AllCounted, Counted
  <2> QED BY <2>3, <2>7 DEF CountInv
<1> QED BY <1>2, <1>3, <1>4, <1>5, <1>6, <1>7 DEF Next

LEMMA CountInvariant == Spec => []CountInv
BY InitCount, NextCount, CrawlInvariant, PTL DEF Spec

\* Whichever crawler runs but Stratford's, whatever the timetable, and however
\* members book and cancel meanwhile: a slot offers no less than the fewest
\* places its sessions have had together, so no court or entry is left out of a
\* sum, merged away or filed under another hour, date or venue.
THEOREM CourtsAreCounted == Spec => []CourtsCounted
<1>1. CrawlInv /\ CountInv => CourtsCounted
  <2> SUFFICES ASSUME CrawlInv, CountInv, This.api # "stratford", NEW l \in listings, l.of # {}
               PROVE  l.spaces >= SumFunctionOnSet(SpacesAt(least), About(l))
    BY DEF CourtsCounted
  <2>1. Counted(l)
    BY DEF CountInv, AllCounted
  <2>2. IsFiniteSet(About(l)) /\ About(l) \subseteq Sessions
    BY FS_Subset DEF CrawlInv, PlatformOK, About, OnSale
  <2>3. \A s \in About(l) : SpacesAt(least)[s] \in Nat
    BY <2>2, SpacesFacts DEF SpacesAt, CountInv, LeastOK
  <2>4. SumFunctionOnSet(SpacesAt(least), About(l)) \in Nat
    BY <2>2, <2>3, Summing DEF SumsWell
  <2> QED BY <2>1, <2>4 DEF Counted
<1> QED BY <1>1, CrawlInvariant, CountInvariant, PTL

-----------------------------------------------------------------------------
(* The sweep over the busy blocks of a Stratford court.  Swept is a          *)
(* recursive function on the sets of blocks, like a sum.                     *)

Block(b) == \E x, y \in Nat : b = <<x, y>> /\ Opening <= x /\ x < y /\ y <= Closing

Before(a, b) == a[1] < b[1] \/ (a[1] = b[1] /\ a[2] <= b[2])

LEMMA LastIsLast ==
  ASSUME NEW B, IsFiniteSet(B), \A b \in B : Block(b), B # {}
  PROVE  LastOf(B) \in B /\ \A b \in B : Before(b, LastOf(B))
<1> DEFINE Endless == {T \in FiniteSubsetsOf(B) : T # {} /\ ~ \E m \in T : \A b \in T : Before(b, m)}
<1>1. ASSUME Endless # {} PROVE FALSE
  <2>1. PICK T \in Endless : \A U \in Endless : <<U, T>> \notin StrictSubsetOrdering(B)
    BY <1>1, FS_StrictSubsetOrderingWellFounded, WFMin
  <2>2. T \in SUBSET B /\ IsFiniteSet(T) /\ T # {} /\ ~ \E m \in T : \A b \in T : Before(b, m)
    BY <2>1 DEF FiniteSubsetsOf
  <2>3. PICK x \in T : TRUE
    BY <2>2
  <2>4. T \ {x} \in FiniteSubsetsOf(B) /\ <<T \ {x}, T>> \in StrictSubsetOrdering(B)
    BY <2>2, <2>3, FS_RemoveElement DEF FiniteSubsetsOf, StrictSubsetOrdering
  <2>5. \A b \in T : b[1] \in Nat /\ b[2] \in Nat
    BY <2>2 DEF Block
  <2>6. \A a, b \in T : Before(a, b) \/ Before(b, a)
    BY <2>5 DEF Before
  <2>7. \A a, b, c \in T : Before(a, b) /\ Before(b, c) => Before(a, c)
    BY <2>5 DEF Before
  <2>8. CASE T \ {x} = {}
    <3>1. \A b \in T : b = x
      BY <2>8
    <3> QED BY <2>2, <2>3, <2>6, <3>1
  <2>9. CASE T \ {x} # {}
    <3>1. PICK m \in T \ {x} : \A b \in T \ {x} : Before(b, m)
      BY <2>1, <2>4, <2>9
    <3>2. CASE Before(x, m)
      <4>1. \A b \in T : Before(b, m)
        BY <3>1, <3>2
      <4> QED BY <2>2, <3>1, <4>1
    <3>3. CASE Before(m, x)
      <4>1. \A b \in T : Before(b, x)
        BY <2>3, <2>6, <2>7, <3>1, <3>3
      <4> QED BY <2>2, <2>3, <4>1
    <3> QED BY <2>3, <2>6, <3>1, <3>2, <3>3
  <2> QED BY <2>8, <2>9
<1>2. \E m \in B : \A b \in B : Before(b, m)
  BY <1>1 DEF FiniteSubsetsOf
<1> QED BY <1>2 DEF LastOf, Before

NothingSwept == [cursor |-> Opening, free |-> {}]

Sweeps(g, B) ==
  g = [T \in SUBSET B |-> IF T = {} THEN NothingSwept ELSE Sweep(g[T \ {LastOf(T)}], LastOf(T))]

LEMMA SweptIs ==
  ASSUME NEW B
  PROVE  Swept(B) = (CHOOSE g : Sweeps(g, B))[B]
BY DEF Swept, MapThenFoldSet, Sweeps, NothingSwept

LEMMA SweepsAgree ==
  ASSUME NEW S, NEW T, NEW g, NEW h, Sweeps(g, S), Sweeps(h, T),
         NEW U, IsFiniteSet(U), \A b \in U : Block(b), U \subseteq S, U \subseteq T
  PROVE  g[U] = h[U]
<1> DEFINE Differ == {V \in FiniteSubsetsOf(U) : g[V] # h[V]}
<1> SUFFICES ASSUME Differ # {} PROVE FALSE
  BY DEF FiniteSubsetsOf
<1>1. PICK V \in Differ : \A W \in Differ : <<W, V>> \notin StrictSubsetOrdering(U)
  BY FS_StrictSubsetOrderingWellFounded, WFMin
<1>2. V \in SUBSET U /\ IsFiniteSet(V) /\ g[V] # h[V]
  BY <1>1 DEF FiniteSubsetsOf
<1>3. /\ g[V] = IF V = {} THEN NothingSwept ELSE Sweep(g[V \ {LastOf(V)}], LastOf(V))
      /\ h[V] = IF V = {} THEN NothingSwept ELSE Sweep(h[V \ {LastOf(V)}], LastOf(V))
  BY <1>2 DEF Sweeps
<1>4. V # {} /\ LastOf(V) \in V
  BY <1>2, <1>3, LastIsLast
<1>5. V \ {LastOf(V)} \in FiniteSubsetsOf(U) /\ <<V \ {LastOf(V)}, V>> \in StrictSubsetOrdering(U)
  BY <1>2, <1>4, FS_RemoveElement DEF FiniteSubsetsOf, StrictSubsetOrdering
<1>6. g[V \ {LastOf(V)}] = h[V \ {LastOf(V)}]
  BY <1>1, <1>5
<1> QED BY <1>2, <1>3, <1>6

LEMMA SweepsExists ==
  ASSUME NEW S, IsFiniteSet(S), \A b \in S : Block(b)
  PROVE  \E g : Sweeps(g, S)
<1> DEFINE Without == {T \in FiniteSubsetsOf(S) : ~ \E g : Sweeps(g, T)}
<1> SUFFICES ASSUME Without # {} PROVE FALSE
  BY DEF FiniteSubsetsOf
<1>1. PICK T \in Without : \A U \in Without : <<U, T>> \notin StrictSubsetOrdering(S)
  BY FS_StrictSubsetOrderingWellFounded, WFMin
<1>2. T \in SUBSET S /\ IsFiniteSet(T) /\ ~ \E g : Sweeps(g, T)
  BY <1>1 DEF FiniteSubsetsOf
<1> DEFINE Less(x) == CHOOSE g : Sweeps(g, T \ {x})
           Out(U)  == First(T \ U)
           Part(U) == Less(Out(U))[U]
           whole   == [U \in SUBSET T |->
                         IF U = {} THEN NothingSwept
                         ELSE Sweep(Part(U \ {LastOf(U)}), LastOf(U))]
<1>3. \A x \in T : Sweeps(Less(x), T \ {x})
  <2> TAKE x \in T
  <2>1. T \ {x} \in FiniteSubsetsOf(S) /\ <<T \ {x}, T>> \in StrictSubsetOrdering(S)
    BY <1>2, FS_RemoveElement DEF FiniteSubsetsOf, StrictSubsetOrdering
  <2>2. \E g : Sweeps(g, T \ {x})
    BY <1>1, <2>1
  <2> QED BY <2>2
<1>4. \A U \in SUBSET T : U # T => Out(U) \in T \ U /\ U \in SUBSET (T \ {Out(U)})
  BY DEF First
<1>5. \A U \in SUBSET T : IsFiniteSet(U) /\ \A b \in U : Block(b)
  BY <1>2, FS_Subset
<1> HIDE DEF Less, Out
<1>6. \A U \in SUBSET T, x \in T : x \notin U => Part(U) = Less(x)[U]
  <2> TAKE U \in SUBSET T, x \in T
  <2> HAVE x \notin U
  <2>1. /\ U # T /\ U \subseteq T \ {x} /\ Out(U) \in T /\ U \subseteq T \ {Out(U)}
        /\ IsFiniteSet(U) /\ \A b \in U : Block(b)
    BY <1>4, <1>5
  <2>2. Sweeps(Less(Out(U)), T \ {Out(U)}) /\ Sweeps(Less(x), T \ {x})
    BY <1>3, <2>1
  <2>3. Less(Out(U))[U] = Less(x)[U]
    BY <2>1, <2>2, SweepsAgree
  <2> QED BY <2>3
<1>7. \A U \in SUBSET T : U # {} => /\ U \ {LastOf(U)} \in SUBSET T
                                    /\ U \ {LastOf(U)} # T
  BY <1>5, LastIsLast
<1>8. \A U \in SUBSET T : U # T =>
        Part(U) = IF U = {} THEN NothingSwept ELSE Sweep(Part(U \ {LastOf(U)}), LastOf(U))
  <2> TAKE U \in SUBSET T
  <2> HAVE U # T
  <2>1. Out(U) \in T /\ U \in SUBSET (T \ {Out(U)})
    BY <1>4
  <2>2. Part(U) = IF U = {} THEN NothingSwept
                  ELSE Sweep(Less(Out(U))[U \ {LastOf(U)}], LastOf(U))
    BY <1>3, <2>1 DEF Sweeps
  <2>3. Part(U \ {LastOf(U)}) = Less(Out(U))[U \ {LastOf(U)}]
    <3>1. U \ {LastOf(U)} \in SUBSET T /\ Out(U) \notin U \ {LastOf(U)}
      BY <2>1
    <3> QED BY <1>6, <2>1, <3>1
  <2> QED BY <2>2, <2>3
<1>9. \A U \in SUBSET T : U # T => Part(U) = whole[U]
  BY <1>8
<1> HIDE DEF Part
<1>10. Sweeps(whole, T)
  <2>1. \A U \in SUBSET T : whole[U] = IF U = {} THEN NothingSwept
                                       ELSE Sweep(whole[U \ {LastOf(U)}], LastOf(U))
    BY <1>7, <1>9
  <2>2. whole = [U \in SUBSET T |-> whole[U]]
    OBVIOUS
  <2> HIDE DEF whole
  <2> QED BY <2>1, <2>2 DEF Sweeps
<1> QED BY <1>2, <1>10

\* The last block is swept after all the others.
LEMMA SweptStep ==
  ASSUME NEW B, IsFiniteSet(B), \A b \in B : Block(b)
  PROVE  Swept(B) = IF B = {} THEN NothingSwept ELSE Sweep(Swept(B \ {LastOf(B)}), LastOf(B))
<1> DEFINE g == CHOOSE g : Sweeps(g, B)
           h == CHOOSE h : Sweeps(h, B \ {LastOf(B)})
<1>1. IsFiniteSet(B \ {LastOf(B)})
  BY FS_Subset
<1>2. Sweeps(g, B) /\ Sweeps(h, B \ {LastOf(B)})
  BY <1>1, SweepsExists
<1>3. Swept(B) = g[B] /\ Swept(B \ {LastOf(B)}) = h[B \ {LastOf(B)}]
  BY SweptIs
<1> HIDE DEF g, h
<1>4. g[B \ {LastOf(B)}] = h[B \ {LastOf(B)}]
  BY <1>1, <1>2, SweepsAgree
<1>5. g[B] = IF B = {} THEN NothingSwept ELSE Sweep(g[B \ {LastOf(B)}], LastOf(B))
  BY <1>2 DEF Sweeps
<1> QED BY <1>3, <1>4, <1>5

\* [x, y) lies between the blocks.
Apart(x, y, B) == \A b \in B : y <= b[1] \/ b[2] <= x

LEMMA MaxOfTwo ==
  ASSUME NEW m \in Nat, NEW n \in Nat
  PROVE  Max({m, n}) = IF m <= n THEN n ELSE m
<1>1. CASE m <= n
  <2>1. \A x \in {m, n} : (\A y \in {m, n} : y <= x) <=> x = n
    BY <1>1
  <2> QED BY <1>1, <2>1 DEF Max
<1>2. CASE ~(m <= n)
  <2>1. \A x \in {m, n} : (\A y \in {m, n} : y <= x) <=> x = m
    BY <1>2
  <2> QED BY <1>2, <2>1 DEF Max
<1> QED BY <1>1, <1>2

\* What holds of the cursor and the gaps after any number of blocks.
SweptWell(acc, B) ==
  /\ acc.cursor \in Nat /\ Opening <= acc.cursor /\ acc.cursor <= Closing
  /\ acc.cursor = Opening \/ \E b \in B : b[2] = acc.cursor
  /\ \A b \in B : b[2] <= acc.cursor
  /\ \A f \in acc.free : Block(f) /\ Apart(f[1], f[2], B) /\ \E b \in B : f[2] <= b[1]
  /\ \A x, y \in Nat :
       Opening <= x /\ x < y /\ y <= acc.cursor /\ Apart(x, y, B) =>
         \E f \in acc.free : f[1] <= x /\ y <= f[2]

\* A block further on: it is passed when the cursor is beyond it, and otherwise
\* the gap before it is free.
LEMMA SweepOne ==
  ASSUME NEW B, NEW last \in B, \A b \in B : Block(b) /\ Before(b, last),
         NEW acc, SweptWell(acc, B \ {last})
  PROVE  SweptWell(Sweep(acc, last), B)
<1> DEFINE T == B \ {last}
           c == acc.cursor
           w == Sweep(acc, last)
<1>1. /\ last[1] \in Nat /\ last[2] \in Nat /\ last[1] < last[2] /\ last[2] <= Closing
      /\ Opening <= last[1] /\ Closing \in Nat /\ Opening \in Nat
  BY ClockAssumption DEF Block
<1>2. \A b \in B : b[1] \in Nat /\ b[2] \in Nat /\ b[1] < b[2] /\ b[1] <= last[1]
  BY DEF Block, Before
<1>3. /\ c \in Nat /\ Opening <= c /\ c <= Closing
      /\ c = Opening \/ \E b \in T : b[2] = c
      /\ \A b \in T : b[2] <= c
      /\ \A f \in acc.free : Block(f) /\ Apart(f[1], f[2], T) /\ \E b \in T : f[2] <= b[1]
      /\ \A x, y \in Nat :
           Opening <= x /\ x < y /\ y <= c /\ Apart(x, y, T) =>
             \E f \in acc.free : f[1] <= x /\ y <= f[2]
  BY DEF SweptWell
<1>4. \A x, y \in Nat : Apart(x, y, B) <=> Apart(x, y, T) /\ (y <= last[1] \/ last[2] <= x)
  BY DEF Apart
<1>5. \A f \in acc.free : /\ f[1] \in Nat /\ f[2] \in Nat /\ Block(f)
                          /\ Apart(f[1], f[2], B) /\ \E b \in B : f[2] <= b[1]
  <2> TAKE f \in acc.free
  <2>1. f[1] \in Nat /\ f[2] \in Nat
    BY <1>3 DEF Block
  <2>2. PICK b \in T : f[2] <= b[1]
    BY <1>3
  <2>3. f[2] <= last[1]
    BY <1>1, <1>2, <2>1, <2>2
  <2> QED BY <1>3, <1>4, <2>1, <2>2, <2>3
<1> HIDE DEF T, c
<1>6. CASE last[2] <= c
  <2>1. w = acc
    BY <1>6 DEF Sweep, c
  <2>2. \A x, y \in Nat :
          Opening <= x /\ x < y /\ y <= c /\ Apart(x, y, B) =>
            \E f \in acc.free : f[1] <= x /\ y <= f[2]
    BY <1>3, <1>4
  <2>3. /\ c = Opening \/ \E b \in B : b[2] = c
        /\ \A b \in B : b[2] <= c
    BY <1>3, <1>6 DEF T
  <2>4. SweptWell(acc, B)
    BY <1>3, <1>5, <2>2, <2>3 DEF SweptWell, c
  <2> QED BY <2>1, <2>4
<1>7. CASE ~(last[2] <= c)
  <2> DEFINE gap == IF last[1] > c THEN {<<c, last[1]>>} ELSE {}
  <2>1. w = [cursor |-> last[2], free |-> acc.free \cup gap]
    <3>1. Min({last[2], Closing}) = last[2]
      BY <1>1, MinOfTwo
    <3>2. Max({c, last[2]}) = last[2]
      BY <1>1, <1>3, <1>7, MaxOfTwo
    <3>3. ~(last[2] <= c \/ last[1] >= Closing)
      BY <1>1, <1>7
    <3> QED BY <3>1, <3>2, <3>3 DEF Sweep, c
  <2>2. \A b \in B : b[2] <= last[2]
    BY <1>1, <1>2, <1>3, <1>7 DEF T
  <2>3. \A f \in gap : Block(f) /\ Apart(f[1], f[2], B) /\ \E b \in B : f[2] <= b[1]
    <3> SUFFICES ASSUME last[1] > c
                 PROVE  /\ Block(<<c, last[1]>>) /\ Apart(c, last[1], B)
                        /\ \E b \in B : last[1] <= b[1]
      OBVIOUS
    <3>1. Block(<<c, last[1]>>)
      BY <1>1, <1>3, SMTT(30) DEF Block
    <3>2. Apart(c, last[1], B)
      BY <1>1, <1>3 DEF Apart, T
    <3> QED BY <1>1, <3>1, <3>2
  <2>4. ASSUME NEW x \in Nat, NEW y \in Nat, Opening <= x, x < y, y <= last[2], Apart(x, y, B)
        PROVE  \E f \in acc.free \cup gap : f[1] <= x /\ y <= f[2]
    <3>1. Apart(x, y, T) /\ y <= last[1]
      BY <1>1, <1>4, <2>4
    <3>2. CASE y <= c
      BY <1>3, <2>4, <3>1, <3>2
    <3>3. CASE c < y
      <4>1. c <= x
        BY <1>2, <1>3, <2>4, <3>1, <3>3 DEF Apart, T
      <4>2. last[1] > c /\ <<c, last[1]>> \in gap
        BY <1>1, <1>3, <3>1, <3>3
      <4> QED BY <3>1, <4>1, <4>2
    <3> QED BY <1>3, <3>2, <3>3
  <2> HIDE DEF gap
  <2>5. SweptWell(w, B)
    BY <1>1, <1>5, <2>1, <2>2, <2>3, <2>4 DEF SweptWell
  <2> QED BY <2>5
<1> QED BY <1>1, <1>3, <1>6, <1>7

LEMMA SweptIsWell ==
  ASSUME NEW B, IsFiniteSet(B), \A b \in B : Block(b)
  PROVE  SweptWell(Swept(B), B)
<1> DEFINE Bad == {T \in FiniteSubsetsOf(B) : ~SweptWell(Swept(T), T)}
<1> SUFFICES ASSUME Bad # {} PROVE FALSE
  BY DEF FiniteSubsetsOf
<1>1. PICK T \in Bad : \A U \in Bad : <<U, T>> \notin StrictSubsetOrdering(B)
  BY FS_StrictSubsetOrderingWellFounded, WFMin
<1>2. T \in SUBSET B /\ IsFiniteSet(T) /\ ~SweptWell(Swept(T), T)
  BY <1>1 DEF FiniteSubsetsOf
<1>3. CASE T = {}
  <2>1. Swept(T) = NothingSwept
    BY <1>2, <1>3, SweptStep
  <2>2. SweptWell(NothingSwept, {})
    <3>1. Opening \in Nat /\ Opening <= Closing
      BY ClockAssumption
    <3> QED BY <3>1 DEF SweptWell, NothingSwept
  <2> QED BY <1>2, <1>3, <2>1, <2>2
<1>4. CASE T # {}
  <2> DEFINE last == LastOf(T)
  <2>1. last \in T /\ \A b \in T : Before(b, last)
    BY <1>2, <1>4, LastIsLast
  <2>2. T \ {last} \in FiniteSubsetsOf(B) /\ <<T \ {last}, T>> \in StrictSubsetOrdering(B)
    BY <1>2, <2>1, FS_RemoveElement DEF FiniteSubsetsOf, StrictSubsetOrdering
  <2>3. SweptWell(Swept(T \ {last}), T \ {last})
    BY <1>1, <2>2
  <2>4. Swept(T) = Sweep(Swept(T \ {last}), last)
    BY <1>2, <1>4, SweptStep
  <2> HIDE DEF last
  <2> QED BY <1>2, <2>1, <2>3, <2>4, SweepOne
<1> QED BY <1>3, <1>4

\* The free intervals are the complement of the busy blocks within the opening
\* hours: none of them meets a block, and whatever lies between the blocks lies
\* within one of them.
THEOREM FreeIsComplement ==
  ASSUME NEW B, IsFiniteSet(B), \A b \in B : Block(b)
  PROVE  /\ \A f \in FreeIntervals(B) : Block(f) /\ Apart(f[1], f[2], B)
         /\ \A x, y \in Nat : Opening <= x /\ x < y /\ y <= Closing /\ Apart(x, y, B) =>
              \E f \in FreeIntervals(B) : f[1] <= x /\ y <= f[2]
<1> DEFINE w == Swept(B)
           tail == IF w.cursor < Closing THEN {<<w.cursor, Closing>>} ELSE {}
<1>1. SweptWell(w, B)
  BY SweptIsWell
<1>2. FreeIntervals(B) = w.free \cup tail
  BY DEF FreeIntervals
<1> HIDE DEF w
<1>3. \A b \in B : b[1] \in Nat /\ b[2] \in Nat /\ b[1] < b[2]
  BY DEF Block
<1>4. Opening \in Nat /\ Closing \in Nat /\ w.cursor \in Nat /\ w.cursor <= Closing
  BY <1>1, ClockAssumption DEF SweptWell
<1>5. \A f \in tail : Block(f) /\ Apart(f[1], f[2], B)
  <2> SUFFICES ASSUME w.cursor < Closing
               PROVE  Block(<<w.cursor, Closing>>) /\ Apart(w.cursor, Closing, B)
    OBVIOUS
  <2> QED BY <1>1, <1>4 DEF SweptWell, Block, Apart
<1>6. \A f \in w.free : Block(f) /\ Apart(f[1], f[2], B)
  BY <1>1 DEF SweptWell
<1>7. ASSUME NEW x \in Nat, NEW y \in Nat, Opening <= x, x < y, y <= Closing, Apart(x, y, B)
      PROVE  \E f \in w.free \cup tail : f[1] <= x /\ y <= f[2]
  <2>1. CASE y <= w.cursor
    BY <1>1, <1>7, <2>1 DEF SweptWell
  <2>2. CASE w.cursor < y
    <3>1. w.cursor <= x
      BY <1>1, <1>3, <1>7, <2>2 DEF SweptWell, Apart
    <3>2. <<w.cursor, Closing>> \in tail
      BY <1>4, <1>7, <2>2
    <3> QED BY <1>7, <3>1, <3>2
  <2> QED BY <1>4, <2>1, <2>2
<1> HIDE DEF tail
<1> QED BY <1>2, <1>5, <1>6, <1>7

-----------------------------------------------------------------------------
(* The requests leave nothing out, and ask for nothing else.                 *)

\* What is sold at a venue to a crawler that knows it.
Sold(venue) == IF KnowsVenue(venue) THEN SoldAs(venue) ELSE {}

LEMMA SoldByName ==
  ASSUME NEW v
  PROVE  /\ crawler \in {"betterBadminton", "betterPickleball"} =>
              SoldAs(v) = IF v \in SpecialVenues THEN {"special"} ELSE {"main", "second"}
         /\ crawler \in {"betterSquash", "betterTennis"} =>
              SoldAs(v) = IF v \in SpecialVenues THEN {"special"} ELSE {"main"}
         /\ crawler \in {"lambethBadminton", "visionSquash", "towerhamlets", "decathlon",
                         "placesBadminton", "placesPickleball"} =>
              SoldAs(v) = {"main", "second"}
         /\ crawler = "stratford" => SoldAs(v) = Activities
         /\ crawler = "courtreserve" => SoldAs(v) = Activities \ {"other"}
         /\ crawler \notin {"betterBadminton", "betterPickleball", "betterSquash", "betterTennis",
                            "lambethBadminton", "visionSquash", "towerhamlets", "decathlon",
                            "stratford", "courtreserve", "placesBadminton", "placesPickleball"} =>
              SoldAs(v) = {"main"}
<1>1. /\ crawler \in {"betterBadminton", "betterPickleball"} =>
           SoldAs(v) = IF v \in SpecialVenues THEN {"special"} ELSE {"main", "second"}
      /\ crawler \in {"betterSquash", "betterTennis"} =>
           SoldAs(v) = IF v \in SpecialVenues THEN {"special"} ELSE {"main"}
  BY DEF SoldAs
<1>2. /\ crawler \in {"lambethBadminton", "visionSquash", "towerhamlets", "decathlon",
                         "placesBadminton", "placesPickleball"} =>
           SoldAs(v) = {"main", "second"}
      /\ crawler = "stratford" => SoldAs(v) = Activities
      /\ crawler = "courtreserve" => SoldAs(v) = Activities \ {"other"}
  BY DEF SoldAs
<1>3. crawler \notin {"betterBadminton", "betterPickleball", "betterSquash", "betterTennis",
                      "lambethBadminton", "visionSquash", "towerhamlets", "decathlon",
                      "stratford", "courtreserve", "placesBadminton", "placesPickleball"} => SoldAs(v) = {"main"}
  BY DEF SoldAs
<1> QED BY <1>1, <1>2, <1>3

\* One request for each venue, date and activity: no other requests but for the
\* activity that does not exist, and none is missing.
AsksDaily ==
  \A reach \in DOMAIN This.requests :
    /\ reach \in Nat
    /\ \A r \in This.requests[reach] : \E v \in Venues : \E d \in AllowableDates(reach) : \E a :
         r = RequestFor(v, d, a) /\ (a \in Sold(v) \/ a = "None")
    /\ \A v \in Venues : \A d \in AllowableDates(reach) : \A a \in Sold(v) :
         RequestFor(v, d, a) \in This.requests[reach]

LEMMA BetterAsksDaily ==
  ASSUME NEW sport, This = BetterCrawler(sport), \A v : SoldAs(v) = ActivitySlugs(sport, v)
  PROVE  AsksDaily
<1> DEFINE asked(D) == UNION {{RequestFor(w, e, b) : b \in ActivitySlugs(sport, w)} : w \in Venues, e \in D}
<1>1. \A v : Sold(v) = ActivitySlugs(sport, v)
  BY DEF Sold, KnowsVenue, BetterCrawler, Crawler
<1>2. /\ DOMAIN This.requests = {5, 6}
      /\ \A reach \in {5, 6} : This.requests[reach] = asked(AllowableDates(reach))
  BY DEF BetterCrawler, Crawler, PerActivity
<1>3. ASSUME NEW D, NEW r \in asked(D)
      PROVE  \E v \in Venues : \E d \in D : \E a \in ActivitySlugs(sport, v) : r = RequestFor(v, d, a)
  OBVIOUS
<1>4. ASSUME NEW D, NEW v \in Venues, NEW d \in D, NEW a \in ActivitySlugs(sport, v)
      PROVE  RequestFor(v, d, a) \in asked(D)
  <2> DEFINE part  == {RequestFor(v, d, b) : b \in ActivitySlugs(sport, v)}
             parts == {{RequestFor(w, e, b) : b \in ActivitySlugs(sport, w)} : w \in Venues, e \in D}
  <2>1. part \in parts /\ RequestFor(v, d, a) \in part
    OBVIOUS
  <2>2. asked(D) = UNION parts
    OBVIOUS
  <2> HIDE DEF asked, part, parts
  <2> QED BY <2>1, <2>2
<1> HIDE DEF asked
<1> QED BY <1>1, <1>2, <1>3, <1>4 DEF AsksDaily

\* The crawlers that sell the same at every venue they know.
SameRequests(V, D, slugs) == PerActivity(V, D, LAMBDA w : slugs)

LEMMA SlugsAskDaily ==
  ASSUME NEW V \in SUBSET Venues, NEW deltas \in SUBSET Nat, NEW slugs,
         \A v : SoldAs(v) = slugs, \A v \in Venues : KnowsVenue(v) <=> v \in V,
         This.requests = [reach \in deltas |-> SameRequests(V, AllowableDates(reach), slugs)]
  PROVE  AsksDaily
<1> DEFINE asked(D) == UNION {{RequestFor(w, e, b) : b \in slugs} : w \in V, e \in D}
<1>1. \A v \in Venues : Sold(v) = IF v \in V THEN slugs ELSE {}
  BY DEF Sold
<1>2. /\ DOMAIN This.requests = deltas
      /\ \A reach \in deltas : This.requests[reach] = asked(AllowableDates(reach))
  BY DEF SameRequests, PerActivity
<1>3. ASSUME NEW D, NEW r \in asked(D)
      PROVE  \E v \in V : \E d \in D : \E a \in slugs : r = RequestFor(v, d, a)
  OBVIOUS
<1>4. ASSUME NEW D, NEW v \in V, NEW d \in D, NEW a \in slugs
      PROVE  RequestFor(v, d, a) \in asked(D)
  <2> DEFINE part  == {RequestFor(v, d, b) : b \in slugs}
             parts == {{RequestFor(w, e, b) : b \in slugs} : w \in V, e \in D}
  <2>1. part \in parts /\ RequestFor(v, d, a) \in part
    OBVIOUS
  <2>2. asked(D) = UNION parts
    OBVIOUS
  <2> HIDE DEF asked, part, parts
  <2> QED BY <2>1, <2>2
<1> HIDE DEF asked
<1>5. ASSUME NEW reach \in DOMAIN This.requests
      PROVE  /\ reach \in Nat
             /\ \A r \in This.requests[reach] : \E v \in Venues : \E d \in AllowableDates(reach) : \E a :
                  r = RequestFor(v, d, a) /\ (a \in Sold(v) \/ a = "None")
             /\ \A v \in Venues : \A d \in AllowableDates(reach) : \A a \in Sold(v) :
                  RequestFor(v, d, a) \in This.requests[reach]
  <2>1. reach \in Nat /\ This.requests[reach] = asked(AllowableDates(reach))
    BY <1>2
  <2>2. ASSUME NEW r \in This.requests[reach]
        PROVE  \E v \in Venues : \E d \in AllowableDates(reach) : \E a :
                 r = RequestFor(v, d, a) /\ (a \in Sold(v) \/ a = "None")
    BY <1>1, <1>3, <2>1
  <2>3. ASSUME NEW v \in Venues, NEW d \in AllowableDates(reach), NEW a \in Sold(v)
        PROVE  RequestFor(v, d, a) \in This.requests[reach]
    BY <1>1, <1>4, <2>1
  <2> QED BY <2>1, <2>2, <2>3
<1> QED BY <1>5 DEF AsksDaily

\* Those that ask for an activity that does not exist where they have no id.
IdOf(v) == IF v \in Mapped THEN {"main"} ELSE {"None"}

IdRequests(D) == PerActivity(Venues, D, LAMBDA w : IF w \in Mapped THEN {"main"} ELSE {"None"})

LEMMA NoneAsksDaily ==
  ASSUME NEW deltas \in SUBSET Nat, \A v : SoldAs(v) = {"main"},
         \A v \in Venues : KnowsVenue(v) <=> v \in Mapped,
         This.requests = [reach \in deltas |-> IdRequests(AllowableDates(reach))]
  PROVE  AsksDaily
<1> DEFINE asked(D) == UNION {{RequestFor(w, e, b) : b \in IdOf(w)} : w \in Venues, e \in D}
<1>1. \A v \in Venues : Sold(v) = IF v \in Mapped THEN {"main"} ELSE {}
  BY DEF Sold
<1>2. /\ DOMAIN This.requests = deltas
      /\ \A reach \in deltas : This.requests[reach] = asked(AllowableDates(reach))
  BY DEF IdRequests, IdOf, PerActivity
<1>3. ASSUME NEW D, NEW r \in asked(D)
      PROVE  \E v \in Venues : \E d \in D : \E a \in IdOf(v) : r = RequestFor(v, d, a)
  OBVIOUS
<1>4. ASSUME NEW D, NEW v \in Venues, NEW d \in D, NEW a \in IdOf(v)
      PROVE  RequestFor(v, d, a) \in asked(D)
  <2> DEFINE part  == {RequestFor(v, d, b) : b \in IdOf(v)}
             parts == {{RequestFor(w, e, b) : b \in IdOf(w)} : w \in Venues, e \in D}
  <2>1. part \in parts /\ RequestFor(v, d, a) \in part
    OBVIOUS
  <2>2. asked(D) = UNION parts
    OBVIOUS
  <2> HIDE DEF asked, part, parts
  <2> QED BY <2>1, <2>2
<1> HIDE DEF asked
<1>5. ASSUME NEW reach \in DOMAIN This.requests
      PROVE  /\ reach \in Nat
             /\ \A r \in This.requests[reach] : \E v \in Venues : \E d \in AllowableDates(reach) : \E a :
                  r = RequestFor(v, d, a) /\ (a \in Sold(v) \/ a = "None")
             /\ \A v \in Venues : \A d \in AllowableDates(reach) : \A a \in Sold(v) :
                  RequestFor(v, d, a) \in This.requests[reach]
  <2>1. reach \in Nat /\ This.requests[reach] = asked(AllowableDates(reach))
    BY <1>2
  <2>2. ASSUME NEW r \in This.requests[reach]
        PROVE  \E v \in Venues : \E d \in AllowableDates(reach) : \E a :
                 r = RequestFor(v, d, a) /\ (a \in Sold(v) \/ a = "None")
    <3>1. PICK v \in Venues, d \in AllowableDates(reach) : \E a \in IdOf(v) : r = RequestFor(v, d, a)
      BY <1>3, <2>1
    <3>2. \A a \in IdOf(v) : a \in Sold(v) \/ a = "None"
      BY <1>1, <3>1 DEF IdOf
    <3> QED BY <3>1, <3>2
  <2>3. ASSUME NEW v \in Venues, NEW d \in AllowableDates(reach), NEW a \in Sold(v)
        PROVE  RequestFor(v, d, a) \in This.requests[reach]
    <3>1. a \in IdOf(v)
      BY <1>1, <2>3 DEF IdOf
    <3> QED BY <1>4, <2>1, <3>1
  <2> QED BY <2>1, <2>2, <2>3
<1> QED BY <1>5 DEF AsksDaily

LEMMA BetterFamilyDaily ==
  ASSUME crawler \in {"betterBadminton", "betterSquash", "betterPickleball", "betterTennis",
                      "lambethBadminton", "lambethSquash", "haringey", "visionBadminton",
                      "visionSquash"}
  PROVE  AsksDaily
<1>1. CASE crawler = "betterBadminton"
  <2>1. This = BetterCrawler("Badminton")
    BY <1>1 DEF This, CrawlerNamed, BetterBadminton
  <2>2. \A v : SoldAs(v) = ActivitySlugs("Badminton", v)
    BY <1>1, SoldByName DEF ActivitySlugs, DefaultSlugs
  <2> QED BY <2>1, <2>2, BetterAsksDaily
<1>2. CASE crawler = "betterSquash"
  <2>1. This = BetterCrawler("Squash")
    BY <1>2 DEF This, CrawlerNamed, BetterSquash
  <2>2. \A v : SoldAs(v) = ActivitySlugs("Squash", v)
    BY <1>2, SoldByName DEF ActivitySlugs, DefaultSlugs
  <2> QED BY <2>1, <2>2, BetterAsksDaily
<1>3. CASE crawler = "betterPickleball"
  <2>1. This = BetterCrawler("Pickleball")
    BY <1>3 DEF This, CrawlerNamed, BetterPickleball
  <2>2. \A v : SoldAs(v) = ActivitySlugs("Pickleball", v)
    BY <1>3, SoldByName DEF ActivitySlugs, DefaultSlugs
  <2> QED BY <2>1, <2>2, BetterAsksDaily
<1>4. CASE crawler = "betterTennis"
  <2>1. This = BetterCrawler("Tennis")
    BY <1>4 DEF This, CrawlerNamed, BetterTennis
  <2>2. \A v : SoldAs(v) = ActivitySlugs("Tennis", v)
    BY <1>4, SoldByName DEF ActivitySlugs, DefaultSlugs
  <2> QED BY <2>1, <2>2, BetterAsksDaily
<1>5. CASE crawler = "lambethBadminton"
  <2>1. /\ This.api = "better"
        /\ This.requests = [reach \in {6} |-> SameRequests(Venues, AllowableDates(reach), {"main", "second"})]
    BY <1>5 DEF This, CrawlerNamed, ActiveLambethBadminton, FlowCrawler, Crawler, SameRequests
  <2>2. \A v : SoldAs(v) = {"main", "second"}
    BY <1>5, SoldByName
  <2>3. \A v \in Venues : KnowsVenue(v)
    BY <2>1 DEF KnowsVenue
  <2> QED BY <2>1, <2>2, <2>3, SlugsAskDaily
<1>6. CASE crawler = "lambethSquash"
  <2>1. /\ This.api = "better"
        /\ This.requests = [reach \in {6} |-> SameRequests(Venues, AllowableDates(reach), {"main"})]
    BY <1>6 DEF This, CrawlerNamed, ActiveLambethSquash, FlowCrawler, Crawler, SameRequests
  <2>2. \A v : SoldAs(v) = {"main"}
    BY <1>6, SoldByName
  <2>3. \A v \in Venues : KnowsVenue(v)
    BY <2>1 DEF KnowsVenue
  <2> QED BY <2>1, <2>2, <2>3, SlugsAskDaily
<1>7. CASE crawler = "haringey"
  <2>1. /\ This.api = "better"
        /\ This.requests = [reach \in {5, 6} |-> SameRequests(Venues, AllowableDates(reach), {"main"})]
    BY <1>7 DEF This, CrawlerNamed, HaringeyBadminton, FlowCrawler, Crawler, SameRequests
  <2>2. \A v : SoldAs(v) = {"main"}
    BY <1>7, SoldByName
  <2>3. \A v \in Venues : KnowsVenue(v)
    BY <2>1 DEF KnowsVenue
  <2>4. {5, 6} \in SUBSET Nat
    OBVIOUS
  <2> QED BY <2>1, <2>2, <2>3, <2>4, SlugsAskDaily
<1>8. CASE crawler = "visionBadminton"
  <2>1. This = VisionRclBadminton
    BY <1>8 DEF This, CrawlerNamed
  <2>2. \A v : SoldAs(v) = {"main"}
    BY <1>8, SoldByName
  <2>3. /\ This.api = "better"
        /\ This.requests = [reach \in {6} |-> SameRequests(Venues, AllowableDates(reach), {"main"})]
    BY <2>1 DEF VisionRclBadminton, VisionRclRequests, Crawler, SameRequests
  <2>4. \A v \in Venues : KnowsVenue(v)
    BY <2>3 DEF KnowsVenue
  <2> QED BY <2>2, <2>3, <2>4, SlugsAskDaily
<1>9. CASE crawler = "visionSquash"
  <2>1. This = VisionRclSquash
    BY <1>9 DEF This, CrawlerNamed
  <2>2. \A v : SoldAs(v) = {"main", "second"}
    BY <1>9, SoldByName
  <2>3. /\ This.api = "better"
        /\ This.requests = [reach \in {6} |->
                              SameRequests(Venues, AllowableDates(reach), {"main", "second"})]
    BY <2>1 DEF VisionRclSquash, VisionRclRequests, Crawler, SameRequests
  <2>4. \A v \in Venues : KnowsVenue(v)
    BY <2>3 DEF KnowsVenue
  <2> QED BY <2>2, <2>3, <2>4, SlugsAskDaily
<1> QED BY <1>1, <1>2, <1>3, <1>4, <1>5, <1>6, <1>7, <1>8, <1>9

LEMMA MainByIdDaily ==
  ASSUME crawler \in {"eaBadminton", "eaSquash", "southwarkBadminton", "southwarkPickleball",
                      "mytimeBadminton", "mytimeSquash", "playtomicPadel", "playtomicTennis",
                      "playtomicPickleball", "matchiPadel", "matchiTennis", "padelmates"}
  PROVE  AsksDaily
<1>1. \A v : SoldAs(v) = {"main"}
  BY SoldByName
<1>2. /\ This.api \in {"everyoneactive", "southwark", "mytime", "playtomic", "matchi", "padelmates"}
      /\ \/ This.requests = [reach \in {AllDates} |-> IdRequests(AllowableDates(reach))]
         \/ This.requests = [reach \in {AllDates} |-> SameRequests(Mapped, AllowableDates(reach), {"main"})]
         \/ This.requests = [reach \in {6} |-> SameRequests(Mapped, AllowableDates(reach), {"main"})]
  <2>1. CASE crawler = "eaBadminton"
    BY <2>1 DEF This, CrawlerNamed, EveryoneActiveBadminton, Crawler,
           SameRequests, IdRequests
  <2>2. CASE crawler = "eaSquash"
    BY <2>2 DEF This, CrawlerNamed, EveryoneActiveSquash, Crawler,
           SameRequests, IdRequests
  <2>3. CASE crawler = "southwarkBadminton"
    BY <2>3 DEF This, CrawlerNamed, SouthwarkBadminton, SouthwarkCrawler, Crawler,
           SameRequests, IdRequests
  <2>4. CASE crawler = "southwarkPickleball"
    BY <2>4 DEF This, CrawlerNamed, SouthwarkPickleball, SouthwarkCrawler, Crawler,
           SameRequests, IdRequests
  <2>5. CASE crawler = "mytimeBadminton"
    BY <2>5 DEF This, CrawlerNamed, MytimeBadminton, MytimeRequests, Crawler,
           SameRequests, IdRequests
  <2>6. CASE crawler = "mytimeSquash"
    BY <2>6 DEF This, CrawlerNamed, MytimeSquash, MytimeRequests, Crawler,
           SameRequests, IdRequests
  <2>7. CASE crawler = "playtomicPadel"
    BY <2>7 DEF This, CrawlerNamed, PlaytomicPadel, PlaytomicCrawler, Crawler,
           SameRequests, IdRequests
  <2>8. CASE crawler = "playtomicTennis"
    BY <2>8 DEF This, CrawlerNamed, PlaytomicTennis, PlaytomicCrawler, Crawler,
           SameRequests, IdRequests
  <2>9. CASE crawler = "playtomicPickleball"
    BY <2>9 DEF This, CrawlerNamed, PlaytomicPickleball, PlaytomicCrawler, Crawler,
           SameRequests, IdRequests
  <2>10. CASE crawler = "matchiPadel"
    BY <2>10 DEF This, CrawlerNamed, MatchiPadel, MatchiRequests, Crawler,
           SameRequests, IdRequests
  <2>11. CASE crawler = "matchiTennis"
    BY <2>11 DEF This, CrawlerNamed, MatchiTennis, MatchiRequests, Crawler,
           SameRequests, IdRequests
  <2>12. CASE crawler = "padelmates"
    BY <2>12 DEF This, CrawlerNamed, PadelMatesPadel, Crawler,
           SameRequests, IdRequests
  <2> QED BY <2>1, <2>2, <2>3, <2>4, <2>5, <2>6, <2>7, <2>8, <2>9, <2>10, <2>11, <2>12
<1>3. \A v \in Venues : KnowsVenue(v) <=> v \in Mapped
  BY <1>2 DEF KnowsVenue
<1>4. {AllDates} \in SUBSET Nat /\ {6} \in SUBSET Nat /\ Mapped \in SUBSET Venues
  BY DEF AllDates, Mapped
<1> QED BY <1>1, <1>2, <1>3, <1>4, SlugsAskDaily, NoneAsksDaily

\* Which crawler talks to which api.
BetterNames == {"betterBadminton", "betterSquash", "betterPickleball", "betterTennis",
                "lambethBadminton", "lambethSquash", "haringey", "visionBadminton", "visionSquash"}
IdNames     == {"eaBadminton", "eaSquash", "southwarkBadminton", "southwarkPickleball",
                "mytimeBadminton", "mytimeSquash", "playtomicPadel", "playtomicTennis",
                "playtomicPickleball", "padelmates"}
OwnNames    == {"citysports", "uel", "towerhamlets", "decathlon", "courtreserve", "stratford",
                "clubspark"}

LEMMA ApiByName ==
  ASSUME crawler \in Crawlers
  PROVE  \/ crawler \in BetterNames /\ This.api = "better"
         \/ crawler \in IdNames
              /\ This.api \in {"everyoneactive", "southwark", "mytime", "playtomic", "padelmates"}
         \/ crawler \in {"matchiPadel", "matchiTennis"} /\ This.api = "matchi"
         \/ crawler \in {"placesBadminton", "placesPickleball"} /\ This.api = "places"
         \/ crawler \in OwnNames /\ This.api = crawler
<1>1. \A name \in BetterNames : CrawlerNamed[name].api = "better"
  BY BetterFamily DEF BetterNames, CrawlerNamed
<1>2. \A name \in IdNames : CrawlerNamed[name].api \in {"everyoneactive", "southwark", "mytime",
                                                        "playtomic", "padelmates"}
  <2>1. /\ EveryoneActiveBadminton.api = "everyoneactive" /\ EveryoneActiveSquash.api = "everyoneactive"
        /\ SouthwarkBadminton.api = "southwark" /\ SouthwarkPickleball.api = "southwark"
    BY DEF EveryoneActiveBadminton, EveryoneActiveSquash, SouthwarkBadminton, SouthwarkPickleball,
           SouthwarkCrawler, Crawler
  <2>2. MytimeBadminton.api = "mytime" /\ MytimeSquash.api = "mytime" /\ PadelMatesPadel.api = "padelmates"
    BY DEF MytimeBadminton, MytimeSquash, PadelMatesPadel, Crawler
  <2>3. /\ PlaytomicPadel.api = "playtomic" /\ PlaytomicTennis.api = "playtomic"
        /\ PlaytomicPickleball.api = "playtomic"
    BY DEF PlaytomicPadel, PlaytomicTennis, PlaytomicPickleball, PlaytomicCrawler, Crawler
  <2> QED BY <2>1, <2>2, <2>3 DEF IdNames, CrawlerNamed
<1>3. /\ \A name \in {"matchiPadel", "matchiTennis"} : CrawlerNamed[name].api = "matchi"
      /\ \A name \in {"placesBadminton", "placesPickleball"} : CrawlerNamed[name].api = "places"
  <2>1. MatchiPadel.api = "matchi" /\ MatchiTennis.api = "matchi"
    BY DEF MatchiPadel, MatchiTennis, Crawler
  <2>2. PlacesBadminton.api = "places" /\ PlacesPickleball.api = "places"
    BY DEF PlacesBadminton, PlacesPickleball, PlacesCrawler, Crawler
  <2> QED BY <2>1, <2>2 DEF CrawlerNamed
<1>4. \A name \in OwnNames : CrawlerNamed[name].api = name
  <2>1. CitySportsBadminton.api = "citysports" /\ UelBadminton.api = "uel"
    BY DEF CitySportsBadminton, UelBadminton, Crawler
  <2>2. TowerHamletsBadminton.api = "towerhamlets" /\ DecathlonPickleball.api = "decathlon"
    BY DEF TowerHamletsBadminton, DecathlonPickleball, Crawler
  <2>3. CourtReservePickleball.api = "courtreserve" /\ StratfordPadel.api = "stratford"
    BY DEF CourtReservePickleball, StratfordPadel, Crawler
  <2>4. ClubSparkTennis.api = "clubspark"
    BY DEF ClubSparkTennis, Crawler
  <2> QED BY <2>1, <2>2, <2>3, <2>4 DEF OwnNames, CrawlerNamed
<1>5. crawler \in DOMAIN CrawlerNamed
  BY CrawlersAssumption
<1>6. \A name \in DOMAIN CrawlerNamed :
        \/ name \in BetterNames \/ name \in IdNames
        \/ name \in {"matchiPadel", "matchiTennis"} \/ name \in {"placesBadminton", "placesPickleball"}
        \/ name \in OwnNames
  BY DEF CrawlerNamed, BetterNames, IdNames, OwnNames
<1> HIDE DEF BetterNames, IdNames, OwnNames
<1> QED BY <1>1, <1>2, <1>3, <1>4, <1>5, <1>6 DEF This

\* The apis that answer with whatever is played at the site.
WholeSites == {"citysports", "uel", "courtreserve", "clubspark", "stratford"}

\* An availability request of Places Leisure.
OneHallOnly(r) == \E a, h : r.activities = {a} /\ r.halls = {h}

\* A request asks for nothing but what is sold, unless it asks for a whole site.
Meant(r) ==
  /\ This.api \notin WholeSites => \A v \in r.venues : r.activities \cap Activities \subseteq Sold(v)
  /\ This.api = "stratford" => \E v \in Venues : \E d \in Nat : r = WholeDay(v, d)
  /\ This.api = "towerhamlets" => r.dates = {0}
  /\ This.api \in UtcDays => r.dates \subseteq Nat
  /\ This.api = "places" => r.start = Anytime \/ OneHallOnly(r)

\* Every session that is on sale within the crawl's reach is asked for.
AllAskedFor ==
  \A reach \in DOMAIN This.requests : \A s \in OnSale :
    /\ s.venue \in Venues /\ s.activity \in Activities /\ Hall(s.court) \in Halls
    /\ \/ This.api \in {"towerhamlets", "decathlon"}
       \/ FiledUnder(s) \in SearchDates /\ FiledUnder(s) \in Nat /\ FiledUnder(s) < reach
    => \E r \in This.requests[reach] : AsksFor(r, s)

AllMeant == \A reach \in DOMAIN This.requests : \A r \in This.requests[reach] : Meant(r)

LEMMA DailyAsks ==
  ASSUME AsksDaily, This.api \notin WholeSites, This.api \notin {"towerhamlets", "decathlon"}
  PROVE  AllMeant /\ AllAskedFor
<1>1. AllMeant
  <2> SUFFICES ASSUME NEW reach \in DOMAIN This.requests, NEW r \in This.requests[reach]
               PROVE  /\ \A v \in r.venues : r.activities \cap Activities \subseteq Sold(v)
                      /\ r.dates \subseteq Nat /\ r.start = Anytime
    BY DEF AllMeant, Meant, WholeSites
  <2>1. PICK v \in Venues, d \in AllowableDates(reach) : \E a :
          r = RequestFor(v, d, a) /\ (a \in Sold(v) \/ a = "None")
    BY DEF AsksDaily
  <2>2. d \in Nat
    BY DateAssumption DEF AllowableDates
  <2> QED BY <2>1, <2>2 DEF RequestFor, Request, Activities
<1>2. AllAskedFor
  <2> SUFFICES ASSUME NEW reach \in DOMAIN This.requests, NEW s \in OnSale, s.venue \in Venues, Hall(s.court) \in Halls,
                      FiledUnder(s) \in SearchDates, FiledUnder(s) \in Nat, FiledUnder(s) < reach
               PROVE  \E r \in This.requests[reach] : AsksFor(r, s)
    BY DEF AllAskedFor
  <2>1. reach \in Nat /\ FiledUnder(s) \in AllowableDates(reach)
    BY DEF AsksDaily, AllowableDates
  <2>2. s.activity \in Sold(s.venue)
    BY DEF OnSale, Sold
  <2>3. RequestFor(s.venue, FiledUnder(s), s.activity) \in This.requests[reach]
    BY <2>1, <2>2 DEF AsksDaily
  <2>4. AsksFor(RequestFor(s.venue, FiledUnder(s), s.activity), s)
    BY DEF AsksFor, RequestFor, Request
  <2> QED BY <2>3, <2>4
<1> QED BY <1>1, <1>2

LEMMA TowerHamletsAsks ==
  ASSUME crawler = "towerhamlets"
  PROVE  AllMeant /\ AllAskedFor
<1>1. This.api = "towerhamlets" /\ \A v : SoldAs(v) = {"main", "second"}
  BY SoldByName DEF This, CrawlerNamed, TowerHamletsBadminton, Crawler
<1>2. \A v : KnowsVenue(v) <=> v \in Mapped
  BY <1>1 DEF KnowsVenue
<1>3. \A reach \in DOMAIN This.requests : This.requests[reach] = TowerHamletsRequests
  BY DEF This, CrawlerNamed, TowerHamletsBadminton, Crawler
<1>4. \A r \in TowerHamletsRequests : \E v \in Mapped : \E a \in {"main", "second"} : r = RequestFor(v, 0, a)
  BY DEF TowerHamletsRequests, PerActivity
<1>5. ASSUME NEW v \in Mapped, NEW a \in {"main", "second"}
      PROVE  RequestFor(v, 0, a) \in TowerHamletsRequests
  <2> DEFINE part  == {RequestFor(v, 0, b) : b \in {"main", "second"}}
             parts == {{RequestFor(w, e, b) : b \in {"main", "second"}} : w \in Mapped, e \in {0}}
  <2>1. part \in parts /\ RequestFor(v, 0, a) \in part
    OBVIOUS
  <2>2. TowerHamletsRequests = UNION parts
    BY DEF TowerHamletsRequests, PerActivity
  <2> HIDE DEF part, parts
  <2> QED BY <2>1, <2>2
<1>6. AllMeant
  <2> SUFFICES ASSUME NEW reach \in DOMAIN This.requests, NEW r \in This.requests[reach]
               PROVE  Meant(r)
    BY DEF AllMeant
  <2>1. PICK v \in Mapped, a \in {"main", "second"} : r = RequestFor(v, 0, a)
    BY <1>3, <1>4
  <2> QED BY <1>1, <1>2, <2>1 DEF Meant, UtcDays, Sold, RequestFor, Request
<1>7. AllAskedFor
  <2> SUFFICES ASSUME NEW reach \in DOMAIN This.requests, NEW s \in OnSale, s.venue \in Venues, Hall(s.court) \in Halls
               PROVE  \E r \in This.requests[reach] : AsksFor(r, s)
    BY DEF AllAskedFor
  <2>1. s.venue \in Mapped /\ s.activity \in {"main", "second"}
    BY <1>1, <1>2 DEF OnSale
  <2>2. RequestFor(s.venue, 0, s.activity) \in This.requests[reach]
    BY <1>3, <1>5, <2>1
  <2>3. AsksFor(RequestFor(s.venue, 0, s.activity), s)
    BY <1>1 DEF AsksFor, RequestFor, Request
  <2> QED BY <2>2, <2>3
<1> QED BY <1>6, <1>7

LEMMA CitySportsAsks ==
  ASSUME crawler = "citysports"
  PROVE  AllMeant /\ AllAskedFor
<1>1. This.api = "citysports" /\ \A reach \in DOMAIN This.requests : reach \in Nat
  BY DEF This, CrawlerNamed, CitySportsBadminton, Crawler, AllDates
<1>2. \A reach \in DOMAIN This.requests :
        This.requests[reach] = {WholeDay(v, d) : v \in Venues, d \in AllowableDates(reach)}
  BY DEF This, CrawlerNamed, CitySportsBadminton, Crawler, PerVenueAndDate
<1>3. AllMeant
  <2> SUFFICES ASSUME NEW reach \in DOMAIN This.requests, NEW r \in This.requests[reach]
               PROVE  Meant(r)
    BY DEF AllMeant
  <2>1. PICK v \in Venues, d \in AllowableDates(reach) : r = WholeDay(v, d)
    BY <1>2
  <2>2. d \in Nat
    BY DateAssumption DEF AllowableDates
  <2> QED BY <1>1, <2>1, <2>2 DEF Meant, UtcDays, WholeSites
<1>4. AllAskedFor
  <2> SUFFICES ASSUME NEW reach \in DOMAIN This.requests, NEW s \in OnSale, s.venue \in Venues, Hall(s.court) \in Halls,
                      s.activity \in Activities, FiledUnder(s) \in SearchDates,
                      FiledUnder(s) \in Nat, FiledUnder(s) < reach
               PROVE  \E r \in This.requests[reach] : AsksFor(r, s)
    BY <1>1 DEF AllAskedFor
  <2>1. FiledUnder(s) \in AllowableDates(reach)
    BY <1>1 DEF AllowableDates
  <2>2. AsksFor(WholeDay(s.venue, FiledUnder(s)), s)
    BY DEF AsksFor, WholeDay, Request
  <2> QED BY <1>2, <2>1, <2>2
<1> QED BY <1>3, <1>4

LEMMA UelAsks ==
  ASSUME crawler = "uel"
  PROVE  AllMeant /\ AllAskedFor
<1>1. This.api = "uel" /\ \A reach \in DOMAIN This.requests : reach \in Nat
  BY DEF This, CrawlerNamed, UelBadminton, Crawler, AllDates
<1>2. \A reach \in DOMAIN This.requests :
        This.requests[reach] = {WholeDay(v, d) : v \in Venues, d \in AllowableDates(reach)}
  BY DEF This, CrawlerNamed, UelBadminton, Crawler, PerVenueAndDate
<1>3. AllMeant
  <2> SUFFICES ASSUME NEW reach \in DOMAIN This.requests, NEW r \in This.requests[reach]
               PROVE  Meant(r)
    BY DEF AllMeant
  <2>1. PICK v \in Venues, d \in AllowableDates(reach) : r = WholeDay(v, d)
    BY <1>2
  <2>2. d \in Nat
    BY DateAssumption DEF AllowableDates
  <2> QED BY <1>1, <2>1, <2>2 DEF Meant, UtcDays, WholeSites
<1>4. AllAskedFor
  <2> SUFFICES ASSUME NEW reach \in DOMAIN This.requests, NEW s \in OnSale, s.venue \in Venues, Hall(s.court) \in Halls,
                      s.activity \in Activities, FiledUnder(s) \in SearchDates,
                      FiledUnder(s) \in Nat, FiledUnder(s) < reach
               PROVE  \E r \in This.requests[reach] : AsksFor(r, s)
    BY <1>1 DEF AllAskedFor
  <2>1. FiledUnder(s) \in AllowableDates(reach)
    BY <1>1 DEF AllowableDates
  <2>2. AsksFor(WholeDay(s.venue, FiledUnder(s)), s)
    BY DEF AsksFor, WholeDay, Request
  <2> QED BY <1>2, <2>1, <2>2
<1> QED BY <1>3, <1>4

LEMMA StratfordAsks ==
  ASSUME crawler = "stratford"
  PROVE  AllMeant /\ AllAskedFor
<1>1. This.api = "stratford" /\ \A reach \in DOMAIN This.requests : reach \in Nat
  BY DEF This, CrawlerNamed, StratfordPadel, Crawler, AllDates
<1>2. \A reach \in DOMAIN This.requests :
        This.requests[reach] = {WholeDay(v, d) : v \in Venues, d \in AllowableDates(reach)}
  BY DEF This, CrawlerNamed, StratfordPadel, Crawler, PerVenueAndDate
<1>3. AllMeant
  <2> SUFFICES ASSUME NEW reach \in DOMAIN This.requests, NEW r \in This.requests[reach]
               PROVE  Meant(r)
    BY DEF AllMeant
  <2>1. PICK v \in Venues, d \in AllowableDates(reach) : r = WholeDay(v, d)
    BY <1>2
  <2>2. d \in Nat
    BY DateAssumption DEF AllowableDates
  <2> QED BY <1>1, <2>1, <2>2 DEF Meant, UtcDays, WholeSites
<1>4. AllAskedFor
  <2> SUFFICES ASSUME NEW reach \in DOMAIN This.requests, NEW s \in OnSale, s.venue \in Venues, Hall(s.court) \in Halls,
                      s.activity \in Activities, FiledUnder(s) \in SearchDates,
                      FiledUnder(s) \in Nat, FiledUnder(s) < reach
               PROVE  \E r \in This.requests[reach] : AsksFor(r, s)
    BY <1>1 DEF AllAskedFor
  <2>1. FiledUnder(s) \in AllowableDates(reach)
    BY <1>1 DEF AllowableDates
  <2>2. AsksFor(WholeDay(s.venue, FiledUnder(s)), s)
    BY DEF AsksFor, WholeDay, Request
  <2> QED BY <1>2, <2>1, <2>2
<1> QED BY <1>3, <1>4

LEMMA CourtReserveAsks ==
  ASSUME crawler = "courtreserve"
  PROVE  AllMeant /\ AllAskedFor
<1> DEFINE ask(d) == Request(Venues, {d}, Activities)
<1>1. This.api = "courtreserve" /\ \A reach \in DOMAIN This.requests : reach \in Nat
  BY DEF This, CrawlerNamed, CourtReservePickleball, Crawler, AllDates
<1>2. \A reach \in DOMAIN This.requests :
        This.requests[reach] = {ask(d) : d \in AllowableDates(reach)}
  BY DEF This, CrawlerNamed, CourtReservePickleball, Crawler
<1>3. \A s \in OnSale : s.venue \in Venues /\ s.activity \in Activities /\ Hall(s.court) \in Halls
                          => AsksFor(ask(FiledUnder(s)), s)
  BY DEF AsksFor, Request
<1> HIDE DEF ask
<1>4. AllMeant
  BY <1>1 DEF AllMeant, Meant, UtcDays, WholeSites
<1>5. AllAskedFor
  <2> SUFFICES ASSUME NEW reach \in DOMAIN This.requests, NEW s \in OnSale, s.venue \in Venues, Hall(s.court) \in Halls,
                      s.activity \in Activities, FiledUnder(s) \in SearchDates,
                      FiledUnder(s) \in Nat, FiledUnder(s) < reach
               PROVE  \E r \in This.requests[reach] : AsksFor(r, s)
    BY <1>1 DEF AllAskedFor
  <2>1. FiledUnder(s) \in AllowableDates(reach)
    BY <1>1 DEF AllowableDates
  <2> QED BY <1>2, <1>3, <2>1
<1> QED BY <1>4, <1>5

LEMMA PlacesAsks ==
  ASSUME crawler \in {"placesBadminton", "placesPickleball"}
  PROVE  AllMeant /\ AllAskedFor
<1> DEFINE ask(v, D) == Request({v}, D, {"main", "second"})
<1>1. PICK sport : This = PlacesCrawler(sport)
  BY DEF This, CrawlerNamed, PlacesBadminton, PlacesPickleball
<1>2. This.api = "places" /\ \A reach \in DOMAIN This.requests : reach \in Nat
  BY <1>1 DEF PlacesCrawler, Crawler, AllDates
<1>3. \A reach \in DOMAIN This.requests :
        This.requests[reach] = {ask(v, AllowableDates(reach)) : v \in Mapped}
  BY <1>1 DEF PlacesCrawler, Crawler
<1>4. \A v : SoldAs(v) = {"main", "second"} /\ (KnowsVenue(v) <=> v \in Mapped)
  BY <1>2, SoldByName DEF KnowsVenue
<1>5. \A v, D : /\ ask(v, D).venues = {v} /\ ask(v, D).dates = D /\ ask(v, D).start = Anytime /\ ask(v, D).halls = Halls
                /\ ask(v, D).activities = {"main", "second"}
  BY DEF Request
<1> HIDE DEF ask
<1>6. AllMeant
  <2> SUFFICES ASSUME NEW reach \in DOMAIN This.requests, NEW r \in This.requests[reach]
               PROVE  Meant(r)
    BY DEF AllMeant
  <2>1. PICK v \in Mapped : r = ask(v, AllowableDates(reach))
    BY <1>3
  <2> QED BY <1>2, <1>4, <1>5, <2>1 DEF Meant, UtcDays, Sold
<1>7. AllAskedFor
  <2> SUFFICES ASSUME NEW reach \in DOMAIN This.requests, NEW s \in OnSale, s.venue \in Venues, Hall(s.court) \in Halls,
                      s.activity \in Activities, FiledUnder(s) \in SearchDates,
                      FiledUnder(s) \in Nat, FiledUnder(s) < reach
               PROVE  \E r \in This.requests[reach] : AsksFor(r, s)
    BY <1>2 DEF AllAskedFor
  <2>1. FiledUnder(s) \in AllowableDates(reach)
    BY <1>2 DEF AllowableDates
  <2>2. s.venue \in Mapped /\ s.activity \in {"main", "second"}
    BY <1>4 DEF OnSale
  <2>3. AsksFor(ask(s.venue, AllowableDates(reach)), s)
    BY <1>5, <2>1, <2>2 DEF AsksFor
  <2> QED BY <1>3, <2>2, <2>3
<1> QED BY <1>6, <1>7

LEMMA DecathlonAsks ==
  ASSUME crawler = "decathlon"
  PROVE  AllMeant /\ AllAskedFor
<1> DEFINE d(reach) == Min(AllowableDates(reach))
           asked(e) == UNION {{RequestFor(v, f, a) : a \in {"main", "second"}} : v \in Venues, f \in {e}}
<1>1. This.api = "decathlon" /\ \A v : SoldAs(v) = {"main", "second"}
  BY SoldByName DEF This, CrawlerNamed, DecathlonPickleball, Crawler
<1>2. \A v : KnowsVenue(v)
  BY <1>1 DEF KnowsVenue
<1>3. \A reach \in DOMAIN This.requests : This.requests[reach] = asked(d(reach))
  BY DEF This, CrawlerNamed, DecathlonPickleball, Crawler, PerActivity
<1> HIDE DEF d
<1>4. ASSUME NEW e, NEW r \in asked(e)
      PROVE  \E v \in Venues : \E a \in {"main", "second"} : r = RequestFor(v, e, a)
  OBVIOUS
<1>5. ASSUME NEW e, NEW v \in Venues, NEW a \in {"main", "second"}
      PROVE  RequestFor(v, e, a) \in asked(e)
  <2> DEFINE part  == {RequestFor(v, e, b) : b \in {"main", "second"}}
             parts == {{RequestFor(w, f, b) : b \in {"main", "second"}} : w \in Venues, f \in {e}}
  <2>1. part \in parts /\ RequestFor(v, e, a) \in part
    OBVIOUS
  <2>2. asked(e) = UNION parts
    OBVIOUS
  <2> HIDE DEF asked, part, parts
  <2> QED BY <2>1, <2>2
<1> HIDE DEF asked
<1>6. AllMeant
  <2> SUFFICES ASSUME NEW reach \in DOMAIN This.requests, NEW r \in This.requests[reach]
               PROVE  Meant(r)
    BY DEF AllMeant
  <2>1. PICK v \in Venues, a \in {"main", "second"} : r = RequestFor(v, d(reach), a)
    BY <1>3, <1>4
  <2> QED BY <1>1, <1>2, <2>1 DEF Meant, UtcDays, Sold, RequestFor, Request
<1>7. AllAskedFor
  <2> SUFFICES ASSUME NEW reach \in DOMAIN This.requests, NEW s \in OnSale, s.venue \in Venues, Hall(s.court) \in Halls
               PROVE  \E r \in This.requests[reach] : AsksFor(r, s)
    BY DEF AllAskedFor
  <2>1. s.activity \in {"main", "second"}
    BY <1>1 DEF OnSale
  <2>2. RequestFor(s.venue, d(reach), s.activity) \in This.requests[reach]
    BY <1>3, <1>5, <2>1
  <2>3. AsksFor(RequestFor(s.venue, d(reach), s.activity), s)
    BY <1>1 DEF AsksFor, RequestFor, Request
  <2> QED BY <2>2, <2>3
<1> QED BY <1>6, <1>7

\* The dates from the first to the last of some dates hold every one of them.
LEMMA DatesInRange ==
  ASSUME NEW D \in SUBSET Nat, NEW b \in Nat, \A n \in D : n <= b, NEW d \in D
  PROVE  d \in Min(D)..Max(D)
<1>1. \E m \in D : \A n \in D : m <= n
  BY LeastNumber
<1>2. \E m \in D : \A n \in D : n <= m
  <2> DEFINE Bounds == {n \in Nat : \A e \in D : e <= n}
  <2>1. PICK m \in Bounds : \A n \in Bounds : m <= n
    <3>1. b \in Bounds /\ Bounds \in SUBSET Nat
      OBVIOUS
    <3> HIDE DEF Bounds
    <3> QED BY <3>1, LeastNumber
  <2>2. CASE m \in D
    BY <2>1, <2>2
  <2>3. CASE m \notin D
    <3>1. \A e \in D : e \in Nat /\ e < m
      BY <2>1, <2>3
    <3>2. m - 1 \in Nat /\ \A e \in D : e <= m - 1
      BY <2>1, <3>1
    <3>3. m - 1 \in Bounds
      BY <3>2
    <3> QED BY <2>1, <3>3
  <2> QED BY <2>2, <2>3
<1>3. Min(D) \in D /\ Min(D) <= d
  BY <1>1 DEF Min
<1>4. Max(D) \in D /\ d <= Max(D)
  BY <1>2 DEF Max
<1> QED BY <1>3, <1>4

LEMMA ClubSparkAsks ==
  ASSUME crawler = "clubspark"
  PROVE  AllMeant /\ AllAskedFor
<1> DEFINE ask(v, D) == Request({v}, Min(D)..Max(D), Activities)
<1>1. This.api = "clubspark" /\ \A reach \in DOMAIN This.requests : reach \in Nat
  BY DEF This, CrawlerNamed, ClubSparkTennis, Crawler, AllDates
<1>2. \A reach \in DOMAIN This.requests :
        This.requests[reach] = {ask(v, AllowableDates(reach)) : v \in Venues}
  BY DEF This, CrawlerNamed, ClubSparkTennis, Crawler
<1>3. \A v, D : /\ ask(v, D).venues = {v} /\ ask(v, D).dates = Min(D)..Max(D)
                /\ ask(v, D).start = Anytime /\ ask(v, D).activities = Activities
                /\ ask(v, D).halls = Halls
  BY DEF Request
<1> HIDE DEF ask
<1>4. AllMeant
  BY <1>1 DEF AllMeant, Meant, UtcDays, WholeSites
<1>5. AllAskedFor
  <2> SUFFICES ASSUME NEW reach \in DOMAIN This.requests, NEW s \in OnSale, s.venue \in Venues, Hall(s.court) \in Halls,
                      s.activity \in Activities, FiledUnder(s) \in SearchDates,
                      FiledUnder(s) \in Nat, FiledUnder(s) < reach
               PROVE  \E r \in This.requests[reach] : AsksFor(r, s)
    BY <1>1 DEF AllAskedFor
  <2>1. /\ FiledUnder(s) \in AllowableDates(reach) /\ AllowableDates(reach) \in SUBSET Nat
        /\ reach \in Nat /\ \A n \in AllowableDates(reach) : n <= reach
    BY <1>1 DEF AllowableDates
  <2>2. FiledUnder(s) \in Min(AllowableDates(reach))..Max(AllowableDates(reach))
    BY <2>1, DatesInRange
  <2>3. AsksFor(ask(s.venue, AllowableDates(reach)), s)
    <3>1. /\ ask(s.venue, AllowableDates(reach)).venues = {s.venue}
          /\ ask(s.venue, AllowableDates(reach)).dates
               = Min(AllowableDates(reach))..Max(AllowableDates(reach))
          /\ ask(s.venue, AllowableDates(reach)).start = Anytime
          /\ ask(s.venue, AllowableDates(reach)).halls = Halls
          /\ ask(s.venue, AllowableDates(reach)).activities = Activities
      BY <1>3
    <3>2. FiledUnder(s) \in ask(s.venue, AllowableDates(reach)).dates
      BY <2>2, <3>1, Zenon
    <3> QED BY <3>1, <3>2 DEF AsksFor
  <2> QED BY <1>2, <2>3
<1> QED BY <1>4, <1>5

LEMMA RequestsMeantAndWhole ==
  ASSUME crawler \in Crawlers
  PROVE  AllMeant /\ AllAskedFor
<1>1. CASE crawler \in BetterNames /\ This.api = "better"
  BY <1>1, BetterFamilyDaily, DailyAsks DEF BetterNames, WholeSites
<1>2. CASE crawler \in IdNames \cup {"matchiPadel", "matchiTennis"}
  <2>1. This.api \notin WholeSites /\ This.api \notin {"towerhamlets", "decathlon"}
    BY <1>2, ApiByName DEF IdNames, BetterNames, OwnNames, WholeSites
  <2>2. AsksDaily
    BY <1>2, MainByIdDaily DEF IdNames
  <2> QED BY <2>1, <2>2, DailyAsks
<1>3. CASE crawler \in {"placesBadminton", "placesPickleball"}
  BY <1>3, PlacesAsks
<1>4. CASE crawler \in OwnNames
  BY <1>4, CitySportsAsks, UelAsks, StratfordAsks, CourtReserveAsks, DecathlonAsks, ClubSparkAsks,
     TowerHamletsAsks DEF OwnNames
<1> QED BY <1>1, <1>2, <1>3, <1>4, ApiByName

-----------------------------------------------------------------------------
(* A listing tells no more than its sessions have, and what is free when an  *)
(* answer is parsed is on a listing.                                         *)

MostOK ==
  /\ most \in [Sessions -> Nat]
  /\ \A s \in Sessions : places[s] <= most[s]

OneEnd ==
  \A s, t \in Sessions :
    (/\ s.venue = t.venue /\ s.activity = t.activity /\ s.day = t.day /\ s.start = t.start
     /\ \/ crawler \in {"matchiPadel", "matchiTennis"}
        \/ crawler \in {"placesBadminton", "placesPickleball"} /\ Hall(s.court) = Hall(t.court))
    => s.len = t.len

\* The sessions of a court follow each other.
CourtsFit ==
  \A s, t \in Sessions :
    s # t /\ s.venue = t.venue /\ s.court = t.court /\ s.day = t.day =>
      EndOf(s) <= t.start \/ EndOf(t) <= s.start

TellingOK == PlatformOK /\ SessionsFit /\ CourtsFit /\ OneEnd /\ MostOK

Offers(l, s) ==
  /\ l.spaces > 0 /\ l.venue = s.venue /\ l.date = FiledUnder(s)
  /\ IF This.api = "stratford"
     THEN <<s.activity, s.court>> \in l.of /\ l.start <= s.start /\ EndOf(s) <= l.end
     ELSE l.start = s.start /\ l.end = EndHour(s)

\* A listing of a crawler that lists slots, and a row of a Stratford court.
IsSlot(l) ==
  /\ l.venue \in Venues /\ l.date \in Nat
  /\ l.start \in 0..HoursPerDay - 1 /\ l.end \in 0..HoursPerDay - 1

SoundSlot(l) ==
  /\ IsSlot(l) /\ l.spaces \in Nat
  /\ l.spaces > 0 => l.spaces <= SumFunctionOnSet(SpacesAt(most), About(l))

SoundRow(l) ==
  /\ l.venue \in Venues /\ l.date \in Nat /\ l.spaces \in Nat
  /\ Block(<<l.start, l.end>>)
  /\ l.spaces > 0 => \A s \in OnSale :
       (s.venue = l.venue /\ s.day = l.date /\ <<s.activity, s.court>> \in l.of
          /\ s.start < l.end /\ l.start < EndOf(s)) => most[s] > 0

Sound(l) == IF This.api = "stratford" THEN SoundRow(l) ELSE SoundSlot(l)

\* What the listings made of an answer have to be.
Tells(T, r) ==
  /\ \A l \in T : Sound(l)
  /\ \A s \in OnSale : AsksFor(r, s) /\ places[s] > 0 => \E l \in T : Offers(l, s)

\* The terms on F are at least one.
LEMMA OnesAddUp ==
  ASSUME NEW A, IsFiniteSet(A), NEW F \in SUBSET A, NEW f, \A s \in A : f[s] \in Nat,
         \A s \in F : f[s] > 0
  PROVE  Cardinality(F) <= SumFunctionOnSet(f, A)
<1> DEFINE sum(U) == SumFunctionOnSet(f, U)
           Bad == {T \in FiniteSubsetsOf(A) : ~(Cardinality(T \cap F) <= sum(T))}
<1>1. ASSUME Bad # {} PROVE FALSE
  <2>1. PICK T \in Bad : \A U \in Bad : <<U, T>> \notin StrictSubsetOrdering(A)
    BY <1>1, FS_StrictSubsetOrderingWellFounded, WFMin
  <2>2. T \in SUBSET A /\ IsFiniteSet(T) /\ ~(Cardinality(T \cap F) <= sum(T))
    BY <2>1 DEF FiniteSubsetsOf
  <2>3. T # {}
    <3>1. ASSUME T = {} PROVE FALSE
      <4>1. T \cap F = {}
        BY <3>1
      <4> QED BY <2>2, <3>1, <4>1, SumOfNone, FS_EmptySet
    <3> QED BY <3>1
  <2>4. PICK x \in T : TRUE
    BY <2>3
  <2> DEFINE U == T \ {x}
  <2>5. IsFiniteSet(U) /\ IsFiniteSet(U \cap F)
    BY <2>2, FS_Subset
  <2>6. Cardinality(U \cap F) <= sum(U)
    <3>1. U \in FiniteSubsetsOf(A) /\ <<U, T>> \in StrictSubsetOrdering(A)
      BY <2>2, <2>4, <2>5 DEF FiniteSubsetsOf, StrictSubsetOrdering
    <3> HIDE DEF U
    <3> QED BY <2>1, <3>1
  <2>7. SumsWell(f, T) /\ SumsWell(f, U)
    <3>1. SumsWell(f, T)
      BY <2>2, Summing
    <3>2. SumsWell(f, U)
      BY <2>2, <2>5, Summing
    <3> QED BY <3>1, <3>2
  <2>8. sum(T) = f[x] + sum(U) /\ sum(U) \in Nat /\ f[x] \in Nat
    BY <2>2, <2>4, <2>7 DEF SumsWell
  <2>9. Cardinality(U \cap F) \in Nat /\ Cardinality(T \cap F) \in Nat
    BY <2>2, <2>5, FS_CardinalityType, FS_Subset
  <2>10. Cardinality(T \cap F) <= f[x] + Cardinality(U \cap F)
    <3>1. CASE x \in F
      <4>1. T \cap F = (U \cap F) \cup {x} /\ x \notin U \cap F
        BY <2>4, <3>1
      <4>2. Cardinality(T \cap F) = Cardinality(U \cap F) + 1
        BY <2>5, <4>1, FS_AddElement
      <4>3. f[x] > 0
        BY <3>1
      <4> HIDE DEF U
      <4> QED BY <2>8, <2>9, <4>2, <4>3
    <3>2. CASE x \notin F
      <4>1. T \cap F = U \cap F
        BY <2>2, <2>4, <3>2
      <4>2. Cardinality(T \cap F) = Cardinality(U \cap F)
        BY <4>1
      <4>3. f[x] \in Nat /\ Cardinality(U \cap F) \in Nat
        BY <2>8, <2>9
      <4> HIDE DEF U
      <4> QED BY <4>2, <4>3
    <3> QED BY <3>1, <3>2
  <2> HIDE DEF U
  <2> QED BY <2>2, <2>6, <2>8, <2>10, <2>9
<1>2. Cardinality(A \cap F) <= sum(A)
  BY <1>1 DEF FiniteSubsetsOf
<1>3. A \cap F = F
  OBVIOUS
<1> QED BY <1>2, <1>3

LEMMA AboutFinite ==
  ASSUME TellingOK, NEW l, NEW G, G \subseteq About(l)
  PROVE  /\ About(l) \subseteq Sessions /\ IsFiniteSet(About(l)) /\ IsFiniteSet(G)
         /\ \A s \in G : places[s] \in Nat
<1>1. About(l) \subseteq Sessions
  BY DEF About, OnSale
<1>2. IsFiniteSet(Sessions) /\ \A s \in Sessions : places[s] \in Nat
  BY DEF TellingOK, PlatformOK
<1>3. IsFiniteSet(About(l))
  BY <1>1, <1>2, FS_Subset
<1>4. IsFiniteSet(G)
  BY <1>3, FS_Subset
<1> QED BY <1>1, <1>2, <1>3, <1>4

\* What is about a session is filed under a date of the crawl, or under its own.
LEMMA AboutIsSlot ==
  ASSUME TellingOK, NEW l, NEW s \in About(l), This.api \in UtcDays => l.date \in Nat
  PROVE  IsSlot(l)
<1>1. /\ s \in Sessions /\ s.venue = l.venue /\ FiledUnder(s) = l.date
      /\ s.start = l.start /\ EndHour(s) = l.end
  BY DEF About, OnSale
<1>2. s.venue \in Venues /\ s.day \in Nat
  BY <1>1 DEF TellingOK, PlatformOK, SessionType
<1>3. s.start \in 0..HoursPerDay - 1 /\ EndHour(s) \in 0..HoursPerDay - 1
  BY <1>1, HoursOf DEF TellingOK
<1>4. This.api \notin UtcDays => l.date \in Nat
  BY <1>1, <1>2, Filed DEF TellingOK
<1> QED BY <1>1, <1>2, <1>3, <1>4 DEF IsSlot

\* A slot that adds up the places of some of the sessions it is about.
LEMMA PlacesTold ==
  ASSUME TellingOK, This.api \notin CountsCourts, This.api # "stratford",
         NEW l, This.api \in UtcDays => l.date \in Nat,
         NEW G, G # {}, G \subseteq About(l), l.spaces = PlacesIn(G)
  PROVE  Sound(l) /\ \A s \in G : places[s] > 0 => Offers(l, s)
<1>1. /\ IsFiniteSet(About(l)) /\ IsFiniteSet(G) /\ About(l) \subseteq Sessions
      /\ \A s \in G : places[s] \in Nat
  BY AboutFinite
<1>2. \A s \in About(l) : SpacesAt(most)[s] = most[s] /\ most[s] \in Nat /\ places[s] <= most[s]
  BY <1>1, SpacesFacts DEF SpacesAt, TellingOK, MostOK
<1>3. PlacesIn(G) <= SumFunctionOnSet(SpacesAt(most), About(l))
  <2>1. \A s \in G : places[s] \in Nat /\ places[s] <= SpacesAt(most)[s]
    BY <1>1, <1>2
  <2>2. \A s \in About(l) : SpacesAt(most)[s] \in Nat
    BY <1>2
  <2>3. SumFunctionOnSet(places, G) <= SumFunctionOnSet(SpacesAt(most), About(l))
    BY <1>1, <2>1, <2>2, SumMonotone
  <2> QED BY <2>3 DEF PlacesIn
<1>4. SumsWell(places, G) /\ \A s \in G : SumsWell(places, G \ {s})
  <2>1. SumsWell(places, G)
    BY <1>1, Summing
  <2>2. ASSUME NEW s \in G PROVE SumsWell(places, G \ {s})
    <3>1. IsFiniteSet(G \ {s}) /\ \A t \in G \ {s} : places[t] \in Nat
      BY <1>1, FS_Subset
    <3> QED BY <3>1, Summing
  <2> QED BY <2>1, <2>2
<1>5. l.spaces \in Nat /\ \A s \in G : places[s] > 0 => l.spaces > 0
  <2>1. l.spaces \in Nat
    BY <1>4 DEF SumsWell, PlacesIn
  <2>2. ASSUME NEW s \in G, places[s] > 0 PROVE l.spaces > 0
    <3>1. l.spaces = places[s] + SumFunctionOnSet(places, G \ {s})
      BY <1>4 DEF SumsWell, PlacesIn
    <3>2. SumFunctionOnSet(places, G \ {s}) \in Nat /\ places[s] \in Nat
      BY <1>1, <1>4 DEF SumsWell
    <3> QED BY <2>2, <3>1, <3>2
  <2> QED BY <2>1, <2>2
<1>6. IsSlot(l)
  BY AboutIsSlot
<1>7. Sound(l)
  BY <1>3, <1>5, <1>6 DEF Sound, SoundSlot
<1>8. \A s \in G : places[s] > 0 => Offers(l, s)
  BY <1>5 DEF About, Offers
<1> QED BY <1>7, <1>8

\* One that counts the free courts among them.
LEMMA CourtsTold ==
  ASSUME TellingOK, This.api \in CountsCourts, NEW l, This.api \in UtcDays => l.date \in Nat,
         NEW G, G # {}, G \subseteq About(l),
         NEW F, F = {s \in G : places[s] > 0}, l.spaces = Cardinality(F)
  PROVE  Sound(l) /\ \A s \in G : places[s] > 0 => Offers(l, s)
<1>1. /\ IsFiniteSet(About(l)) /\ IsFiniteSet(F) /\ About(l) \subseteq Sessions
      /\ F \in SUBSET About(l) /\ \A s \in G : places[s] \in Nat
  <2>1. IsFiniteSet(About(l)) /\ About(l) \subseteq Sessions /\ \A s \in G : places[s] \in Nat
    BY AboutFinite
  <2>2. F \in SUBSET About(l)
    OBVIOUS
  <2>3. IsFiniteSet(F)
    BY <2>1, <2>2, FS_Subset
  <2> QED BY <2>1, <2>2, <2>3
<1>2. This.api # "stratford"
  BY DEF CountsCourts
<1>3. \A s \in About(l) : /\ SpacesAt(most)[s] \in Nat
                          /\ places[s] > 0 => SpacesAt(most)[s] > 0
  <2> TAKE s \in About(l)
  <2>1. most[s] \in Nat /\ places[s] \in Nat /\ places[s] <= most[s] /\ s \in Sessions
    BY <1>1 DEF TellingOK, MostOK, PlatformOK
  <2>2. SpacesAt(most)[s] = IF most[s] = 0 THEN 0 ELSE 1
    BY <2>1, SpacesFacts DEF SpacesAt
  <2> QED BY <2>1, <2>2
<1>4. Cardinality(F) <= SumFunctionOnSet(SpacesAt(most), About(l))
  BY <1>1, <1>3, OnesAddUp
<1>5. l.spaces \in Nat /\ \A s \in G : places[s] > 0 => l.spaces > 0
  <2>1. Cardinality(F) \in Nat /\ (Cardinality(F) = 0 <=> F = {})
    BY <1>1, FS_CardinalityType, FS_EmptySet
  <2> QED BY <2>1
<1>6. IsSlot(l)
  BY AboutIsSlot
<1>7. Sound(l)
  BY <1>2, <1>4, <1>5, <1>6 DEF Sound, SoundSlot
<1>8. \A s \in G : places[s] > 0 => Offers(l, s)
  BY <1>2, <1>5 DEF About, Offers
<1> QED BY <1>7, <1>8

\* An answer holds what it was asked for, if that can be booked.
LEMMA AnswerHolds ==
  ASSUME TellingOK, This.api \in Apis, NEW r, Meant(r),
         NEW s \in OnSale, AsksFor(r, s), places[s] > 0
  PROVE  s \in Answer(This.api, r)
<1>1. s \in Asked(r) /\ s \in Sessions /\ (This.api = "stratford" => InGrid(s))
  BY DEF Asked, AsksFor, OnSale
<1>2. /\ s.day \in Nat /\ (This.api \in UtcDays => Utc(s) \div HoursPerDay = FiledUnder(s))
      /\ (This.api \notin UtcDays => FiledUnder(s) = s.day)
  BY <1>1, Filed DEF TellingOK, PlatformOK, SessionType
<1>3. CASE This.api \in {"everyoneactive", "southwark", "playtomic", "padelmates"}
  BY <1>1, <1>2, <1>3 DEF Answer, AsksFor, UtcDays
<1>4. CASE This.api = "mytime"
  <2>1. s.day \in r.dates
    BY <1>2, <1>4 DEF AsksFor, UtcDays
  <2>2. \E d \in r.dates : s.day >= d
    BY <1>2, <2>1
  <2> QED BY <1>1, <1>4, <2>2 DEF Answer
<1>5. CASE This.api = "towerhamlets"
  <2>1. ~s.blocked /\ r.dates = {0}
    BY <1>5 DEF OnSale, Meant
  <2> QED BY <1>1, <1>2, <1>5, <2>1 DEF Answer
<1>6. CASE This.api = "decathlon"
  BY <1>1, <1>6 DEF Answer
<1>7. CASE This.api \in {"better", "citysports", "uel", "places", "courtreserve", "matchi",
                         "stratford", "clubspark"}
  <2>1. s.day \in r.dates
    BY <1>2, <1>7 DEF AsksFor, UtcDays
  <2> QED BY <1>1, <1>7, <2>1 DEF Answer
<1> QED BY <1>3, <1>4, <1>5, <1>6, <1>7 DEF Apis

\* And nothing that is not sold, unless the whole site is asked for.
LEMMA AnswerSold ==
  ASSUME TellingOK, This.api \in Apis, NEW r, Meant(r), NEW s \in Answer(This.api, r)
  PROVE  /\ s \in Sessions /\ s.venue \in r.venues /\ s.activity \in r.activities
         /\ Hall(s.court) \in r.halls /\ r.start \in {Anytime, s.start}
         /\ This.api \notin UtcDays => FiledUnder(s) = s.day
         /\ This.api \notin {"mytime", "towerhamlets", "decathlon"} => FiledUnder(s) \in r.dates
         /\ This.api \notin WholeSites => s.activity \in SoldAs(s.venue) /\ KnowsVenue(s.venue)
         /\ This.api \notin WholeSites \cup {"mytime", "padelmates"} => s \in OnSale
<1>1. s \in Asked(r)
  BY DEF Answer
<1>2. /\ s \in Sessions /\ s.venue \in r.venues /\ s.activity \in r.activities
      /\ Hall(s.court) \in r.halls /\ r.start \in {Anytime, s.start}
  BY <1>1 DEF Asked
<1>3. /\ s.activity \in Activities
      /\ (This.api \in UtcDays => Utc(s) \div HoursPerDay = FiledUnder(s))
      /\ (This.api \notin UtcDays => FiledUnder(s) = s.day)
  BY <1>2, Filed DEF TellingOK, PlatformOK, SessionType
<1>4. This.api \notin {"mytime", "towerhamlets", "decathlon"} => FiledUnder(s) \in r.dates
  BY <1>3 DEF Answer, UtcDays
<1>5. This.api \notin WholeSites => s.activity \in SoldAs(s.venue) /\ KnowsVenue(s.venue)
  BY <1>2, <1>3 DEF Meant, Sold
<1>6. This.api = "towerhamlets" => ~s.blocked
  BY DEF Answer
<1> QED BY <1>2, <1>3, <1>4, <1>5, <1>6 DEF OnSale, WholeSites

-----------------------------------------------------------------------------
(* Each parser in turn, on the answer to a request it sends: its listings    *)
(* are sound, and offer what was asked for and can be booked.                *)

\* T has a listing for each session of B and no other, and B holds every session
\* that can be booked and that a request asks for.
Makes(T, B, f)   == (\A l \in T : \E s \in B : l = f[s]) /\ (\A s \in B : f[s] \in T)
HoldsAsked(B, r) == \A s \in OnSale : AsksFor(r, s) /\ places[s] > 0 => s \in B

\* The listing of a session adds up, or counts, a group that the session is in;
\* or it is a slot of the session's own.
AddsGroups(B, f) ==
  \A s \in B : /\ This.api \in UtcDays => f[s].date \in Nat
               /\ \E G : s \in G /\ G \subseteq About(f[s]) /\ f[s].spaces = PlacesIn(G)
CountsGroups(B, f) ==
  \A s \in B : /\ This.api \in UtcDays => f[s].date \in Nat
               /\ \E G : /\ s \in G /\ G \subseteq About(f[s])
                         /\ f[s].spaces = Cardinality({t \in G : places[t] > 0})
OwnSlots(B, f) ==
  \A s \in B : /\ s \in OnSale /\ f[s].venue = s.venue /\ f[s].date = s.day
               /\ f[s].start = s.start /\ f[s].end = EndHour(s)
               /\ f[s].of = Only(s) /\ f[s].spaces = places[s]

LEMMA GroupsTold ==
  ASSUME TellingOK, This.api \notin CountsCourts, This.api # "stratford",
         NEW r, NEW T, NEW B, NEW f, Makes(T, B, f), HoldsAsked(B, r), AddsGroups(B, f)
  PROVE  Tells(T, r)
<1>1. \A s \in B : Sound(f[s]) /\ (places[s] > 0 => Offers(f[s], s))
  <2> TAKE s \in B
  <2>1. PICK G : s \in G /\ G \subseteq About(f[s]) /\ f[s].spaces = PlacesIn(G)
    BY DEF AddsGroups
  <2>2. This.api \in UtcDays => f[s].date \in Nat
    BY DEF AddsGroups
  <2> QED BY <2>1, <2>2, PlacesTold
<1> QED BY <1>1 DEF Tells, Makes, HoldsAsked

LEMMA CourtGroupsTold ==
  ASSUME TellingOK, This.api \in CountsCourts,
         NEW r, NEW T, NEW B, NEW f, Makes(T, B, f), HoldsAsked(B, r), CountsGroups(B, f)
  PROVE  Tells(T, r)
<1>1. \A s \in B : Sound(f[s]) /\ (places[s] > 0 => Offers(f[s], s))
  <2> TAKE s \in B
  <2>1. PICK G : /\ s \in G /\ G \subseteq About(f[s])
                 /\ f[s].spaces = Cardinality({t \in G : places[t] > 0})
    BY DEF CountsGroups
  <2> DEFINE F == {t \in G : places[t] > 0}
  <2>2. F = {t \in G : places[t] > 0} /\ f[s].spaces = Cardinality(F) /\ G # {}
    BY <2>1
  <2>3. This.api \in UtcDays => f[s].date \in Nat
    BY DEF CountsGroups
  <2> HIDE DEF F
  <2> QED BY <2>1, <2>2, <2>3, CourtsTold
<1> QED BY <1>1 DEF Tells, Makes, HoldsAsked

LEMMA OwnGroup ==
  ASSUME TellingOK, This.api \notin UtcDays, NEW s \in OnSale, NEW l, l.venue = s.venue, l.date = s.day,
         l.start = s.start, l.end = EndHour(s), l.of = Only(s), l.spaces = places[s]
  PROVE  \E G : s \in G /\ G \subseteq About(l) /\ l.spaces = PlacesIn(G)
<1>1. s \in Sessions
  BY DEF OnSale
<1>2. PlacesIn({s}) = places[s]
  BY <1>1, PlacesOfOne DEF TellingOK
<1>3. <<s.activity, s.court>> \in l.of
  BY DEF Only
<1>4. {s} \subseteq About(l)
  BY <1>1, <1>3, Filed DEF About, TellingOK
<1> QED BY <1>2, <1>4

LEMMA OwnSlotsTold ==
  ASSUME TellingOK, This.api \notin CountsCourts \cup UtcDays, This.api # "stratford",
         NEW r, NEW T, NEW B, NEW f, Makes(T, B, f), HoldsAsked(B, r), OwnSlots(B, f)
  PROVE  Tells(T, r)
<1>1. ASSUME NEW s \in B
      PROVE  \E G : s \in G /\ G \subseteq About(f[s]) /\ f[s].spaces = PlacesIn(G)
  <2> DEFINE l == f[s]
  <2>1. /\ l.venue = s.venue /\ l.date = s.day /\ l.start = s.start
        /\ l.end = EndHour(s) /\ l.of = Only(s) /\ l.spaces = places[s] /\ s \in OnSale
    BY DEF OwnSlots
  <2> HIDE DEF l
  <2>2. \E G : s \in G /\ G \subseteq About(l) /\ l.spaces = PlacesIn(G)
    BY <2>1, OwnGroup
  <2> QED BY <2>2 DEF l
<1>2. AddsGroups(B, f)
  BY <1>1 DEF AddsGroups
<1> QED BY <1>2, GroupsTold

\* A row without spaces for a slot of the timetable tells nothing wrong.
LEMMA BlanksSound ==
  ASSUME TellingOK, This.api = "better", NEW r
  PROVE  \A l \in BetterBlanks(This, r) : Sound(l)
<1> TAKE l \in BetterBlanks(This, r)
<1>1. PICK s \in Sessions :
        l = Listing(s.venue, s.day, s.start, EndHour(s), 0, PriceOf(This, s), {})
  BY DEF BetterBlanks
<1>2. s.venue \in Venues /\ s.day \in Nat
  BY DEF TellingOK, PlatformOK, SessionType
<1>3. s.start \in 0..HoursPerDay - 1 /\ EndHour(s) \in 0..HoursPerDay - 1
  BY HoursOf DEF TellingOK
<1>4. IsSlot(l) /\ l.spaces = 0
  BY <1>1, <1>2, <1>3 DEF IsSlot, Listing
<1> QED BY <1>4 DEF Sound, SoundSlot

LEMMA AnswerHoldsAsked ==
  ASSUME TellingOK, This.api \in Apis, NEW r, Meant(r)
  PROVE  HoldsAsked(Answer(This.api, r), r)
BY AnswerHolds DEF HoldsAsked

LEMMA BetterTells ==
  ASSUME TellingOK, This.api = "better", NEW r, RequestFits("better", r), Meant(r),
         NEW S, S = Answer("better", r)
  PROVE  /\ Tells(BetterParse(This, r, S), r)
         /\ S = {} => Tells(BetterBlanks(This, r), r)
<1> DEFINE f == [s \in S |-> Listing(VenueOf(r), DateOf(r), s.start, EndHour(s), places[s],
                                     PriceOf(This, s), Only(s))]
<1>1. HoldsAsked(S, r)
  BY AnswerHoldsAsked DEF Apis
<1>2. Makes(BetterParse(This, r, S), S, f)
  BY DEF BetterParse, Makes
<1>3. ASSUME NEW s \in S
      PROVE  /\ s \in OnSale /\ f[s].venue = s.venue /\ f[s].date = s.day
             /\ f[s].start = s.start /\ f[s].end = EndHour(s)
             /\ f[s].of = Only(s) /\ f[s].spaces = places[s]
  <2>1. s \in OnSale /\ s.venue \in r.venues /\ s.day \in r.dates
    BY AnswerSold DEF Apis, WholeSites, UtcDays
  <2>2. s.venue = VenueOf(r) /\ s.day = DateOf(r)
    BY <2>1, VenueAndDate DEF DayByDay
  <2>3. f[s] = Listing(VenueOf(r), DateOf(r), s.start, EndHour(s), places[s], PriceOf(This, s), Only(s))
    OBVIOUS
  <2> HIDE DEF f
  <2> QED BY <2>1, <2>2, <2>3 DEF Listing
<1> HIDE DEF f
<1>4. OwnSlots(S, f)
  BY <1>3 DEF OwnSlots
<1>5. Tells(BetterParse(This, r, S), r)
  BY <1>1, <1>2, <1>4, OwnSlotsTold DEF CountsCourts, UtcDays
<1>6. S = {} => Tells(BetterBlanks(This, r), r)
  BY <1>1, BlanksSound DEF Tells, HoldsAsked
<1> QED BY <1>5, <1>6

\* The sites whose every activity is asked for: those of "main" are on sale.
LEMMA SiteSells ==
  ASSUME TellingOK, This.api \in {"citysports", "uel", "clubspark"}, NEW s \in Sessions
  PROVE  s \in OnSale <=> s.activity = "main"
<1>1. crawler \in {"citysports", "uel", "clubspark"}
  BY ApiByName DEF TellingOK, PlatformOK, OwnNames
<1>2. SoldAs(s.venue) = {"main"}
  BY <1>1, SoldByName
<1>3. KnowsVenue(s.venue)
  BY DEF KnowsVenue
<1> QED BY <1>2, <1>3 DEF OnSale

LEMMA OneSiteTells ==
  ASSUME TellingOK, This.api \in {"citysports", "uel"}, NEW r, RequestFits(This.api, r), Meant(r),
         NEW S, S = Answer(This.api, r)
  PROVE  Tells(CitySportsParse(This, r, S), r) /\ Tells(UelParse(This, r, S), r)
<1> DEFINE B == {s \in S : s.activity = "main"}
           f == [s \in B |-> Listing(VenueOf(r), s.day, s.start, EndHour(s), places[s],
                                     PriceOf(This, s), Only(s))]
<1>1. \A s \in S : s \in Sessions /\ s.venue \in r.venues
  BY AnswerSold DEF Apis
<1>2. HoldsAsked(B, r)
  <2>1. HoldsAsked(S, r)
    BY AnswerHoldsAsked DEF Apis
  <2>2. \A s \in OnSale : s.activity = "main"
    BY SiteSells DEF OnSale
  <2> QED BY <2>1, <2>2 DEF HoldsAsked
<1>3. Makes(CitySportsParse(This, r, S), B, f) /\ Makes(UelParse(This, r, S), B, f)
  BY DEF CitySportsParse, UelParse, Makes
<1>4. ASSUME NEW s \in B
      PROVE  /\ s \in OnSale /\ f[s].venue = s.venue /\ f[s].date = s.day
             /\ f[s].start = s.start /\ f[s].end = EndHour(s)
             /\ f[s].of = Only(s) /\ f[s].spaces = places[s]
  <2>1. s \in OnSale
    BY <1>1, SiteSells
  <2>2. s.venue = VenueOf(r)
    BY <1>1, VenueAndDate
  <2>3. f[s] = Listing(VenueOf(r), s.day, s.start, EndHour(s), places[s], PriceOf(This, s), Only(s))
    OBVIOUS
  <2> HIDE DEF f
  <2> QED BY <2>1, <2>2, <2>3 DEF Listing
<1> HIDE DEF f, B
<1>5. OwnSlots(B, f)
  BY <1>4 DEF OwnSlots
<1>6. This.api \notin CountsCourts \cup UtcDays /\ This.api # "stratford"
  BY DEF CountsCourts, UtcDays
<1> QED BY <1>2, <1>3, <1>5, <1>6, OwnSlotsTold

LEMMA DecathlonTells ==
  ASSUME TellingOK, This.api = "decathlon", NEW r, RequestFits("decathlon", r), Meant(r),
         NEW S, S = Answer("decathlon", r)
  PROVE  Tells(DecathlonParse(This, r, S), r)
<1> DEFINE f == [s \in S |-> Listing(VenueOf(r), LondonDate(Utc(s)), LondonHour(Utc(s)), LondonEnd(s),
                                     places[s], PriceOf(This, s), Only(s))]
<1>1. HoldsAsked(S, r)
  BY AnswerHoldsAsked DEF Apis
<1>2. Makes(DecathlonParse(This, r, S), S, f)
  BY DEF DecathlonParse, Makes
<1>3. ASSUME NEW s \in S
      PROVE  /\ s \in OnSale /\ f[s].venue = s.venue /\ f[s].date = s.day
             /\ f[s].start = s.start /\ f[s].end = EndHour(s)
             /\ f[s].of = Only(s) /\ f[s].spaces = places[s]
  <2>1. s \in OnSale /\ s \in Sessions /\ s.venue \in r.venues
    BY AnswerSold DEF Apis, WholeSites, UtcDays
  <2>2. s.venue = VenueOf(r)
    BY <2>1, VenueAndDate
  <2>3. LondonDate(Utc(s)) = s.day /\ LondonHour(Utc(s)) = s.start /\ LondonEnd(s) = EndHour(s)
    BY <2>1, Clocks DEF TellingOK
  <2>4. f[s] = Listing(VenueOf(r), LondonDate(Utc(s)), LondonHour(Utc(s)), LondonEnd(s),
                       places[s], PriceOf(This, s), Only(s))
    OBVIOUS
  <2> HIDE DEF f
  <2> QED BY <2>1, <2>2, <2>3, <2>4 DEF Listing
<1> HIDE DEF f
<1>4. OwnSlots(S, f)
  BY <1>3 DEF OwnSlots
<1> QED BY <1>1, <1>2, <1>4, OwnSlotsTold DEF CountsCourts, UtcDays

LEMMA CourtReserveTells ==
  ASSUME TellingOK, This.api = "courtreserve", NEW r, Meant(r), NEW S, S = Answer("courtreserve", r)
  PROVE  Tells(CourtReserveParse(This, r, S), r)
<1> DEFINE B == {s \in S : NamesIn(s) # {} /\ VenueInTitle(s) \in r.venues}
           f == [s \in B |-> Listing(VenueInTitle(s), LondonDate(Utc(s)), LondonHour(Utc(s)),
                                     LondonEnd(s), places[s], PriceOf(This, s), Only(s))]
<1>1. \A s \in S : s \in Sessions /\ s.venue \in r.venues
  BY AnswerSold DEF Apis
<1>2. \A s \in Sessions : s \in OnSale <=> s.activity # "other"
  <2> TAKE s \in Sessions
  <2>1. crawler = "courtreserve"
    BY ApiByName DEF TellingOK, PlatformOK, OwnNames
  <2>2. SoldAs(s.venue) = Activities \ {"other"} /\ s.activity \in Activities
    BY <2>1, SoldByName, SessionFacts DEF TellingOK
  <2>3. KnowsVenue(s.venue)
    BY DEF KnowsVenue
  <2> QED BY <2>2, <2>3 DEF OnSale
<1>3. \A s \in Sessions : s.activity # "other" => NamesIn(s) # {}
  BY NamesAssumption DEF NamesIn, TellingOK, PlatformOK, SessionType
<1>4. HoldsAsked(B, r)
  <2> SUFFICES ASSUME NEW s \in OnSale, AsksFor(r, s), places[s] > 0 PROVE s \in B
    BY DEF HoldsAsked
  <2>1. s \in S
    BY AnswerHolds DEF Apis
  <2>2. NamesIn(s) # {}
    BY <1>1, <1>2, <1>3, <2>1
  <2>3. VenueInTitle(s) = s.venue
    BY <1>1, <2>1, <2>2, TitleNamesVenue DEF TellingOK
  <2> QED BY <1>1, <2>1, <2>2, <2>3
<1>5. Makes(CourtReserveParse(This, r, S), B, f)
  BY DEF CourtReserveParse, Makes
<1>6. ASSUME NEW s \in B
      PROVE  /\ s \in OnSale /\ f[s].venue = s.venue /\ f[s].date = s.day
             /\ f[s].start = s.start /\ f[s].end = EndHour(s)
             /\ f[s].of = Only(s) /\ f[s].spaces = places[s]
  <2>1. s \in Sessions /\ NamesIn(s) # {}
    BY <1>1
  <2>2. s \in OnSale
    BY <1>2, <2>1 DEF NamesIn
  <2>3. VenueInTitle(s) = s.venue
    BY <2>1, TitleNamesVenue DEF TellingOK
  <2>4. LondonDate(Utc(s)) = s.day /\ LondonHour(Utc(s)) = s.start /\ LondonEnd(s) = EndHour(s)
    BY <2>1, Clocks DEF TellingOK
  <2>5. f[s] = Listing(VenueInTitle(s), LondonDate(Utc(s)), LondonHour(Utc(s)), LondonEnd(s),
                       places[s], PriceOf(This, s), Only(s))
    OBVIOUS
  <2> HIDE DEF f
  <2> QED BY <2>2, <2>3, <2>4, <2>5 DEF Listing
<1> HIDE DEF f, B
<1>7. OwnSlots(B, f)
  BY <1>6 DEF OwnSlots
<1> QED BY <1>4, <1>5, <1>7, OwnSlotsTold DEF CountsCourts, UtcDays

LEMMA ClubSparkTells ==
  ASSUME TellingOK, This.api = "clubspark", NEW r, RequestFits("clubspark", r), Meant(r),
         NEW S, S = Answer("clubspark", r)
  PROVE  Tells(ClubSparkParse(This, r, S), r)
<1> DEFINE B == {s \in S : Category(s) = BookableCategory}
           f == [s \in B |-> Listing(VenueOf(r), s.day, s.start, EndHour(s), 1, PriceOf(This, s), Only(s))]
<1>1. \A s \in S : s \in Sessions /\ s.venue \in r.venues
  BY AnswerSold DEF Apis
<1>6. \A s \in S : s \in B <=> s.activity = "main" /\ places[s] > 0
  BY DEF Category, BookableCategory
<1>2. HoldsAsked(B, r)
  <2>1. HoldsAsked(S, r)
    BY AnswerHoldsAsked DEF Apis
  <2>2. \A s \in OnSale : s.activity = "main"
    BY SiteSells DEF OnSale
  <2> QED BY <1>6, <2>1, <2>2 DEF HoldsAsked
<1>3. Makes(ClubSparkParse(This, r, S), B, f)
  BY DEF ClubSparkParse, Makes
<1>4. ASSUME NEW s \in B
      PROVE  \E G : /\ s \in G /\ G \subseteq About(f[s])
                    /\ f[s].spaces = Cardinality({t \in G : places[t] > 0})
  <2>1. s \in OnSale /\ places[s] > 0
    BY <1>1, <1>6, SiteSells
  <2>2. s.venue = VenueOf(r)
    BY <1>1, VenueAndDate
  <2>3. f[s] = Listing(VenueOf(r), s.day, s.start, EndHour(s), 1, PriceOf(This, s), Only(s))
    OBVIOUS
  <2> HIDE DEF f
  <2>4. /\ f[s].venue = s.venue /\ f[s].date = s.day /\ f[s].start = s.start
        /\ f[s].end = EndHour(s) /\ <<s.activity, s.court>> \in f[s].of /\ f[s].spaces = 1
    BY <2>2, <2>3 DEF Listing, Only
  <2>5. {s} \subseteq About(f[s])
    BY <1>1, <2>1, <2>4, Filed DEF About, TellingOK, UtcDays
  <2>6. {t \in {s} : places[t] > 0} = {s} /\ Cardinality({s}) = 1
    BY <2>1, FS_Singleton
  <2> QED BY <2>4, <2>5, <2>6
<1> HIDE DEF f, B
<1>5. CountsGroups(B, f)
  BY <1>4 DEF CountsGroups, UtcDays
<1> QED BY <1>2, <1>3, <1>5, CourtGroupsTold DEF CountsCourts

LEMMA SouthwarkTells ==
  ASSUME TellingOK, This.api = "southwark", NEW r, RequestFits("southwark", r), Meant(r),
         NEW S, S = Answer("southwark", r)
  PROVE  Tells(SouthwarkParse(This, r, S), r)
<1> DEFINE G(s) == {t \in S : SouthwarkTiming(t) = SouthwarkTiming(s)}
           f == [s \in S |-> LET a == AnyOf(G(s)) IN
                   Listing(VenueOf(r), DateOf(r), SouthwarkTiming(a)[2], SouthwarkTiming(a)[3],
                           PlacesIn(G(s)), PriceOf(This, a), Anything)]
<1>1. HoldsAsked(S, r)
  BY AnswerHoldsAsked DEF Apis
<1>2. Makes(SouthwarkParse(This, r, S), S, f)
  <2>1. ASSUME NEW l \in SouthwarkParse(This, r, S) PROVE \E s \in S : l = f[s]
    <3>1. PICK k \in {SouthwarkTiming(s) : s \in S} :
            LET g == {s \in S : SouthwarkTiming(s) = k}
                a == AnyOf(g)
            IN  l = Listing(VenueOf(r), DateOf(r), SouthwarkTiming(a)[2], SouthwarkTiming(a)[3],
                            PlacesIn(g), PriceOf(This, a), Anything)
      BY Zenon DEF SouthwarkParse, Grouped
    <3>2. PICK s \in S : k = SouthwarkTiming(s)
      OBVIOUS
    <3> QED BY <3>1, <3>2
  <2>2. ASSUME NEW s \in S PROVE f[s] \in SouthwarkParse(This, r, S)
    <3>1. SouthwarkTiming(s) \in {SouthwarkTiming(t) : t \in S}
      OBVIOUS
    <3> QED BY <3>1 DEF SouthwarkParse, Grouped
  <2> QED BY <2>1, <2>2 DEF Makes
<1>3. \A s \in S : /\ s \in OnSale /\ s \in Sessions /\ s.venue = VenueOf(r) /\ FiledUnder(s) = DateOf(r)
                   /\ SouthwarkTiming(s) = <<s.day, s.start, EndHour(s)>>
  <2> TAKE s \in S
  <2>1. s \in OnSale /\ s \in Sessions /\ s.venue \in r.venues /\ FiledUnder(s) \in r.dates
    BY AnswerSold DEF Apis, WholeSites
  <2>2. s.venue = VenueOf(r) /\ FiledUnder(s) = DateOf(r)
    BY <2>1, VenueAndDate DEF DayByDay
  <2> QED BY <2>1, <2>2, Clocks DEF SouthwarkTiming, TellingOK
<1>4. ASSUME NEW s \in S
      PROVE  s \in G(s) /\ G(s) \subseteq About(f[s]) /\ f[s].spaces = PlacesIn(G(s))
  <2> DEFINE a == AnyOf(G(s))
  <2>1. a \in G(s)
    BY DEF AnyOf
  <2>2. f[s] = Listing(VenueOf(r), DateOf(r), SouthwarkTiming(a)[2], SouthwarkTiming(a)[3],
                       PlacesIn(G(s)), PriceOf(This, a), Anything)
    OBVIOUS
  <2> HIDE DEF f, a
  <2>3. /\ f[s].venue = VenueOf(r) /\ f[s].date = DateOf(r) /\ f[s].start = a.start
        /\ f[s].end = EndHour(a) /\ f[s].of = Anything /\ f[s].spaces = PlacesIn(G(s))
    BY <1>3, <2>1, <2>2 DEF Listing
  <2>4. \A t \in G(s) : t.start = a.start /\ EndHour(t) = EndHour(a) /\ t \in S
    BY <1>3, <2>1
  <2>5. \A t \in G(s) : t \in About(f[s])
    BY <1>3, <2>3, <2>4, SessionFacts DEF About, TellingOK
  <2> QED BY <2>3, <2>5
<1>6. \A s \in S : f[s].date \in Nat
  BY VenueAndDate DEF Listing, DayByDay, Meant, UtcDays
<1> HIDE DEF f, G
<1>5. AddsGroups(S, f)
  BY <1>4, <1>6 DEF AddsGroups
<1> QED BY <1>1, <1>2, <1>5, GroupsTold DEF CountsCourts

LEMMA EveryoneActiveTells ==
  ASSUME TellingOK, This.api = "everyoneactive", NEW r, RequestFits("everyoneactive", r), Meant(r),
         NEW S, S = Answer("everyoneactive", r)
  PROVE  Tells(EveryoneActiveParse(This, r, S), r)
<1> DEFINE G(s) == {t \in S : Timing(t) = Timing(s)}
           f == [s \in S |-> LET a == AnyOf(G(s)) IN
                   Listing(VenueOf(r), DateOf(r), Timing(a)[2], Timing(a)[3], PlacesIn(G(s)),
                           PriceOf(This, AnyOf(S)), Anything)]
<1>1. HoldsAsked(S, r)
  BY AnswerHoldsAsked DEF Apis
<1>2. Makes(EveryoneActiveParse(This, r, S), S, f)
  <2>1. ASSUME NEW l \in EveryoneActiveParse(This, r, S) PROVE \E s \in S : l = f[s]
    <3>1. PICK slot \in AggregateCourts(S) :
            l = Listing(VenueOf(r), DateOf(r), slot[1][2], slot[1][3], slot[2],
                        PriceOf(This, AnyOf(S)), Anything)
      BY DEF EveryoneActiveParse
    <3>2. PICK k \in {Timing(s) : s \in S} :
            slot = <<Timing(AnyOf({s \in S : Timing(s) = k})), PlacesIn({s \in S : Timing(s) = k})>>
      BY Zenon DEF AggregateCourts, Grouped
    <3>3. PICK s \in S : k = Timing(s)
      OBVIOUS
    <3> QED BY <3>1, <3>2, <3>3
  <2>2. ASSUME NEW s \in S PROVE f[s] \in EveryoneActiveParse(This, r, S)
    <3> DEFINE slot == <<Timing(AnyOf(G(s))), PlacesIn(G(s))>>
    <3>1. Timing(s) \in {Timing(t) : t \in S}
      OBVIOUS
    <3>2. slot \in AggregateCourts(S)
      BY <3>1 DEF AggregateCourts, Grouped
    <3>3. f[s] = Listing(VenueOf(r), DateOf(r), slot[1][2], slot[1][3], slot[2],
                         PriceOf(This, AnyOf(S)), Anything)
      OBVIOUS
    <3> HIDE DEF slot, f
    <3> QED BY <3>2, <3>3 DEF EveryoneActiveParse
  <2> QED BY <2>1, <2>2 DEF Makes
<1>3. \A s \in S : /\ s \in OnSale /\ s \in Sessions /\ s.venue = VenueOf(r) /\ FiledUnder(s) = DateOf(r)
                   /\ Timing(s) = <<s.day, s.start, EndHour(s)>>
  <2> TAKE s \in S
  <2>1. s \in OnSale /\ s \in Sessions /\ s.venue \in r.venues /\ FiledUnder(s) \in r.dates
    BY AnswerSold DEF Apis, WholeSites
  <2>2. s.venue = VenueOf(r) /\ FiledUnder(s) = DateOf(r)
    BY <2>1, VenueAndDate DEF DayByDay
  <2> QED BY <2>1, <2>2, Clocks DEF Timing, TellingOK
<1>4. ASSUME NEW s \in S
      PROVE  s \in G(s) /\ G(s) \subseteq About(f[s]) /\ f[s].spaces = PlacesIn(G(s))
  <2> DEFINE a == AnyOf(G(s))
  <2>1. a \in G(s)
    BY DEF AnyOf
  <2>2. f[s] = Listing(VenueOf(r), DateOf(r), Timing(a)[2], Timing(a)[3], PlacesIn(G(s)),
                       PriceOf(This, AnyOf(S)), Anything)
    OBVIOUS
  <2> HIDE DEF f, a
  <2>3. /\ f[s].venue = VenueOf(r) /\ f[s].date = DateOf(r) /\ f[s].start = a.start
        /\ f[s].end = EndHour(a) /\ f[s].of = Anything /\ f[s].spaces = PlacesIn(G(s))
    BY <1>3, <2>1, <2>2 DEF Listing
  <2>4. \A t \in G(s) : t.start = a.start /\ EndHour(t) = EndHour(a) /\ t \in S
    BY <1>3, <2>1
  <2>5. \A t \in G(s) : t \in About(f[s])
    BY <1>3, <2>3, <2>4, SessionFacts DEF About, TellingOK
  <2> QED BY <2>3, <2>5
<1>6. \A s \in S : f[s].date \in Nat
  BY VenueAndDate DEF Listing, DayByDay, Meant, UtcDays
<1> HIDE DEF f, G
<1>5. AddsGroups(S, f)
  BY <1>4, <1>6 DEF AddsGroups
<1> QED BY <1>1, <1>2, <1>5, GroupsTold DEF CountsCourts

LEMMA MytimeTells ==
  ASSUME TellingOK, This.api = "mytime", NEW r, RequestFits("mytime", r), Meant(r),
         NEW S, S = Answer("mytime", r)
  PROVE  Tells(MytimeParse(This, r, S), r)
<1> DEFINE B == {s \in S : s.day \in r.dates /\ s.venue \in r.venues /\ ~s.blocked}
           G(s) == {t \in B : MytimeKey(t) = MytimeKey(s)}
           f == [s \in B |-> LET a == AnyOf(G(s)) IN
                   Listing(VenueOf(r), DateOf(r), MytimeKey(a)[1], MytimeKey(a)[2],
                           PlacesIn(G(s)), PriceOf(This, a), Anything)]
<1>1. HoldsAsked(B, r)
  <2>1. HoldsAsked(S, r)
    BY AnswerHoldsAsked DEF Apis
  <2>2. \A s \in OnSale : ~s.blocked
    BY DEF OnSale
  <2>3. \A s \in OnSale : AsksFor(r, s) => s.day \in r.dates /\ s.venue \in r.venues
    BY Filed DEF AsksFor, OnSale, TellingOK, UtcDays
  <2> QED BY <2>1, <2>2, <2>3 DEF HoldsAsked
<1>2. Makes(MytimeParse(This, r, S), B, f)
  <2>1. ASSUME NEW l \in MytimeParse(This, r, S) PROVE \E s \in B : l = f[s]
    <3>1. PICK k \in {MytimeKey(s) : s \in B} :
            LET g == {s \in B : MytimeKey(s) = k}
                q == MytimeKey(AnyOf(g))
            IN  l = Listing(VenueOf(r), DateOf(r), q[1], q[2], PlacesIn(g), PriceOf(This, AnyOf(g)),
                            Anything)
      BY Zenon DEF MytimeParse, Grouped
    <3>2. PICK s \in B : k = MytimeKey(s)
      OBVIOUS
    <3> HIDE DEF B
    <3> QED BY <3>1, <3>2
  <2>2. ASSUME NEW s \in B PROVE f[s] \in MytimeParse(This, r, S)
    <3>1. MytimeKey(s) \in {MytimeKey(t) : t \in B}
      OBVIOUS
    <3> QED BY <3>1 DEF MytimeParse, Grouped
  <2> QED BY <2>1, <2>2 DEF Makes
<1>3. \A s \in B : /\ s \in OnSale /\ s \in Sessions /\ s.venue = VenueOf(r) /\ s.day = DateOf(r)
                   /\ FiledUnder(s) = s.day /\ MytimeKey(s) = <<s.start, EndHour(s)>>
  <2> TAKE s \in B
  <2>1. /\ s \in Sessions /\ s.venue \in r.venues /\ s.day \in r.dates /\ ~s.blocked
        /\ s.activity \in SoldAs(s.venue) /\ KnowsVenue(s.venue) /\ FiledUnder(s) = s.day
    BY AnswerSold DEF Apis, WholeSites, UtcDays
  <2>2. s.venue = VenueOf(r) /\ s.day = DateOf(r)
    BY <2>1, VenueAndDate DEF DayByDay
  <2> QED BY <2>1, <2>2, Clocks DEF MytimeKey, TellingOK, OnSale
<1>4. ASSUME NEW s \in B
      PROVE  s \in G(s) /\ G(s) \subseteq About(f[s]) /\ f[s].spaces = PlacesIn(G(s))
  <2> DEFINE a == AnyOf(G(s))
  <2>1. a \in G(s)
    BY DEF AnyOf
  <2>2. f[s] = Listing(VenueOf(r), DateOf(r), MytimeKey(a)[1], MytimeKey(a)[2], PlacesIn(G(s)),
                       PriceOf(This, a), Anything)
    OBVIOUS
  <2> HIDE DEF f, a, B
  <2>3. /\ f[s].venue = VenueOf(r) /\ f[s].date = DateOf(r) /\ f[s].start = a.start
        /\ f[s].end = EndHour(a) /\ f[s].of = Anything /\ f[s].spaces = PlacesIn(G(s))
    BY <1>3, <2>1, <2>2 DEF Listing
  <2>4. \A t \in G(s) : t.start = a.start /\ EndHour(t) = EndHour(a) /\ t \in B
    BY <1>3, <2>1
  <2>5. \A t \in G(s) : t \in About(f[s])
    BY <1>3, <2>3, <2>4, SessionFacts DEF About, TellingOK
  <2> QED BY <2>3, <2>5
<1> HIDE DEF f, G, B
<1>5. AddsGroups(B, f)
  BY <1>4 DEF AddsGroups, UtcDays
<1> QED BY <1>1, <1>2, <1>5, GroupsTold DEF CountsCourts

LEMMA TowerHamletsTells ==
  ASSUME TellingOK, This.api = "towerhamlets", NEW r, RequestFits("towerhamlets", r), Meant(r),
         NEW S, S = Answer("towerhamlets", r)
  PROVE  Tells(TowerHamletsParse(This, r, S), r)
<1> DEFINE G(s) == {t \in S : TowerHamletsKey(t) = TowerHamletsKey(s)}
           f == [s \in S |-> LET a == AnyOf(G(s)) IN
                   Listing(VenueOf(r), TowerHamletsKey(a)[1], LondonHour(TowerHamletsKey(a)[2]),
                           LondonHour(TowerHamletsKey(a)[3]), FreeIn(G(s)), PriceOf(This, a),
                           r.activities \X Courts)]
<1>1. HoldsAsked(S, r)
  BY AnswerHoldsAsked DEF Apis
<1>2. Makes(TowerHamletsParse(This, r, S), S, f)
  <2>1. ASSUME NEW l \in TowerHamletsParse(This, r, S) PROVE \E s \in S : l = f[s]
    <3>1. PICK k \in {TowerHamletsKey(s) : s \in S} :
            LET g == {s \in S : TowerHamletsKey(s) = k}
                q == TowerHamletsKey(AnyOf(g))
            IN  l = Listing(VenueOf(r), q[1], LondonHour(q[2]), LondonHour(q[3]), FreeIn(g),
                            PriceOf(This, AnyOf(g)), r.activities \X Courts)
      BY Zenon DEF TowerHamletsParse, Grouped
    <3>2. PICK s \in S : k = TowerHamletsKey(s)
      OBVIOUS
    <3> QED BY <3>1, <3>2
  <2>2. ASSUME NEW s \in S PROVE f[s] \in TowerHamletsParse(This, r, S)
    <3>1. TowerHamletsKey(s) \in {TowerHamletsKey(t) : t \in S}
      OBVIOUS
    <3> QED BY <3>1 DEF TowerHamletsParse, Grouped
  <2> QED BY <2>1, <2>2 DEF Makes
<1>3. \A s \in S : /\ s \in OnSale /\ s \in Sessions /\ s.venue = VenueOf(r)
                   /\ <<s.activity, s.court>> \in r.activities \X Courts
                   /\ TowerHamletsKey(s)[1] = s.day /\ FiledUnder(s) = s.day
                   /\ LondonHour(TowerHamletsKey(s)[2]) = s.start
                   /\ LondonHour(TowerHamletsKey(s)[3]) = EndHour(s)
  <2> TAKE s \in S
  <2>1. /\ s \in Sessions /\ s.venue \in r.venues /\ s.activity \in r.activities /\ s \in OnSale
        /\ FiledUnder(s) = s.day
    BY AnswerSold DEF Apis, WholeSites, UtcDays
  <2>2. s.venue = VenueOf(r) /\ s.court \in Courts
    BY <2>1, VenueAndDate, SessionFacts DEF TellingOK
  <2>3. LondonHour(Utc(s)) = s.start /\ LondonHour(Utc(s) + s.len) = EndHour(s)
    BY <2>1, Clocks DEF TellingOK
  <2> QED BY <2>1, <2>2, <2>3 DEF TowerHamletsKey
<1>4. ASSUME NEW s \in S
      PROVE  /\ s \in G(s) /\ G(s) \subseteq About(f[s])
             /\ f[s].spaces = Cardinality({t \in G(s) : places[t] > 0})
  <2> DEFINE a == AnyOf(G(s))
  <2>1. a \in G(s)
    BY DEF AnyOf
  <2>2. f[s] = Listing(VenueOf(r), TowerHamletsKey(a)[1], LondonHour(TowerHamletsKey(a)[2]),
                       LondonHour(TowerHamletsKey(a)[3]), FreeIn(G(s)), PriceOf(This, a),
                       r.activities \X Courts)
    OBVIOUS
  <2> HIDE DEF f, a
  <2>3. /\ f[s].venue = VenueOf(r) /\ f[s].date = a.day /\ f[s].start = a.start
        /\ f[s].end = EndHour(a) /\ f[s].of = r.activities \X Courts
        /\ f[s].spaces = Cardinality({t \in G(s) : places[t] > 0})
    <3>1. /\ TowerHamletsKey(a)[1] = a.day /\ LondonHour(TowerHamletsKey(a)[2]) = a.start
          /\ LondonHour(TowerHamletsKey(a)[3]) = EndHour(a)
      BY <1>3, <2>1
    <3>2. FreeIn(G(s)) = Cardinality({t \in G(s) : places[t] > 0})
      BY DEF FreeIn
    <3> HIDE DEF G
    <3> QED BY <2>2, <3>1, <3>2 DEF Listing
  <2>4. \A t \in G(s) : t.day = a.day /\ t.start = a.start /\ EndHour(t) = EndHour(a) /\ t \in S
    BY <1>3, <2>1
  <2>5. \A t \in G(s) : t \in About(f[s])
    BY <1>3, <2>3, <2>4 DEF About
  <2> QED BY <2>3, <2>5
<1> HIDE DEF f, G
<1>5. CountsGroups(S, f)
  BY <1>4 DEF CountsGroups, UtcDays
<1> QED BY <1>1, <1>2, <1>5, CourtGroupsTold DEF CountsCourts

\* A start that is published once, for all courts or for those of a hall, has one
\* end.
LEMMA StartsEndTogether ==
  ASSUME TellingOK, This.api \in {"places", "matchi"}, NEW r, Meant(r),
         This.api = "places" => r.start # Anytime,
         NEW s \in Answer(This.api, r), NEW t \in Answer(This.api, r),
         s.venue = t.venue, s.day = t.day, s.start = t.start
  PROVE  EndHour(s) = EndHour(t)
<1>1. \/ This.api = "matchi" /\ crawler \in {"matchiPadel", "matchiTennis"}
      \/ This.api = "places" /\ crawler \in {"placesBadminton", "placesPickleball"}
  BY ApiByName DEF TellingOK, PlatformOK, OwnNames
<1>2. /\ s \in Sessions /\ t \in Sessions /\ s.activity \in r.activities /\ t.activity \in r.activities
      /\ Hall(s.court) \in r.halls /\ Hall(t.court) \in r.halls
      /\ s.activity \in SoldAs(s.venue) /\ t.activity \in SoldAs(t.venue)
  BY AnswerSold DEF Apis, WholeSites
<1>3. CASE This.api = "matchi" /\ crawler \in {"matchiPadel", "matchiTennis"}
  <2>1. SoldAs(s.venue) = {"main"} /\ SoldAs(t.venue) = {"main"}
    BY <1>3, SoldByName
  <2>2. s.activity = t.activity
    BY <1>2, <2>1
  <2>3. s.len = t.len
    BY <1>2, <1>3, <2>2 DEF TellingOK, OneEnd
  <2> QED BY <2>3 DEF EndHour, EndOf
<1>4. CASE This.api = "places" /\ crawler \in {"placesBadminton", "placesPickleball"}
  <2>1. PICK a, h : r.activities = {a} /\ r.halls = {h}
    BY <1>4 DEF Meant, OneHallOnly
  <2>2. s.activity = t.activity /\ Hall(s.court) = Hall(t.court)
    BY <1>2, <2>1
  <2>3. s.len = t.len
    BY <1>2, <1>4, <2>2 DEF TellingOK, OneEnd
  <2> QED BY <2>3 DEF EndHour, EndOf
<1> QED BY <1>1, <1>3, <1>4

LEMMA PlacesTells ==
  ASSUME TellingOK, This.api = "places", NEW r, r.start # Anytime, RequestFits("places", r), Meant(r),
         NEW S, S = Answer("places", r)
  PROVE  Tells(PlacesParse(This, r, S), r)
<1> DEFINE G(s) == {t \in S : Utc(t) = Utc(s)}
           f == [s \in S |-> LET a == AnyOf(G(s)) IN
                   Listing(a.venue, LondonDate(Utc(a)), LondonHour(Utc(a)), LondonEnd(a), FreeIn(G(s)),
                           PriceOf(This, a), r.activities \X CourtsIn(r.halls))]
<1>1. HoldsAsked(S, r)
  BY AnswerHoldsAsked DEF Apis
<1>2. Makes(PlacesParse(This, r, S), S, f)
  <2>1. ASSUME NEW l \in PlacesParse(This, r, S) PROVE \E s \in S : l = f[s]
    <3>1. PICK k \in {Utc(s) : s \in S} :
            LET g == {s \in S : Utc(s) = k}
                s == AnyOf(g)
            IN  l = Listing(s.venue, LondonDate(Utc(s)), LondonHour(Utc(s)), LondonEnd(s), FreeIn(g),
                            PriceOf(This, s), r.activities \X CourtsIn(r.halls))
      BY Zenon DEF PlacesParse, Grouped
    <3>2. PICK s \in S : k = Utc(s)
      OBVIOUS
    <3> QED BY <3>1, <3>2
  <2>2. ASSUME NEW s \in S PROVE f[s] \in PlacesParse(This, r, S)
    <3>1. Utc(s) \in {Utc(t) : t \in S}
      OBVIOUS
    <3> QED BY <3>1 DEF PlacesParse, Grouped
  <2> QED BY <2>1, <2>2 DEF Makes
<1>3. \A s \in S : /\ s \in OnSale /\ s \in Sessions /\ s.venue = VenueOf(r)
                   /\ LondonDate(Utc(s)) = s.day /\ LondonHour(Utc(s)) = s.start
                   /\ LondonEnd(s) = EndHour(s) /\ FiledUnder(s) = s.day
                   /\ <<s.activity, s.court>> \in r.activities \X CourtsIn(r.halls)
  <2> TAKE s \in S
  <2>1. /\ s \in Sessions /\ s.venue \in r.venues /\ s \in OnSale /\ FiledUnder(s) = s.day
        /\ s.activity \in r.activities /\ Hall(s.court) \in r.halls
    BY AnswerSold DEF Apis, WholeSites, UtcDays
  <2>2. s.venue = VenueOf(r)
    BY <2>1, VenueAndDate
  <2>3. s.court \in CourtsIn(r.halls)
    BY <2>1, SessionFacts DEF CourtsIn, TellingOK
  <2> QED BY <2>1, <2>2, <2>3, Clocks DEF TellingOK
<1>4. ASSUME NEW s \in S
      PROVE  /\ s \in G(s) /\ G(s) \subseteq About(f[s])
             /\ f[s].spaces = Cardinality({t \in G(s) : places[t] > 0})
  <2> DEFINE a == AnyOf(G(s))
  <2>1. a \in G(s)
    BY DEF AnyOf
  <2>2. f[s] = Listing(a.venue, LondonDate(Utc(a)), LondonHour(Utc(a)), LondonEnd(a), FreeIn(G(s)),
                       PriceOf(This, a), r.activities \X CourtsIn(r.halls))
    OBVIOUS
  <2> HIDE DEF f, a
  <2>3. /\ f[s].venue = VenueOf(r) /\ f[s].date = a.day /\ f[s].start = a.start
        /\ f[s].end = EndHour(a) /\ f[s].of = r.activities \X CourtsIn(r.halls)
        /\ f[s].spaces = Cardinality({t \in G(s) : places[t] > 0})
    <3>1. a \in S
      BY <2>1
    <3>2. /\ a.venue = VenueOf(r) /\ LondonDate(Utc(a)) = a.day
          /\ LondonHour(Utc(a)) = a.start /\ LondonEnd(a) = EndHour(a)
      BY <1>3, <3>1
    <3>3. FreeIn(G(s)) = Cardinality({t \in G(s) : places[t] > 0})
      BY DEF FreeIn
    <3> HIDE DEF G
    <3> QED BY <2>2, <3>2, <3>3 DEF Listing
  <2>4. \A t \in G(s) : t.day = a.day /\ t.start = a.start /\ t.venue = a.venue /\ t \in S
    BY <1>3, <2>1
  <2>5. \A t \in G(s) : EndHour(t) = EndHour(a)
    BY <2>1, <2>4, StartsEndTogether
  <2>6. \A t \in G(s) : t \in About(f[s])
    BY <1>3, <2>3, <2>4, <2>5 DEF About
  <2> QED BY <2>3, <2>6
<1> HIDE DEF f, G
<1>5. CountsGroups(S, f)
  BY <1>4 DEF CountsGroups, UtcDays
<1> QED BY <1>1, <1>2, <1>5, CourtGroupsTold DEF CountsCourts

LEMMA PlaytomicTells ==
  ASSUME TellingOK, This.api = "playtomic", NEW r, RequestFits("playtomic", r), Meant(r),
         NEW S, S = Answer("playtomic", r)
  PROVE  Tells(PlaytomicParse(This, r, S), r)
<1> DEFINE G(s) == {t \in S : PlaytomicKey(t) = PlaytomicKey(s)}
           f == [s \in S |-> LET a == AnyOf(G(s)) IN
                   Listing(VenueOf(r), DateOf(r), LondonHour(Utc(a)),
                           (LondonHour(Utc(a)) + a.len) % HoursPerDay, Cardinality(G(s)),
                           PriceOf(This, a), Activities \X CourtsIn({Hall(a.court)}))]
<1>1. HoldsAsked(S, r)
  BY AnswerHoldsAsked DEF Apis
<1>2. Makes(PlaytomicParse(This, r, S), S, f)
  <2>1. ASSUME NEW l \in PlaytomicParse(This, r, S) PROVE \E s \in S : l = f[s]
    <3>1. PICK k \in {PlaytomicKey(s) : s \in S} :
            LET g == {s \in S : PlaytomicKey(s) = k}
                s == AnyOf(g)
            IN  l = Listing(VenueOf(r), DateOf(r), LondonHour(Utc(s)),
                            (LondonHour(Utc(s)) + s.len) % HoursPerDay, Cardinality(g),
                            PriceOf(This, s), Activities \X CourtsIn({Hall(s.court)}))
      BY Zenon DEF PlaytomicParse, Grouped
    <3>2. PICK s \in S : k = PlaytomicKey(s)
      OBVIOUS
    <3> QED BY <3>1, <3>2, ZenonT(60)
  <2>2. ASSUME NEW s \in S PROVE f[s] \in PlaytomicParse(This, r, S)
    <3>1. PlaytomicKey(s) \in {PlaytomicKey(t) : t \in S}
      OBVIOUS
    <3> QED BY <3>1 DEF PlaytomicParse, Grouped
  <2> QED BY <2>1, <2>2 DEF Makes
<1>3. \A s \in S : /\ s \in OnSale /\ s \in Sessions /\ s.venue = VenueOf(r) /\ FiledUnder(s) = DateOf(r)
                   /\ s.activity \in Activities /\ s.court \in Courts /\ places[s] > 0
                   /\ LondonHour(Utc(s)) = s.start
                   /\ (LondonHour(Utc(s)) + s.len) % HoursPerDay = EndHour(s)
  <2> TAKE s \in S
  <2>1. s \in OnSale /\ s \in Sessions /\ s.venue \in r.venues /\ FiledUnder(s) \in r.dates
    BY AnswerSold DEF Apis, WholeSites
  <2>2. s.venue = VenueOf(r) /\ FiledUnder(s) = DateOf(r)
    BY <2>1, VenueAndDate DEF DayByDay
  <2>3. s.activity \in Activities /\ s.court \in Courts
    BY <2>1, SessionFacts DEF TellingOK
  <2>4. LondonHour(Utc(s)) = s.start
    BY <2>1, Clocks DEF TellingOK
  <2>5. (s.start + s.len) % HoursPerDay = EndHour(s)
    BY DEF EndHour, EndOf
  <2>6. places[s] > 0
    BY DEF Answer
  <2> QED BY <2>1, <2>2, <2>3, <2>4, <2>5, <2>6
<1>4. ASSUME NEW s \in S
      PROVE  /\ s \in G(s) /\ G(s) \subseteq About(f[s])
             /\ f[s].spaces = Cardinality({t \in G(s) : places[t] > 0})
  <2> DEFINE a == AnyOf(G(s))
             alike == Activities \X CourtsIn({Hall(a.court)})
  <2>1. a \in G(s)
    BY DEF AnyOf
  <2>2. f[s] = Listing(VenueOf(r), DateOf(r), LondonHour(Utc(a)),
                       (LondonHour(Utc(a)) + a.len) % HoursPerDay, Cardinality(G(s)),
                       PriceOf(This, a), alike)
    OBVIOUS
  <2>3. {t \in G(s) : places[t] > 0} = G(s)
    BY <1>3
  <2>4. \A t \in G(s) : /\ t \in S /\ Utc(t) = Utc(a) /\ t.len = a.len
                        /\ <<t.activity, t.court>> \in alike
    BY <1>3, <2>1 DEF PlaytomicKey, CourtsIn
  <2> HIDE DEF f, a, alike
  <2>5. /\ f[s].venue = VenueOf(r) /\ f[s].date = DateOf(r) /\ f[s].start = a.start
        /\ f[s].end = EndHour(a) /\ f[s].of = alike /\ f[s].spaces = Cardinality(G(s))
    BY <1>3, <2>1, <2>2 DEF Listing
  <2>6. \A t \in G(s) : t.start = a.start /\ EndHour(t) = EndHour(a)
    <3> TAKE t \in G(s)
    <3>1. LondonHour(Utc(t)) = t.start /\ LondonHour(Utc(a)) = a.start /\ Utc(t) = Utc(a)
      BY <1>3, <2>1, <2>4
    <3>2. t.start = a.start /\ t.len = a.len
      BY <3>1, <2>4
    <3> QED BY <3>2 DEF EndHour, EndOf
  <2>7. \A t \in G(s) : t \in About(f[s])
    BY <1>3, <2>4, <2>5, <2>6 DEF About
  <2> QED BY <2>3, <2>5, <2>7
<1>6. \A s \in S : f[s].date \in Nat
  BY VenueAndDate DEF Listing, DayByDay, Meant, UtcDays
<1> HIDE DEF f, G
<1>5. CountsGroups(S, f)
  BY <1>4, <1>6 DEF CountsGroups
<1> QED BY <1>1, <1>2, <1>5, CourtGroupsTold DEF CountsCourts

LEMMA MatchiTells ==
  ASSUME TellingOK, This.api = "matchi", NEW r, RequestFits("matchi", r), Meant(r),
         NEW S, S = Answer("matchi", r)
  PROVE  Tells(MatchiParse(This, r, S), r)
<1> DEFINE B == {s \in S : places[s] > 0}
           G(s) == {t \in B : StockholmStamp(t) = StockholmStamp(s)}
           f == [s \in B |-> LET a == AnyOf(G(s)) IN
                   Listing(VenueOf(r), DateOf(r), MatchiHour(StockholmStamp(a)),
                           MatchiHour(StockholmStamp(a) + a.len), Cardinality(G(s)),
                           PriceOf(This, a), Anything)]
<1>1. HoldsAsked(B, r)
  <2>1. HoldsAsked(S, r)
    BY AnswerHoldsAsked DEF Apis
  <2> QED BY <2>1 DEF HoldsAsked
<1>2. Makes(MatchiParse(This, r, S), B, f)
  <2>1. ASSUME NEW l \in MatchiParse(This, r, S) PROVE \E s \in B : l = f[s]
    <3>1. PICK g \in MatchiSlots(S) :
            LET s == AnyOf(g) IN
              l = Listing(VenueOf(r), DateOf(r), MatchiHour(StockholmStamp(s)),
                          MatchiHour(StockholmStamp(s) + s.len), Cardinality(g), PriceOf(This, s), Anything)
      BY DEF MatchiParse
    <3>2. PICK k \in {StockholmStamp(s) : s \in B} : g = {s \in B : StockholmStamp(s) = k}
      BY Zenon DEF MatchiSlots, Grouped
    <3>3. PICK s \in B : k = StockholmStamp(s)
      OBVIOUS
    <3> HIDE DEF B
    <3> QED BY <3>1, <3>2, <3>3
  <2>2. ASSUME NEW s \in B PROVE f[s] \in MatchiParse(This, r, S)
    <3>1. StockholmStamp(s) \in {StockholmStamp(t) : t \in B}
      OBVIOUS
    <3>2. G(s) \in MatchiSlots(S)
      BY <3>1 DEF MatchiSlots, Grouped
    <3> QED BY <3>2 DEF MatchiParse
  <2> QED BY <2>1, <2>2 DEF Makes
<1>3. \A s \in B : /\ s \in OnSale /\ s \in Sessions /\ s.venue = VenueOf(r) /\ s.day = DateOf(r)
                   /\ s \in S /\ places[s] > 0 /\ FiledUnder(s) = s.day
                   /\ MatchiHour(StockholmStamp(s)) = s.start
                   /\ MatchiHour(StockholmStamp(s) + s.len) = EndHour(s)
  <2> TAKE s \in B
  <2>1. /\ s \in OnSale /\ s \in Sessions /\ s.venue \in r.venues /\ s.day \in r.dates
        /\ FiledUnder(s) = s.day
    BY AnswerSold DEF Apis, WholeSites, UtcDays
  <2>2. s.venue = VenueOf(r) /\ s.day = DateOf(r)
    BY <2>1, VenueAndDate DEF DayByDay
  <2> QED BY <2>1, <2>2, Clocks DEF TellingOK
<1>4. ASSUME NEW s \in B
      PROVE  /\ s \in G(s) /\ G(s) \subseteq About(f[s])
             /\ f[s].spaces = Cardinality({t \in G(s) : places[t] > 0})
  <2> DEFINE a == AnyOf(G(s))
  <2>1. a \in G(s)
    BY DEF AnyOf
  <2>2. f[s] = Listing(VenueOf(r), DateOf(r), MatchiHour(StockholmStamp(a)),
                       MatchiHour(StockholmStamp(a) + a.len), Cardinality(G(s)), PriceOf(This, a),
                       Anything)
    OBVIOUS
  <2>3. {t \in G(s) : places[t] > 0} = G(s)
    BY <1>3
  <2> HIDE DEF f, a, B
  <2>4. /\ f[s].venue = VenueOf(r) /\ f[s].date = DateOf(r) /\ f[s].start = a.start
        /\ f[s].end = EndHour(a) /\ f[s].of = Anything /\ f[s].spaces = Cardinality(G(s))
    BY <1>3, <2>1, <2>2 DEF Listing
  <2>5. \A t \in G(s) : t.day = a.day /\ t.start = a.start /\ t.venue = a.venue /\ t \in S /\ t \in B
    BY <1>3, <2>1
  <2>6. \A t \in G(s) : EndHour(t) = EndHour(a)
    BY <2>1, <2>5, StartsEndTogether
  <2>7. \A t \in G(s) : t \in About(f[s])
    BY <1>3, <2>4, <2>5, <2>6, SessionFacts DEF About, TellingOK
  <2> QED BY <2>3, <2>4, <2>7
<1> HIDE DEF f, G, B
<1>5. CountsGroups(B, f)
  BY <1>4 DEF CountsGroups, UtcDays
<1> QED BY <1>1, <1>2, <1>5, CourtGroupsTold DEF CountsCourts

LEMMA PadelMatesTells ==
  ASSUME TellingOK, This.api = "padelmates", NEW r, RequestFits("padelmates", r), Meant(r),
         NEW S, S = Answer("padelmates", r)
  PROVE  Tells(PadelMatesParse(This, r, S), r)
<1> DEFINE B == {s \in S : ~s.blocked}
           G(s) == {t \in B : <<Utc(t), t.len>> = <<Utc(s), s.len>>}
           f == [s \in B |-> LET a == AnyOf(G(s)) IN
                   Listing(VenueOf(r), LondonDate(Utc(a)), LondonHour(Utc(a)), LondonEnd(a),
                           Cardinality(G(s)), PriceOf(This, a), Anything)]
<1>1. HoldsAsked(B, r)
  <2>1. HoldsAsked(S, r)
    BY AnswerHoldsAsked DEF Apis
  <2>2. \A s \in OnSale : ~s.blocked
    BY DEF OnSale
  <2> QED BY <2>1, <2>2 DEF HoldsAsked
<1>2. Makes(PadelMatesParse(This, r, S), B, f)
  <2>1. ASSUME NEW l \in PadelMatesParse(This, r, S) PROVE \E s \in B : l = f[s]
    <3>1. PICK k \in {<<Utc(s), s.len>> : s \in B} :
            LET g == {s \in B : <<Utc(s), s.len>> = k}
                s == AnyOf(g)
            IN  l = Listing(VenueOf(r), LondonDate(Utc(s)), LondonHour(Utc(s)), LondonEnd(s),
                            Cardinality(g), PriceOf(This, s), Anything)
      BY Zenon DEF PadelMatesParse, Grouped
    <3>2. PICK s \in B : k = <<Utc(s), s.len>>
      OBVIOUS
    <3> HIDE DEF B
    <3> QED BY <3>1, <3>2
  <2>2. ASSUME NEW s \in B PROVE f[s] \in PadelMatesParse(This, r, S)
    <3>1. <<Utc(s), s.len>> \in {<<Utc(t), t.len>> : t \in B}
      OBVIOUS
    <3> QED BY <3>1 DEF PadelMatesParse, Grouped
  <2> QED BY <2>1, <2>2 DEF Makes
<1>3. \A s \in B : /\ s \in OnSale /\ s \in Sessions /\ s.venue = VenueOf(r) /\ places[s] > 0
                   /\ LondonDate(Utc(s)) = s.day /\ LondonHour(Utc(s)) = s.start
                   /\ LondonEnd(s) = EndHour(s) /\ FiledUnder(s) = s.day
  <2> TAKE s \in B
  <2>1. /\ s \in Sessions /\ s.venue \in r.venues /\ ~s.blocked
        /\ s.activity \in SoldAs(s.venue) /\ KnowsVenue(s.venue) /\ FiledUnder(s) = s.day
    BY AnswerSold DEF Apis, WholeSites, UtcDays
  <2>2. s.venue = VenueOf(r)
    BY <2>1, VenueAndDate
  <2>3. places[s] > 0
    BY DEF Answer
  <2> QED BY <2>1, <2>2, <2>3, Clocks DEF TellingOK, OnSale
<1>4. ASSUME NEW s \in B
      PROVE  /\ s \in G(s) /\ G(s) \subseteq About(f[s])
             /\ f[s].spaces = Cardinality({t \in G(s) : places[t] > 0})
  <2> DEFINE a == AnyOf(G(s))
  <2>1. a \in G(s)
    BY DEF AnyOf
  <2>2. f[s] = Listing(VenueOf(r), LondonDate(Utc(a)), LondonHour(Utc(a)), LondonEnd(a),
                       Cardinality(G(s)), PriceOf(This, a), Anything)
    OBVIOUS
  <2>3. {t \in G(s) : places[t] > 0} = G(s)
    BY <1>3
  <2> HIDE DEF f, a, B
  <2>4. /\ f[s].venue = VenueOf(r) /\ f[s].date = a.day /\ f[s].start = a.start
        /\ f[s].end = EndHour(a) /\ f[s].of = Anything /\ f[s].spaces = Cardinality(G(s))
    BY <1>3, <2>1, <2>2 DEF Listing
  <2>5. \A t \in G(s) : Utc(t) = Utc(a) /\ t.len = a.len /\ t \in B
    BY <2>1
  <2>6. \A t \in G(s) : t.day = a.day /\ t.start = a.start /\ EndHour(t) = EndHour(a)
    <3> TAKE t \in G(s)
    <3>1. /\ LondonHour(Utc(t)) = t.start /\ LondonDate(Utc(t)) = t.day
          /\ LondonHour(Utc(a)) = a.start /\ LondonDate(Utc(a)) = a.day
      BY <1>3, <2>1, <2>5
    <3>2. t.start = a.start /\ t.day = a.day /\ t.len = a.len
      BY <2>5, <3>1
    <3> QED BY <3>2 DEF EndHour, EndOf
  <2>7. \A t \in G(s) : t \in About(f[s])
    BY <1>3, <2>4, <2>5, <2>6, SessionFacts DEF About, TellingOK
  <2> QED BY <2>3, <2>4, <2>7
<1> HIDE DEF f, G, B
<1>5. CountsGroups(B, f)
  BY <1>4 DEF CountsGroups, UtcDays
<1> QED BY <1>1, <1>2, <1>5, CourtGroupsTold DEF CountsCourts

\* What the grid of a court shows as taken.
BusyOn(S, c) == {<<s.start, EndOf(s)>> : s \in {s \in S : s.court = c /\ places[s] = 0}}

LEMMA BusyBlocks ==
  ASSUME TellingOK, NEW S \in SUBSET Sessions, \A s \in S : InGrid(s), NEW c
  PROVE  IsFiniteSet(BusyOn(S, c)) /\ \A b \in BusyOn(S, c) : Block(b)
<1> DEFINE f == [s \in S |-> <<s.start, EndOf(s)>>]
<1>1. IsFiniteSet(S)
  BY FS_Subset DEF TellingOK, PlatformOK
<1>2. \A b \in BusyOn(S, c) : \E s \in S : b = f[s]
  BY DEF BusyOn
<1>3. IsFiniteSet(BusyOn(S, c))
  <2> HIDE DEF f
  <2> QED BY <1>1, <1>2, FiniteImage
<1>4. \A s \in S : Block(<<s.start, EndOf(s)>>)
  <2> TAKE s \in S
  <2>1. /\ s.start \in Nat /\ s.len \in Nat /\ 1 <= s.len
        /\ Opening <= s.start /\ EndOf(s) <= Closing
    BY ClockAssumption DEF TellingOK, PlatformOK, SessionType, InGrid
  <2>2. EndOf(s) \in Nat /\ s.start < EndOf(s)
    BY <2>1 DEF EndOf
  <2> QED BY <2>1, <2>2 DEF Block
<1>5. \A b \in BusyOn(S, c) : Block(b)
  BY <1>4 DEF BusyOn
<1> QED BY <1>3, <1>5

\* The rows of a court: a listing for each of its blocks, busy or free.
Row(r, c, block, spaces) ==
  Listing(VenueOf(r), DateOf(r), block[1], block[2], spaces, NoPrice, Activities \X {c})

LEMMA StratfordRows ==
  ASSUME NEW r, NEW S
  PROVE  /\ \A l \in StratfordParse(This, r, S) : \E c :
              \/ \E b \in BusyOn(S, c) : l = Row(r, c, b, 0)
              \/ \E b \in FreeIntervals(BusyOn(S, c)) : l = Row(r, c, b, 1)
         /\ \A t \in Sessions : t.venue \in r.venues =>
              \A b \in FreeIntervals(BusyOn(S, t.court)) : Row(r, t.court, b, 1) \in StratfordParse(This, r, S)
<1> DEFINE courts == {s.court : s \in {s \in Sessions : s.venue \in r.venues}}
           part(c) == {Row(r, c, b, 0) : b \in BusyOn(S, c)}
                        \cup {Row(r, c, b, 1) : b \in FreeIntervals(BusyOn(S, c))}
           parts == {part(c) : c \in courts}
<1>1. StratfordParse(This, r, S) = UNION parts
  BY DEF StratfordParse, Row, BusyOn
<1>2. ASSUME NEW l \in StratfordParse(This, r, S)
      PROVE  \E c : \/ \E b \in BusyOn(S, c) : l = Row(r, c, b, 0)
                    \/ \E b \in FreeIntervals(BusyOn(S, c)) : l = Row(r, c, b, 1)
  <2>1. PICK c \in courts : l \in part(c)
    BY <1>1
  <2> QED BY <2>1
<1>3. ASSUME NEW t \in Sessions, t.venue \in r.venues, NEW b \in FreeIntervals(BusyOn(S, t.court))
      PROVE  Row(r, t.court, b, 1) \in StratfordParse(This, r, S)
  <2>1. t.court \in courts
    BY <1>3
  <2>2. part(t.court) \in parts
    BY <2>1
  <2>3. Row(r, t.court, b, 1) \in part(t.court)
    OBVIOUS
  <2> HIDE DEF part, parts
  <2> QED BY <1>1, <2>2, <2>3
<1> QED BY <1>2, <1>3

LEMMA StratfordTells ==
  ASSUME TellingOK, This.api = "stratford", NEW r, Meant(r), NEW S, S = Answer("stratford", r)
  PROVE  Tells(StratfordParse(This, r, S), r)
<1>1. PICK v \in Venues : \E d \in Nat : r = WholeDay(v, d)
  BY DEF Meant
<1>2. PICK d \in Nat : r = WholeDay(v, d)
  BY <1>1
<1>3. /\ r.venues = {v} /\ r.dates = {d} /\ r.activities = Activities /\ r.start = Anytime
      /\ r.halls = Halls
  BY <1>2 DEF WholeDay, Request
<1>4. VenueOf(r) = v /\ DateOf(r) = d
  BY <1>3 DEF VenueOf, DateOf
<1>5. S = {s \in Sessions : s.venue = v /\ s.day = d /\ InGrid(s)}
  BY <1>3, SessionFacts DEF Answer, Asked, TellingOK
<1> DEFINE busy(c) == BusyOn(S, c)
<1>6. S \in SUBSET Sessions /\ \A s \in S : InGrid(s)
  BY <1>5
<1>7. \A c : /\ \A b \in busy(c) : Block(b)
             /\ \A f \in FreeIntervals(busy(c)) : Block(f) /\ Apart(f[1], f[2], busy(c))
             /\ \A x, y \in Nat : Opening <= x /\ x < y /\ y <= Closing /\ Apart(x, y, busy(c)) =>
                  \E f \in FreeIntervals(busy(c)) : f[1] <= x /\ y <= f[2]
  <2> TAKE c
  <2>1. IsFiniteSet(busy(c)) /\ \A b \in busy(c) : Block(b)
    BY <1>6, BusyBlocks
  <2> HIDE DEF busy
  <2> QED BY <2>1, FreeIsComplement
<1>8. \A s \in S : /\ s.start \in Nat /\ EndOf(s) \in Nat /\ Opening <= s.start
                   /\ s.start < EndOf(s) /\ EndOf(s) <= Closing
                   /\ places[s] \in Nat /\ most[s] \in Nat /\ places[s] <= most[s]
  <2> TAKE s \in S
  <2>1. /\ s.start \in Nat /\ s.len \in Nat /\ 1 <= s.len
        /\ Opening <= s.start /\ EndOf(s) <= Closing
    BY <1>6, ClockAssumption DEF TellingOK, PlatformOK, SessionType, InGrid
  <2>2. EndOf(s) \in Nat /\ s.start < EndOf(s)
    BY <2>1 DEF EndOf
  <2>3. places[s] \in Nat /\ most[s] \in Nat /\ places[s] <= most[s]
    BY <1>6 DEF TellingOK, PlatformOK, MostOK
  <2> QED BY <2>1, <2>2, <2>3
<1>9. ASSUME NEW l \in StratfordParse(This, r, S) PROVE SoundRow(l)
  <2>1. PICK c : \/ \E b \in busy(c) : l = Row(r, c, b, 0)
                 \/ \E b \in FreeIntervals(busy(c)) : l = Row(r, c, b, 1)
    BY StratfordRows
  <2>2. CASE \E b \in busy(c) : l = Row(r, c, b, 0)
    <3>1. PICK b \in busy(c) : l = Row(r, c, b, 0)
      BY <2>2
    <3>2. Block(b) /\ b = <<b[1], b[2]>>
      BY <1>7 DEF Block
    <3>3. l.venue = v /\ l.date = d /\ l.spaces = 0 /\ l.start = b[1] /\ l.end = b[2]
      BY <1>4, <3>1 DEF Row, Listing
    <3> QED BY <3>2, <3>3 DEF SoundRow
  <2>3. CASE \E b \in FreeIntervals(busy(c)) : l = Row(r, c, b, 1)
    <3>1. PICK b \in FreeIntervals(busy(c)) : l = Row(r, c, b, 1)
      BY <2>3
    <3>2. Block(b) /\ b = <<b[1], b[2]>> /\ Apart(b[1], b[2], busy(c)) /\ b[1] \in Nat /\ b[2] \in Nat
      BY <1>7 DEF Block
    <3>3. /\ l.venue = v /\ l.date = d /\ l.spaces = 1 /\ l.start = b[1] /\ l.end = b[2]
          /\ l.of = Activities \X {c}
      BY <1>4, <3>1 DEF Row, Listing
    <3>4. ASSUME NEW s \in OnSale, s.venue = l.venue, s.day = l.date, <<s.activity, s.court>> \in l.of,
                 s.start < l.end, l.start < EndOf(s)
          PROVE  most[s] > 0
      <4>1. s \in S /\ s.court = c
        BY <1>5, <3>3, <3>4 DEF OnSale
      <4>2. ASSUME places[s] = 0 PROVE FALSE
        <5>1. <<s.start, EndOf(s)>> \in busy(c)
          BY <4>1, <4>2 DEF BusyOn
        <5>2. b[2] <= s.start \/ EndOf(s) <= b[1]
          BY <3>2, <5>1 DEF Apart
        <5> QED BY <1>8, <3>2, <3>3, <3>4, <4>1, <5>2
      <4> QED BY <1>8, <4>1, <4>2
    <3> QED BY <3>2, <3>3, <3>4 DEF SoundRow
  <2> QED BY <2>1, <2>2, <2>3
<1>10. ASSUME NEW s \in OnSale, AsksFor(r, s), places[s] > 0
       PROVE  \E l \in StratfordParse(This, r, S) : Offers(l, s)
  <2>1. /\ s \in S /\ s \in Sessions /\ s.venue = v /\ s.day = d /\ s.activity \in Activities
        /\ FiledUnder(s) = d
    <3>1. s \in Sessions /\ InGrid(s) /\ s.activity \in Activities
      BY SessionFacts DEF OnSale, TellingOK
    <3>2. FiledUnder(s) = s.day
      BY <3>1, Filed DEF TellingOK, UtcDays
    <3>3. s.venue = v /\ FiledUnder(s) = d
      BY <1>3, <1>10 DEF AsksFor
    <3> QED BY <1>5, <3>1, <3>2, <3>3
  <2> DEFINE c == s.court
  <2>2. Apart(s.start, EndOf(s), busy(c))
    <3> SUFFICES ASSUME NEW b \in busy(c) PROVE EndOf(s) <= b[1] \/ b[2] <= s.start
      BY DEF Apart
    <3>1. PICK t \in S : t.court = c /\ places[t] = 0 /\ b = <<t.start, EndOf(t)>>
      BY DEF BusyOn
    <3>2. t # s /\ t \in Sessions /\ t.venue = s.venue /\ t.day = s.day
      BY <1>5, <1>8, <1>10, <2>1, <3>1
    <3> QED BY <2>1, <3>1, <3>2 DEF TellingOK, CourtsFit
  <2>3. PICK f \in FreeIntervals(busy(c)) : f[1] <= s.start /\ EndOf(s) <= f[2]
    BY <1>7, <1>8, <2>1, <2>2
  <2>4. Row(r, c, f, 1) \in StratfordParse(This, r, S)
    BY <1>3, <2>1, StratfordRows
  <2>5. Offers(Row(r, c, f, 1), s)
    BY <1>4, <2>1, <2>3 DEF Offers, Row, Listing
  <2> QED BY <2>4, <2>5
<1> QED BY <1>9, <1>10 DEF Tells, Sound

LEMMA ParseTells ==
  ASSUME TellingOK, This.api \in Apis, NEW r, RequestFits(This.api, r), Meant(r)
  PROVE  /\ (This.api = "places" => r.start # Anytime) => Tells(Parse(This, r, Answer(This.api, r)), r)
         /\ \A l \in ParseGarbled(This, r) : Sound(l)
<1>1. \A l \in ParseGarbled(This, r) : Sound(l)
  BY BlanksSound DEF ParseGarbled
<1>2. CASE This.api = "better"
  BY <1>1, <1>2, BetterTells DEF Parse
<1>3. CASE This.api = "everyoneactive"
  BY <1>1, <1>3, EveryoneActiveTells DEF Parse
<1>4. CASE This.api = "southwark"
  BY <1>1, <1>4, SouthwarkTells DEF Parse
<1>5. CASE This.api = "citysports"
  BY <1>1, <1>5, OneSiteTells DEF Parse
<1>6. CASE This.api = "uel"
  BY <1>1, <1>6, OneSiteTells DEF Parse
<1>7. CASE This.api = "mytime"
  BY <1>1, <1>7, MytimeTells DEF Parse
<1>8. CASE This.api = "towerhamlets"
  BY <1>1, <1>8, TowerHamletsTells DEF Parse
<1>9. CASE This.api = "decathlon"
  BY <1>1, <1>9, DecathlonTells DEF Parse
<1>10. CASE This.api = "places"
  BY <1>1, <1>10, PlacesTells DEF Parse
<1>11. CASE This.api = "playtomic"
  BY <1>1, <1>11, PlaytomicTells DEF Parse
<1>12. CASE This.api = "courtreserve"
  BY <1>1, <1>12, CourtReserveTells DEF Parse
<1>13. CASE This.api = "matchi"
  BY <1>1, <1>13, MatchiTells DEF Parse
<1>14. CASE This.api = "padelmates"
  BY <1>1, <1>14, PadelMatesTells DEF Parse
<1>15. CASE This.api = "stratford"
  BY <1>1, <1>15, StratfordTells DEF Parse
<1>16. CASE This.api = "clubspark"
  BY <1>1, <1>16, ClubSparkTells DEF Parse
<1> QED BY <1>2, <1>3, <1>4, <1>5, <1>6, <1>7, <1>8, <1>9, <1>10, <1>11, <1>12, <1>13, <1>14, <1>15,
           <1>16 DEF Apis

\* The availability requests that follow a schedule ask for what was asked for.
LEMMA ScheduledAsks ==
  ASSUME TellingOK, This.api = "places", NEW r, r.start = Anytime, Meant(r),
         NEW S, S = Answer("places", r)
  PROVE  /\ \A q \in ScheduledRequests(r, S) : Meant(q)
         /\ \A s \in OnSale : AsksFor(r, s) /\ places[s] > 0 =>
              \E q \in ScheduledRequests(r, S) : AsksFor(q, s)
<1> DEFINE ask(s) == [venues |-> r.venues, dates |-> {LondonDate(Utc(s))}, activities |-> {s.activity},
                      halls |-> {Hall(s.court)}, start |-> s.start]
<1>1. \A s : /\ ask(s).venues = r.venues /\ ask(s).dates = {LondonDate(Utc(s))}
             /\ ask(s).activities = {s.activity} /\ ask(s).halls = {Hall(s.court)}
             /\ ask(s).start = s.start
  OBVIOUS
<1>2. ScheduledRequests(r, S) = {ask(s) : s \in {s \in S : LondonDate(Utc(s)) \in r.dates}}
  BY DEF ScheduledRequests
<1> HIDE DEF ask
<1>3. ASSUME NEW q \in ScheduledRequests(r, S) PROVE Meant(q)
  <2>1. PICK s \in S : q = ask(s)
    BY <1>2
  <2>2. s.activity \in r.activities
    BY AnswerSold DEF Apis
  <2>3. \A v \in r.venues : {s.activity} \cap Activities \subseteq Sold(v)
    BY <2>2 DEF Meant, WholeSites
  <2>4. OneHallOnly(q)
    <3>1. q.activities = {s.activity} /\ q.halls = {Hall(s.court)}
      BY <1>1, <2>1
    <3> QED BY <3>1, Zenon DEF OneHallOnly
  <2> QED BY <1>1, <2>1, <2>3, <2>4 DEF Meant, UtcDays
<1>4. ASSUME NEW s \in OnSale, AsksFor(r, s), places[s] > 0
      PROVE  \E q \in ScheduledRequests(r, S) : AsksFor(q, s)
  <2>1. s \in S
    BY <1>4, AnswerHolds DEF Apis
  <2>2. s \in Sessions /\ FiledUnder(s) = s.day /\ LondonDate(Utc(s)) = s.day
    BY Clocks, Filed DEF OnSale, TellingOK, UtcDays
  <2>3. s.day \in r.dates /\ s.venue \in r.venues
    BY <1>4, <2>2 DEF AsksFor
  <2>4. ask(s) \in ScheduledRequests(r, S)
    BY <1>2, <2>1, <2>2, <2>3
  <2>5. AsksFor(ask(s), s)
    BY <1>1, <2>2, <2>3 DEF AsksFor
  <2> QED BY <2>4, <2>5
<1> QED BY <1>3, <1>4

-----------------------------------------------------------------------------
(* The invariant: every listing is sound, and a session that has had places  *)
(* all along is offered, unless a request that asks for it is still out or   *)
(* has been lost.                                                            *)

WorldOK == CourtsFit /\ OneEnd /\ MostOK
PendingMeant == \A r \in pending : Meant(r)
AllSound == \A l \in listings : Sound(l)
AllFound ==
  \A s \in OnSale : least[s] > 0 /\ Wanted(s) =>
    \/ \E r \in pending : AsksFor(r, s)
    \/ \E r \in lost : AsksFor(r, s)
    \/ \E l \in listings : Offers(l, s)

TellInv == WorldOK /\ PendingMeant /\ AllSound /\ AllFound

\* What TypeOK says of the rest.
BoundsOK ==
  /\ delta \in DOMAIN This.requests
  /\ Done => DOMAIN prices = listings
  /\ events \in 0..MaxEvents
  /\ IsFiniteSet(lost) /\ Cardinality(lost) <= MaxFaults

LEMMA InitTell == Init => TellInv
<1> SUFFICES ASSUME Init PROVE TellInv
  OBVIOUS
<1>1. PlatformOK /\ crawler \in Crawlers
  BY InitCrawl DEF CrawlInv, PlatformOK
<1>2. CourtsFit
  BY TimetableAssumption DEF Init, PlatformInit, CourtsFit, Sessions, EndOf
<1>3. OneEnd
  BY <1>1, OneEndAssumption DEF Init, PlatformInit, OneEnd, Sessions
<1>4. MostOK
  BY <1>1 DEF Init, MostOK, PlatformOK
<1>5. AllMeant /\ AllAskedFor
  BY <1>1, RequestsMeantAndWhole
<1>6. PendingMeant
  BY <1>5 DEF Init, AllMeant, PendingMeant
<1>7. AllSound
  BY DEF Init, AllSound
<1>8. AllFound
  <2> SUFFICES ASSUME NEW s \in OnSale, Wanted(s) PROVE \E r \in pending : AsksFor(r, s)
    BY DEF AllFound
  <2>1. /\ s.venue \in Venues /\ s.activity \in Activities /\ Hall(s.court) \in Halls
    BY <1>1, SessionFacts DEF OnSale, PlatformOK, SessionType
  <2>2. FiledUnder(s) \in SearchDates => FiledUnder(s) \in Nat
    BY DateAssumption
  <2> QED BY <1>5, <2>1, <2>2 DEF Init, AllAskedFor, Wanted
<1> QED BY <1>2, <1>3, <1>4, <1>6, <1>7, <1>8 DEF TellInv, WorldOK

\* Whichever answer comes in, and whether or not its request is lost.
LEMMA CollectTells ==
  ASSUME TellInv, LeastOK, CountInv, NEW r, NEW slots, NEW next, Collect(r, slots, next),
         lost \subseteq lost', \A l \in slots : Sound(l), \A q \in next : Meant(q),
         \A s \in OnSale : AsksFor(r, s) /\ least[s] > 0 =>
           \/ \E q \in next : AsksFor(q, s)
           \/ r \in lost'
           \/ \E l \in slots : Offers(l, s)
  PROVE  TellInv'
<1>1. /\ summer' = summer /\ places' = places /\ least' = least /\ most' = most /\ crawler' = crawler /\ delta' = delta
      /\ pending' = (pending \ {r}) \cup next /\ listings' = listings \cup slots
  BY DEF Collect, platform, crawl
<1>2. This' = This /\ Sessions' = Sessions
  BY <1>1 DEF This, Sessions
<1>3. WorldOK'
  BY <1>1, <1>2 DEF TellInv, WorldOK, CourtsFit, OneEnd, MostOK, EndOf
<1>4. OnSale' = OnSale /\ \A v : Sold(v)' = Sold(v)
  BY <1>1, <1>2 DEF OnSale, SoldAs, KnowsVenue, Sold, InGrid, EndOf
<1>5. \A q : Meant(q)' <=> Meant(q)
  BY <1>2, <1>4 DEF Meant, OneHallOnly
<1>6. PendingMeant'
  BY <1>1, <1>5 DEF TellInv, PendingMeant
<1>7. \A l : Sound(l)' <=> Sound(l)
  <2>1. \A l : About(l)' = About(l)
    BY <1>1, <1>2, <1>4 DEF About, FiledUnder, EndHour, EndOf
  <2>2. SpacesAt(most)' = SpacesAt(most)
    BY <1>1, <1>2 DEF SpacesAt, Spaces
  <2>3. \A l : SoundSlot(l)' <=> SoundSlot(l)
    BY <2>1, <2>2 DEF SoundSlot, IsSlot
  <2>4. \A l : SoundRow(l)' <=> SoundRow(l)
    BY <1>1, <1>4 DEF SoundRow, Block, EndOf
  <2> QED BY <1>2, <2>3, <2>4 DEF Sound
<1>8. AllSound'
  BY <1>1, <1>7 DEF TellInv, AllSound
<1>9. AllFound'
  <2>1. /\ \A s : Wanted(s)' <=> Wanted(s)
        /\ \A q, s : AsksFor(q, s)' <=> AsksFor(q, s)
        /\ \A l, s : Offers(l, s)' <=> Offers(l, s)
    BY <1>1, <1>2 DEF Wanted, AsksFor, Offers, FiledUnder, EndHour, EndOf
  <2> SUFFICES ASSUME NEW s \in OnSale, least[s] > 0, Wanted(s)
               PROVE  \/ \E q \in pending' : AsksFor(q, s)
                      \/ \E q \in lost' : AsksFor(q, s)
                      \/ \E l \in listings' : Offers(l, s)
    BY <1>1, <1>4, <2>1 DEF AllFound
  <2>2. \/ \E q \in pending : AsksFor(q, s)
        \/ \E q \in lost : AsksFor(q, s)
        \/ \E l \in listings : Offers(l, s)
    BY DEF TellInv, AllFound
  <2> QED BY <1>1, <2>2
<1> QED BY <1>3, <1>6, <1>8, <1>9 DEF TellInv

LEMMA MembersTell ==
  ASSUME CrawlInv, CountInv, TellInv, MembersAct
  PROVE  TellInv'
<1>1. PICK b \in Sessions : Book(b) \/ Cancel(b)
  BY DEF MembersAct
<1>2. Sessions' = Sessions
  BY <1>1 DEF Book, Cancel, Sessions, CrawlInv, PlatformOK
<1>3. /\ summer' = summer /\ crawler' = crawler /\ delta' = delta /\ pending' = pending /\ listings' = listings
      /\ lost' = lost
      /\ most' = [s \in Sessions |-> Max({most[s], places'[s]})]
      /\ least' = [s \in Sessions |-> Min({least[s], places'[s]})]
  BY <1>1 DEF MembersAct, crawl, Book, Cancel
<1>4. This' = This
  BY <1>3 DEF This
<1>5. \A s \in Sessions : /\ places[s] \in 0..MaxPlaces /\ places'[s] \in Nat
                          /\ most[s] \in Nat /\ least[s] \in Nat
  <2>1. \A s \in Sessions : places[s] \in 0..MaxPlaces /\ most[s] \in Nat /\ least[s] \in Nat
    BY DEF CrawlInv, PlatformOK, CountInv, LeastOK, TellInv, WorldOK, MostOK
  <2>2. \A s \in Sessions : places'[s] \in {places[s], places[s] + 1, places[s] - 1}
                            /\ (places'[s] = places[s] - 1 => places[s] > 0)
    BY <1>1, <2>1 DEF Book, Cancel, CrawlInv, PlatformOK
  <2>3. MaxPlaces \in Nat
    BY ClockAssumption
  <2> QED BY <2>1, <2>2, <2>3
<1>6. \A s \in Sessions : /\ most'[s] \in Nat /\ most[s] <= most'[s] /\ places'[s] <= most'[s]
                          /\ least'[s] \in Nat /\ least'[s] <= least[s]
  <2> TAKE s \in Sessions
  <2>1. most'[s] = Max({most[s], places'[s]}) /\ least'[s] = Min({least[s], places'[s]})
    BY <1>3
  <2>2. most[s] \in Nat /\ places'[s] \in Nat /\ least[s] \in Nat
    BY <1>5
  <2> DEFINE m == places'[s]
  <2>3. Max({most[s], m}) = (IF most[s] <= m THEN m ELSE most[s])
    BY <2>2, MaxOfTwo
  <2>4. Min({least[s], m}) = (IF least[s] <= m THEN least[s] ELSE m)
    BY <2>2, MinOfTwo
  <2> QED BY <2>1, <2>2, <2>3, <2>4
<1>7. WorldOK'
  <2>1. CourtsFit' /\ OneEnd'
    BY <1>2, <1>3 DEF TellInv, WorldOK, CourtsFit, OneEnd, EndOf
  <2>2. MostOK'
    BY <1>2, <1>3, <1>6 DEF MostOK
  <2> QED BY <2>1, <2>2 DEF WorldOK
<1>8. OnSale' = OnSale /\ \A v : Sold(v)' = Sold(v)
  BY <1>2, <1>3, <1>4 DEF OnSale, SoldAs, KnowsVenue, Sold, InGrid, EndOf
<1>9. PendingMeant'
  BY <1>3, <1>4, <1>8 DEF TellInv, PendingMeant, Meant, OneHallOnly
<1>10. AllSound'
  <2> SUFFICES ASSUME NEW l \in listings PROVE Sound(l)'
    BY <1>3 DEF AllSound
  <2>1. Sound(l)
    BY DEF TellInv, AllSound
  <2>2. CASE This.api = "stratford"
    <3>1. SoundRow(l)
      BY <2>1, <2>2 DEF Sound
    <3>2. \A s \in OnSale : most[s] > 0 => most'[s] > 0
      BY <1>5, <1>6 DEF OnSale
    <3>3. SoundRow(l)'
      BY <1>8, <3>1, <3>2 DEF SoundRow, Block, EndOf
    <3> QED BY <1>4, <2>2, <3>3 DEF Sound
  <2>3. CASE This.api # "stratford"
    <3>1. SoundSlot(l)
      BY <2>1, <2>3 DEF Sound
    <3>2. About(l)' = About(l) /\ About(l) \subseteq Sessions
      BY <1>3, <1>4, <1>8 DEF About, FiledUnder, EndHour, EndOf, OnSale
    <3>3. IsFiniteSet(About(l))
      BY <3>2, FS_Subset DEF CrawlInv, PlatformOK
    <3>4. \A s \in About(l) : /\ SpacesAt(most)'[s] \in Nat /\ SpacesAt(most)[s] \in Nat
                              /\ SpacesAt(most)[s] <= SpacesAt(most)'[s]
      <4> TAKE s \in About(l)
      <4>1. SpacesAt(most)'[s] = Spaces(most'[s]) /\ SpacesAt(most)[s] = Spaces(most[s])
        BY <1>2, <1>4, <3>2 DEF SpacesAt, Spaces
      <4>2. most'[s] \in Nat /\ most[s] \in Nat /\ most[s] <= most'[s]
        BY <1>5, <1>6, <3>2
      <4> QED BY <4>1, <4>2, SpacesFacts
    <3>5. SumFunctionOnSet(SpacesAt(most), About(l)) <= SumFunctionOnSet(SpacesAt(most)', About(l))
      BY <3>3, <3>4, SumMonotone
    <3>6. /\ SumFunctionOnSet(SpacesAt(most), About(l)) \in Nat
          /\ SumFunctionOnSet(SpacesAt(most)', About(l)) \in Nat
      BY <3>3, <3>4, Summing DEF SumsWell
    <3>7. SoundSlot(l)'
      BY <3>1, <3>2, <3>5, <3>6 DEF SoundSlot, IsSlot
    <3> QED BY <1>4, <2>3, <3>7 DEF Sound
  <2> QED BY <2>2, <2>3
<1>11. AllFound'
  <2>1. /\ \A s : Wanted(s)' <=> Wanted(s)
        /\ \A q, s : AsksFor(q, s)' <=> AsksFor(q, s)
        /\ \A l, s : Offers(l, s)' <=> Offers(l, s)
    BY <1>3, <1>4 DEF Wanted, AsksFor, Offers, FiledUnder, EndHour, EndOf
  <2>2. \A s \in OnSale : least'[s] > 0 => least[s] > 0
    BY <1>5, <1>6 DEF OnSale
  <2> QED BY <1>3, <1>8, <2>1, <2>2 DEF TellInv, AllFound
<1> QED BY <1>7, <1>9, <1>10, <1>11 DEF TellInv

\* When CourtReserve's parser raises, all that was asked for is lost.
LEMMA RaisedTells ==
  ASSUME TellInv, TellingOK, NEW r, ParseRaises(r)
  PROVE  TellInv'
<1>1. /\ summer' = summer /\ places' = places /\ least' = least /\ most' = most
      /\ crawler' = crawler /\ delta' = delta /\ pending' = {} /\ listings' = {}
      /\ Request(Venues, SearchDates, Activities) \in lost' /\ This.api = "courtreserve"
  BY DEF ParseRaises, platform, crawl
<1>2. This' = This /\ Sessions' = Sessions
  BY <1>1 DEF This, Sessions
<1>3. WorldOK'
  BY <1>1, <1>2 DEF TellInv, WorldOK, CourtsFit, OneEnd, MostOK, EndOf
<1>4. PendingMeant' /\ AllSound'
  BY <1>1 DEF PendingMeant, AllSound
<1>5. AllFound'
  <2>1. OnSale' = OnSale
    BY <1>1, <1>2 DEF OnSale, SoldAs, KnowsVenue, InGrid, EndOf
  <2>2. /\ \A s : Wanted(s)' <=> Wanted(s)
        /\ \A q, s : AsksFor(q, s)' <=> AsksFor(q, s)
    BY <1>1, <1>2 DEF Wanted, AsksFor, FiledUnder
  <2>3. ASSUME NEW s \in OnSale, Wanted(s)
        PROVE  AsksFor(Request(Venues, SearchDates, Activities), s)
    <3>1. s.venue \in Venues /\ s.activity \in Activities /\ Hall(s.court) \in Halls
      BY SessionFacts DEF OnSale, TellingOK, PlatformOK, SessionType
    <3>2. FiledUnder(s) \in SearchDates
      BY <1>1, <2>3 DEF Wanted
    <3> QED BY <3>1, <3>2 DEF AsksFor, Request
  <2> QED BY <1>1, <2>1, <2>2, <2>3 DEF AllFound
<1> QED BY <1>3, <1>4, <1>5 DEF TellInv

LEMMA NextTell == CrawlInv /\ CountInv /\ TellInv /\ [Next]_vars => TellInv'
<1> SUFFICES ASSUME CrawlInv, CountInv, TellInv, [Next]_vars PROVE TellInv'
  OBVIOUS
<1>1. LeastOK /\ This.api \in Apis /\ TellingOK
  BY CrawlerFacts DEF CrawlInv, PlatformOK, CountInv, TellInv, WorldOK, TellingOK
<1>2. \A s \in OnSale : least[s] > 0 => places[s] > 0
  BY <1>1 DEF LeastOK, TellingOK, PlatformOK, OnSale
<1>3. ASSUME NEW r \in pending, Answered(r)
      PROVE  TellInv'
  <2> DEFINE S == Answer(This.api, r)
  <2>1. RequestFits(This.api, r) /\ Meant(r)
    BY DEF CountInv, PendingFit, TellInv, PendingMeant
  <2>2. lost \subseteq lost'
    BY <1>3 DEF Answered
  <2>3. CASE This.api = "places" /\ r.start = Anytime
    <3>1. Collect(r, {}, ScheduledRequests(r, S))
      BY <1>3, <2>3 DEF Answered
    <3>2. /\ \A q \in ScheduledRequests(r, S) : Meant(q)
          /\ \A s \in OnSale : AsksFor(r, s) /\ places[s] > 0 =>
               \E q \in ScheduledRequests(r, S) : AsksFor(q, s)
      BY <1>1, <2>1, <2>3, ScheduledAsks
    <3> HIDE DEF S
    <3>3. \A s \in OnSale : AsksFor(r, s) /\ least[s] > 0 =>
            \E q \in ScheduledRequests(r, S) : AsksFor(q, s)
      BY <1>2, <3>2
    <3> QED BY <1>1, <2>2, <3>1, <3>2, <3>3, CollectTells
  <2>4. CASE ~(This.api = "places" /\ r.start = Anytime)
    <3>1. Collect(r, Parse(This, r, S), {})
      BY <1>3, <2>4 DEF Answered
    <3>2. Tells(Parse(This, r, S), r)
      BY <1>1, <2>1, <2>4, ParseTells
    <3> DEFINE T == Parse(This, r, S)
    <3>3. /\ \A l \in T : Sound(l)
          /\ \A s \in OnSale : AsksFor(r, s) /\ least[s] > 0 => \E l \in T : Offers(l, s)
      BY <1>2, <3>2 DEF Tells
    <3>4. Collect(r, T, {})
      BY <3>1
    <3> HIDE DEF T, S
    <3> QED BY <1>1, <2>2, <3>3, <3>4, CollectTells
  <2> QED BY <2>3, <2>4
<1>4. ASSUME NEW r \in pending, Fails(r)
      PROVE  TellInv'
  <2>1. Collect(r, {}, {}) /\ lost \subseteq lost' /\ r \in lost'
    BY <1>4 DEF Fails
  <2> QED BY <1>1, <2>1, CollectTells
<1>5. ASSUME NEW r \in pending, Garbled(r)
      PROVE  TellInv'
  <2>1. Collect(r, ParseGarbled(This, r), {}) /\ lost \subseteq lost' /\ r \in lost'
    BY <1>5 DEF Garbled
  <2>2. RequestFits(This.api, r) /\ Meant(r)
    BY DEF CountInv, PendingFit, TellInv, PendingMeant
  <2>3. \A l \in ParseGarbled(This, r) : Sound(l)
    BY <1>1, <2>2, ParseTells
  <2> QED BY <1>1, <2>1, <2>3, CollectTells
<1>6. ASSUME NEW r \in pending, ParseRaises(r)
      PROVE  TellInv'
  BY <1>1, <1>6, RaisedTells
<1>7. CASE MembersAct
  BY <1>7, MembersTell
<1>8. CASE UNCHANGED vars
  <2>1. /\ summer' = summer /\ places' = places /\ least' = least /\ most' = most /\ crawler' = crawler /\ delta' = delta
        /\ pending' = pending /\ listings' = listings /\ lost' = lost
    BY <1>8 DEF vars, platform, crawl
  <2>2. This' = This /\ Sessions' = Sessions
    BY <2>1 DEF This, Sessions
  <2>3. WorldOK'
    BY <2>1, <2>2 DEF TellInv, WorldOK, CourtsFit, OneEnd, MostOK, EndOf
  <2>4. OnSale' = OnSale /\ \A v : Sold(v)' = Sold(v)
    BY <2>1, <2>2 DEF OnSale, SoldAs, KnowsVenue, Sold, InGrid, EndOf
  <2>5. PendingMeant'
    BY <2>1, <2>2, <2>4 DEF TellInv, PendingMeant, Meant, OneHallOnly
  <2>6. AllSound'
    <3>1. \A l : About(l)' = About(l)
      BY <2>1, <2>2, <2>4 DEF About, FiledUnder, EndHour, EndOf
    <3>2. SpacesAt(most)' = SpacesAt(most)
      BY <2>1, <2>2 DEF SpacesAt, Spaces
    <3>3. \A l : SoundSlot(l)' <=> SoundSlot(l)
      BY <3>1, <3>2 DEF SoundSlot, IsSlot
    <3>4. \A l : SoundRow(l)' <=> SoundRow(l)
      BY <2>1, <2>4 DEF SoundRow, Block, EndOf
    <3>5. \A l : Sound(l)' <=> Sound(l)
      BY <2>2, <3>3, <3>4 DEF Sound
    <3> QED BY <2>1, <3>5 DEF TellInv, AllSound
  <2>7. AllFound'
    BY <2>1, <2>2, <2>4 DEF TellInv, AllFound, Wanted, AsksFor, Offers,
       FiledUnder, EndHour, EndOf
  <2> QED BY <2>3, <2>5, <2>6, <2>7 DEF TellInv
<1> QED BY <1>3, <1>4, <1>5, <1>6, <1>7, <1>8 DEF Next

LEMMA TellInvariant == Spec => []TellInv
BY InitTell, NextTell, CrawlInvariant, CountInvariant, PTL DEF Spec

LEMMA BoundsInvariant == Spec => []BoundsOK
<1>1. Init => BoundsOK
  <2> SUFFICES ASSUME Init PROVE BoundsOK
    OBVIOUS
  <2>1. DOMAIN prices = listings
    BY DEF Init
  <2>2. IsFiniteSet(lost) /\ Cardinality(lost) = 0
    BY FS_EmptySet DEF Init
  <2> QED BY <2>1, <2>2, BoundsAssumption DEF Init, BoundsOK
<1>2. BoundsOK /\ [Next]_vars => BoundsOK'
  <2> SUFFICES ASSUME BoundsOK, [Next]_vars PROVE BoundsOK'
    OBVIOUS
  <2>1. crawler' = crawler /\ delta' = delta
    BY DEF Next, Answered, Fails, Garbled, ParseRaises, Collect, MembersAct, vars, crawl
  <2>2. delta' \in DOMAIN This'.requests
    BY <2>1 DEF BoundsOK, This
  <2>3. ASSUME NEW r, NEW slots, NEW next, Collect(r, slots, next)
        PROVE  /\ Done' => DOMAIN prices' = listings'
               /\ events' = events
    BY <2>3 DEF Collect, Done, FillEstimatedPrices
  <2>4. ASSUME NEW r, Cardinality(lost) < MaxFaults, lost' = lost \cup {r}
        PROVE  IsFiniteSet(lost') /\ Cardinality(lost') <= MaxFaults
    <3>1. /\ IsFiniteSet(lost') /\ Cardinality(lost) \in Nat
          /\ Cardinality(lost') = IF r \in lost THEN Cardinality(lost) ELSE Cardinality(lost) + 1
      BY <2>4, FS_AddElement, FS_CardinalityType DEF BoundsOK
    <3> QED BY <2>4, <3>1, BoundsAssumption
  <2>5. ASSUME NEW r \in pending, Answered(r)
        PROVE  BoundsOK'
    <3>1. lost' = lost /\ \E slots, next : Collect(r, slots, next)
      BY <2>5 DEF Answered
    <3> QED BY <2>2, <2>3, <3>1 DEF BoundsOK
  <2>6. ASSUME NEW r \in pending, Fails(r)
        PROVE  BoundsOK'
    BY <2>2, <2>3, <2>4, <2>6 DEF BoundsOK, Fails
  <2>7. ASSUME NEW r \in pending, Garbled(r)
        PROVE  BoundsOK'
    BY <2>2, <2>3, <2>4, <2>7 DEF BoundsOK, Garbled
  <2>8. ASSUME NEW r \in pending, ParseRaises(r)
        PROVE  BoundsOK'
    <3> DEFINE all == Request(Venues, SearchDates, Activities)
    <3>1. /\ Cardinality(lost) < MaxFaults /\ lost' = lost \cup {all}
          /\ events' = events /\ listings' = {} /\ prices' = FillEstimatedPrices({})
      BY <2>8 DEF ParseRaises
    <3>2. DOMAIN prices' = listings'
      BY <3>1 DEF FillEstimatedPrices
    <3> HIDE DEF all
    <3>3. IsFiniteSet(lost') /\ Cardinality(lost') <= MaxFaults
      BY <2>4, <3>1
    <3> QED BY <2>2, <3>1, <3>2, <3>3 DEF BoundsOK
  <2>9. CASE MembersAct
    BY <2>2, <2>9, BoundsAssumption DEF BoundsOK, MembersAct, Done
  <2>10. CASE UNCHANGED vars
    BY <2>2, <2>10 DEF BoundsOK, vars, Done, crawl
  <2> QED BY <2>5, <2>6, <2>7, <2>8, <2>9, <2>10 DEF Next
<1> QED BY <1>1, <1>2, PTL DEF Spec

-----------------------------------------------------------------------------
(* What follows from the two invariants.                                    *)

\* Every slot a crawler hands over is one that the table and the search can hold:
\* of a venue of the sport, on a date and between hours of the clock, with a
\* number of spaces, and a price or none; and every slot gets a price in the end.
THEOREM CrawlTyped == Spec => []TypeOK
<1>1. CrawlInv /\ CountInv /\ TellInv /\ BoundsOK => TypeOK
  <2> SUFFICES ASSUME CrawlInv, CountInv, TellInv, BoundsOK PROVE TypeOK
    OBVIOUS
  <2>1. ASSUME NEW l \in listings
        PROVE  /\ l.venue \in Venues /\ l.date \in Nat /\ l.spaces \in Nat
               /\ l.start \in 0..HoursPerDay - 1 /\ l.end \in 0..HoursPerDay - 1
    <3>1. Sound(l)
      BY DEF TellInv, AllSound
    <3>2. CASE This.api = "stratford"
      <4>1. SoundRow(l)
        BY <3>1, <3>2 DEF Sound
      <4>2. PICK x, y \in Nat : <<l.start, l.end>> = <<x, y>> /\ Opening <= x /\ x < y /\ y <= Closing
        BY <4>1 DEF SoundRow, Block
      <4>3. l.start = x /\ l.end = y
        BY <4>2
      <4> QED BY <4>1, <4>2, <4>3, ClockAssumption DEF SoundRow
    <3>3. CASE This.api # "stratford"
      <4>1. SoundSlot(l)
        BY <3>1, <3>3 DEF Sound
      <4> QED BY <4>1 DEF SoundSlot, IsSlot
    <3> QED BY <3>2, <3>3
  <2>2. \A l \in listings : l.price \in Nat \cup {NoPrice}
    BY DEF CrawlInv, ParsedWell
  <2>3. summer \in {0, 1} /\ places \in [Sessions -> 0..MaxPlaces] /\ crawler \in Crawlers
    BY DEF CrawlInv, PlatformOK
  <2> QED BY <2>1, <2>2, <2>3 DEF TypeOK, BoundsOK
<1> QED BY <1>1, CrawlInvariant, CountInvariant, TellInvariant, BoundsInvariant, PTL

\* Whichever crawler runs, whatever the timetable, and however members book and
\* requests fail meanwhile: no slot is offered with more spaces than its sessions
\* have had, and no open row of a Stratford court covers a session that was taken
\* all along.  So no date window, title, court or activity files a place under a
\* slot it does not belong to, and no clock does, if the platforms publish the
\* instants that BookingPlatform says; but for the session at midnight that
\* FiledUnder puts on the day before.
THEOREM NothingIsInvented == Spec => []NothingInvented
<1>1. TellInv => NothingInvented
  BY DEF TellInv, AllSound, Sound, SoundSlot, SoundRow, NothingInvented
<1> QED BY <1>1, TellInvariant, PTL

\* Once a crawl is over, a session that is on sale and has had places all along is
\* offered, at its own hours, unless a request that asked for it was lost: every
\* such session is asked for, answered, and kept by the parser.
THEOREM NothingIsHidden == Spec => []NothingHidden
<1>1. TellInv => NothingHidden
  BY DEF TellInv, AllFound, Offers, Done, NothingHidden
<1> QED BY <1>1, TellInvariant, PTL
==============================================================================
