--------------------------- MODULE FetchChainProofs ---------------------------
(***************************************************************************)
(* Proofs about FetchChain, for any number of requests, venues, permits,   *)
(* profiles and ticks: permits and locks are not lost, a venue's page is   *)
(* read once, and paced requests keep their distance.                      *)
(***************************************************************************)
EXTENDS FetchChain, FiniteSetTheorems, SequenceTheorems, TLAPS

TaskStates ==
  {"absent", "new", "waiting", "queued", "asking", "sleeping", "backing off", "done"}

ChainTypeOK ==
  /\ crawler \in Crawlers
  /\ pc \in [Tasks -> TaskStates]
  /\ timer \in [Tasks -> Nat] /\ gap \in 0..Interval /\ permits \in Nat
  /\ known \in [Venues -> {"absent", "read", "empty"}]
  /\ lock \in [Venues -> Requests \cup {None}]
  /\ pages \in [Venues -> Nat]
  /\ pace \in Requests \cup {None}

\* A task that reads a venue's page is there only for a crawler that has such
\* pages, queues only for Matchi's permits, and starts for Playtomic only after
\* its request.
PageTasks ==
  \A r \in Requests :
    /\ pc[Page(r)] # "absent" => This.page # "none"
    /\ pc[Page(r)] = "queued" => This.page = "beside"
    /\ This.page = "after" /\ pc[Slots(r)] # "done" => pc[Page(r)] = "absent"
    /\ pc[Page(r)] \notin {"sleeping", "backing off"}

\* Whoever holds a venue's lock has found no page of it; a page is counted when
\* it becomes known, and known to those who are done.
PagesCounted ==
  /\ \A v \in Venues : pages[v] = IF known[v] = "absent" THEN 0 ELSE 1
  /\ \A r \in Requests :
       /\ pc[Page(r)] \in {"queued", "asking"} => known[VenueOf[r]] = "absent"
       /\ pc[Page(r)] = "done" => known[VenueOf[r]] # "absent"

\* Only a crawler that paces its requests sleeps, until the interval is over.
Sleepers ==
  \A r \in Requests :
    /\ pc[Slots(r)] \in {"sleeping", "backing off"} => Paced
    /\ pc[Slots(r)] = "sleeping" => timer[Slots(r)] + gap = Interval

ChainInv ==
  ChainTypeOK /\ PageTasks /\ PagesCounted /\ Sleepers /\ ResourcesConserved

-----------------------------------------------------------------------------
\* A crawler that reads venue pages is not the one that paces its requests: its
\* chain starts with a plain request.
LEMMA CrawlerFacts ==
  ASSUME NEW c \in Crawlers
  PROVE  /\ CrawlerNamed[c].page \in {"none", "after", "beside"}
         /\ CrawlerNamed[c].hops[1] = "paced" => CrawlerNamed[c].page = "none"
<1>1. ProxyFallback.hops[1] = "direct"
  <2> DEFINE Hop == {"direct", "rotating", "solver"}
             direct == <<"direct">>
             rotating == Rotating(Profiles)
  <2>1. /\ direct \in Seq(Hop) /\ Len(direct) = 1 /\ direct[1] = "direct"
        /\ rotating \in Seq(Hop) /\ SolverHop \in Seq(Hop)
    <3>1. direct \in Seq(Hop) /\ Len(direct) = 1 /\ direct[1] = "direct"
      OBVIOUS
    <3>2. rotating \in [1..Profiles -> Hop] /\ Profiles \in Nat
      BY ChainAssumption DEF Rotating
    <3>3. rotating \in Seq(Hop)
      BY <3>2, SeqDef
    <3>4. <<"solver">> \in Seq(Hop) /\ <<>> \in Seq(Hop)
      OBVIOUS
    <3>5. SolverHop \in Seq(Hop)
      BY <3>4 DEF SolverHop
    <3> QED BY <3>1, <3>3, <3>5
  <2> HIDE DEF Hop, direct, rotating
  <2>2. (direct \o rotating) \in Seq(Hop)
        /\ Len(direct \o rotating) >= 1 /\ (direct \o rotating)[1] = "direct"
    BY <2>1, ConcatProperties, LenProperties
  <2>3. (direct \o rotating \o SolverHop)[1] = "direct"
    BY <2>1, <2>2, ConcatProperties, LenProperties
  <2> QED BY <2>3 DEF ProxyFallback, Simple, direct, rotating
<1>2. /\ ProxyFallback.page = "none"
      /\ Playtomic.hops = ProxyFallback.hops /\ Playtomic.page = "after"
      /\ Matchi.hops = ProxyFallback.hops /\ Matchi.page = "beside"
  BY DEF ProxyFallback, Playtomic, Matchi, Simple
<1>3. /\ EveryoneActiveBadminton.page = "none" /\ UelBadminton.page = "none"
      /\ CitySportsBadminton.page = "none" /\ PlacesLeisure.page = "none"
      /\ CourtReserve.page = "none" /\ StratfordPadel.page = "none"
      /\ MytimeActive.page = "none" /\ TowerHamlets.page = "none"
  BY DEF EveryoneActiveBadminton, UelBadminton, CitySportsBadminton, PlacesLeisure,
         CourtReserve, StratfordPadel, MytimeActive, TowerHamlets, Simple
<1>4. CrawlerNamed[c].page = "none" \/ CrawlerNamed[c] \in {Playtomic, Matchi}
  BY <1>2, <1>3, CrawlersAssumption
  DEF CrawlerNamed, EveryoneActiveSquash, ClubSparkTennis
<1> QED BY <1>1, <1>2, <1>4

LEMMA SameCrawler ==
  ASSUME crawler' = crawler
  PROVE  This' = This /\ Paced' = Paced
BY DEF This, Paced

LEMMA ThisCrawler ==
  ASSUME crawler \in Crawlers
  PROVE  This.page \in {"none", "after", "beside"} /\ (Paced => This.page = "none")
BY CrawlerFacts DEF This, Paced

LEMMA SomeTasks ==
  ASSUME NEW S \in SUBSET Tasks
  PROVE  /\ IsFiniteSet(S) /\ Cardinality(S) \in Nat
         /\ \A t \in S : Cardinality(S \ {t}) = Cardinality(S) - 1
         /\ \A t \in Tasks \ S : Cardinality(S \cup {t}) = Cardinality(S) + 1
<1>1. IsFiniteSet({"slots", "page"})
  <2>1. {"slots", "page"} = {"slots"} \cup {"page"}
    OBVIOUS
  <2>2. IsFiniteSet({"slots"})
    BY FS_Singleton
  <2> QED BY <2>1, <2>2, FS_AddElement
<1>2. IsFiniteSet(Tasks)
  BY <1>1, FS_Product, ChainAssumption DEF Tasks
<1> QED BY <1>2, FS_Subset, FS_AddElement, FS_RemoveElement, FS_CardinalityType

-----------------------------------------------------------------------------
\* The tasks of the semaphore's permits that are in use.
PermitHolders ==
  {t \in InFlight : ~Paced /\ ~(t[2] = "page" /\ This.page = "after")}

PermitsAddUp == permits + Cardinality(PermitHolders) = Permits

PaceHeld == \A r \in Requests : pace = r <=> (Paced /\ pc[Slots(r)] \in {"sleeping", "asking"})

LocksHeld ==
  \A r \in Requests :
    lock[VenueOf[r]] = r <=> \/ pc[Page(r)] = "asking"
                            \/ (This.page = "beside" /\ pc[Page(r)] = "queued")

LEMMA ConservedParts == ResourcesConserved <=> PermitsAddUp /\ PaceHeld /\ LocksHeld
BY DEF ResourcesConserved, PermitsAddUp, PermitHolders, PaceHeld, LocksHeld

LEMMA TaskFacts ==
  /\ \A r \in Requests : Slots(r) \in Tasks /\ Page(r) \in Tasks /\ VenueOf[r] \in Venues
  /\ \A r, q \in Requests : /\ Slots(r) # Page(q)
                            /\ Slots(r) = Slots(q) => r = q
                            /\ Page(r) = Page(q) => r = q
BY DEF Tasks, Slots, Page, Venues

LEMMA TaskCases ==
  ASSUME NEW t \in Tasks
  PROVE  \E r \in Requests : t = Slots(r) \/ t = Page(r)
<1>1. PICK r \in Requests, k \in {"slots", "page"} : t = <<r, k>>
  BY DEF Tasks
<1> QED BY <1>1 DEF Slots, Page

LEMMA Kinds == \A r \in Requests : Slots(r)[2] = "slots" /\ Page(r)[2] = "page"
BY DEF Slots, Page

\* What a move of one task to another state leaves of the others.
LEMMA SlotsMove ==
  ASSUME pc \in [Tasks -> TaskStates], NEW r \in Requests, NEW s \in TaskStates,
         pc' = [pc EXCEPT ![Slots(r)] = s]
  PROVE  /\ pc' \in [Tasks -> TaskStates] /\ pc'[Slots(r)] = s
         /\ \A t \in Tasks \ {Slots(r)} : pc'[t] = pc[t]
         /\ \A q \in Requests : pc'[Page(q)] = pc[Page(q)]
         /\ \A q \in Requests \ {r} : pc'[Slots(q)] = pc[Slots(q)]
<1>1. /\ pc' \in [Tasks -> TaskStates] /\ pc'[Slots(r)] = s
      /\ \A t \in Tasks \ {Slots(r)} : pc'[t] = pc[t]
  BY TaskFacts
<1> QED BY <1>1, TaskFacts

LEMMA PageMove ==
  ASSUME pc \in [Tasks -> TaskStates], NEW r \in Requests, NEW s \in TaskStates,
         pc' = [pc EXCEPT ![Page(r)] = s]
  PROVE  /\ pc' \in [Tasks -> TaskStates] /\ pc'[Page(r)] = s
         /\ \A t \in Tasks \ {Page(r)} : pc'[t] = pc[t]
         /\ \A q \in Requests : pc'[Slots(q)] = pc[Slots(q)]
         /\ \A q \in Requests \ {r} : pc'[Page(q)] = pc[Page(q)]
<1>1. /\ pc' \in [Tasks -> TaskStates] /\ pc'[Page(r)] = s
      /\ \A t \in Tasks \ {Page(r)} : pc'[t] = pc[t]
  BY TaskFacts
<1> QED BY <1>1, TaskFacts

LEMMA ChainStarts == Init => ChainInv
<1> SUFFICES ASSUME Init PROVE ChainInv
  OBVIOUS
<1>1. crawler \in Crawlers
  BY DEF Init
<1>2. pc \in [Tasks -> {"queued", "new", "absent"}]
  BY DEF Init, Begin
<1>3. \A r \in Requests : /\ pc[Slots(r)] = "queued"
                          /\ pc[Page(r)] = IF This.page = "beside" THEN "new" ELSE "absent"
  BY TaskFacts DEF Init, Begin, Slots, Page
<1>4. ChainTypeOK
  <2>1. timer \in [Tasks -> Nat] /\ gap \in 0..Interval /\ permits \in Nat
    BY ChainAssumption DEF Init
  <2>2. /\ known \in [Venues -> {"absent", "read", "empty"}]
        /\ lock \in [Venues -> Requests \cup {None}]
        /\ pages \in [Venues -> Nat]
        /\ pace \in Requests \cup {None}
    BY DEF Init
  <2> QED BY <1>1, <1>2, <2>1, <2>2 DEF ChainTypeOK, TaskStates
<1>5. PageTasks
  BY <1>3, TaskFacts DEF PageTasks
<1>6. PagesCounted
  BY <1>3, TaskFacts DEF Init, PagesCounted
<1>7. Sleepers
  BY <1>3 DEF Sleepers
<1>8. PermitsAddUp
  <2>1. PermitHolders = {}
    BY <1>2 DEF PermitHolders, InFlight
  <2> QED BY <2>1, FS_EmptySet, ChainAssumption DEF Init, PermitsAddUp
<1>9. PaceHeld
  BY <1>3, ChainAssumption DEF Init, PaceHeld
<1>10. LocksHeld
  BY <1>3, TaskFacts, ChainAssumption DEF Init, LocksHeld
<1> QED BY <1>4, <1>5, <1>6, <1>7, <1>8, <1>9, <1>10, ConservedParts DEF ChainInv

\* What the state of the tasks says of the permits, before and after a step.
LEMMA PermitTaken ==
  ASSUME ChainInv, crawler' = crawler, NEW t \in Tasks, t \notin PermitHolders, ~Paced,
         ~(t[2] = "page" /\ This.page = "after"),
         pc' = [pc EXCEPT ![t] = "asking"], permits' = permits - 1
  PROVE  PermitsAddUp'
<1>1. This' = This /\ Paced' = Paced
  BY SameCrawler
<1>2. PermitHolders' = PermitHolders \cup {t}
  BY <1>1 DEF ChainInv, ChainTypeOK, PermitHolders, InFlight
<1>3. PermitHolders \in SUBSET Tasks
  BY DEF PermitHolders, InFlight
<1>4. /\ Cardinality(PermitHolders) \in Nat
      /\ Cardinality(PermitHolders') = Cardinality(PermitHolders) + 1
  BY <1>2, <1>3, SomeTasks
<1>5. PermitsAddUp /\ permits \in Nat
  BY ConservedParts DEF ChainInv, ChainTypeOK
<1> QED BY <1>4, <1>5, ChainAssumption DEF PermitsAddUp

LEMMA PermitGivenBack ==
  ASSUME ChainInv, crawler' = crawler, NEW t \in PermitHolders,
         PermitHolders' = PermitHolders \ {t}, permits' = permits + 1
  PROVE  PermitsAddUp'
<1>1. PermitHolders \in SUBSET Tasks
  BY DEF PermitHolders, InFlight
<1>2. /\ Cardinality(PermitHolders) \in Nat
      /\ Cardinality(PermitHolders') = Cardinality(PermitHolders) - 1
  BY <1>1, SomeTasks
<1>3. PermitsAddUp /\ permits \in Nat
  BY ConservedParts DEF ChainInv, ChainTypeOK
<1> QED BY <1>2, <1>3, ChainAssumption DEF PermitsAddUp

LEMMA PermitsUntouched ==
  ASSUME ChainInv, PermitHolders' = PermitHolders, permits' = permits
  PROVE  PermitsAddUp'
BY ConservedParts DEF ChainInv, PermitsAddUp

LEMMA ChainInvAfter ==
  ChainTypeOK' /\ PageTasks' /\ PagesCounted' /\ Sleepers' /\ PermitsAddUp' /\ PaceHeld' /\ LocksHeld'
    => ChainInv'
BY DEF ChainInv, ResourcesConserved, PermitsAddUp, PermitHolders, PaceHeld, LocksHeld

LEMMA ChainInvParts ==
  ChainInv => /\ ChainTypeOK /\ PageTasks /\ PagesCounted /\ Sleepers
              /\ PermitsAddUp /\ PaceHeld /\ LocksHeld
              /\ This.page \in {"none", "after", "beside"} /\ (Paced => This.page = "none")
BY ConservedParts, ThisCrawler DEF ChainInv, ChainTypeOK

LEMMA ChainStep == ChainInv /\ [Next]_vars => ChainInv'
<1> SUFFICES ASSUME ChainInv, [Next]_vars PROVE ChainInv'
  OBVIOUS
<1>0. /\ ChainTypeOK /\ PageTasks /\ PagesCounted /\ Sleepers
      /\ PermitsAddUp /\ PaceHeld /\ LocksHeld
      /\ This.page \in {"none", "after", "beside"} /\ (Paced => This.page = "none")
  BY ChainInvParts
<1>1. crawler' = crawler /\ This' = This /\ Paced' = Paced
  <2>1. crawler' = crawler
    BY DEF Next, vars, OpenSession, FetchJwt, OpenBrowser, TakePermit, TryAgain, LookUpPage,
           TakeLock, TakePace, SendPaced, BackOff, ComeBack, EndRequest, EndPage, Tick, Return,
           ParseRaises, Gathered, End, KeepTheRest
  <2> QED BY <2>1, SameCrawler
<1>t. /\ pc \in [Tasks -> TaskStates] /\ permits \in Nat /\ crawler' \in Crawlers
      /\ timer \in [Tasks -> Nat] /\ gap \in Nat /\ gap <= Interval
      /\ known \in [Venues -> {"absent", "read", "empty"}]
      /\ lock \in [Venues -> Requests \cup {None}]
      /\ pages \in [Venues -> Nat]
      /\ pace \in Requests \cup {None}
      /\ Interval \in Nat /\ Backoff \in Nat /\ None \notin Requests
  BY <1>0, <1>1, ChainAssumption DEF ChainTypeOK
<1>2. ASSUME UNCHANGED <<pc, timer, known, lock, pages, permits, pace, gap>> PROVE ChainInv'
  <2>1. PermitHolders' = PermitHolders
    BY <1>1, <1>2 DEF PermitHolders, InFlight
  <2>2. PermitsAddUp'
    BY <1>2, <2>1, PermitsUntouched
  <2>3. ChainTypeOK' /\ PageTasks' /\ PagesCounted' /\ Sleepers' /\ PaceHeld' /\ LocksHeld'
    BY <1>0, <1>1, <1>2 DEF ChainTypeOK, PageTasks, PagesCounted, Sleepers, PaceHeld, LocksHeld
  <2> QED BY <2>2, <2>3, ChainInvAfter
<1>3. ASSUME NEW t \in Tasks, TakePermit(t) PROVE ChainInv'
  <2>1. /\ pc[t] = "queued" /\ ~Paced /\ permits > 0
        /\ pc' = [pc EXCEPT ![t] = "asking"] /\ permits' = permits - 1
        /\ UNCHANGED <<timer, known, lock, pages, pace, gap>>
    BY <1>3 DEF TakePermit, page
  <2>2. PICK r \in Requests : t = Slots(r) \/ t = Page(r)
    BY TaskCases
  <2>3. ASSUME t = Page(r) PROVE This.page = "beside"
    <3>1. pc[Page(r)] = "queued"
      BY <2>1, <2>3
    <3> QED BY <1>0, <3>1 DEF PageTasks
  <2>4. PermitsAddUp'
    <3>1. ~(t[2] = "page" /\ This.page = "after") /\ t \notin PermitHolders
      BY <2>1, <2>2, <2>3, Kinds DEF PermitHolders, InFlight
    <3> QED BY <1>1, <2>1, <3>1, PermitTaken
  <2>5. /\ pc' \in [Tasks -> TaskStates] /\ pc'[t] = "asking" /\ permits' \in Nat
        /\ \A u \in Tasks \ {t} : pc'[u] = pc[u]
    <3>1. "asking" \in TaskStates
      BY DEF TaskStates
    <3>2. permits - 1 \in Nat
      BY <1>t, <2>1
    <3> QED BY <1>t, <2>1, <3>1, <3>2
  <2>6. ChainTypeOK'
    BY <1>0, <1>1, <2>1, <2>5 DEF ChainTypeOK
  <2>7. CASE t = Slots(r)
    <3>1. /\ pc[Slots(r)] = "queued" /\ pc'[Slots(r)] = "asking"
          /\ \A q \in Requests : pc'[Page(q)] = pc[Page(q)]
          /\ \A q \in Requests \ {r} : pc'[Slots(q)] = pc[Slots(q)]
      BY <2>1, <2>5, <2>7, TaskFacts
    <3>2. PageTasks' /\ PagesCounted'
      BY <1>0, <1>1, <2>1, <3>1 DEF PageTasks, PagesCounted
    <3>3. Sleepers' /\ PaceHeld'
      BY <1>0, <1>1, <2>1, <3>1 DEF Sleepers, PaceHeld
    <3>4. LocksHeld'
      BY <1>0, <1>1, <2>1, <3>1 DEF LocksHeld
    <3> QED BY <2>4, <2>6, <3>2, <3>3, <3>4, ChainInvAfter
  <2>8. CASE t = Page(r)
    <3>1. /\ pc[Page(r)] = "queued" /\ pc'[Page(r)] = "asking"
          /\ \A q \in Requests : pc'[Slots(q)] = pc[Slots(q)]
          /\ \A q \in Requests \ {r} : pc'[Page(q)] = pc[Page(q)]
      BY <2>1, <2>5, <2>8, TaskFacts
    <3>2. PageTasks' /\ PagesCounted'
      BY <1>0, <1>1, <2>1, <3>1 DEF PageTasks, PagesCounted
    <3>3. Sleepers' /\ PaceHeld'
      BY <1>0, <1>1, <2>1, <3>1 DEF Sleepers, PaceHeld
    <3>4. LocksHeld'
      BY <1>0, <1>1, <2>1, <2>3, <2>8, <3>1 DEF LocksHeld
    <3> QED BY <2>4, <2>6, <3>2, <3>3, <3>4, ChainInvAfter
  <2> QED BY <2>2, <2>7, <2>8
<1>4. ASSUME NEW r \in Requests, NEW a \in Answers, EndRequest(r, a) PROVE ChainInv'
  <2> DEFINE next == IF This.page = "after" /\ a \in {"slots", "nothing"}
                     THEN "new" ELSE pc[Page(r)]
  <2>1. /\ pc[Slots(r)] = "asking"
        /\ pc' = [pc EXCEPT ![Slots(r)] = "done", ![Page(r)] = next]
        /\ permits' = IF Paced THEN permits ELSE permits + 1
        /\ pace' = IF Paced THEN None ELSE pace
        /\ UNCHANGED <<timer, known, lock, pages, gap>>
    BY <1>4, <1>t, TaskFacts DEF EndRequest, Release, page
  <2>2. This.page = "after" => pc[Page(r)] = "absent"
    BY <1>0, <2>1 DEF PageTasks
  <2>3. next \in TaskStates /\ (next = pc[Page(r)] \/ (This.page = "after" /\ next = "new"))
    BY <1>t, TaskFacts DEF TaskStates
  <2> HIDE DEF next
  <2>4. /\ pc' \in [Tasks -> TaskStates]
        /\ pc'[Slots(r)] = "done" /\ pc'[Page(r)] = next
        /\ \A t \in Tasks \ {Slots(r), Page(r)} : pc'[t] = pc[t]
    <3>1. "done" \in TaskStates
      BY DEF TaskStates
    <3> QED BY <1>t, <2>1, <2>3, <3>1, TaskFacts
  <2>5. \A q \in Requests \ {r} : pc'[Slots(q)] = pc[Slots(q)] /\ pc'[Page(q)] = pc[Page(q)]
    BY <2>4, TaskFacts
  <2>6. PermitsAddUp'
    <3>1. PermitHolders' = PermitHolders \ {Slots(r)}
      BY <1>1, <2>2, <2>3, <2>4, TaskFacts DEF PermitHolders, InFlight
    <3>2. CASE Paced
      <4>1. PermitHolders' = PermitHolders
        BY <1>1, <3>2 DEF PermitHolders
      <4> QED BY <2>1, <3>2, <4>1, PermitsUntouched
    <3>3. CASE ~Paced
      <4>1. Slots(r) \in PermitHolders
        BY <2>1, <3>3, Kinds, TaskFacts DEF PermitHolders, InFlight
      <4> QED BY <1>1, <2>1, <3>1, <3>3, <4>1, PermitGivenBack
    <3> QED BY <3>2, <3>3
  <2>7. ChainTypeOK'
    BY <1>0, <1>t, <1>1, <2>1, <2>4 DEF ChainTypeOK
  <2>8. PageTasks'
    BY <1>0, <1>1, <2>3, <2>4, <2>5 DEF PageTasks
  <2>9. PagesCounted'
    <3>1. \A q \in Requests : pc'[Page(q)] = pc[Page(q)] \/ pc'[Page(q)] = "new"
      BY <2>3, <2>4, <2>5
    <3> QED BY <1>0, <2>1, <3>1 DEF PagesCounted
  <2>10. Sleepers'
    BY <1>0, <1>1, <2>1, <2>4, <2>5 DEF Sleepers
  <2>11. PaceHeld'
    BY <1>0, <1>t, <1>1, <2>1, <2>4, <2>5 DEF PaceHeld
  <2>12. LocksHeld'
    BY <1>0, <1>1, <2>1, <2>2, <2>3, <2>4, <2>5 DEF LocksHeld
  <2> QED BY <2>6, <2>7, <2>8, <2>9, <2>10, <2>11, <2>12, ChainInvAfter
<1>5. ASSUME NEW r \in Requests, LookUpPage(r) PROVE ChainInv'
  <2> DEFINE next == IF known[VenueOf[r]] = "absent" THEN "waiting" ELSE "done"
  <2>1. /\ pc[Page(r)] = "new"
        /\ pc' = [pc EXCEPT ![Page(r)] = next]
        /\ UNCHANGED <<timer, known, lock, pages, permits, pace, gap>>
    BY <1>5 DEF LookUpPage, page
  <2>2. next \in TaskStates /\ next \in {"waiting", "done"}
        /\ (next = "done" => known[VenueOf[r]] # "absent")
    BY DEF TaskStates
  <2> HIDE DEF next
  <2>3. /\ pc' \in [Tasks -> TaskStates] /\ pc'[Page(r)] = next
        /\ \A t \in Tasks \ {Page(r)} : pc'[t] = pc[t]
        /\ \A q \in Requests : pc'[Slots(q)] = pc[Slots(q)]
        /\ \A q \in Requests \ {r} : pc'[Page(q)] = pc[Page(q)]
    BY <1>t, <2>1, <2>2, PageMove
  <2>4. PermitHolders' = PermitHolders
    BY <1>1, <2>1, <2>2, <2>3 DEF PermitHolders, InFlight
  <2>5. ChainTypeOK'
    BY <1>0, <1>1, <2>1, <2>3 DEF ChainTypeOK
  <2>6. PageTasks' /\ PagesCounted'
    BY <1>0, <1>1, <2>1, <2>2, <2>3 DEF PageTasks, PagesCounted
  <2>7. Sleepers' /\ PaceHeld' /\ LocksHeld'
    BY <1>0, <1>1, <2>1, <2>2, <2>3 DEF Sleepers, PaceHeld, LocksHeld
  <2> QED BY <2>1, <2>4, <2>5, <2>6, <2>7, PermitsUntouched, ChainInvAfter
<1>6. ASSUME NEW r \in Requests, TakeLock(r) PROVE ChainInv'
  <2>1. /\ pc[Page(r)] = "waiting" /\ lock[VenueOf[r]] = None
        /\ UNCHANGED <<timer, known, pages, permits, pace, gap>>
    BY <1>6 DEF TakeLock
  <2>2. This.page \in {"after", "beside"} /\ ~Paced
    BY <1>0, <2>1 DEF PageTasks
  <2>3. CASE PageIsKnown(VenueOf[r])
    <3>1. pc' = [pc EXCEPT ![Page(r)] = "done"] /\ lock' = lock /\ known[VenueOf[r]] # "absent"
      BY <1>6, <2>3 DEF TakeLock, PageIsKnown
    <3>2. /\ pc' \in [Tasks -> TaskStates] /\ pc'[Page(r)] = "done"
          /\ \A t \in Tasks \ {Page(r)} : pc'[t] = pc[t]
          /\ \A q \in Requests : pc'[Slots(q)] = pc[Slots(q)]
          /\ \A q \in Requests \ {r} : pc'[Page(q)] = pc[Page(q)]
      <4>1. "done" \in TaskStates
        BY DEF TaskStates
      <4> QED BY <1>t, <3>1, <4>1, PageMove
    <3>3. PermitHolders' = PermitHolders
      BY <1>1, <2>1, <3>2 DEF PermitHolders, InFlight
    <3>4. ChainTypeOK'
      BY <1>0, <1>1, <2>1, <3>1, <3>2 DEF ChainTypeOK
    <3>5. PageTasks' /\ PagesCounted'
      BY <1>0, <1>1, <2>1, <2>2, <3>1, <3>2 DEF PageTasks, PagesCounted
    <3>6. Sleepers' /\ PaceHeld' /\ LocksHeld'
      BY <1>0, <1>1, <2>1, <3>1, <3>2 DEF Sleepers, PaceHeld, LocksHeld
    <3> QED BY <2>1, <3>3, <3>4, <3>5, <3>6, PermitsUntouched, ChainInvAfter
  <2>4. CASE ~PageIsKnown(VenueOf[r])
    <3> DEFINE next == IF This.page = "beside" THEN "queued" ELSE "asking"
    <3>1. /\ pc' = [pc EXCEPT ![Page(r)] = next]
          /\ lock' = [lock EXCEPT ![VenueOf[r]] = r] /\ known[VenueOf[r]] = "absent"
      BY <1>6, <2>4 DEF TakeLock, PageIsKnown
    <3>2. /\ next \in TaskStates
          /\ (next = "queued" /\ This.page = "beside") \/ (next = "asking" /\ This.page = "after")
      BY <2>2 DEF TaskStates
    <3> HIDE DEF next
    <3>3. /\ pc' \in [Tasks -> TaskStates] /\ pc'[Page(r)] = next
          /\ \A t \in Tasks \ {Page(r)} : pc'[t] = pc[t]
          /\ \A q \in Requests : pc'[Slots(q)] = pc[Slots(q)]
          /\ \A q \in Requests \ {r} : pc'[Page(q)] = pc[Page(q)]
      BY <1>t, <3>1, <3>2, PageMove
    <3>4. /\ lock' \in [Venues -> Requests \cup {None}] /\ lock'[VenueOf[r]] = r
          /\ \A v \in Venues \ {VenueOf[r]} : lock'[v] = lock[v]
      BY <1>t, <3>1, TaskFacts
    <3>5. PermitHolders' = PermitHolders
      BY <1>1, <2>1, <3>2, <3>3, Kinds DEF PermitHolders, InFlight
    <3>6. ChainTypeOK'
      BY <1>0, <1>1, <2>1, <3>3, <3>4 DEF ChainTypeOK
    <3>7. PageTasks'
      BY <1>0, <1>1, <2>1, <2>2, <3>2, <3>3 DEF PageTasks
    <3>8. PagesCounted'
      BY <1>0, <2>1, <3>1, <3>2, <3>3 DEF PagesCounted
    <3>9. Sleepers' /\ PaceHeld'
      BY <1>0, <1>1, <2>1, <3>3 DEF Sleepers, PaceHeld
    <3>10. LocksHeld'
      <4>1. \A q \in Requests \ {r} :
              VenueOf[q] = VenueOf[r] =>
                ~(pc[Page(q)] = "asking" \/ (This.page = "beside" /\ pc[Page(q)] = "queued"))
        BY <1>0, <1>t, <2>1 DEF LocksHeld
      <4> QED BY <1>0, <1>1, <3>2, <3>3, <3>4, <4>1, TaskFacts DEF LocksHeld
    <3> QED BY <2>1, <3>5, <3>6, <3>7, <3>8, <3>9, <3>10, PermitsUntouched, ChainInvAfter
  <2> QED BY <2>3, <2>4
<1>7. ASSUME NEW r \in Requests, NEW a \in Answers, EndPage(r, a) PROVE ChainInv'
  <2> DEFINE found == IF a = "slots" THEN "read" ELSE "empty"
  <2>1. /\ pc[Page(r)] = "asking" /\ pc' = [pc EXCEPT ![Page(r)] = "done"]
        /\ known' = [known EXCEPT ![VenueOf[r]] = found]
        /\ pages' = [pages EXCEPT ![VenueOf[r]] = pages[VenueOf[r]] + 1]
        /\ lock' = [lock EXCEPT ![VenueOf[r]] = None]
        /\ permits' = IF This.page = "beside" THEN permits + 1 ELSE permits
        /\ UNCHANGED <<timer, pace, gap>>
    BY <1>7, <1>t, TaskFacts DEF EndPage
  <2>2. This.page \in {"after", "beside"} /\ ~Paced
    BY <1>0, <2>1 DEF PageTasks
  <2>3. known[VenueOf[r]] = "absent" /\ pages[VenueOf[r]] = 0 /\ lock[VenueOf[r]] = r
    BY <1>0, <2>1, TaskFacts DEF PagesCounted, LocksHeld
  <2>4. \A q \in Requests \ {r} :
          VenueOf[q] = VenueOf[r] => pc[Page(q)] \notin {"queued", "asking"}
    BY <1>0, <2>3 DEF LocksHeld, PageTasks
  <2>5. found \in {"read", "empty"}
    OBVIOUS
  <2> HIDE DEF found
  <2>6. /\ pc' \in [Tasks -> TaskStates] /\ pc'[Page(r)] = "done"
        /\ \A t \in Tasks \ {Page(r)} : pc'[t] = pc[t]
        /\ \A q \in Requests : pc'[Slots(q)] = pc[Slots(q)]
        /\ \A q \in Requests \ {r} : pc'[Page(q)] = pc[Page(q)]
    <3>1. "done" \in TaskStates
      BY DEF TaskStates
    <3> QED BY <1>t, <2>1, <3>1, PageMove
  <2>7. /\ lock' \in [Venues -> Requests \cup {None}] /\ lock'[VenueOf[r]] = None
        /\ \A v \in Venues \ {VenueOf[r]} : lock'[v] = lock[v]
    BY <1>t, <2>1, TaskFacts
  <2>8. /\ known' \in [Venues -> {"absent", "read", "empty"}] /\ known'[VenueOf[r]] = found
        /\ \A v \in Venues \ {VenueOf[r]} : known'[v] = known[v]
    BY <1>t, <2>1, <2>5, TaskFacts
  <2>9. /\ pages' \in [Venues -> Nat] /\ pages'[VenueOf[r]] = 1
        /\ \A v \in Venues \ {VenueOf[r]} : pages'[v] = pages[v]
    BY <1>t, <2>1, <2>3, TaskFacts
  <2>10. ChainTypeOK'
    BY <1>0, <1>t, <1>1, <2>1, <2>6, <2>7, <2>8, <2>9 DEF ChainTypeOK
  <2>11. PageTasks'
    BY <1>0, <1>1, <2>1, <2>2, <2>6 DEF PageTasks
  <2>12. PagesCounted'
    <3>1. \A v \in Venues : pages'[v] = IF known'[v] = "absent" THEN 0 ELSE 1
      BY <1>0, <2>5, <2>8, <2>9 DEF PagesCounted
    <3>2. \A q \in Requests : /\ pc'[Page(q)] \in {"queued", "asking"} => known'[VenueOf[q]] = "absent"
                              /\ pc'[Page(q)] = "done" => known'[VenueOf[q]] # "absent"
      BY <1>0, <2>4, <2>5, <2>6, <2>8, TaskFacts DEF PagesCounted
    <3> QED BY <3>1, <3>2 DEF PagesCounted
  <2>13. Sleepers' /\ PaceHeld'
    BY <1>0, <1>1, <2>1, <2>6 DEF Sleepers, PaceHeld
  <2>14. PermitsAddUp'
    <3>1. CASE This.page = "beside"
      <4>1. Page(r) \in PermitHolders
        BY <2>1, <2>2, <3>1, TaskFacts DEF PermitHolders, InFlight
      <4>2. PermitHolders' = PermitHolders \ {Page(r)}
        BY <1>1, <2>6 DEF PermitHolders, InFlight
      <4> QED BY <1>1, <2>1, <3>1, <4>1, <4>2, PermitGivenBack
    <3>2. CASE This.page = "after"
      <4>1. PermitHolders' = PermitHolders
        BY <1>1, <2>1, <2>6, <3>2, Kinds DEF PermitHolders, InFlight
      <4> QED BY <2>1, <3>2, <4>1, PermitsUntouched
    <3> QED BY <2>2, <3>1, <3>2
  <2>15. LocksHeld'
    BY <1>0, <1>t, <1>1, <2>4, <2>6, <2>7, TaskFacts DEF LocksHeld
  <2> QED BY <2>10, <2>11, <2>12, <2>13, <2>14, <2>15, ChainInvAfter
<1>8. ASSUME NEW r \in Requests, TakePace(r) PROVE ChainInv'
  <2>1. /\ pc[Slots(r)] = "queued" /\ Paced /\ pace = None /\ pace' = r
        /\ timer' = [timer EXCEPT ![Slots(r)] = Interval - gap]
        /\ pc' = [pc EXCEPT ![Slots(r)] = "sleeping"]
        /\ UNCHANGED <<known, lock, pages, permits, gap>>
    BY <1>8 DEF TakePace, page, PaceIsFree
  <2>2. Paced /\ This.page = "none"
    BY <1>0, <2>1 DEF Sleepers
  <2>3. /\ pc' \in [Tasks -> TaskStates] /\ pc'[Slots(r)] = "sleeping"
        /\ \A q \in Requests : pc'[Page(q)] = pc[Page(q)]
        /\ \A q \in Requests \ {r} : pc'[Slots(q)] = pc[Slots(q)]
    <3>1. "sleeping" \in TaskStates
      BY DEF TaskStates
    <3> QED BY <1>t, <2>1, <3>1, SlotsMove
  <2>4. timer' \in [Tasks -> Nat] /\ timer'[Slots(r)] = Interval - gap
        /\ \A q \in Requests \ {r} : timer'[Slots(q)] = timer[Slots(q)]
    <3>1. Interval - gap \in Nat
      BY <1>t
    <3> QED BY <1>t, <2>1, <3>1, TaskFacts
  <2>5. PermitHolders' = PermitHolders
    BY <1>1, <2>2 DEF PermitHolders
  <2>6. ChainTypeOK'
    BY <1>0, <1>1, <1>t, <2>1, <2>3, <2>4 DEF ChainTypeOK
  <2>7. PageTasks' /\ PagesCounted'
    BY <1>0, <1>1, <2>1, <2>2, <2>3 DEF PageTasks, PagesCounted
  <2>8. Sleepers'
    BY <1>0, <1>1, <1>t, <2>1, <2>2, <2>3, <2>4 DEF Sleepers, PaceHeld
  <2>9. PaceHeld'
    BY <1>0, <1>1, <1>t, <2>1, <2>2, <2>3 DEF PaceHeld
  <2>10. LocksHeld'
    BY <1>0, <1>1, <2>1, <2>3 DEF LocksHeld
  <2> QED BY <2>1, <2>5, <2>6, <2>7, <2>8, <2>9, <2>10, PermitsUntouched, ChainInvAfter
<1>9. ASSUME NEW r \in Requests, SendPaced(r) PROVE ChainInv'
  <2>1. /\ pc[Slots(r)] = "sleeping" /\ timer[Slots(r)] = 0 /\ gap' = 0
        /\ pc' = [pc EXCEPT ![Slots(r)] = "asking"]
        /\ UNCHANGED <<timer, known, lock, pages, permits, pace>>
    BY <1>9 DEF SendPaced, page
  <2>2. Paced /\ This.page = "none"
    BY <1>0, <2>1 DEF Sleepers
  <2>3. /\ pc' \in [Tasks -> TaskStates] /\ pc'[Slots(r)] = "asking"
        /\ \A q \in Requests : pc'[Page(q)] = pc[Page(q)]
        /\ \A q \in Requests \ {r} : pc'[Slots(q)] = pc[Slots(q)]
    <3>1. "asking" \in TaskStates
      BY DEF TaskStates
    <3> QED BY <1>t, <2>1, <3>1, SlotsMove
  <2>4. timer' = timer /\ timer' \in [Tasks -> Nat]
    BY <1>t, <2>1
  <2>5. PermitHolders' = PermitHolders
    BY <1>1, <2>2 DEF PermitHolders
  <2>6. ChainTypeOK'
    BY <1>0, <1>1, <1>t, <2>1, <2>3, <2>4 DEF ChainTypeOK
  <2>7. PageTasks' /\ PagesCounted'
    BY <1>0, <1>1, <2>1, <2>2, <2>3 DEF PageTasks, PagesCounted
  <2>8. Sleepers'
    BY <1>0, <1>1, <1>t, <2>1, <2>2, <2>3, <2>4 DEF Sleepers, PaceHeld
  <2>9. PaceHeld'
    BY <1>0, <1>1, <1>t, <2>1, <2>2, <2>3 DEF PaceHeld
  <2>10. LocksHeld'
    BY <1>0, <1>1, <2>1, <2>3 DEF LocksHeld
  <2> QED BY <2>1, <2>5, <2>6, <2>7, <2>8, <2>9, <2>10, PermitsUntouched, ChainInvAfter
<1>10. ASSUME NEW r \in Requests, BackOff(r) PROVE ChainInv'
  <2>1. /\ pc[Slots(r)] = "asking" /\ Paced /\ pace' = None
        /\ timer' = [timer EXCEPT ![Slots(r)] = Backoff]
        /\ pc' = [pc EXCEPT ![Slots(r)] = "backing off"]
        /\ UNCHANGED <<known, lock, pages, permits, gap>>
    BY <1>10 DEF BackOff, page
  <2>2. Paced /\ This.page = "none"
    BY <1>0, <2>1 DEF Sleepers
  <2>3. /\ pc' \in [Tasks -> TaskStates] /\ pc'[Slots(r)] = "backing off"
        /\ \A q \in Requests : pc'[Page(q)] = pc[Page(q)]
        /\ \A q \in Requests \ {r} : pc'[Slots(q)] = pc[Slots(q)]
    <3>1. "backing off" \in TaskStates
      BY DEF TaskStates
    <3> QED BY <1>t, <2>1, <3>1, SlotsMove
  <2>4. timer' \in [Tasks -> Nat] /\ timer'[Slots(r)] = Backoff
        /\ \A q \in Requests \ {r} : timer'[Slots(q)] = timer[Slots(q)]
    <3>1. Backoff \in Nat
      BY <1>t
    <3> QED BY <1>t, <2>1, <3>1, TaskFacts
  <2>5. PermitHolders' = PermitHolders
    BY <1>1, <2>2 DEF PermitHolders
  <2>6. ChainTypeOK'
    BY <1>0, <1>1, <1>t, <2>1, <2>3, <2>4 DEF ChainTypeOK
  <2>7. PageTasks' /\ PagesCounted'
    BY <1>0, <1>1, <2>1, <2>2, <2>3 DEF PageTasks, PagesCounted
  <2>8. Sleepers'
    BY <1>0, <1>1, <1>t, <2>1, <2>2, <2>3, <2>4 DEF Sleepers, PaceHeld
  <2>9. PaceHeld'
    BY <1>0, <1>1, <1>t, <2>1, <2>2, <2>3 DEF PaceHeld
  <2>10. LocksHeld'
    BY <1>0, <1>1, <2>1, <2>3 DEF LocksHeld
  <2> QED BY <2>1, <2>5, <2>6, <2>7, <2>8, <2>9, <2>10, PermitsUntouched, ChainInvAfter
<1>11. ASSUME NEW r \in Requests, ComeBack(r) PROVE ChainInv'
  <2>1. /\ pc[Slots(r)] = "backing off" /\ timer[Slots(r)] = 0
        /\ pc' = [pc EXCEPT ![Slots(r)] = "queued"]
        /\ UNCHANGED <<timer, known, lock, pages, permits, pace, gap>>
    BY <1>11 DEF ComeBack, page
  <2>2. Paced /\ This.page = "none"
    BY <1>0, <2>1 DEF Sleepers
  <2>3. /\ pc' \in [Tasks -> TaskStates] /\ pc'[Slots(r)] = "queued"
        /\ \A q \in Requests : pc'[Page(q)] = pc[Page(q)]
        /\ \A q \in Requests \ {r} : pc'[Slots(q)] = pc[Slots(q)]
    <3>1. "queued" \in TaskStates
      BY DEF TaskStates
    <3> QED BY <1>t, <2>1, <3>1, SlotsMove
  <2>4. timer' = timer /\ timer' \in [Tasks -> Nat]
    BY <1>t, <2>1
  <2>5. PermitHolders' = PermitHolders
    BY <1>1, <2>2 DEF PermitHolders
  <2>6. ChainTypeOK'
    BY <1>0, <1>1, <1>t, <2>1, <2>3, <2>4 DEF ChainTypeOK
  <2>7. PageTasks' /\ PagesCounted'
    BY <1>0, <1>1, <2>1, <2>2, <2>3 DEF PageTasks, PagesCounted
  <2>8. Sleepers'
    BY <1>0, <1>1, <1>t, <2>1, <2>2, <2>3, <2>4 DEF Sleepers, PaceHeld
  <2>9. PaceHeld'
    BY <1>0, <1>1, <1>t, <2>1, <2>2, <2>3 DEF PaceHeld
  <2>10. LocksHeld'
    BY <1>0, <1>1, <2>1, <2>3 DEF LocksHeld
  <2> QED BY <2>1, <2>5, <2>6, <2>7, <2>8, <2>9, <2>10, PermitsUntouched, ChainInvAfter
<1>12. ASSUME Tick PROVE ChainInv'
  <2>1. /\ gap' = IF gap < Interval THEN gap + 1 ELSE gap
        /\ timer' = [t \in Tasks |-> IF timer[t] > 0 THEN timer[t] - 1 ELSE 0]
        /\ UNCHANGED <<pc, known, lock, pages, permits, pace>>
    BY <1>12 DEF Tick, page
  <2>2. gap' \in 0..Interval
    BY <1>t, <2>1
  <2>3. timer' \in [Tasks -> Nat]
    <3>1. \A t \in Tasks : (IF timer[t] > 0 THEN timer[t] - 1 ELSE 0) \in Nat
      BY <1>t
    <3> QED BY <2>1, <3>1
  <2>4. ChainTypeOK'
    BY <1>0, <1>1, <2>1, <2>2, <2>3 DEF ChainTypeOK
  <2>5. PageTasks' /\ PagesCounted' /\ PaceHeld' /\ LocksHeld'
    BY <1>0, <1>1, <2>1 DEF PageTasks, PagesCounted, PaceHeld, LocksHeld
  <2>6. Sleepers'
    <3>1. ASSUME NEW r \in Requests, pc[Slots(r)] = "sleeping"
          PROVE  timer'[Slots(r)] + gap' = Interval
      <4>1. timer[Slots(r)] + gap = Interval /\ timer[Slots(r)] \in Nat
        BY <1>0, <1>t, <3>1, TaskFacts DEF Sleepers
      <4>2. timer'[Slots(r)] = IF timer[Slots(r)] > 0 THEN timer[Slots(r)] - 1 ELSE 0
        BY <2>1, TaskFacts
      <4> QED BY <1>t, <2>1, <4>1, <4>2
    <3> QED BY <1>0, <1>1, <2>1, <3>1 DEF Sleepers
  <2>7. PermitHolders' = PermitHolders
    BY <1>1, <2>1 DEF PermitHolders, InFlight
  <2> QED BY <2>1, <2>4, <2>5, <2>6, <2>7, PermitsUntouched, ChainInvAfter
<1> QED
  <2>1. ASSUME NEW a \in Answers, OpenSession(a) \/ FetchJwt(a) \/ OpenBrowser(a) PROVE ChainInv'
    BY <1>2, <2>1 DEF OpenSession, FetchJwt, OpenBrowser, KeepTheRest, chain, page
  <2>2. ASSUME NEW t \in Tasks, NEW a \in Answers, TryAgain(t, a) PROVE ChainInv'
    BY <1>2, <2>2 DEF TryAgain, page
  <2>3. CASE Return \/ ParseRaises
    BY <1>2, <2>3 DEF Return, ParseRaises, End, chain, page
  <2>4. CASE UNCHANGED vars
    BY <1>2, <2>4 DEF vars, chain, page
  <2> QED BY <1>3, <1>4, <1>5, <1>6, <1>7, <1>8, <1>9, <1>10, <1>11, <1>12,
             <2>1, <2>2, <2>3, <2>4 DEF Next

-----------------------------------------------------------------------------
LEMMA ChainInvariant == Spec => []ChainInv
BY ChainStarts, ChainStep, PTL DEF Spec

\* No crawl of any crawler loses a permit, the pacing lock or a venue's lock,
\* whatever the answers and however the tasks interleave.
THEOREM ChainConserves == Spec => []ResourcesConserved
<1>1. ChainInv => ResourcesConserved
  BY DEF ChainInv
<1> QED BY <1>1, ChainInvariant, PTL

\* The page of a venue is read at most once in a crawl, and nobody who needs
\* it goes on before it is there (_fetch_resource_indoor_map,
\* _fetch_facility_indoor_map).
THEOREM OnePage == Spec => []OnePagePerVenue
<1>1. ChainInv => OnePagePerVenue
  BY DEF ChainInv, PagesCounted, OnePagePerVenue
<1> QED BY <1>1, ChainInvariant, PTL

\* A paced request goes out an interval or more after the one before it, also
\* when it is a retry (_paced_get).
THEOREM PacedApart == Spec => RequestsArePaced
<1>1. ASSUME ChainInv, [Next]_vars
      PROVE  [\A r \in Requests :
                pc[Slots(r)] = "sleeping" /\ pc'[Slots(r)] = "asking" => gap >= Interval]_vars
  <2> SUFFICES ASSUME Next, NEW r \in Requests,
                      pc[Slots(r)] = "sleeping", pc'[Slots(r)] = "asking"
               PROVE  gap >= Interval
    BY <1>1
  <2>1. SendPaced(r)
    BY <1>1, ChainInvParts, TaskFacts DEF Next, OpenSession, FetchJwt, OpenBrowser, TakePermit, TryAgain, LookUpPage,
           TakeLock, TakePace, SendPaced, BackOff, ComeBack, EndRequest, EndPage, Tick, Return,
           ParseRaises, Gathered, End, KeepTheRest, chain, ChainTypeOK
  <2>2. timer[Slots(r)] = 0 /\ timer[Slots(r)] + gap = Interval
    BY <1>1, <2>1, ChainInvParts DEF SendPaced, Sleepers
  <2>3. gap \in 0..Interval
    BY <1>1, ChainInvParts DEF ChainTypeOK
  <2> QED BY <2>2, <2>3, ChainAssumption
<1> QED BY <1>1, ChainInvariant, PTL DEF Spec, RequestsArePaced
=============================================================================
