------------------------ MODULE CrawlerPipelineProofs ------------------------
(***************************************************************************)
(* What the runs of CrawlerPipeline do to the table is what SlotStore      *)
(* allows, for any venues, requests, windows and budgets: so the table of  *)
(* a pipeline whose requests fail and whose runs die has every property    *)
(* proved of SlotStore.                                                    *)
(***************************************************************************)
EXTENDS CrawlerPipeline, SlotStoreProofs

\* Whatever a request was answered, its slots are slots of the venue asked.
HeardOK ==
  \A q \in DOMAIN heard :
    heard[q].slots \subseteq {e \in Entries : e.slot.venue = q.venue}

StoreInv == TypeOK /\ HeardOK /\ asked \subseteq AllRequests

\* The two lists a run hands to the database go to the right writer.
LEMMA CollectedFacts ==
  ASSUME HeardOK
  PROVE  Collected(FALSE) \in SUBSET UpsertEntries /\ Collected(TRUE) \in SUBSET ReloadEntries
BY DEF HeardOK, Collected, Answered, UpsertEntries, ReloadEntries

LEMMA ResponseFacts ==
  ASSUME TypeOK, NEW q \in AllRequests
  PROVE  Response(q) \subseteq {e \in Entries : e.slot.venue = q.venue}
<1>1. q.activity \in Activities
  BY DEF AllRequests
<1>2. Listing(q) \subseteq {e \in Entries : e.slot.venue = q.venue}
  <2>1. \A s \in Asks(q) : \A n \in {0, 1} :
          [slot |-> s, spaces |-> n, request |-> q.activity] \in Entries
    BY <1>1, AllEntriesAssumption, BoundAssumption DEF Asks
  <2>2. ASSUME NEW e \in Listing(q)
        PROVE  e \in Entries /\ e.slot.venue = q.venue
    <3>1. PICK s \in Asks(q) :
            e = [slot |-> s, spaces |-> IF s \in open THEN 1 ELSE 0, request |-> q.activity]
      BY <2>2 DEF Listing
    <3>2. PICK n \in {0, 1} : e = [slot |-> s, spaces |-> n, request |-> q.activity]
      BY <3>1
    <3>3. e.slot.venue = q.venue
      BY <3>2 DEF Asks
    <3> QED BY <2>1, <3>2, <3>3
  <2> QED BY <2>2
<1>3. Blanks(q) \subseteq {e \in Entries : e.slot.venue = q.venue}
  <2>1. \A r \in table : [slot |-> r.slot, spaces |-> 0, request |-> q.activity] \in Entries
    BY <1>1, AllEntriesAssumption, BoundAssumption DEF TypeOK, Row
  <2> QED BY <2>1 DEF Blanks
<1> QED BY <1>2, <1>3 DEF Response

\* A step of the pipeline is a step of the store or leaves the table alone.
LEMMA StoreStep ==
  ASSUME StoreInv, [PipelineNext]_pipelineVars
  PROVE  [Next]_vars
<1>1. CASE Upsert
  BY <1>1, CollectedFacts DEF StoreInv, Upsert, Next, vars
<1>2. CASE Reload
  BY <1>2, CollectedFacts DEF StoreInv, Reload, Next, vars
<1>3. CASE Purge
  BY <1>3 DEF Purge, Next
<1>4. CASE Midnight
  BY <1>4 DEF Midnight, Next
<1>5. ASSUME NEW q \in Waiting, Fetch(q) \/ FailToFetch(q)
      PROVE  UNCHANGED vars
  BY <1>5 DEF Fetch, FailToFetch, vars
<1>6. ASSUME NEW s \in Courts, BookOrCancel(s)
      PROVE  UNCHANGED vars
  BY <1>6 DEF BookOrCancel, vars
<1>7. CASE StartRun \/ EndFetch \/ EndFetchReload \/ Abort
  BY <1>7 DEF StartRun, EndFetch, EndFetchReload, Abort, vars
<1>8. CASE UNCHANGED pipelineVars
  BY <1>8 DEF pipelineVars, vars
<1> QED BY <1>1, <1>2, <1>3, <1>4, <1>5, <1>6, <1>7, <1>8 DEF PipelineNext, RunStep

LEMMA HeardStep ==
  ASSUME StoreInv, [PipelineNext]_pipelineVars
  PROVE  HeardOK' /\ asked' \subseteq AllRequests
<1> USE DEF StoreInv
<1>1. ASSUME NEW q \in Waiting, NEW answer,
             answer.slots \subseteq {e \in Entries : e.slot.venue = q.venue},
             Hear(q, answer), asked' = asked
      PROVE  HeardOK' /\ asked' \subseteq AllRequests
  BY <1>1 DEF HeardOK, Hear
<1>2. ASSUME NEW q \in Waiting, Fetch(q)
      PROVE  HeardOK' /\ asked' \subseteq AllRequests
  <2>1. q \in AllRequests
    BY DEF Waiting
  <2>2. Hear(q, [ok |-> TRUE, slots |-> Response(q)]) /\ asked' = asked
    BY <1>2 DEF Fetch
  <2> QED BY <1>1, <2>1, <2>2, ResponseFacts
<1>3. ASSUME NEW q \in Waiting, FailToFetch(q)
      PROVE  HeardOK' /\ asked' \subseteq AllRequests
  <2>1. Hear(q, [ok |-> FALSE, slots |-> {}]) /\ asked' = asked
    BY <1>3 DEF FailToFetch
  <2> QED BY <1>1, <2>1
<1>4. CASE StartRun
  BY <1>4 DEF StartRun, HeardOK, Unheard, UpsertRequests
<1>5. CASE EndFetch
  BY <1>5 DEF EndFetch, HeardOK, ReloadRequests
<1>6. CASE EndFetchReload \/ Purge \/ Upsert \/ Reload \/ Abort \/ Midnight
  BY <1>6 DEF EndFetchReload, Purge, Upsert, Reload, Abort, Midnight, runVars, HeardOK
<1>7. ASSUME NEW s \in Courts, BookOrCancel(s)
      PROVE  HeardOK' /\ asked' \subseteq AllRequests
  BY <1>7 DEF BookOrCancel, runVars, HeardOK
<1>8. CASE UNCHANGED pipelineVars
  BY <1>8 DEF pipelineVars, runVars, HeardOK
<1> QED BY <1>2, <1>3, <1>4, <1>5, <1>6, <1>7, <1>8 DEF PipelineNext, RunStep

\* Every behaviour of the pipeline is, on the table, a behaviour of the store.
THEOREM PipelineImplementsStore == PipelineSpec => Spec
<1>1. PipelineInit => Init /\ StoreInv
  BY BoundAssumption DEF PipelineInit, Init, StoreInv, TypeOK, HeardOK, Unheard
<1>2. StoreInv /\ [PipelineNext]_pipelineVars => StoreInv'
  BY StoreStep, HeardStep, TypingStep DEF StoreInv
<1>3. StoreInv /\ [PipelineNext]_pipelineVars => [Next]_vars
  BY StoreStep
<1> QED BY <1>1, <1>2, <1>3, PTL DEF PipelineSpec, Spec

\* Runs that fail or die halfway never let the two writers of a table take one
\* another's rows.
THEOREM PipelineKeepsWritersApart == PipelineSpec => []UidKeepsWritersApart
BY PipelineImplementsStore, WritersApart, PTL

\* Whatever providers answer, a crawled slot is listed once by the table.
THEOREM PipelineListsOnce == PipelineSpec => []OneRowPerUpsertedSlot
BY PipelineImplementsStore, ListedOnce, PTL

\* The searches a user makes during any number of runs read the board.
THEOREM PipelineImplementsBoard == PipelineSpec => BoardSpec
BY PipelineImplementsStore, StoreImplementsBoard, PTL

-----------------------------------------------------------------------------
(* The tables of a run: what it asked for, what it heard of a slot, and what *)
(* the rows have to do with it.                                              *)

\* Only what a venue offers is asked for.
AskedOffered == asked \subseteq {q \in AllRequests : Offered(q) # {}}

\* The run asked everything that is offered for a date that had come by then:
\* the upserted venues from its start, the others once those were through.
AskedByNow ==
  \A v \in CompositeKeys, a \in Activities :
    /\ Lists[<<v, a>>] # {}
    /\ \/ v \notin ReloadVenues /\ phase \in {"fetch", "fetch reload", "purge"}
       \/ v \in ReloadVenues /\ phase \in {"fetch reload", "purge"}
    => \E q \in asked : q.date <= today

\* Whether slot s is one that request q asks about.
IsAbout(q, s) ==
  /\ q.venue = s.venue
  /\ IF q.venue \in ReloadVenues THEN s.date >= q.date ELSE s.date = q.date

HeardAbout ==
  /\ DOMAIN heard \subseteq asked
  /\ \A q \in DOMAIN heard :
       /\ heard[q].ok \in BOOLEAN
       /\ heard[q].slots \subseteq {e \in Entries : IsAbout(q, e.slot)}

\* A row is of a venue that offers something.
RowsOffered ==
  \A r \in table : \E a \in Activities : Lists[<<r.slot.venue, a>>] # {}

\* Once the past is purged, every row is of a date the run asked for, or later.
RowsAsked ==
  phase \in {"upsert", "reload", "done"} =>
    \A r \in table : \E q \in asked : q.date <= r.slot.date

\* An empty answer of a blanking provider met no row of its venue and date.
EmptyMetNoRow ==
  phase \in {"fetch", "fetch reload", "purge", "upsert"} =>
    \A q \in Answered :
      q.venue \in Blanking /\ heard[q].slots = {} =>
        \A r \in table : ~(r.slot.venue = q.venue /\ r.slot.date = q.date)

\* ExactWhereAnswered, for the venues of each writer once it has committed.
UpsertExact ==
  \A s \in FullyAnswered :
    s.venue \notin ReloadVenues /\ (SpokenFor(s) \/ s.venue \in Blanking)
    => (s \in Bookable <=> s \in OpenOf(Collected(FALSE)))

ReloadExact ==
  \A s \in FullyAnswered :
    s.venue \in ReloadVenues /\ SpokenFor(s)
    => (s \in Bookable <=> s \in OpenOf(Collected(TRUE)))

AsTold ==
  /\ phase \in {"reload", "done"} => UpsertExact
  /\ phase = "done" => ReloadExact

PipelineInv ==
  /\ AskedOffered
  /\ AskedByNow
  /\ HeardAbout
  /\ RowsOffered
  /\ RowsAsked
  /\ EmptyMetNoRow
  /\ AsTold

\* What SlotStore and StoreInv say of the pipeline's state.
StoreFacts == StoreInv /\ UidKeepsWritersApart

LEMMA CalendarFacts ==
  ASSUME StoreFacts
  PROVE  /\ today \in Nat /\ today \in 0..LastDay /\ LastDay \in Nat
         /\ today \in today..(today + Window - 1)
         /\ \A q \in AllRequests : q.venue \in CompositeKeys /\ q.date \in Nat /\ q.activity \in Activities
         /\ \A s \in Slots : s.venue \in CompositeKeys /\ s.date \in Nat /\ s.session \in Sessions
         /\ \A r \in table : r.slot \in Slots
         /\ \A e \in Entries : e.slot \in Slots
BY BoundAssumption, WindowAssumption, EntryAssumption
DEF StoreFacts, StoreInv, TypeOK, AllRequests, Slots, Row, EntryType

\* An answer is about the venue and dates that were asked for.
LEMMA ResponseAbout ==
  ASSUME StoreFacts, NEW q \in AllRequests
  PROVE  Response(q) \subseteq {e \in Entries : IsAbout(q, e.slot)}
<1>1. Response(q) \subseteq {e \in Entries : e.slot.venue = q.venue}
  BY ResponseFacts DEF StoreFacts, StoreInv
<1>2. ASSUME NEW e \in Listing(q) PROVE IsAbout(q, e.slot)
  BY <1>2 DEF Listing, Asks, IsAbout
<1>3. ASSUME NEW e \in Blanks(q) PROVE IsAbout(q, e.slot)
  <2>1. e.slot.venue = q.venue /\ e.slot.date = q.date
    BY <1>3 DEF Blanks
  <2> QED BY <2>1, CalendarFacts DEF IsAbout
<1> QED BY <1>1, <1>2, <1>3 DEF Response

\* An empty answer of a blanking provider: there was nothing to blank.
LEMMA NothingToBlank ==
  ASSUME NEW q \in AllRequests, q.venue \in Blanking, Response(q) = {}
  PROVE  \A r \in table : ~(r.slot.venue = q.venue /\ r.slot.date = q.date)
<1>1. Blanks(q) = {}
  BY DEF Response
<1> QED BY <1>1 DEF Blanks

\* The rows a transaction leaves are rows it found or entries of its batch.
LEMMA RowsOfUpsert ==
  ASSUME NEW batch \in SUBSET UpsertEntries, InsertRecordsToTable(batch)
  PROVE  \A r \in table' : (\E t \in table : t.slot = r.slot) \/ (\E e \in batch : e.slot = r.slot)
<1>1. PICK won \in Deduplicated(batch) : table' = MarkedStale(Upserted(table, won), batch)
  BY DEF InsertRecordsToTable
<1>2. \A r \in Upserted(table, won) : r \in table \/ r.slot \in SlotsOf(batch)
  BY WinnerFacts DEF Upserted
<1>3. \A r \in table' : \E m \in Upserted(table, won) : m.slot = r.slot
  BY <1>1 DEF MarkedStale, Zeroed
<1> QED BY <1>2, <1>3 DEF SlotsOf

LEMMA RowsOfReload ==
  ASSUME NEW batch \in SUBSET ReloadEntries, TruncateByCompositeKeyAndReload(batch)
  PROVE  \A r \in table' : (\E t \in table : t.slot = r.slot) \/ (\E e \in batch : e.slot = r.slot)
BY DEF TruncateByCompositeKeyAndReload, Truncated, Inserted

\* The entries of a batch, with the request that brought them.
LEMMA CollectedFrom ==
  ASSUME HeardAbout, AskedOffered, NEW reloading \in BOOLEAN, NEW e \in Collected(reloading)
  PROVE  \E q \in Answered : /\ q \in asked /\ q \in AllRequests /\ Offered(q) # {}
                             /\ e \in heard[q].slots /\ IsAbout(q, e.slot)
                             /\ (q.venue \in ReloadVenues) = reloading
<1>1. PICK q \in Answered : (q.venue \in ReloadVenues) = reloading /\ e \in heard[q].slots
  BY DEF Collected
<1> QED BY <1>1 DEF Answered, HeardAbout, AskedOffered

LEMMA CollectedParts ==
  ASSUME StoreFacts
  PROVE  Collected(FALSE) \in SUBSET UpsertEntries /\ Collected(TRUE) \in SUBSET ReloadEntries
BY CollectedFacts DEF StoreFacts, StoreInv

LEMMA ToldParts == ToldOpen = OpenOf(Collected(FALSE)) \cup OpenOf(Collected(TRUE))
BY DEF ToldOpen, OpenOf, SlotsOf

-----------------------------------------------------------------------------
\* What the steps that move no row and no answer leave as it is.
LEMMA AsToldStays ==
  ASSUME AsTold, phase' = phase, UNCHANGED <<table, asked, heard>>
  PROVE  AsTold'
<1>1. /\ FullyAnswered' = FullyAnswered /\ Bookable' = Bookable
      /\ Collected(FALSE)' = Collected(FALSE) /\ Collected(TRUE)' = Collected(TRUE)
  BY DEF FullyAnswered, RequestsAbout, Answered, Bookable, Collected
<1>2. \A s : SpokenFor(s)' <=> SpokenFor(s)
  BY <1>1 DEF SpokenFor
<1>3. (UpsertExact => UpsertExact') /\ (ReloadExact => ReloadExact')
  BY <1>1, <1>2 DEF UpsertExact, ReloadExact
<1> QED BY <1>3 DEF AsTold

LEMMA QuietStep ==
  ASSUME PipelineInv, phase' = phase, UNCHANGED <<table, asked, heard>>,
         today \in Nat, today' \in {today, today + 1}, AskedOffered
  PROVE  PipelineInv'
<1>1. AskedByNow'
  <2>1. \A q \in asked : q.date <= today => q.date <= today'
    BY DEF AskedOffered, AllRequests
  <2>2. ASSUME \E q \in asked : q.date <= today PROVE \E q \in asked' : q.date <= today'
    BY <2>1, <2>2
  <2> QED BY <2>2 DEF PipelineInv, AskedByNow
<1>2. AskedOffered' /\ HeardAbout' /\ RowsOffered' /\ RowsAsked'
  BY DEF PipelineInv, AskedOffered, HeardAbout, RowsOffered, RowsAsked
<1>3. EmptyMetNoRow'
  BY DEF PipelineInv, EmptyMetNoRow, Answered
<1>4. AsTold'
  BY AsToldStays DEF PipelineInv
<1> QED BY <1>1, <1>2, <1>3, <1>4 DEF PipelineInv

LEMMA StartRunKeeps ==
  ASSUME StoreFacts, PipelineInv, StartRun
  PROVE  PipelineInv'
<1>1. /\ phase' = "fetch" /\ asked' = UpsertRequests(today) /\ heard' = Unheard
      /\ UNCHANGED <<table, today>>
  BY DEF StartRun
<1>2. AskedOffered'
  BY <1>1 DEF AskedOffered, UpsertRequests
<1>3. AskedByNow'
  <2>1. ASSUME NEW v \in CompositeKeys \ ReloadVenues, NEW a \in Activities, Lists[<<v, a>>] # {}
        PROVE  \E q \in UpsertRequests(today) : q.date <= today
    <3> DEFINE q == [venue |-> v, date |-> today, activity |-> a]
    <3>1. q \in AllRequests /\ Offered(q) # {}
      BY <2>1, CalendarFacts DEF AllRequests, Offered
    <3>2. q \in UpsertRequests(today) /\ q.date <= today
      BY <3>1, CalendarFacts DEF UpsertRequests
    <3> QED BY <3>2
  <2> QED BY <1>1, <2>1 DEF AskedByNow
<1>4. HeardAbout' /\ EmptyMetNoRow'
  BY <1>1 DEF HeardAbout, EmptyMetNoRow, Answered, Unheard
<1>5. RowsOffered' /\ RowsAsked' /\ AsTold'
  BY <1>1 DEF PipelineInv, RowsOffered, RowsAsked, AsTold
<1> QED BY <1>2, <1>3, <1>4, <1>5 DEF PipelineInv

\* A request is answered, with slots or without, or fails.
LEMMA HearKeeps ==
  ASSUME StoreFacts, PipelineInv, NEW q \in Waiting, NEW answer, Hear(q, answer),
         answer.ok \in BOOLEAN,
         answer.slots \subseteq {e \in Entries : IsAbout(q, e.slot)},
         answer.ok /\ answer.slots = {} /\ q.venue \in Blanking =>
           \A r \in table : ~(r.slot.venue = q.venue /\ r.slot.date = q.date),
         UNCHANGED <<table, today, phase, asked>>
  PROVE  PipelineInv'
<1>1. /\ q \in asked /\ phase \in {"fetch", "fetch reload"}
      /\ DOMAIN heard' = DOMAIN heard \cup {q} /\ heard'[q] = answer
      /\ \A p \in DOMAIN heard : p # q => heard'[p] = heard[p]
  BY DEF Waiting, Hear
<1>2. AskedOffered' /\ AskedByNow' /\ RowsOffered' /\ RowsAsked'
  BY DEF PipelineInv, AskedOffered, AskedByNow, RowsOffered, RowsAsked
<1>3. HeardAbout'
  BY <1>1 DEF PipelineInv, HeardAbout
<1>4. EmptyMetNoRow'
  BY <1>1 DEF PipelineInv, EmptyMetNoRow, Answered
<1>5. AsTold'
  BY <1>1 DEF AsTold
<1> QED BY <1>2, <1>3, <1>4, <1>5 DEF PipelineInv

LEMMA FetchKeeps ==
  ASSUME StoreFacts, PipelineInv, NEW q \in Waiting, Fetch(q) \/ FailToFetch(q)
  PROVE  PipelineInv'
<1>1. q \in AllRequests
  BY DEF PipelineInv, AskedOffered, Waiting
<1>2. CASE Fetch(q)
  <2>1. Hear(q, [ok |-> TRUE, slots |-> Response(q)]) /\ UNCHANGED <<table, today, phase, asked>>
    BY <1>2 DEF Fetch
  <2> QED BY <1>1, <2>1, ResponseAbout, NothingToBlank, HearKeeps
<1>3. CASE FailToFetch(q)
  <2>1. Hear(q, [ok |-> FALSE, slots |-> {}]) /\ UNCHANGED <<table, today, phase, asked>>
    BY <1>3 DEF FailToFetch
  <2> QED BY <1>1, <2>1, HearKeeps
<1> QED BY <1>2, <1>3

LEMMA EndFetchKeeps ==
  ASSUME StoreFacts, PipelineInv, EndFetch
  PROVE  PipelineInv'
<1>1. /\ phase = "fetch" /\ phase' = "fetch reload" /\ asked' = asked \cup ReloadRequests(today)
      /\ UNCHANGED <<table, today, heard>>
  BY DEF EndFetch
<1>2. AskedOffered'
  BY <1>1 DEF PipelineInv, AskedOffered, ReloadRequests
<1>3. AskedByNow'
  <2>1. ASSUME NEW v \in ReloadVenues, v \in CompositeKeys, NEW a \in Activities, Lists[<<v, a>>] # {}
        PROVE  \E q \in ReloadRequests(today) : q.date <= today
    <3> DEFINE q == [venue |-> v, date |-> today, activity |-> a]
    <3>1. q \in AllRequests /\ Offered(q) # {}
      BY <2>1, CalendarFacts DEF AllRequests, Offered
    <3>2. q \in ReloadRequests(today) /\ q.date <= today
      BY <3>1, CalendarFacts DEF ReloadRequests
    <3> QED BY <3>2
  <2> QED BY <1>1, <2>1 DEF PipelineInv, AskedByNow
<1>4. HeardAbout' /\ EmptyMetNoRow'
  BY <1>1 DEF PipelineInv, HeardAbout, EmptyMetNoRow, Answered
<1>5. RowsOffered' /\ RowsAsked' /\ AsTold'
  BY <1>1 DEF PipelineInv, RowsOffered, RowsAsked, AsTold
<1> QED BY <1>2, <1>3, <1>4, <1>5 DEF PipelineInv

LEMMA EndFetchReloadKeeps ==
  ASSUME StoreFacts, PipelineInv, EndFetchReload
  PROVE  PipelineInv'
<1>1. /\ phase = "fetch reload" /\ phase' = "purge" /\ UNCHANGED <<table, today, asked, heard>>
  BY DEF EndFetchReload
<1> QED BY <1>1 DEF PipelineInv, AskedOffered, AskedByNow, HeardAbout, RowsOffered, RowsAsked,
            EmptyMetNoRow, Answered, AsTold

LEMMA AbortKeeps ==
  ASSUME StoreFacts, PipelineInv, Abort
  PROVE  PipelineInv'
<1>1. phase' = "idle" /\ UNCHANGED <<table, today, asked, heard>>
  BY DEF Abort
<1> QED BY <1>1 DEF PipelineInv, AskedOffered, AskedByNow, HeardAbout, RowsOffered, RowsAsked,
            EmptyMetNoRow, AsTold

\* Housekeeping leaves no row from before the run asked.
LEMMA PurgeKeeps ==
  ASSUME StoreFacts, PipelineInv, Purge
  PROVE  PipelineInv'
<1>1. /\ phase = "purge" /\ phase' = "upsert" /\ UNCHANGED <<today, asked, heard>>
      /\ table' = {r \in table : r.slot.date >= today}
  BY DEF Purge, DeletePastSlots
<1>2. RowsAsked'
  <2> SUFFICES ASSUME NEW r \in table, r.slot.date >= today
               PROVE  \E q \in asked : q.date <= r.slot.date
    BY <1>1 DEF RowsAsked
  <2>1. PICK a \in Activities : Lists[<<r.slot.venue, a>>] # {}
    BY DEF PipelineInv, RowsOffered
  <2>2. r.slot.venue \in CompositeKeys /\ r.slot.date \in Nat
    BY CalendarFacts
  <2>3. PICK q \in asked : q.date <= today
    BY <1>1, <2>1, <2>2 DEF PipelineInv, AskedByNow
  <2>4. q.date \in Nat
    BY CalendarFacts DEF PipelineInv, AskedOffered
  <2> QED BY <2>2, <2>3, <2>4, CalendarFacts
<1>3. AskedOffered' /\ AskedByNow' /\ HeardAbout' /\ RowsOffered' /\ AsTold'
  BY <1>1 DEF PipelineInv, AskedOffered, AskedByNow, HeardAbout, RowsOffered, AsTold
<1>4. EmptyMetNoRow'
  BY <1>1 DEF PipelineInv, EmptyMetNoRow, Answered
<1> QED BY <1>2, <1>3, <1>4 DEF PipelineInv

-----------------------------------------------------------------------------
\* What the two writes do to a search, also when there was nothing to write.
LEMMA UpsertOnBoard ==
  ASSUME StoreFacts, Upsert
  PROVE  Bookable' = (Bookable \ Board!Covered(SlotsOf(Collected(FALSE)))) \cup OpenOf(Collected(FALSE))
<1>1. CASE Collected(FALSE) = {}
  <2>1. Bookable' = Bookable
    BY <1>1 DEF Upsert, Bookable
  <2>2. OpenOf(Collected(FALSE)) = {} /\ Board!Covered(SlotsOf(Collected(FALSE))) = {}
    BY <1>1 DEF OpenOf, SlotsOf, Board!Covered, Board!VenuesOf
  <2> QED BY <2>1, <2>2
<1>2. CASE Collected(FALSE) # {}
  <2>1. InsertRecordsToTable(Collected(FALSE))
    BY <1>2 DEF Upsert
  <2> QED BY <2>1, CollectedParts, UpsertPosts DEF StoreFacts, StoreInv, Board!Refresh
<1> QED BY <1>1, <1>2

LEMMA ReloadOnBoard ==
  ASSUME StoreFacts, Reload
  PROVE  Bookable' = {s \in Bookable : s.venue \notin KeysOf(Collected(TRUE))} \cup OpenOf(Collected(TRUE))
<1>1. CASE Collected(TRUE) = {}
  <2>1. Bookable' = Bookable
    BY <1>1 DEF Reload, Bookable
  <2>2. OpenOf(Collected(TRUE)) = {} /\ KeysOf(Collected(TRUE)) = {}
    BY <1>1 DEF OpenOf, SlotsOf, KeysOf
  <2> QED BY <2>1, <2>2
<1>2. CASE Collected(TRUE) # {}
  <2>1. TruncateByCompositeKeyAndReload(Collected(TRUE))
    BY <1>2 DEF Reload
  <2>2. KeysOf(Collected(TRUE)) = Board!VenuesOf(SlotsOf(Collected(TRUE)))
    BY DEF KeysOf, SlotsOf, Board!VenuesOf
  <2> QED BY <2>1, <2>2, CollectedParts, ReloadPosts DEF Board!Replace
<1> QED BY <1>1, <1>2

\* A write adds no row but for a slot that was asked for.
LEMMA WriteKeepsRows ==
  ASSUME StoreFacts, PipelineInv, Upsert \/ Reload
  PROVE  RowsOffered' /\ RowsAsked'
<1>1. phase \in {"upsert", "reload"} /\ asked' = asked
  BY DEF Upsert, Reload
<1>2. \A r \in table' :
        \/ \E t \in table : t.slot = r.slot
        \/ \E reloading \in BOOLEAN : \E e \in Collected(reloading) : e.slot = r.slot
  <2>1. CASE Upsert
    <3>1. CASE Collected(FALSE) = {}
      BY <2>1, <3>1 DEF Upsert
    <3>2. CASE Collected(FALSE) # {}
      <4>1. InsertRecordsToTable(Collected(FALSE))
        BY <2>1, <3>2 DEF Upsert
      <4> QED BY <4>1, CollectedParts, RowsOfUpsert
    <3> QED BY <3>1, <3>2
  <2>2. CASE Reload
    <3>1. CASE Collected(TRUE) = {}
      BY <2>2, <3>1 DEF Reload
    <3>2. CASE Collected(TRUE) # {}
      <4>1. TruncateByCompositeKeyAndReload(Collected(TRUE))
        BY <2>2, <3>2 DEF Reload
      <4> QED BY <4>1, CollectedParts, RowsOfReload
    <3> QED BY <3>1, <3>2
  <2> QED BY <2>1, <2>2
<1>3. ASSUME NEW reloading \in BOOLEAN, NEW e \in Collected(reloading)
      PROVE  /\ \E a \in Activities : Lists[<<e.slot.venue, a>>] # {}
             /\ \E q \in asked : q.date <= e.slot.date
  <2>1. PICK q \in Answered : /\ q \in asked /\ q \in AllRequests /\ Offered(q) # {}
                              /\ e \in heard[q].slots /\ IsAbout(q, e.slot)
    BY CollectedFrom DEF PipelineInv
  <2>2. q.activity \in Activities /\ q.date \in Nat /\ e.slot \in Slots /\ e.slot.date \in Nat
    BY <2>1, CalendarFacts DEF PipelineInv, HeardAbout, Answered
  <2> QED BY <2>1, <2>2 DEF IsAbout, Offered
<1>4. \A t \in table : /\ \E a \in Activities : Lists[<<t.slot.venue, a>>] # {}
                       /\ \E q \in asked : q.date <= t.slot.date
  BY <1>1 DEF PipelineInv, RowsOffered, RowsAsked
<1>5. \A r \in table' : /\ \E a \in Activities : Lists[<<r.slot.venue, a>>] # {}
                        /\ \E q \in asked : q.date <= r.slot.date
  BY <1>2, <1>3, <1>4
<1> QED BY <1>1, <1>5 DEF RowsOffered, RowsAsked

\* Neither write touches what the run asked and heard.
LEMMA WriteKeepsAnswers ==
  ASSUME PipelineInv, Upsert \/ Reload
  PROVE  /\ AskedOffered' /\ AskedByNow' /\ HeardAbout' /\ EmptyMetNoRow'
         /\ FullyAnswered' = FullyAnswered
         /\ Collected(FALSE)' = Collected(FALSE) /\ Collected(TRUE)' = Collected(TRUE)
         /\ \A s : SpokenFor(s)' <=> SpokenFor(s)
<1>1. phase' \in {"reload", "done"} /\ UNCHANGED <<asked, heard>>
  BY DEF Upsert, Reload
<1>2. /\ FullyAnswered' = FullyAnswered
      /\ Collected(FALSE)' = Collected(FALSE) /\ Collected(TRUE)' = Collected(TRUE)
  BY <1>1 DEF FullyAnswered, RequestsAbout, Answered, Collected
<1>3. \A s : SpokenFor(s)' <=> SpokenFor(s)
  BY <1>2 DEF SpokenFor
<1>4. AskedOffered' /\ AskedByNow' /\ HeardAbout' /\ EmptyMetNoRow'
  BY <1>1 DEF PipelineInv, AskedOffered, AskedByNow, HeardAbout, EmptyMetNoRow
<1> QED BY <1>2, <1>3, <1>4

\* A slot whose requests were all answered, and that the batch does not speak
\* for though its provider blanks, has no row.
LEMMA SilenceMeansNoRow ==
  ASSUME StoreFacts, PipelineInv, phase = "upsert", NEW s \in FullyAnswered,
         s.venue \in Blanking, ~SpokenFor(s)
  PROVE  s \notin Bookable
<1>1. PICK q \in RequestsAbout(s) : q \in Answered
  BY DEF FullyAnswered
<1>2. q.venue = s.venue /\ q.venue \notin ReloadVenues /\ q.date = s.date
  BY <1>1, BlankingAssumption DEF RequestsAbout
<1>3. heard[q].slots = {}
  <2> SUFFICES ASSUME NEW e \in heard[q].slots PROVE FALSE
    OBVIOUS
  <2>1. e.slot.venue = s.venue /\ e.slot.date = s.date
    BY <1>1, <1>2 DEF PipelineInv, HeardAbout, Answered, IsAbout
  <2>2. e \in Collected(FALSE)
    BY <1>1, <1>2 DEF Collected
  <2> QED BY <1>2, <2>1, <2>2 DEF SpokenFor, KeysOf, DatesOf
<1>4. \A r \in table : r.slot # s
  BY <1>1, <1>2, <1>3 DEF PipelineInv, EmptyMetNoRow
<1> QED BY <1>4 DEF Bookable

LEMMA UpsertKeeps ==
  ASSUME StoreFacts, PipelineInv, Upsert
  PROVE  PipelineInv'
<1>1. phase = "upsert" /\ phase' = "reload"
  BY DEF Upsert
<1>2. ASSUME NEW s \in FullyAnswered, s.venue \notin ReloadVenues,
             SpokenFor(s) \/ s.venue \in Blanking
      PROVE  s \in Bookable' <=> s \in OpenOf(Collected(FALSE))
  <2>1. CASE SpokenFor(s)
    <3>1. s \in Board!Covered(SlotsOf(Collected(FALSE)))
      BY <1>2, <2>1
      DEF SpokenFor, KeysOf, DatesOf, SlotsOf, FullyAnswered, Board!Covered, Board!VenuesOf, Board!DatesOf
    <3> QED BY <3>1, UpsertOnBoard
  <2>2. CASE ~SpokenFor(s)
    <3>1. s \notin Bookable
      BY <1>1, <1>2, <2>2, SilenceMeansNoRow
    <3> QED BY <3>1, UpsertOnBoard
  <2> QED BY <2>1, <2>2
<1>3. AsTold'
  BY <1>1, <1>2, WriteKeepsAnswers DEF AsTold, UpsertExact
<1> QED BY <1>3, WriteKeepsAnswers, WriteKeepsRows DEF PipelineInv

\* Slots of one writer are none of the other's.
LEMMA WritersSlots ==
  ASSUME StoreFacts
  PROVE  /\ \A s \in OpenOf(Collected(FALSE)) : s.venue \notin ReloadVenues
         /\ \A s \in OpenOf(Collected(TRUE)) : s.venue \in ReloadVenues
         /\ KeysOf(Collected(TRUE)) \subseteq ReloadVenues
BY CollectedParts DEF OpenOf, SlotsOf, KeysOf, UpsertEntries, ReloadEntries

LEMMA ReloadKeeps ==
  ASSUME StoreFacts, PipelineInv, Reload
  PROVE  PipelineInv'
<1>1. phase = "reload" /\ phase' = "done"
  BY DEF Reload
<1>2. ASSUME NEW s \in FullyAnswered, s.venue \notin ReloadVenues,
             SpokenFor(s) \/ s.venue \in Blanking
      PROVE  s \in Bookable' <=> s \in OpenOf(Collected(FALSE))
  <2>1. s \in Bookable <=> s \in OpenOf(Collected(FALSE))
    BY <1>1, <1>2 DEF PipelineInv, AsTold, UpsertExact
  <2>2. s \in Bookable' <=> s \in Bookable
    BY <1>2, ReloadOnBoard, WritersSlots
  <2> QED BY <2>1, <2>2
<1>3. ASSUME NEW s \in FullyAnswered, s.venue \in ReloadVenues, SpokenFor(s)
      PROVE  s \in Bookable' <=> s \in OpenOf(Collected(TRUE))
  <2>1. s.venue \in KeysOf(Collected(TRUE))
    BY <1>3 DEF SpokenFor
  <2> QED BY <2>1, ReloadOnBoard
<1>4. AsTold'
  BY <1>1, <1>2, <1>3, WriteKeepsAnswers DEF AsTold, UpsertExact, ReloadExact
<1> QED BY <1>4, WriteKeepsAnswers, WriteKeepsRows DEF PipelineInv

LEMMA PipelineStep ==
  ASSUME StoreFacts, PipelineInv, [PipelineNext]_pipelineVars
  PROVE  PipelineInv'
<1>1. ASSUME NEW s \in Courts, BookOrCancel(s) PROVE PipelineInv'
  BY <1>1, CalendarFacts, QuietStep DEF BookOrCancel, runVars, PipelineInv
<1>2. CASE Midnight
  BY <1>2, CalendarFacts, QuietStep DEF Midnight, NextDay, runVars, PipelineInv
<1>3. CASE UNCHANGED pipelineVars
  BY <1>3, CalendarFacts, QuietStep DEF pipelineVars, runVars, PipelineInv
<1> QED BY <1>1, <1>2, <1>3, StartRunKeeps, FetchKeeps, EndFetchKeeps, EndFetchReloadKeeps,
           PurgeKeeps, UpsertKeeps, ReloadKeeps, AbortKeeps
        DEF PipelineNext, RunStep

LEMMA PipelineStarts == PipelineInit => PipelineInv
BY DEF PipelineInit, Init, Unheard, PipelineInv, AskedOffered, AskedByNow, HeardAbout,
       RowsOffered, RowsAsked, EmptyMetNoRow, Answered, AsTold

\* The store's facts hold all along a pipeline.
LEMMA StoreFactsHold == PipelineSpec => []StoreFacts
<1>1. PipelineInit => StoreInv
  BY BoundAssumption DEF PipelineInit, Init, StoreInv, TypeOK, HeardOK, Unheard
<1>2. StoreInv /\ [PipelineNext]_pipelineVars => StoreInv'
  BY StoreStep, HeardStep, TypingStep DEF StoreInv
<1>3. PipelineSpec => []StoreInv
  BY <1>1, <1>2, PTL DEF PipelineSpec
<1> QED BY <1>3, PipelineKeepsWritersApart, PTL DEF StoreFacts

LEMMA PipelineInvariant == PipelineSpec => [](StoreFacts /\ PipelineInv)
<1>1. StoreFacts /\ PipelineInv /\ [PipelineNext]_pipelineVars => PipelineInv'
  BY PipelineStep
<1> QED BY <1>1, PipelineStarts, StoreFactsHold, PTL DEF PipelineSpec

\* A finished run leaves the table offering exactly what it was told can be
\* booked, wherever every request was answered: whatever requests failed
\* elsewhere, whatever earlier runs died of, and whatever day it has become.
THEOREM PipelineIsExact == PipelineSpec => []ExactWhereAnswered
<1>1. StoreFacts /\ PipelineInv => ExactWhereAnswered
  <2> SUFFICES ASSUME StoreFacts, PipelineInv, phase = "done", NEW s \in FullyAnswered,
                      SpokenFor(s) \/ s.venue \in Blanking
               PROVE  s \in Bookable <=> s \in ToldOpen
    BY DEF ExactWhereAnswered
  <2>1. CASE s.venue \in ReloadVenues
    BY <2>1, BlankingAssumption, WritersSlots, ToldParts DEF PipelineInv, AsTold, ReloadExact
  <2>2. CASE s.venue \notin ReloadVenues
    BY <2>2, WritersSlots, ToldParts DEF PipelineInv, AsTold, UpsertExact
  <2> QED BY <2>1, <2>2
<1> QED BY <1>1, PipelineInvariant, PTL

\* A finished run leaves no row older than the dates it crawled, even when no
\* request brought anything (delete_past_slots).
THEOREM PipelineKeepsHouse == PipelineSpec => []HousekeepingKeepsUp
<1>1. PipelineInv => HousekeepingKeepsUp
  BY DEF PipelineInv, RowsAsked, HousekeepingKeepsUp
<1> QED BY <1>1, PipelineInvariant, PTL

-----------------------------------------------------------------------------
(* Types: what the environment and the run keep besides the rows.           *)

Phases == {"idle", "fetch", "fetch reload", "purge", "upsert", "reload", "done"}

Budgets == [changes : 0..MaxChanges, failures : 0..MaxFailures, aborts : 0..MaxAborts]

Housed == open \subseteq Slots /\ phase \in Phases /\ budget \in Budgets

\* What may still happen is never counted below zero.
LEMMA SpendKeeps ==
  ASSUME budget \in Budgets, NEW what \in {"changes", "failures", "aborts"}, Spend(what)
  PROVE  budget' \in Budgets
<1>1. budget' = [budget EXCEPT ![what] = budget[what] - 1] /\ budget[what] > 0
  BY DEF Spend
<1>2. CASE what = "changes"
  BY <1>1, <1>2, BudgetAssumption DEF Budgets
<1>3. CASE what = "failures"
  BY <1>1, <1>3, BudgetAssumption DEF Budgets
<1>4. CASE what = "aborts"
  BY <1>1, <1>4, BudgetAssumption DEF Budgets
<1> QED BY <1>2, <1>3, <1>4

LEMMA HousedStep ==
  ASSUME Housed, [PipelineNext]_pipelineVars
  PROVE  Housed'
<1>1. ASSUME NEW s \in Courts, BookOrCancel(s) PROVE Housed'
  <2>1. open' \subseteq Slots /\ phase' = phase /\ Spend("changes")
    BY <1>1 DEF BookOrCancel, Courts, Housed, runVars
  <2> QED BY <2>1, SpendKeeps DEF Housed
<1>2. ASSUME NEW q \in Waiting, FailToFetch(q) PROVE Housed'
  BY <1>2, SpendKeeps DEF FailToFetch, Housed
<1>3. CASE Abort
  BY <1>3, SpendKeeps DEF Abort, Housed, Phases
<1>4. CASE RunStep
  BY <1>4 DEF RunStep, StartRun, Fetch, EndFetch, EndFetchReload, Purge, Upsert, Reload, Housed, Phases
<1>5. CASE Midnight \/ UNCHANGED pipelineVars
  BY <1>5 DEF Midnight, pipelineVars, runVars, Housed
<1> QED BY <1>1, <1>2, <1>3, <1>4, <1>5 DEF PipelineNext

\* Every variable of the pipeline keeps its type: no answer is kept to a request
\* that was not asked, and no budget runs below zero.
THEOREM PipelineTyped == PipelineSpec => []PipelineTypeOK
<1>1. PipelineInit => Housed
  BY BudgetAssumption DEF PipelineInit, Housed, Phases, Budgets, Courts
<1>2. PipelineSpec => []Housed
  BY <1>1, HousedStep, PTL DEF PipelineSpec
<1>3. StoreFacts /\ PipelineInv /\ Housed => PipelineTypeOK
  BY DEF StoreFacts, StoreInv, HeardOK, PipelineInv, HeardAbout, Housed, Phases, Budgets, PipelineTypeOK
<1> QED BY <1>2, <1>3, PipelineInvariant, PTL
=============================================================================
