--------------------------- MODULE CrawlerPipeline ---------------------------
(***************************************************************************)
(* One sport's pipeline (sportscanner/crawlers/pipeline.py) between its    *)
(* providers and its master table: fetch every request of every venue and  *)
(* date, drop the past rows, upsert what was collected, reload what the    *)
(* reloading provider returned.  Courts are booked and freed meanwhile,    *)
(* requests fail, midnight passes and the run may be killed at any step.   *)
(* A request is fetched in one step here (CrawlFetch has its tasks) and so *)
(* is each transaction (SlotWriters has their statements); one run writes  *)
(* at a time, as the workflow's concurrency group sees to.                 *)
(***************************************************************************)
EXTENDS SlotStore

CONSTANTS
  Window,       \* days ahead that are crawled
  Activities,   \* requests of one venue and date, by number (40 and 60 minutes)
  Lists,        \* [CompositeKeys \X Activities -> SUBSET Sessions]
  Blanking,     \* venues of the BetterStyleCrawler providers
  Dropping,     \* venues whose provider leaves out what is booked
  MaxChanges,   \* bound on bookings and cancellations
  MaxFailures,  \* bound on failed requests
  MaxAborts     \* bound on runs that are killed or raise

ASSUME WindowAssumption == Window \in Nat \ {0} /\ Activities \subseteq Nat
ASSUME BudgetAssumption == MaxChanges \in Nat /\ MaxFailures \in Nat /\ MaxAborts \in Nat
ASSUME AllEntriesAssumption ==
  [slot : Slots, spaces : 0..MaxSpaces, request : Activities] \subseteq Entries
ASSUME ListsAssumption == Lists \in [CompositeKeys \X Activities -> SUBSET Sessions]
\* Tower Hamlets has a strategy of its own.
ASSUME BlankingAssumption == Blanking \cap ReloadVenues = {}

VARIABLES
  open,      \* the slots that can be booked at the providers
  phase,     \* what the run does next
  asked,     \* the requests the run has generated
  heard,     \* the answer to each request that was sent
  budget     \* what is left of MaxChanges, MaxFailures and MaxAborts

runVars == <<phase, asked, heard>>
pipelineVars == <<table, today, open, runVars, budget>>

\* A request asks one activity of a venue for one date; the reloading provider
\* answers with every date from that one on.
AllRequests == [venue : CompositeKeys, date : 0..LastDay, activity : Activities]

Offered(q) == Lists[<<q.venue, q.activity>>]

Asks(q) ==
  {s \in Slots : /\ s.venue = q.venue /\ s.session \in Offered(q)
                 /\ IF q.venue \in ReloadVenues THEN s.date >= q.date ELSE s.date = q.date}

\* The slots some request lists.
Courts == {s \in Slots : \E a \in Activities : s.session \in Lists[<<s.venue, a>>]}

UpsertRequests(day) ==
  {q \in AllRequests : /\ q.venue \notin ReloadVenues /\ Offered(q) # {}
                       /\ q.date \in day..(day + Window - 1)}

ReloadRequests(day) ==
  {q \in AllRequests : q.venue \in ReloadVenues /\ Offered(q) # {} /\ q.date = day}

Unheard  == [q \in {} |-> [ok |-> FALSE, slots |-> {}]]
Answered == {q \in DOMAIN heard : heard[q].ok}

\* flatten_responses, for the venues of one writer.
Collected(reloading) ==
  UNION {heard[q].slots : q \in {q \in Answered : (q.venue \in ReloadVenues) = reloading}}

PipelineTypeOK ==
  /\ TypeOK
  /\ open \subseteq Slots
  /\ phase \in {"idle", "fetch", "fetch reload", "purge", "upsert", "reload", "done"}
  /\ asked \subseteq AllRequests /\ DOMAIN heard \subseteq asked
  /\ \A q \in DOMAIN heard : heard[q].ok \in BOOLEAN /\ heard[q].slots \subseteq Entries
  /\ budget \in [changes : 0..MaxChanges, failures : 0..MaxFailures, aborts : 0..MaxAborts]

PipelineInit ==
  /\ Init
  /\ open \in SUBSET Courts
  /\ phase = "idle"
  /\ asked = {}
  /\ heard = Unheard
  /\ budget = [changes |-> MaxChanges, failures |-> MaxFailures, aborts |-> MaxAborts]

-----------------------------------------------------------------------------
Spend(what) ==
  /\ budget[what] > 0
  /\ budget' = [budget EXCEPT ![what] = @ - 1]

\* Customers, and midnight.
BookOrCancel(s) ==
  /\ Spend("changes")
  /\ open' = IF s \in open THEN open \ {s} ELSE open \cup {s}
  /\ UNCHANGED <<table, today, runVars>>

Midnight ==
  /\ NextDay
  /\ UNCHANGED <<open, runVars, budget>>

\* The workflow is dispatched; today and the dates are computed.
StartRun ==
  /\ phase \in {"idle", "done"}
  /\ phase' = "fetch"
  /\ asked' = UpsertRequests(today)
  /\ heard' = Unheard
  /\ UNCHANGED <<table, today, open, budget>>

\* A response lists the slots asked for with their spaces; a provider may leave
\* the booked ones out.
Listing(q) ==
  {[slot |-> s, spaces |-> IF s \in open THEN 1 ELSE 0, request |-> q.activity] :
     s \in {s \in Asks(q) : s \in open \/ q.venue \notin Dropping}}

\* populate_blank_response_for_upserts: on an empty answer of a Better-style
\* provider every row of that venue and date is emitted again with no spaces,
\* the rows of its other activities included.
Blanks(q) ==
  {[slot |-> r.slot, spaces |-> 0, request |-> q.activity] :
     r \in {r \in table : r.slot.venue = q.venue /\ r.slot.date = q.date}}

\* Mutant: an empty answer stays empty.
UnblankedResponse(q) == Listing(q)

Response(q) ==
  IF Listing(q) = {} /\ q.venue \in Blanking THEN Blanks(q) ELSE Listing(q)

Hear(q, answer) == heard' = [p \in DOMAIN heard \cup {q} |-> IF p = q THEN answer ELSE heard[p]]

\* The requests still to be sent.
Waiting == IF phase \in {"fetch", "fetch reload"} THEN asked \ DOMAIN heard ELSE {}

Fetch(q) ==
  /\ q \in Waiting
  /\ Hear(q, [ok |-> TRUE, slots |-> Response(q)])
  /\ UNCHANGED <<table, today, open, phase, asked, budget>>

\* Every ending of CrawlFetch that brings no slots: error status, connection
\* error, a response that could not be parsed, the tripped breaker.
FailToFetch(q) ==
  /\ q \in Waiting
  /\ Spend("failures")
  /\ Hear(q, [ok |-> FALSE, slots |-> {}])
  /\ UNCHANGED <<table, today, open, phase, asked>>

EndFetch ==
  /\ phase = "fetch" /\ Waiting = {}
  /\ phase' = "fetch reload"
  /\ asked' = asked \cup ReloadRequests(today)
  /\ UNCHANGED <<table, today, open, heard, budget>>

EndFetchReload ==
  /\ phase = "fetch reload" /\ Waiting = {}
  /\ phase' = "purge"
  /\ UNCHANGED <<table, today, open, asked, heard, budget>>

\* Mutant: housekeeping, too, waits for something to have been collected.
PurgeIfCollected ==
  /\ phase = "purge"
  /\ IF Collected(FALSE) = {} THEN UNCHANGED <<table, today>> ELSE DeletePastSlots
  /\ phase' = "upsert"
  /\ UNCHANGED <<open, asked, heard, budget>>

Purge ==
  /\ phase = "purge"
  /\ DeletePastSlots
  /\ phase' = "upsert"
  /\ UNCHANGED <<open, asked, heard, budget>>

\* Mutant: nothing is written unless both writers have something to write.
UpsertIfBoth ==
  /\ phase = "upsert"
  /\ IF Collected(FALSE) = {} \/ Collected(TRUE) = {}
     THEN UNCHANGED <<table, today>> ELSE InsertRecordsToTable(Collected(FALSE))
  /\ phase' = "reload"
  /\ UNCHANGED <<open, asked, heard, budget>>

\* insert_records_to_table, which returns at once when nothing was collected.
Upsert ==
  /\ phase = "upsert"
  /\ IF Collected(FALSE) = {} THEN UNCHANGED <<table, today>>
                              ELSE InsertRecordsToTable(Collected(FALSE))
  /\ phase' = "reload"
  /\ UNCHANGED <<open, asked, heard, budget>>

Reload ==
  /\ phase = "reload"
  /\ IF Collected(TRUE) = {} THEN UNCHANGED <<table, today>>
                             ELSE TruncateByCompositeKeyAndReload(Collected(TRUE))
  /\ phase' = "done"
  /\ UNCHANGED <<open, asked, heard, budget>>

\* The job is cancelled by the next trigger or crashes, or a provider raises
\* out of SportscannerCrawlerBot: nothing further of this run happens.
Abort ==
  /\ phase \notin {"idle", "done"}
  /\ Spend("aborts")
  /\ phase' = "idle"
  /\ UNCHANGED <<table, today, open, asked, heard>>

RunStep ==
  \/ StartRun
  \/ \E q \in Waiting : Fetch(q)
  \/ EndFetch
  \/ EndFetchReload
  \/ Purge
  \/ Upsert
  \/ Reload

PipelineNext ==
  \/ \E s \in Courts : BookOrCancel(s)
  \/ Midnight
  \/ RunStep
  \/ \E q \in Waiting : FailToFetch(q)
  \/ Abort

PipelineSpec == PipelineInit /\ [][PipelineNext]_pipelineVars

\* The cron service triggers a run every 15 minutes and a run goes on.
PipelineFairSpec == PipelineSpec /\ WF_pipelineVars(RunStep)

-----------------------------------------------------------------------------
\* The run's requests about the venue and date of slot s.
RequestsAbout(s) ==
  {q \in asked : /\ q.venue = s.venue
                 /\ IF q.venue \in ReloadVenues THEN s.date >= q.date ELSE s.date = q.date}

FullyAnswered == {s \in Slots : RequestsAbout(s) # {} /\ RequestsAbout(s) \subseteq Answered}

ToldOpen == {e.slot : e \in {e \in Collected(FALSE) \cup Collected(TRUE) : e.spaces > 0}}

\* The collected batch speaks for slot s.
SpokenFor(s) ==
  IF s.venue \in ReloadVenues
  THEN s.venue \in KeysOf(Collected(TRUE))
  ELSE s.venue \in KeysOf(Collected(FALSE)) /\ s.date \in DatesOf(Collected(FALSE))

\* Where every request about a venue and date was answered, and the answers
\* listed anything or the provider's blanks stand in for a listing, a finished
\* run leaves the table offering exactly what it was told can be booked: what
\* other requests answered, listed twice, dropped or failed does not matter.
ExactWhereAnswered ==
  phase = "done" =>
    \A s \in FullyAnswered :
      SpokenFor(s) \/ s.venue \in Blanking => (s \in Bookable <=> s \in ToldOpen)

\* delete_past_slots: a finished run leaves no row older than the dates it
\* crawled, whether or not it collected anything.
HousekeepingKeepsUp ==
  phase = "done" => \A r \in table : \E q \in asked : q.date <= r.slot.date

\* Once courts, requests and the calendar settle, the table settles on what can
\* be booked, for the providers that list their booked slots or are blanked.
EventuallyAccurate ==
  <>[](\A s \in Slots :
         s.date \in today..(today + Window - 1) /\ s.venue \notin Dropping \ Blanking
           => (s \in Bookable <=> s \in open))

\* docs/database.md: "This is what actually bounds table size".  A row whose day
\* has passed does not stay.
PastRowsArePurged == []<>(\A r \in table : r.slot.date >= today)
=============================================================================
