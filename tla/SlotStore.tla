------------------------------ MODULE SlotStore ------------------------------
(***************************************************************************)
(* The master table of one sport and the three transactions the crawl      *)
(* pipeline runs on it (sportscanner/storage/postgres/database.py):        *)
(*   insert_records_to_table               upsert, then mark stale rows    *)
(*   truncate_by_composite_key_and_reload  delete by venue, then insert    *)
(*   delete_past_slots                     housekeeping                    *)
(* Each transaction is one step here; SlotWriters splits them into their   *)
(* statements.  A row keeps what the properties tell apart: its primary    *)
(* key, the slot it describes and the number of spaces.  Prices, booking   *)
(* links, capacity and time stamps are columns the upsert copies along.    *)
(***************************************************************************)
EXTENDS Integers, FiniteSets, Functions

CONSTANTS
  CompositeKeys, \* the venues of the sport
  ReloadVenues,  \* those written by truncate_by_composite_key_and_reload
  Sessions,      \* what else identifies a slot: category, start and end time
  LastDay,       \* bound on the calendar
  MaxSpaces,     \* bound on the spaces of a slot
  Uuids,         \* the values uuid4 can return
  Entries        \* the parsed slots a crawl can return

\* The identity of a bookable slot.
Slots == [venue : CompositeKeys, date : 0..LastDay, session : Sessions]

\* A parsed slot (UnifiedParserSchema) and the request that returned it: two
\* requests may list the same slot, alike or not.
EntryType == [slot : Slots, spaces : 0..MaxSpaces, request : Nat]

ASSUME BoundAssumption == MaxSpaces \in Nat \ {0} /\ LastDay \in Nat
ASSUME UuidAssumption  == Uuids \cap Slots = {}
ASSUME EntryAssumption == Entries \subseteq EntryType

VARIABLES
  table,  \* the rows of the master table
  today   \* date.today()

vars == <<table, today>>

Row == [uid : Slots \cup Uuids, slot : Slots, spaces : 0..MaxSpaces]

\* Mutant: the session is left out of the hash.
DayUidOf(slot) == [venue |-> slot.venue, date |-> slot.date]

\* md5 of composite_key, category, date, start and end: taken to be injective.
UidOf(slot) == slot

SlotsOf(batch) == {e.slot : e \in batch}
KeysOf(batch)  == {e.slot.venue : e \in batch}
DatesOf(batch) == {e.slot.date  : e \in batch}
UidsOf(batch)  == {UidOf(e.slot) : e \in batch}

\* uid_to_slots keeps one entry of the batch for each uid: the first that has
\* spaces or, when none has, the first.  Responses are in the batch in the
\* order they completed, so each entry with spaces may be that first one.
Winners(batch, slot) ==
  LET listed == {e.spaces : e \in {e \in batch : UidOf(e.slot) = UidOf(slot)}}
  IN  IF listed = {0} THEN {0} ELSE listed \ {0}

Deduplicated(batch) ==
  {won \in [SlotsOf(batch) -> 0..MaxSpaces] :
     \A s \in SlotsOf(batch) : won[s] \in Winners(batch, s)}

\* Mutant: a plain INSERT, without the ON CONFLICT clause.
PlainInserted(rows, won) ==
  rows \cup {[uid |-> UidOf(s), slot |-> s, spaces |-> won[s]] : s \in DOMAIN won}

\* INSERT ... ON CONFLICT (uid) DO UPDATE.
Upserted(rows, won) ==
  {r \in rows : \A s \in DOMAIN won : r.uid # UidOf(s)}
    \cup {[uid |-> UidOf(s), slot |-> s, spaces |-> won[s]] : s \in DOMAIN won}

\* Mutants: the date, or the uids just upserted, are left out of the WHERE clause.
IsStaleOnAnyDate(row, batch) ==
  /\ row.slot.venue \in KeysOf(batch)
  /\ row.spaces # 0
  /\ row.uid \notin UidsOf(batch)

IsStaleThoughListed(row, batch) ==
  /\ row.slot.venue \in KeysOf(batch)
  /\ row.slot.date \in DatesOf(batch)
  /\ row.spaces # 0

\* UPDATE ... SET spaces = 0 WHERE composite_key IN .. AND date IN ..
\*                             AND spaces <> 0 AND uid NOT IN (the batch).
IsStale(row, batch) ==
  /\ row.slot.venue \in KeysOf(batch)
  /\ row.slot.date \in DatesOf(batch)
  /\ row.spaces # 0
  /\ row.uid \notin UidsOf(batch)

\* Mutant: a stale row loses a space instead of all.
Decremented(row) == [uid |-> row.uid, slot |-> row.slot, spaces |-> row.spaces - 1]

Zeroed(row) == [uid |-> row.uid, slot |-> row.slot, spaces |-> 0]

\* Mutant: stale rows are deleted.
StaleDeleted(rows, batch) == {r \in rows : ~IsStale(r, batch)}

MarkedStale(rows, batch) ==
  {r \in rows : ~IsStale(r, batch)} \cup {Zeroed(r) : r \in {r \in rows : IsStale(r, batch)}}

\* DELETE WHERE composite_key IN .., and an INSERT for each entry of the batch.
Truncated(rows, batch) == {r \in rows : r.slot.venue \notin KeysOf(batch)}

\* Mutant: the reload keeps the hash the transform computed.
InsertedHashed(batch, uuid) ==
  {[uid |-> UidOf(e.slot), slot |-> e.slot, spaces |-> e.spaces] : e \in batch}

Inserted(batch, uuid) ==
  {[uid |-> uuid[e], slot |-> e.slot, spaces |-> e.spaces] : e \in batch}

UpsertEntries == {e \in Entries : e.slot.venue \notin ReloadVenues}
ReloadEntries == {e \in Entries : e.slot.venue \in ReloadVenues}

-----------------------------------------------------------------------------
Init ==
  /\ table = {}
  /\ today = 0

InsertRecordsToTable(batch) ==
  /\ batch # {}
  /\ \E won \in Deduplicated(batch) :
       table' = MarkedStale(Upserted(table, won), batch)
  /\ UNCHANGED today

\* Every row gets a uuid4, which no row left in the table has, instead of the hash.
TruncateByCompositeKeyAndReload(batch) ==
  /\ batch # {}
  /\ \E uuid \in Injection(batch, Uuids \ {r.uid : r \in Truncated(table, batch)}) :
       table' = Truncated(table, batch) \cup Inserted(batch, uuid)
  /\ UNCHANGED today

\* Mutant: the cutoff is yesterday.
DeleteBeforeYesterday ==
  /\ table' = {r \in table : r.slot.date >= today - 1}
  /\ UNCHANGED today

DeletePastSlots ==
  /\ table' = {r \in table : r.slot.date >= today}
  /\ UNCHANGED today

\* Midnight.
NextDay ==
  /\ today < LastDay
  /\ today' = today + 1
  /\ UNCHANGED table

Next ==
  \/ \E batch \in SUBSET UpsertEntries : InsertRecordsToTable(batch)
  \/ \E batch \in SUBSET ReloadEntries : TruncateByCompositeKeyAndReload(batch)
  \/ DeletePastSlots
  \/ NextDay

Spec == Init /\ [][Next]_vars

-----------------------------------------------------------------------------
\* What a search finds: search/endpoints.py reads rows with spaces > 0.
Bookable == {r.slot : r \in {r \in table : r.spaces > 0}}

TypeOK ==
  /\ table \subseteq Row
  /\ today \in 0..LastDay

\* The primary key identifies a row, and a row written by the upsert carries
\* the hash of its own slot while a reloaded row carries a uuid: the two
\* writers of the badminton table never take a row of one another's venues.
UidKeepsWritersApart ==
  /\ \A r1, r2 \in table : r1.uid = r2.uid => r1 = r2
  /\ \A r \in table :
       IF r.slot.venue \in ReloadVenues THEN r.uid \in Uuids ELSE r.uid = UidOf(r.slot)

\* docs/database.md, "Idempotency": however often and in whatever order a slot
\* of an upserted venue is crawled, the table lists it once.
OneRowPerUpsertedSlot ==
  \A r1, r2 \in table :
    r1.slot = r2.slot /\ r1.slot.venue \notin ReloadVenues => r1 = r2

\* Marking stale never removes a row: an upserted slot leaves the table only
\* through housekeeping, once its date has passed.
UpsertedRowsOnlyExpire ==
  [][\A r \in table :
       r.slot.venue \notin ReloadVenues /\ r.slot.date >= today
         => \E q \in table' : q.uid = r.uid /\ q.slot = r.slot]_vars

\* docs/database.md: "Re-running a crawl, retrying a failed pipeline ... are all
\* safe".  Committing a batch a second time changes nothing.
RerunChangesNothing ==
  \A batch \in (SUBSET UpsertEntries) \ {{}} : \A won \in Deduplicated(batch) :
    LET once == MarkedStale(Upserted(table, won), batch)
    IN  MarkedStale(Upserted(once, won), batch) = once

\* The table implements the board a reader relies on, crawl by crawl: committing
\* a batch posts its slots, of which those with spaces are open.
Board == INSTANCE SlotBoard WITH bookable <- Bookable

OpenOf(batch) == SlotsOf({e \in batch : e.spaces > 0})

BoardStep ==
  /\ \A batch \in SUBSET UpsertEntries :
       InsertRecordsToTable(batch) => Board!Refresh(SlotsOf(batch), OpenOf(batch))
  /\ \A batch \in SUBSET ReloadEntries :
       TruncateByCompositeKeyAndReload(batch) => Board!Replace(SlotsOf(batch), OpenOf(batch))
  /\ DeletePastSlots => Board!Expire
  /\ NextDay => Board!NextDay

BoardSpec == Board!Init /\ [][BoardStep]_vars
=============================================================================
