--------------------------- MODULE SlotStoreProofs ---------------------------
(***************************************************************************)
(* Proofs about SlotStore, for any venues, sessions, entries and bounds:   *)
(* its invariants, and that the table implements the board of SlotBoard.   *)
(***************************************************************************)
EXTENDS SlotStore, TLAPS

\* A batch of the upserting providers and one way to de-duplicate it: what the
\* winner of a slot is.
LEMMA WinnerFacts ==
  ASSUME NEW batch \in SUBSET UpsertEntries, NEW won \in Deduplicated(batch)
  PROVE  /\ DOMAIN won = SlotsOf(batch)
         /\ SlotsOf(batch) \subseteq Slots
         /\ SlotsOf(batch) = UidsOf(batch)
         /\ \A s \in DOMAIN won :
              /\ s \in Slots
              /\ s.venue \notin ReloadVenues
              /\ s.venue \in KeysOf(batch)
              /\ s.date \in DatesOf(batch)
              /\ won[s] \in 0..MaxSpaces
              /\ won[s] > 0 <=> \E e \in batch : e.slot = s /\ e.spaces > 0
<1>1. /\ DOMAIN won = SlotsOf(batch)
      /\ \A s \in DOMAIN won : won[s] \in 0..MaxSpaces
  BY DEF Deduplicated
<1>2. \A e \in batch : /\ e.slot \in Slots
                       /\ e.spaces \in 0..MaxSpaces
                       /\ e.slot.venue \notin ReloadVenues
  BY EntryAssumption DEF UpsertEntries, EntryType
<1>3. SlotsOf(batch) \subseteq Slots /\ SlotsOf(batch) = UidsOf(batch)
  BY <1>2 DEF SlotsOf, UidsOf, UidOf
<1>4. ASSUME NEW s \in DOMAIN won
      PROVE  /\ s.venue \notin ReloadVenues
             /\ s.venue \in KeysOf(batch)
             /\ s.date \in DatesOf(batch)
  BY <1>1, <1>2, <1>4 DEF SlotsOf, KeysOf, DatesOf
<1>5. ASSUME NEW s \in DOMAIN won
      PROVE  won[s] > 0 <=> \E e \in batch : e.slot = s /\ e.spaces > 0
  <2> DEFINE listed == {e.spaces : e \in {e \in batch : UidOf(e.slot) = UidOf(s)}}
  <2>1. won[s] \in IF listed = {0} THEN {0} ELSE listed \ {0}
    BY <1>1 DEF Deduplicated, Winners
  <2>2. listed \subseteq 0..MaxSpaces
    BY <1>2
  <2>3. \A n : n \in listed <=> \E e \in batch : e.slot = s /\ e.spaces = n
    BY DEF UidOf
  <2>4. CASE listed = {0}
    <3>1. won[s] = 0
      BY <2>1, <2>4
    <3>2. \A e \in batch : e.slot = s => e.spaces = 0
      BY <2>3, <2>4
    <3> QED BY <3>1, <3>2
  <2>5. CASE listed # {0}
    <3>1. won[s] \in listed /\ won[s] # 0
      BY <2>1, <2>5
    <3>2. won[s] > 0
      BY <3>1, <2>2, BoundAssumption
    <3> QED BY <3>1, <3>2, <2>3
  <2> QED BY <2>4, <2>5
<1> QED BY <1>1, <1>3, <1>4, <1>5

-----------------------------------------------------------------------------
\* Every step keeps the rows well formed.
LEMMA TypingStep ==
  ASSUME TypeOK, [Next]_vars
  PROVE  TypeOK'
<1>1. ASSUME NEW batch \in SUBSET UpsertEntries, InsertRecordsToTable(batch)
      PROVE  TypeOK'
  <2>1. PICK won \in Deduplicated(batch) :
          table' = MarkedStale(Upserted(table, won), batch)
    BY <1>1 DEF InsertRecordsToTable
  <2>2. Upserted(table, won) \subseteq Row
    BY WinnerFacts DEF TypeOK, Upserted, Row, UidOf
  <2>3. MarkedStale(Upserted(table, won), batch) \subseteq Row
    BY <2>2, BoundAssumption DEF MarkedStale, Zeroed, Row
  <2> QED BY <1>1, <2>1, <2>3 DEF TypeOK, InsertRecordsToTable
<1>2. ASSUME NEW batch \in SUBSET ReloadEntries, TruncateByCompositeKeyAndReload(batch)
      PROVE  TypeOK'
  <2>1. PICK uuid \in Injection(batch, Uuids \ {r.uid : r \in Truncated(table, batch)}) :
          table' = Truncated(table, batch) \cup Inserted(batch, uuid)
    BY <1>2 DEF TruncateByCompositeKeyAndReload
  <2>2. \A e \in batch : e.slot \in Slots /\ e.spaces \in 0..MaxSpaces
    BY EntryAssumption DEF ReloadEntries, EntryType
  <2>3. \A e \in batch : uuid[e] \in Uuids
    BY <2>1 DEF Injection
  <2>4. Inserted(batch, uuid) \subseteq Row
    BY <2>2, <2>3 DEF Inserted, Row
  <2> QED BY <1>2, <2>1, <2>4 DEF TypeOK, Truncated, TruncateByCompositeKeyAndReload
<1>3. CASE DeletePastSlots
  BY <1>3 DEF TypeOK, DeletePastSlots
<1>4. CASE NextDay
  BY <1>4, BoundAssumption DEF TypeOK, NextDay
<1>5. CASE UNCHANGED vars
  BY <1>5 DEF TypeOK, vars
<1> QED BY <1>1, <1>2, <1>3, <1>4, <1>5 DEF Next

\* Type correctness of the master table.
THEOREM Typing == Spec => []TypeOK
<1>1. Init => TypeOK
  BY BoundAssumption DEF Init, TypeOK
<1>2. TypeOK /\ [Next]_vars => TypeOK'
  BY TypingStep
<1> QED BY <1>1, <1>2, PTL DEF Spec

-----------------------------------------------------------------------------
\* The primary key identifies a row, the upsert only writes rows named by the
\* hash of their slot, and neither writer touches a row of the other's venues.
THEOREM WritersApart == Spec => []UidKeepsWritersApart
<1>1. Init => UidKeepsWritersApart
  BY DEF Init, UidKeepsWritersApart
<1>2. TypeOK /\ UidKeepsWritersApart /\ [Next]_vars => UidKeepsWritersApart'
  <2> SUFFICES ASSUME TypeOK, UidKeepsWritersApart, [Next]_vars
               PROVE  UidKeepsWritersApart'
    OBVIOUS
  <2>1. ASSUME NEW batch \in SUBSET UpsertEntries, InsertRecordsToTable(batch)
        PROVE  UidKeepsWritersApart'
    <3>1. PICK won \in Deduplicated(batch) :
            table' = MarkedStale(Upserted(table, won), batch)
      BY <2>1 DEF InsertRecordsToTable
    <3> DEFINE mid == Upserted(table, won)
    <3>2. \A r1, r2 \in mid : r1.uid = r2.uid => r1 = r2
      BY DEF UidKeepsWritersApart, Upserted, UidOf
    <3>3. \A r \in mid : IF r.slot.venue \in ReloadVenues
                         THEN r.uid \in Uuids ELSE r.uid = UidOf(r.slot)
      BY WinnerFacts DEF UidKeepsWritersApart, Upserted, UidOf
    <3> HIDE DEF mid
    <3>4. \A r \in MarkedStale(mid, batch) : \E q \in mid :
            /\ r.uid = q.uid /\ r.slot = q.slot
            /\ r = IF IsStale(q, batch) THEN Zeroed(q) ELSE q
      BY DEF MarkedStale, Zeroed
    <3>5. \A r1, r2 \in MarkedStale(mid, batch) : r1.uid = r2.uid => r1 = r2
      BY <3>2, <3>4
    <3> QED BY <3>1, <3>3, <3>4, <3>5 DEF UidKeepsWritersApart, UidOf, mid
  <2>2. ASSUME NEW batch \in SUBSET ReloadEntries, TruncateByCompositeKeyAndReload(batch)
        PROVE  UidKeepsWritersApart'
    <3>1. PICK uuid \in Injection(batch, Uuids \ {r.uid : r \in Truncated(table, batch)}) :
            table' = Truncated(table, batch) \cup Inserted(batch, uuid)
      BY <2>2 DEF TruncateByCompositeKeyAndReload
    <3>2. \A e \in batch : /\ uuid[e] \in Uuids
                           /\ \A r \in Truncated(table, batch) : uuid[e] # r.uid
      BY <3>1 DEF Injection
    <3>3. \A e, f \in batch : uuid[e] = uuid[f] => e = f
      BY <3>1 DEF Injection, IsInjective
    <3>4. \A e \in batch : e.slot.venue \in ReloadVenues
      BY DEF ReloadEntries
    <3>5. \A r1, r2 \in table' : r1.uid = r2.uid => r1 = r2
      BY <3>1, <3>2, <3>3 DEF UidKeepsWritersApart, Truncated, Inserted
    <3>6. \A r \in table' : IF r.slot.venue \in ReloadVenues
                            THEN r.uid \in Uuids ELSE r.uid = UidOf(r.slot)
      BY <3>1, <3>2, <3>4 DEF UidKeepsWritersApart, Truncated, Inserted
    <3> QED BY <3>5, <3>6 DEF UidKeepsWritersApart, UidOf
  <2>3. CASE DeletePastSlots
    BY <2>3 DEF UidKeepsWritersApart, DeletePastSlots, UidOf
  <2>4. CASE NextDay
    BY <2>4 DEF UidKeepsWritersApart, NextDay, UidOf
  <2>5. CASE UNCHANGED vars
    BY <2>5 DEF UidKeepsWritersApart, vars, UidOf
  <2> QED BY <2>1, <2>2, <2>3, <2>4, <2>5 DEF Next
<1> QED BY <1>1, <1>2, Typing, PTL DEF Spec

\* However often a slot of an upserted venue is crawled, the table lists it once.
THEOREM ListedOnce == Spec => []OneRowPerUpsertedSlot
<1>1. UidKeepsWritersApart => OneRowPerUpsertedSlot
  BY DEF UidKeepsWritersApart, OneRowPerUpsertedSlot, UidOf
<1> QED BY <1>1, WritersApart, PTL

-----------------------------------------------------------------------------
\* Committing a batch again changes nothing, whatever rows it meets.
LEMMA UpsertTwice ==
  ASSUME NEW rows, NEW batch \in SUBSET UpsertEntries, NEW won \in Deduplicated(batch)
  PROVE  LET once == MarkedStale(Upserted(rows, won), batch)
         IN  MarkedStale(Upserted(once, won), batch) = once
<1> DEFINE mid   == Upserted(rows, won)
           fresh == {[uid |-> UidOf(s), slot |-> s, spaces |-> won[s]] : s \in DOMAIN won}
           once  == MarkedStale(mid, batch)
<1>1. \A r \in fresh : r.uid \in UidsOf(batch) /\ ~IsStale(r, batch)
  BY WinnerFacts DEF IsStale, UidOf
<1>2. fresh \subseteq mid /\ \A r \in mid : r.uid \in UidsOf(batch) <=> r \in fresh
  BY <1>1, WinnerFacts DEF Upserted, UidOf
<1>3. \A r \in mid : ~IsStale(r, batch) => r \in once
  BY DEF MarkedStale
<1>4. \A r \in once : \/ r \in mid /\ ~IsStale(r, batch)
                      \/ \E q \in mid : IsStale(q, batch) /\ r = Zeroed(q)
  BY DEF MarkedStale
<1>5. \A q : ~IsStale(Zeroed(q), batch)
  BY DEF IsStale, Zeroed
<1>6. \A r \in once : ~IsStale(r, batch)
  BY <1>4, <1>5
<1>7. fresh \subseteq once /\ \A r \in once : r.uid \in UidsOf(batch) <=> r \in fresh
  BY <1>1, <1>2, <1>3, <1>4 DEF IsStale, Zeroed
<1> HIDE DEF once
<1>8. Upserted(once, won) = once
  BY <1>7, WinnerFacts DEF Upserted, UidOf
<1>9. MarkedStale(once, batch) = once
  BY <1>6 DEF MarkedStale
<1> QED BY <1>8, <1>9 DEF once

THEOREM RerunIsSafe == Spec => []RerunChangesNothing
<1>1. RerunChangesNothing
  BY UpsertTwice DEF RerunChangesNothing
<1> QED BY <1>1, PTL

-----------------------------------------------------------------------------
\* What a committed upsert does to the slots a search finds.
LEMMA RefreshStep ==
  ASSUME TypeOK, UidKeepsWritersApart,
         NEW batch \in SUBSET UpsertEntries, NEW won \in Deduplicated(batch),
         table' = MarkedStale(Upserted(table, won), batch)
  PROVE  Bookable' = (Bookable \ Board!Covered(SlotsOf(batch)))
                       \cup {s \in SlotsOf(batch) : won[s] > 0}
<1> DEFINE mid == Upserted(table, won)
<1>1. \A s : s \in Bookable' <=> \E r \in mid : r.slot = s /\ r.spaces > 0 /\ ~IsStale(r, batch)
  BY DEF Bookable, MarkedStale, Zeroed
<1>2. \A r \in table : /\ r.slot \in Slots
                       /\ r.spaces \in 0..MaxSpaces
  BY DEF TypeOK, Row
<1>3. KeysOf(batch) = Board!VenuesOf(SlotsOf(batch)) /\ DatesOf(batch) = Board!DatesOf(SlotsOf(batch))
  BY DEF KeysOf, DatesOf, SlotsOf, Board!VenuesOf, Board!DatesOf
<1>4. ASSUME NEW s \in SlotsOf(batch)
      PROVE  s \in Bookable' <=> won[s] > 0
  <2>1. s \in DOMAIN won /\ s \in Slots /\ s.venue \notin ReloadVenues
    BY <1>4, WinnerFacts
  <2>2. \A r \in mid : r.slot = s => r = [uid |-> UidOf(s), slot |-> s, spaces |-> won[s]]
    BY <2>1 DEF Upserted, UidKeepsWritersApart, UidOf
  <2>3. [uid |-> UidOf(s), slot |-> s, spaces |-> won[s]] \in mid
    BY <2>1 DEF Upserted
  <2>4. ~IsStale([uid |-> UidOf(s), slot |-> s, spaces |-> won[s]], batch)
    BY <1>4 DEF IsStale, UidsOf, SlotsOf
  <2> QED BY <1>1, <2>2, <2>3, <2>4
<1>5. ASSUME NEW s, s \notin SlotsOf(batch)
      PROVE  s \in Bookable' <=> s \in Bookable /\ s \notin Board!Covered(SlotsOf(batch))
  <2>1. \A r \in mid : r.slot = s => r \in table
    BY <1>5, WinnerFacts DEF Upserted
  <2>2. \A r \in table : r.slot = s => r.uid \notin UidsOf(batch)
    BY <1>5, <1>2, WinnerFacts, UuidAssumption DEF UidKeepsWritersApart, UidOf
  <2>3. \A r \in table : r.slot = s => r \in mid
    BY <2>2, WinnerFacts DEF Upserted, UidOf
  <2>4. \A r \in table : r.slot = s /\ r.spaces > 0 =>
           (IsStale(r, batch) <=> s \in Board!Covered(SlotsOf(batch)))
    BY <1>2, <1>3, <2>2 DEF IsStale, Board!Covered
  <2> QED BY <1>1, <2>1, <2>3, <2>4 DEF Bookable
<1>6. \A s \in SlotsOf(batch) : s \in Board!Covered(SlotsOf(batch))
  BY WinnerFacts DEF Board!Covered, Board!VenuesOf, Board!DatesOf
<1> QED BY <1>4, <1>5, <1>6

\* A batch without spaces for a slot has no winner with spaces for it.
LEMMA OpenWinners ==
  ASSUME NEW batch \in SUBSET UpsertEntries, NEW won \in Deduplicated(batch)
  PROVE  {s \in SlotsOf(batch) : won[s] > 0} = OpenOf(batch)
<1>1. ASSUME NEW s \in SlotsOf(batch)
      PROVE  won[s] > 0 <=> \E e \in batch : e.slot = s /\ e.spaces > 0
  <2> DEFINE listed == {e.spaces : e \in {e \in batch : UidOf(e.slot) = UidOf(s)}}
  <2>1. won[s] \in IF listed = {0} THEN {0} ELSE listed \ {0}
    BY <1>1 DEF Deduplicated, Winners
  <2>2. \A n \in listed : n \in Nat
    BY EntryAssumption, BoundAssumption DEF UpsertEntries, EntryType
  <2>3. \A n : n \in listed <=> \E e \in batch : e.slot = s /\ e.spaces = n
    BY DEF UidOf
  <2> HIDE DEF listed
  <2>4. won[s] > 0 <=> listed # {0}
    <3>1. CASE listed = {0}
      BY <2>1, <3>1
    <3>2. CASE listed # {0}
      BY <2>1, <2>2, <3>2
    <3> QED BY <3>1, <3>2
  <2>5. listed # {}
    BY <1>1, <2>3 DEF SlotsOf
  <2>6. listed # {0} <=> \E n \in listed : n > 0
    BY <2>2, <2>5
  <2> QED BY <2>3, <2>4, <2>6
<1> QED BY <1>1 DEF OpenOf, SlotsOf

LEMMA UpsertPosts ==
  ASSUME TypeOK, UidKeepsWritersApart, NEW batch \in SUBSET UpsertEntries,
         InsertRecordsToTable(batch)
  PROVE  Board!Refresh(SlotsOf(batch), OpenOf(batch))
<1>1. PICK won \in Deduplicated(batch) : table' = MarkedStale(Upserted(table, won), batch)
  BY DEF InsertRecordsToTable
<1>2. Bookable' = (Bookable \ Board!Covered(SlotsOf(batch))) \cup OpenOf(batch)
  BY <1>1, RefreshStep, OpenWinners
<1> QED BY <1>2 DEF Board!Refresh, InsertRecordsToTable

LEMMA ReloadPosts ==
  ASSUME NEW batch \in SUBSET ReloadEntries, TruncateByCompositeKeyAndReload(batch)
  PROVE  Board!Replace(SlotsOf(batch), OpenOf(batch))
<1>1. PICK uuid \in Injection(batch, Uuids \ {r.uid : r \in Truncated(table, batch)}) :
        table' = Truncated(table, batch) \cup Inserted(batch, uuid)
  BY DEF TruncateByCompositeKeyAndReload
<1>2. \A s : s \in OpenOf(batch) <=> \E r \in Inserted(batch, uuid) : r.slot = s /\ r.spaces > 0
  <2>1. ASSUME NEW e \in batch, e.spaces > 0
        PROVE  \E r \in Inserted(batch, uuid) : r.slot = e.slot /\ r.spaces > 0
    <3>1. [uid |-> uuid[e], slot |-> e.slot, spaces |-> e.spaces] \in Inserted(batch, uuid)
      BY DEF Inserted
    <3> QED BY <2>1, <3>1
  <2>2. ASSUME NEW r \in Inserted(batch, uuid), r.spaces > 0
        PROVE  r.slot \in OpenOf(batch)
    BY <2>2 DEF Inserted, OpenOf, SlotsOf
  <2> QED BY <2>1, <2>2 DEF OpenOf, SlotsOf
<1>3. \A s : s \in Bookable /\ s.venue \notin KeysOf(batch)
               <=> \E r \in Truncated(table, batch) : r.slot = s /\ r.spaces > 0
  BY DEF Bookable, Truncated
<1>4. \A s : s \in Bookable' <=> \E r \in table' : r.slot = s /\ r.spaces > 0
  BY DEF Bookable
<1>5. \A s : s \in Bookable' <=> \/ s \in Bookable /\ s.venue \notin KeysOf(batch)
                                 \/ s \in OpenOf(batch)
  BY <1>1, <1>2, <1>3, <1>4
<1>6. KeysOf(batch) = Board!VenuesOf(SlotsOf(batch))
  BY DEF KeysOf, SlotsOf, Board!VenuesOf
<1> QED BY <1>5, <1>6 DEF Board!Replace, TruncateByCompositeKeyAndReload

LEMMA PurgeExpires == DeletePastSlots => Board!Expire
<1>1. DeletePastSlots => Bookable' = {s \in Bookable : s.date >= today}
  BY DEF DeletePastSlots, Bookable
<1> QED BY <1>1 DEF Board!Expire, DeletePastSlots

LEMMA DayPasses == NextDay => Board!NextDay
BY DEF NextDay, Board!NextDay, Bookable

\* Every transaction of the table does to what a search finds what the board
\* says of the list of slots it was called with.
THEOREM StoreImplementsBoard == Spec => BoardSpec
<1>1. Init => Board!Init
  BY DEF Init, Board!Init, Bookable
<1>2. TypeOK /\ UidKeepsWritersApart => BoardStep
  BY UpsertPosts, ReloadPosts, PurgeExpires, DayPasses DEF BoardStep
<1> QED BY <1>1, <1>2, Typing, WritersApart, PTL DEF Spec, BoardSpec

\* So the table is a board: its specification implements the board's.
THEOREM StoreIsABoard == Spec => Board!Spec
<1>1. Init => Board!Init
  BY DEF Init, Board!Init, Bookable
<1>2. TypeOK /\ UidKeepsWritersApart /\ [Next]_vars => [Board!Next]_(Board!boardVars)
  <2> SUFFICES ASSUME TypeOK, UidKeepsWritersApart, [Next]_vars
               PROVE  Board!Next \/ UNCHANGED Board!boardVars
    BY DEF Board!boardVars
  <2>1. ASSUME NEW batch \in SUBSET Entries
        PROVE  /\ OpenOf(batch) \in SUBSET SlotsOf(batch)
               /\ batch \subseteq UpsertEntries => SlotsOf(batch) \in SUBSET Board!UpsertSlots
               /\ batch \subseteq ReloadEntries => SlotsOf(batch) \in SUBSET Board!ReloadSlots
    BY EntryAssumption
    DEF OpenOf, SlotsOf, UpsertEntries, ReloadEntries, EntryType, Board!UpsertSlots, Board!ReloadSlots
  <2>2. ASSUME NEW batch \in SUBSET UpsertEntries, InsertRecordsToTable(batch)
        PROVE  Board!Next
    BY <2>1, <2>2, UpsertPosts DEF UpsertEntries, Board!Next
  <2>3. ASSUME NEW batch \in SUBSET ReloadEntries, TruncateByCompositeKeyAndReload(batch)
        PROVE  Board!Next
    BY <2>1, <2>3, ReloadPosts DEF ReloadEntries, Board!Next
  <2>4. CASE DeletePastSlots
    BY <2>4, PurgeExpires DEF Board!Next
  <2>5. CASE NextDay
    BY <2>5, DayPasses DEF Board!Next
  <2>6. CASE UNCHANGED vars
    BY <2>6 DEF vars, Board!boardVars, Bookable
  <2> QED BY <2>2, <2>3, <2>4, <2>5, <2>6 DEF Next
<1> QED BY <1>1, <1>2, Typing, WritersApart, PTL DEF Spec, Board!Spec

\* An upserted slot leaves the table only once its date has passed.
THEOREM RowsOnlyExpire == Spec => UpsertedRowsOnlyExpire
<1> DEFINE Kept == \A r \in table :
                     r.slot.venue \notin ReloadVenues /\ r.slot.date >= today
                       => \E q \in table' : q.uid = r.uid /\ q.slot = r.slot
<1>1. TypeOK /\ UidKeepsWritersApart /\ [Next]_vars => Kept
  <2> SUFFICES ASSUME TypeOK, UidKeepsWritersApart, [Next]_vars,
                      NEW r \in table,
                      r.slot.venue \notin ReloadVenues, r.slot.date >= today
               PROVE  \E q \in table' : q.uid = r.uid /\ q.slot = r.slot
    OBVIOUS
  <2>1. ASSUME NEW batch \in SUBSET UpsertEntries, InsertRecordsToTable(batch)
        PROVE  \E q \in table' : q.uid = r.uid /\ q.slot = r.slot
    <3>1. PICK won \in Deduplicated(batch) :
            table' = MarkedStale(Upserted(table, won), batch)
      BY <2>1 DEF InsertRecordsToTable
    <3>2. PICK m \in Upserted(table, won) : m.uid = r.uid /\ m.slot = r.slot
      <4>1. r.uid = r.slot
        BY DEF UidKeepsWritersApart, UidOf
      <4>2. CASE r.slot \in DOMAIN won
        <5>1. [uid |-> r.slot, slot |-> r.slot, spaces |-> won[r.slot]] \in Upserted(table, won)
          BY <4>2 DEF Upserted, UidOf
        <5> QED BY <4>1, <5>1
      <4>3. CASE r.slot \notin DOMAIN won
        BY <4>1, <4>3 DEF Upserted, UidOf
      <4> QED BY <4>2, <4>3
    <3>3. IF IsStale(m, batch) THEN Zeroed(m) \in table' ELSE m \in table'
      BY <3>1 DEF MarkedStale
    <3> QED BY <3>2, <3>3 DEF Zeroed
  <2>2. ASSUME NEW batch \in SUBSET ReloadEntries, TruncateByCompositeKeyAndReload(batch)
        PROVE  \E q \in table' : q.uid = r.uid /\ q.slot = r.slot
    BY <2>2 DEF TruncateByCompositeKeyAndReload, Truncated, KeysOf, ReloadEntries
  <2>3. CASE DeletePastSlots
    BY <2>3 DEF DeletePastSlots
  <2>4. CASE NextDay
    BY <2>4 DEF NextDay
  <2>5. CASE UNCHANGED vars
    BY <2>5 DEF vars
  <2> QED BY <2>1, <2>2, <2>3, <2>4, <2>5 DEF Next
<1>2. TypeOK /\ UidKeepsWritersApart /\ [Next]_vars => [Kept]_vars
  BY <1>1
<1> QED BY <1>2, Typing, WritersApart, PTL DEF Spec, UpsertedRowsOnlyExpire
=============================================================================
