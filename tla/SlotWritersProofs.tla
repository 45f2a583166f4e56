-------------------------- MODULE SlotWritersProofs --------------------------
(***************************************************************************)
(* Proofs about SlotWriters, for any number of overlapping runs: row locks *)
(* are exclusive, what the runs commit keeps the primary key and the two   *)
(* writers of a table apart, and no batch is torn.  One run at a time does *)
(* what SlotStore's transactions do.                                       *)
(***************************************************************************)
EXTENDS SlotWriters, TLAPS

\* A row a writer of its venue may have written.
Proper(r) == IF r.slot.venue \in ReloadVenues THEN r.uid \in Uuids ELSE r.uid = UidOf(r.slot)

\* What a transaction holds: rows under their own uid, or deletions; a
\* transaction that deletes has written nothing else, an idle run nothing.
HoldsWell(w) ==
  /\ \A u \in Locks(w) :
       written[w][u] # Gone => written[w][u].uid = u /\ Proper(written[w][u])
  /\ step[w] = "idle" => Locks(w) = {}
  /\ step[w] = "deleting" => \A u \in Locks(w) : written[w][u] = Gone

\* The batch of a transaction belongs to its writer.
BatchOfWriter(w) ==
  /\ step[w] = "upserting" => batch[w] \subseteq UpsertEntries
  /\ step[w] = "deleting" => batch[w] \subseteq ReloadEntries

WInv ==
  /\ step \in [Runs -> {"idle", "upserting", "marking", "deleting"}]
  /\ DOMAIN batch = Runs /\ DOMAIN written = Runs
  /\ \A w \in Runs : HoldsWell(w) /\ BatchOfWriter(w)
  /\ LocksExclusive
  /\ UidKeepsWritersApart

-----------------------------------------------------------------------------
\* A row written under a free lock.
LEMMA WriteStep ==
  ASSUME WInv, NEW w \in Runs, NEW uid, NEW row, Free(w, uid), Write(w, uid, row)
  PROVE  /\ DOMAIN written' = Runs
         /\ Locks(w)' = Locks(w) \cup {uid}
         /\ \A v \in Runs \ {w} : Locks(v)' = Locks(v) /\ written'[v] = written[v]
         /\ \A u \in Locks(w)' : written'[w][u] = IF u = uid THEN row ELSE written[w][u]
         /\ LocksExclusive'
<1>1. written' = [written EXCEPT ![w] = [u \in Locks(w) \cup {uid} |-> IF u = uid THEN row ELSE written[w][u]]]
  BY DEF Write
<1>2. DOMAIN written' = Runs /\ written'[w] = [u \in Locks(w) \cup {uid} |-> IF u = uid THEN row ELSE written[w][u]]
  BY <1>1 DEF WInv
<1>3. Locks(w)' = Locks(w) \cup {uid}
  BY <1>2 DEF Locks
<1>4. \A v \in Runs \ {w} : written'[v] = written[v] /\ Locks(v)' = Locks(v)
  BY <1>1 DEF Locks, WInv
<1>5. \A u \in Locks(w)' : written'[w][u] = IF u = uid THEN row ELSE written[w][u]
  BY <1>2, <1>3
<1>6. LocksExclusive'
  <2> SUFFICES ASSUME NEW v1 \in Runs, NEW v2 \in Runs, v1 # v2
               PROVE  Locks(v1)' \cap Locks(v2)' = {}
    BY DEF LocksExclusive
  <2>1. \A v \in Runs \ {w} : (Locks(w) \cup {uid}) \cap Locks(v) = {}
    BY DEF Free, WInv, LocksExclusive
  <2> QED BY <1>3, <1>4, <2>1 DEF WInv, LocksExclusive
<1> QED BY <1>2, <1>3, <1>4, <1>5, <1>6

\* The end of a transaction, whatever became of the table.
LEMMA EndStep ==
  ASSUME WInv, NEW w \in Runs, End(w), UidKeepsWritersApart'
  PROVE  WInv'
<1>1. /\ DOMAIN batch' = Runs /\ DOMAIN written' = Runs
      /\ step' \in [Runs -> {"idle", "upserting", "marking", "deleting"}]
      /\ step'[w] = "idle" /\ Locks(w)' = {}
      /\ \A v \in Runs \ {w} : /\ step'[v] = step[v] /\ batch'[v] = batch[v]
                               /\ written'[v] = written[v] /\ Locks(v)' = Locks(v)
  BY DEF End, WInv, Locks, Nothing
<1>2. \A v \in Runs : HoldsWell(v)' /\ BatchOfWriter(v)'
  BY <1>1 DEF WInv, HoldsWell, BatchOfWriter, Proper, UidOf
<1>3. LocksExclusive'
  BY <1>1 DEF WInv, LocksExclusive
<1> QED BY <1>1, <1>2, <1>3 DEF WInv

\* What a transaction sees keeps the keys, and so does committing it.
LEMMA SeenKeys ==
  ASSUME WInv, NEW w \in Runs
  PROVE  /\ \A r1, r2 \in Seen(w) : r1.uid = r2.uid => r1 = r2
         /\ \A r \in Seen(w) : Proper(r)
         /\ step[w] = "deleting" => Seen(w) \subseteq table
<1>1. \A u \in Locks(w) :
        written[w][u] # Gone => written[w][u].uid = u /\ Proper(written[w][u])
  BY DEF WInv, HoldsWell
<1>2. \A r \in Seen(w) : \/ r \in table /\ r.uid \notin Locks(w)
                         \/ r.uid \in Locks(w) /\ r = written[w][r.uid] /\ Proper(r)
  BY <1>1 DEF Seen
<1>3. \A r1, r2 \in table : r1.uid = r2.uid => r1 = r2
  BY DEF WInv, UidKeepsWritersApart
<1>4. \A r \in table : Proper(r)
  BY DEF WInv, UidKeepsWritersApart, Proper
<1>5. step[w] = "deleting" => Seen(w) \subseteq table
  BY DEF WInv, HoldsWell, Seen
<1> QED BY <1>2, <1>3, <1>4, <1>5

-----------------------------------------------------------------------------
\* Statements that write at most one row: the fields of the other runs stay.
LEMMA StatementStep ==
  ASSUME WInv, NEW w \in Runs, NEW uid, NEW row,
         Free(w, uid), Write(w, uid, row) \/ UNCHANGED written,
         row # Gone => row.uid = uid /\ Proper(row),
         step[w] # "idle", step[w] = "deleting" => row = Gone,
         UNCHANGED <<table, step, batch>>
  PROVE  WInv'
<1>1. UidKeepsWritersApart'
  BY DEF WInv, UidKeepsWritersApart, UidOf
<1>2. CASE Write(w, uid, row)
  <2>1. /\ DOMAIN written' = Runs
        /\ Locks(w)' = Locks(w) \cup {uid}
        /\ \A v \in Runs \ {w} : Locks(v)' = Locks(v) /\ written'[v] = written[v]
        /\ \A u \in Locks(w)' : written'[w][u] = IF u = uid THEN row ELSE written[w][u]
        /\ LocksExclusive'
    BY <1>2, WriteStep
  <2>2. HoldsWell(w)'
    BY <2>1 DEF WInv, HoldsWell, Proper, UidOf
  <2>3. \A v \in Runs \ {w} : HoldsWell(v)'
    BY <2>1 DEF WInv, HoldsWell, Proper, UidOf
  <2>4. \A v \in Runs : BatchOfWriter(v)'
    BY DEF WInv, BatchOfWriter
  <2> QED BY <1>1, <2>1, <2>2, <2>3, <2>4 DEF WInv
<1>3. CASE UNCHANGED written
  <2>1. LocksExclusive' /\ \A v \in Runs : HoldsWell(v)' /\ BatchOfWriter(v)'
    BY <1>3 DEF WInv, LocksExclusive, HoldsWell, BatchOfWriter, Locks, Proper, UidOf
  <2> QED BY <1>1, <1>3, <2>1 DEF WInv
<1> QED BY <1>2, <1>3

LEMMA BeginStep ==
  ASSUME WInv, NEW w \in Runs, Begin(w) \/ BeginMarking(w)
  PROVE  WInv'
<1>1. UNCHANGED <<table, written>> /\ (step[w] = "idle" \/ step'[w] = "marking")
  BY DEF Begin, BeginUpsert, BeginReload, BeginMarking, WInv
<1>2. /\ step' \in [Runs -> {"idle", "upserting", "marking", "deleting"}]
      /\ DOMAIN batch' = Runs /\ DOMAIN written' = Runs
      /\ step'[w] # "idle"
      /\ \A v \in Runs \ {w} : step'[v] = step[v] /\ batch'[v] = batch[v]
  BY DEF Begin, BeginUpsert, BeginReload, BeginMarking, WInv
<1>3. BatchOfWriter(w)'
  BY DEF Begin, BeginUpsert, BeginReload, BeginMarking, WInv, BatchOfWriter
<1>4. \A v \in Runs \ {w} : HoldsWell(v)' /\ BatchOfWriter(v)'
  BY <1>1, <1>2 DEF WInv, HoldsWell, BatchOfWriter, Locks, Proper, UidOf
<1>5. HoldsWell(w)'
  BY <1>1, <1>2 DEF WInv, HoldsWell, Locks, Proper, UidOf
<1>6. LocksExclusive' /\ UidKeepsWritersApart'
  BY <1>1 DEF WInv, LocksExclusive, Locks, UidKeepsWritersApart, UidOf
<1> QED BY <1>2, <1>3, <1>4, <1>5, <1>6 DEF WInv

LEMMA AdvanceStep ==
  ASSUME WInv, NEW w \in Runs, Advance(w)
  PROVE  WInv'
<1>1. ASSUME NEW s \in SlotsOf(batch[w]), UpsertRow(w, s)
      PROVE  WInv'
  <2> DEFINE row == [uid |-> UidOf(s), slot |-> s, spaces |-> won[w][s]]
  <2>1. s.venue \notin ReloadVenues
    BY <1>1 DEF UpsertRow, WInv, BatchOfWriter, SlotsOf, UpsertEntries
  <2>2. row.uid = UidOf(s) /\ Proper(row)
    BY <2>1 DEF Proper
  <2>3. Free(w, UidOf(s)) /\ Write(w, UidOf(s), row) /\ step[w] = "upserting"
    BY <1>1 DEF UpsertRow
  <2>4. UNCHANGED <<table, step, batch>>
    BY <1>1 DEF UpsertRow
  <2> HIDE DEF row
  <2> QED BY <2>2, <2>3, <2>4, StatementStep
<1>2. ASSUME NEW uid \in todo[w], MarkRow(w, uid)
      PROVE  WInv'
  <2>1. Free(w, uid) /\ step[w] = "marking" /\ UNCHANGED <<table, step, batch>>
    BY <1>2 DEF MarkRow
  <2>2. ASSUME NEW r \in table, r.uid = uid,
               Write(w, uid, IF IsStale(r, batch[w]) THEN Zeroed(r) ELSE r)
        PROVE  WInv'
    <3> DEFINE row == IF IsStale(r, batch[w]) THEN Zeroed(r) ELSE r
    <3>1. row.uid = uid /\ Proper(row)
      BY <2>2 DEF WInv, UidKeepsWritersApart, Proper, Zeroed
    <3>2. Write(w, uid, row)
      BY <2>2
    <3> HIDE DEF row
    <3> QED BY <2>1, <3>1, <3>2, StatementStep
  <2>3. CASE UNCHANGED written
    BY <2>1, <2>3, StatementStep
  <2> QED BY <1>2, <2>2, <2>3 DEF MarkRow
<1>3. ASSUME NEW uid \in todo[w], DeleteRow(w, uid)
      PROVE  WInv'
  <2>1. /\ Free(w, uid) /\ step[w] = "deleting" /\ UNCHANGED <<table, step, batch>>
        /\ Write(w, uid, Gone) \/ UNCHANGED written
    BY <1>3 DEF DeleteRow
  <2> QED BY <2>1, StatementStep
<1>4. CASE CommitUpsert(w)
  <2>1. table' = Seen(w) /\ End(w)
    BY <1>4 DEF CommitUpsert
  <2>2. UidKeepsWritersApart'
    BY <2>1, SeenKeys DEF UidKeepsWritersApart, Proper, UidOf
  <2> QED BY <2>1, <2>2, EndStep
<1>5. CASE CommitReload(w)
  <2>1. PICK uuid \in Injection(batch[w], Uuids \ {r.uid : r \in table}) :
          table' = Seen(w) \cup Inserted(batch[w], uuid)
    BY <1>5 DEF CommitReload
  <2>2. Seen(w) \subseteq table /\ batch[w] \subseteq ReloadEntries /\ End(w)
    BY <1>5, SeenKeys DEF CommitReload, WInv, BatchOfWriter
  <2>3. \A e \in batch[w] : /\ uuid[e] \in Uuids
                            /\ \A r \in table : uuid[e] # r.uid
                            /\ e.slot.venue \in ReloadVenues
    BY <2>1, <2>2 DEF Injection, ReloadEntries
  <2>4. \A e, f \in batch[w] : uuid[e] = uuid[f] => e = f
    BY <2>1 DEF Injection, IsInjective
  <2>5. \A r1, r2 \in table' : r1.uid = r2.uid => r1 = r2
    BY <2>1, <2>2, <2>3, <2>4 DEF Inserted, WInv, UidKeepsWritersApart
  <2>6. \A r \in table' : Proper(r)
    BY <2>1, <2>2, <2>3 DEF Inserted, WInv, UidKeepsWritersApart, Proper
  <2>7. UidKeepsWritersApart'
    BY <2>5, <2>6 DEF UidKeepsWritersApart, Proper, UidOf
  <2> QED BY <2>2, <2>7, EndStep
<1>6. CASE BeginMarking(w)
  BY <1>6, BeginStep
<1> QED BY <1>1, <1>2, <1>3, <1>4, <1>5, <1>6 DEF Advance

THEOREM WritersInvariance == WritersSpec => []WInv
<1>1. WritersInit => WInv
  <2> SUFFICES ASSUME WritersInit PROVE WInv
    OBVIOUS
  <2>1. \A w \in Runs : Locks(w) = {} /\ step[w] = "idle"
    BY DEF WritersInit, Locks, Nothing
  <2>2. UidKeepsWritersApart
    BY DEF WritersInit, Init, UidKeepsWritersApart
  <2>3. \A w \in Runs : HoldsWell(w) /\ BatchOfWriter(w)
    BY <2>1 DEF HoldsWell, BatchOfWriter
  <2> QED BY <2>1, <2>2, <2>3 DEF WInv, WritersInit, LocksExclusive
<1>2. WInv /\ [WritersNext]_writerVars => WInv'
  <2> SUFFICES ASSUME WInv, [WritersNext]_writerVars PROVE WInv'
    OBVIOUS
  <2>1. ASSUME NEW w \in Runs, Begin(w) \/ Advance(w)
        PROVE  WInv'
    BY <2>1, BeginStep, AdvanceStep
  <2>2. ASSUME NEW w \in Runs, BreakDeadlock(w) \/ Crash(w)
        PROVE  WInv'
    <3>1. End(w) /\ UNCHANGED table
      BY <2>2 DEF BreakDeadlock, Crash
    <3>2. UidKeepsWritersApart'
      BY <3>1 DEF WInv, UidKeepsWritersApart, UidOf
    <3> QED BY <3>1, <3>2, EndStep
  <2>3. ASSUME UNCHANGED <<step, batch, written>>, table' \subseteq table
        PROVE  WInv'
    BY <2>3 DEF WInv, UidKeepsWritersApart, UidOf, LocksExclusive, HoldsWell, BatchOfWriter,
                Locks, Proper
  <2>4. ASSUME NEW w \in Runs, PurgePast(w)
        PROVE  WInv'
    BY <2>3, <2>4 DEF PurgePast, DeletePastSlots
  <2>5. CASE NextDay /\ UNCHANGED <<step, batch, todo, won, written>>
    BY <2>3, <2>5 DEF NextDay
  <2>6. CASE UNCHANGED writerVars
    BY <2>3, <2>6 DEF writerVars
  <2> QED BY <2>1, <2>2, <2>4, <2>5, <2>6 DEF WritersNext
<1> QED BY <1>1, <1>2, PTL DEF WritersSpec

\* Two runs never hold the same row.
THEOREM LocksAreExclusive == WritersSpec => []LocksExclusive
BY WritersInvariance, PTL DEF WInv

\* However many runs overlap and whichever of them die, the primary key
\* identifies a row and neither writer takes the other's rows.
THEOREM OverlapKeepsWritersApart == WritersSpec => []UidKeepsWritersApart
BY WritersInvariance, PTL DEF WInv

\* Overlapping upserts never list a slot twice.
THEOREM OverlapListsOnce == WritersSpec => []OneRowPerUpsertedSlot
<1>1. UidKeepsWritersApart => OneRowPerUpsertedSlot
  BY DEF UidKeepsWritersApart, OneRowPerUpsertedSlot, UidOf
<1> QED BY <1>1, OverlapKeepsWritersApart, PTL
-----------------------------------------------------------------------------
(* What a transaction has done of its batch, with the types it needs.       *)

RunTyped(w) ==
  /\ batch[w] \subseteq Entries
  /\ won[w] \in [SlotsOf(batch[w]) -> 0..MaxSpaces] \/ won[w] = <<>>
  /\ todo[w] \subseteq Slots \cup Uuids
  /\ Locks(w) \subseteq Slots \cup Uuids
  /\ \A u \in Locks(w) : written[w][u] \in Row \cup {Gone}

\* The row the upsert writes for slot s.
PostedRow(w, s) == [uid |-> UidOf(s), slot |-> s, spaces |-> won[w][s]]

Posted(w, s) == UidOf(s) \in Locks(w) /\ written[w][UidOf(s)] = PostedRow(w, s)

\* An upsert has posted what it has not still to visit, and the marking never
\* comes back to a posted row, though other runs commit meanwhile.
Progress(w) ==
  /\ step[w] \in {"idle", "deleting"} => won[w] = <<>>
  /\ step[w] \in {"upserting", "marking"} => won[w] \in Deduplicated(batch[w])
  /\ step[w] # "idle" => batch[w] # {}
  /\ step[w] = "upserting" =>
       \A s \in SlotsOf(batch[w]) : UidOf(s) \in todo[w] \/ Posted(w, s)
  /\ step[w] = "marking" =>
       \A s \in SlotsOf(batch[w]) : UidOf(s) \notin todo[w] /\ Posted(w, s)

TInv ==
  /\ TypeOK
  /\ DOMAIN won = Runs /\ DOMAIN todo = Runs
  /\ \A w \in Runs : RunTyped(w) /\ Progress(w)

\* The other runs do not notice.
LEMMA Frame ==
  ASSUME NEW v \in Runs, RunTyped(v), Progress(v),
         step'[v] = step[v], batch'[v] = batch[v], won'[v] = won[v], todo'[v] = todo[v],
         written'[v] = written[v]
  PROVE  RunTyped(v)' /\ Progress(v)'
<1>1. Locks(v)' = Locks(v)
  BY DEF Locks
<1>2. RunTyped(v)'
  BY <1>1 DEF RunTyped, SlotsOf
<1>3. \A s : Posted(v, s) => Posted(v, s)'
  BY <1>1 DEF Posted, PostedRow, UidOf
<1>4. Progress(v)'
  BY <1>3 DEF Progress, SlotsOf, UidOf
<1> QED BY <1>2, <1>4

LEMMA EntryFacts ==
  /\ \A e \in Entries : e.slot \in Slots /\ UidOf(e.slot) \in Slots /\ e.spaces \in 0..MaxSpaces
  /\ 0 \in 0..MaxSpaces
  /\ \A r \in Row : Zeroed(r) \in Row
BY EntryAssumption, BoundAssumption DEF EntryType, UidOf, Row, Zeroed

\* The end of a transaction, as for EndStep.
LEMMA EndTypes ==
  ASSUME WInv, TInv, NEW w \in Runs, End(w), TypeOK'
  PROVE  TInv'
<1>1. /\ DOMAIN won' = Runs /\ DOMAIN todo' = Runs
      /\ step'[w] = "idle" /\ batch'[w] = {} /\ won'[w] = <<>> /\ todo'[w] = {}
      /\ written'[w] = Nothing
      /\ \A v \in Runs \ {w} :
           /\ step'[v] = step[v] /\ batch'[v] = batch[v] /\ won'[v] = won[v]
           /\ todo'[v] = todo[v] /\ written'[v] = written[v]
  BY DEF End, WInv, TInv
<1>2. RunTyped(w)' /\ Progress(w)'
  BY <1>1 DEF RunTyped, Progress, Locks, Nothing
<1>3. \A v \in Runs \ {w} : RunTyped(v)' /\ Progress(v)'
  BY <1>1, Frame DEF TInv
<1> QED BY <1>1, <1>2, <1>3 DEF TInv

LEMMA BeginTypes ==
  ASSUME WInv, TInv, NEW w \in Runs, Begin(w)
  PROVE  TInv'
<1>1. ASSUME NEW slots \in SUBSET UpsertEntries, BeginUpsert(w, slots)
      PROVE  TInv'
  <2>1. PICK chosen \in Deduplicated(slots) : won' = [won EXCEPT ![w] = chosen]
    BY <1>1 DEF BeginUpsert
  <2>2. /\ DOMAIN won' = Runs /\ DOMAIN todo' = Runs /\ UNCHANGED <<table, today, written>>
        /\ step'[w] = "upserting" /\ batch'[w] = slots /\ won'[w] = chosen /\ todo'[w] = UidsOf(slots)
        /\ \A v \in Runs \ {w} : /\ step'[v] = step[v] /\ batch'[v] = batch[v] /\ won'[v] = won[v]
                                 /\ todo'[v] = todo[v] /\ written'[v] = written[v]
    BY <1>1, <2>1 DEF BeginUpsert, WInv, TInv
  <2>3. slots \subseteq Entries /\ slots # {} /\ UidsOf(slots) \subseteq Slots
    BY <1>1, EntryFacts DEF UpsertEntries, BeginUpsert, UidsOf
  <2>4. RunTyped(w)'
    BY <2>2, <2>3 DEF TInv, RunTyped, Locks, Deduplicated, SlotsOf
  <2>5. \A s \in SlotsOf(slots) : UidOf(s) \in UidsOf(slots)
    BY DEF SlotsOf, UidsOf
  <2>6. Progress(w)'
    <3>1. \A s \in SlotsOf(batch'[w]) : UidOf(s) \in todo'[w]
      BY <2>2, <2>5
    <3>2. won'[w] \in Deduplicated(batch'[w])
      BY <2>2
    <3> QED BY <2>2, <2>3, <3>1, <3>2 DEF Progress
  <2>7. \A v \in Runs \ {w} : RunTyped(v)' /\ Progress(v)'
    BY <2>2, Frame DEF TInv
  <2> QED BY <2>2, <2>4, <2>6, <2>7 DEF TInv, TypeOK
<1>2. ASSUME NEW slots \in SUBSET ReloadEntries, BeginReload(w, slots)
      PROVE  TInv'
  <2>1. /\ DOMAIN won' = Runs /\ DOMAIN todo' = Runs /\ UNCHANGED <<table, today, written, won>>
        /\ step'[w] = "deleting" /\ batch'[w] = slots
        /\ todo'[w] = {r.uid : r \in {r \in table : r.slot.venue \in KeysOf(slots)}}
        /\ \A v \in Runs \ {w} : /\ step'[v] = step[v] /\ batch'[v] = batch[v]
                                 /\ todo'[v] = todo[v]
    BY <1>2 DEF BeginReload, WInv, TInv
  <2>2. slots \subseteq Entries /\ slots # {} /\ won[w] = <<>> /\ todo'[w] \subseteq Slots \cup Uuids
    BY <1>2, <2>1 DEF BeginReload, ReloadEntries, TInv, Progress, TypeOK, Row
  <2>3. RunTyped(w)'
    BY <2>1, <2>2 DEF TInv, RunTyped, Locks
  <2>4. Progress(w)'
    BY <2>1, <2>2 DEF Progress
  <2>5. \A v \in Runs \ {w} : RunTyped(v)' /\ Progress(v)'
    BY <2>1, Frame DEF TInv
  <2> QED BY <2>1, <2>3, <2>4, <2>5 DEF TInv, TypeOK
<1> QED BY <1>1, <1>2 DEF Begin

\* The rows a transaction sees have the type of rows.
LEMMA SeenTypes ==
  ASSUME WInv, TInv, NEW w \in Runs
  PROVE  Seen(w) \subseteq Row /\ {r.uid : r \in Seen(w)} \subseteq Slots \cup Uuids
BY DEF TInv, TypeOK, RunTyped, Seen, Row

LEMMA MarkingTypes ==
  ASSUME WInv, TInv, NEW w \in Runs, BeginMarking(w)
  PROVE  TInv'
<1>1. /\ DOMAIN todo' = Runs /\ UNCHANGED <<table, today, batch, won, written>>
      /\ step[w] = "upserting" /\ todo[w] = {} /\ step'[w] = "marking"
      /\ todo'[w] = {r.uid : r \in {r \in Seen(w) : IsStale(r, batch[w])}}
      /\ \A v \in Runs \ {w} : step'[v] = step[v] /\ todo'[v] = todo[v]
  BY DEF BeginMarking, WInv, TInv
<1>2. todo'[w] \subseteq Slots \cup Uuids
  BY <1>1, SeenTypes
<1>3. RunTyped(w)'
  BY <1>1, <1>2 DEF TInv, RunTyped, Locks, SlotsOf
<1>4. \A s \in SlotsOf(batch[w]) : UidOf(s) \notin todo'[w]
  BY <1>1 DEF IsStale, SlotsOf, UidsOf
<1>5. \A s : Posted(w, s) => Posted(w, s)'
  BY <1>1 DEF Posted, PostedRow, UidOf, Locks
<1>6. Progress(w)'
  <2>1. batch[w] # {} /\ won[w] \in Deduplicated(batch[w])
    BY <1>1 DEF TInv, Progress
  <2>2. \A s \in SlotsOf(batch[w]) : Posted(w, s)
    BY <1>1 DEF TInv, Progress
  <2>3. \A s \in SlotsOf(batch'[w]) : UidOf(s) \notin todo'[w] /\ Posted(w, s)'
    BY <1>1, <1>4, <1>5, <2>2
  <2>4. batch'[w] # {} /\ won'[w] \in Deduplicated(batch'[w]) /\ step'[w] = "marking"
    BY <1>1, <2>1
  <2> QED BY <2>3, <2>4 DEF Progress
<1>7. \A v \in Runs \ {w} : RunTyped(v)' /\ Progress(v)'
  BY <1>1, Frame DEF TInv
<1> QED BY <1>1, <1>3, <1>6, <1>7 DEF TInv, TypeOK

\* One row of a statement is visited: it is written, or left as it is.
LEMMA VisitTypes ==
  ASSUME WInv, TInv, NEW w \in Runs, NEW uid \in todo[w], NEW row \in Row \cup {Gone},
         Free(w, uid), Write(w, uid, row) \/ UNCHANGED written,
         todo' = [todo EXCEPT ![w] = @ \ {uid}],
         UNCHANGED <<table, today, step, batch, won>>,
         step[w] = "upserting" =>
           Write(w, uid, row) /\ \A s \in SlotsOf(batch[w]) : uid = UidOf(s) => row = PostedRow(w, s)
  PROVE  TInv'
<1>1. /\ DOMAIN todo' = Runs /\ todo'[w] = todo[w] \ {uid}
      /\ \A v \in Runs \ {w} : todo'[v] = todo[v]
  BY DEF TInv
<1>2. /\ \A v \in Runs \ {w} : written'[v] = written[v]
      /\ Locks(w) \subseteq Locks(w)' /\ Locks(w)' \subseteq Locks(w) \cup {uid}
      /\ \A u \in Locks(w)' \ {uid} : written'[w][u] = written[w][u]
      /\ uid \in Locks(w)' => written'[w][uid] \in {row, written[w][uid]}
      /\ uid \in Locks(w)' /\ uid \notin Locks(w) => written'[w][uid] = row
      /\ Write(w, uid, row) => uid \in Locks(w)' /\ written'[w][uid] = row
  <2>1. CASE Write(w, uid, row)
    BY <2>1, WriteStep
  <2>2. CASE UNCHANGED written /\ ~Write(w, uid, row)
    BY <2>2 DEF Locks
  <2> QED BY <2>1, <2>2
<1>3. RunTyped(w)'
  BY <1>1, <1>2 DEF TInv, RunTyped, SlotsOf
<1>4. \A s : Posted(w, s) /\ UidOf(s) # uid => Posted(w, s)'
  BY <1>2 DEF Posted, PostedRow, UidOf
<1>5. step[w] = "upserting" =>
        \A s \in SlotsOf(batch[w]) : UidOf(s) = uid => Posted(w, s)'
  BY <1>2 DEF Posted, PostedRow, UidOf
<1>6. Progress(w)'
  <2>1. step[w] = "upserting" =>
          \A s \in SlotsOf(batch[w]) : UidOf(s) \in todo'[w] \/ Posted(w, s)'
    BY <1>1, <1>4, <1>5 DEF TInv, Progress
  <2>2. step[w] = "marking" =>
          \A s \in SlotsOf(batch[w]) : UidOf(s) \notin todo'[w] /\ Posted(w, s)'
    BY <1>1, <1>4 DEF TInv, Progress
  <2>3. Progress(w)
    BY DEF TInv
  <2> QED BY <2>1, <2>2, <2>3 DEF Progress, SlotsOf, UidOf, Deduplicated, Winners
<1>7. \A v \in Runs \ {w} : RunTyped(v)' /\ Progress(v)'
  BY <1>1, <1>2, Frame DEF TInv
<1> QED BY <1>1, <1>3, <1>6, <1>7 DEF TInv, TypeOK

LEMMA AdvanceTypes ==
  ASSUME WInv, TInv, NEW w \in Runs, Advance(w)
  PROVE  TInv'
<1>1. ASSUME NEW s \in SlotsOf(batch[w]), UpsertRow(w, s)
      PROVE  TInv'
  <2>1. /\ step[w] = "upserting" /\ UidOf(s) \in todo[w] /\ Free(w, UidOf(s))
        /\ Write(w, UidOf(s), PostedRow(w, s))
        /\ todo' = [todo EXCEPT ![w] = @ \ {UidOf(s)}]
        /\ UNCHANGED <<table, today, step, batch, won>>
    BY <1>1 DEF UpsertRow, PostedRow
  <2>2. s \in Slots /\ UidOf(s) \in Slots /\ won[w][s] \in 0..MaxSpaces
    BY <2>1, EntryFacts DEF TInv, RunTyped, Progress, Deduplicated, SlotsOf
  <2>3. PostedRow(w, s) \in Row
    BY <2>2 DEF PostedRow, Row
  <2>4. \A t \in SlotsOf(batch[w]) : UidOf(s) = UidOf(t) => PostedRow(w, s) = PostedRow(w, t)
    BY DEF UidOf
  <2> QED BY <2>1, <2>3, <2>4, VisitTypes
<1>2. ASSUME NEW uid \in todo[w], MarkRow(w, uid)
      PROVE  TInv'
  <2>1. /\ step[w] = "marking" /\ Free(w, uid) /\ todo' = [todo EXCEPT ![w] = @ \ {uid}]
        /\ UNCHANGED <<table, today, step, batch, won>>
    BY <1>2 DEF MarkRow
  <2>2. ASSUME NEW r \in table, Write(w, uid, IF IsStale(r, batch[w]) THEN Zeroed(r) ELSE r)
        PROVE  TInv'
    <3>1. PICK row \in Row : Write(w, uid, row)
      BY <2>2, EntryFacts DEF TInv, TypeOK
    <3> QED BY <2>1, <3>1, VisitTypes
  <2>3. CASE UNCHANGED written
    BY <2>1, <2>3, VisitTypes
  <2> QED BY <1>2, <2>2, <2>3 DEF MarkRow
<1>3. ASSUME NEW uid \in todo[w], DeleteRow(w, uid)
      PROVE  TInv'
  <2>1. /\ step[w] = "deleting" /\ Free(w, uid) /\ todo' = [todo EXCEPT ![w] = @ \ {uid}]
        /\ UNCHANGED <<table, today, step, batch, won>>
        /\ Write(w, uid, Gone) \/ UNCHANGED written
    BY <1>3 DEF DeleteRow
  <2> QED BY <2>1, VisitTypes
<1>4. CASE CommitUpsert(w)
  <2>1. End(w) /\ table' = Seen(w) /\ today' = today
    BY <1>4 DEF CommitUpsert
  <2> QED BY <2>1, SeenTypes, EndTypes DEF TypeOK, TInv
<1>5. CASE CommitReload(w)
  <2>1. PICK uuid \in Injection(batch[w], Uuids \ {r.uid : r \in table}) :
          table' = Seen(w) \cup Inserted(batch[w], uuid)
    BY <1>5 DEF CommitReload
  <2>2. Inserted(batch[w], uuid) \subseteq Row
    BY <2>1, EntryFacts DEF Inserted, Injection, Row, TInv, RunTyped
  <2>3. End(w) /\ today' = today
    BY <1>5 DEF CommitReload
  <2> QED BY <2>1, <2>2, <2>3, SeenTypes, EndTypes DEF TypeOK, TInv
<1>6. CASE BeginMarking(w)
  BY <1>6, MarkingTypes
<1> QED BY <1>1, <1>2, <1>3, <1>4, <1>5, <1>6 DEF Advance

LEMMA QuietTypes ==
  ASSUME WInv, TInv, UNCHANGED <<step, batch, won, todo, written>>, TypeOK'
  PROVE  TInv'
<1>1. \A v \in Runs : RunTyped(v)' /\ Progress(v)'
  BY Frame DEF TInv
<1> QED BY <1>1 DEF TInv

LEMMA TypesInvariance == WritersSpec => [](WInv /\ TInv)
<1>1. WritersInit => TInv
  <2> SUFFICES ASSUME WritersInit PROVE TInv
    OBVIOUS
  <2>1. \A w \in Runs : RunTyped(w) /\ Progress(w)
    BY DEF WritersInit, RunTyped, Progress, Locks, Nothing
  <2> QED BY <2>1, BoundAssumption DEF TInv, WritersInit, Init, TypeOK
<1>2. WInv /\ TInv /\ [WritersNext]_writerVars => TInv'
  <2> SUFFICES ASSUME WInv, TInv, [WritersNext]_writerVars PROVE TInv'
    OBVIOUS
  <2>1. ASSUME NEW w \in Runs, Begin(w) \/ Advance(w) PROVE TInv'
    BY <2>1, BeginTypes, AdvanceTypes
  <2>2. ASSUME NEW w \in Runs, BreakDeadlock(w) \/ Crash(w) PROVE TInv'
    <3>1. End(w) /\ TypeOK'
      BY <2>2 DEF BreakDeadlock, Crash, TInv, TypeOK
    <3> QED BY <3>1, EndTypes
  <2>3. ASSUME NEW w \in Runs, PurgePast(w) PROVE TInv'
    BY <2>3, QuietTypes DEF PurgePast, DeletePastSlots, TInv, TypeOK
  <2>4. CASE NextDay /\ UNCHANGED <<step, batch, won, todo, written>>
    BY <2>4, BoundAssumption, QuietTypes DEF NextDay, TInv, TypeOK
  <2>5. CASE UNCHANGED writerVars
    BY <2>5, QuietTypes DEF writerVars, TInv, TypeOK
  <2> QED BY <2>1, <2>2, <2>3, <2>4, <2>5 DEF WritersNext
<1> QED BY <1>1, <1>2, WritersInvariance, PTL DEF WritersSpec

\* What runs hold, have still to visit and leave in the table has its type,
\* however they overlap.
THEOREM WritersTyped == WritersSpec => []WritersTypeOK
<1>1. WInv /\ TInv => WritersTypeOK
  BY DEF WInv, TInv, RunTyped, WritersTypeOK
<1> QED BY <1>1, TypesInvariance, PTL

\* Overlapping upserts do not tear a batch: right after a commit the table shows
\* every slot of the batch with the spaces the run had collected, whatever other
\* runs committed since the transaction began.
THEOREM CommitsAreWhole == WritersSpec => CommitShowsItsBatch
<1>1. ASSUME WInv, TInv, NEW w \in Runs, CommitUpsert(w), NEW s \in SlotsOf(batch[w])
      PROVE  PostedRow(w, s) \in table'
  <2>1. Posted(w, s)
    BY <1>1 DEF CommitUpsert, TInv, Progress
  <2>2. PostedRow(w, s) # Gone
    BY DEF PostedRow, Gone
  <2>3. PostedRow(w, s) \in Seen(w)
    BY <2>1, <2>2 DEF Seen, Posted
  <2> QED BY <1>1, <2>3 DEF CommitUpsert
<1>2. WInv /\ TInv /\ [WritersNext]_writerVars
        => [\A w \in Runs : CommitUpsert(w) =>
              \A s \in SlotsOf(batch[w]) :
                [uid |-> UidOf(s), slot |-> s, spaces |-> won[w][s]] \in table']_writerVars
  BY <1>1 DEF PostedRow
<1> QED BY <1>2, TypesInvariance, PTL DEF WritersSpec, CommitShowsItsBatch
-----------------------------------------------------------------------------
(* One run at a time: nobody else commits while a transaction goes on, so   *)
(* what it has visited and has still to visit is all there is to visit.     *)

OneRun == \A v, w \in Runs : v = w

Visits(w) ==
  /\ step[w] = "upserting" => Locks(w) \subseteq UidsOf(batch[w])
  /\ step[w] = "marking" =>
       /\ \A u \in Locks(w) \ UidsOf(batch[w]) :
            \E r \in table : r.uid = u /\ IsStale(r, batch[w]) /\ written[w][u] = Zeroed(r)
       /\ \A r \in table : IsStale(r, batch[w]) => r.uid \in todo[w] \cup Locks(w)
       /\ \A u \in todo[w] : \E r \in table : r.uid = u /\ IsStale(r, batch[w])
  /\ step[w] = "deleting" =>
       /\ \A u \in todo[w] \cup Locks(w) :
            \E r \in table : r.uid = u /\ r.slot.venue \in KeysOf(batch[w])
       /\ \A r \in table : r.slot.venue \in KeysOf(batch[w]) => r.uid \in todo[w] \cup Locks(w)

AllVisits == \A w \in Runs : Visits(w)

AloneInv == WInv /\ TInv /\ AllVisits

LEMMA UidsAreSlots == \A w \in Runs : UidsOf(batch[w]) = {UidOf(s) : s \in SlotsOf(batch[w])}
BY DEF UidsOf, SlotsOf

\* Between its first statement and its commit.
LEMMA VisitsStep ==
  ASSUME AloneInv, NEW w \in Runs, step[w] # "idle", Advance(w),
         ~CommitUpsert(w), ~CommitReload(w)
  PROVE  Visits(w)'
<1>1. \A r1, r2 \in table : r1.uid = r2.uid => r1 = r2
  BY DEF AloneInv, WInv, UidKeepsWritersApart
<1>2. DOMAIN todo = Runs /\ DOMAIN step = Runs
  BY DEF AloneInv, TInv, WInv
<1>3. ASSUME NEW s \in SlotsOf(batch[w]), UpsertRow(w, s)
      PROVE  Visits(w)'
  <2>1. /\ step[w] = "upserting" /\ UNCHANGED <<table, step, batch>>
        /\ Locks(w)' = Locks(w) \cup {UidOf(s)}
    BY <1>3, WriteStep DEF UpsertRow, AloneInv
  <2>2. Locks(w) \subseteq UidsOf(batch[w]) /\ UidOf(s) \in UidsOf(batch[w])
    BY <2>1, UidsAreSlots DEF AloneInv, AllVisits, Visits
  <2> QED BY <2>1, <2>2 DEF Visits
<1>4. CASE BeginMarking(w)
  <2>1. /\ step[w] = "upserting" /\ step'[w] = "marking" /\ todo[w] = {}
        /\ UNCHANGED <<table, batch, written>>
        /\ todo'[w] = {r.uid : r \in {r \in Seen(w) : IsStale(r, batch[w])}}
    BY <1>2, <1>4 DEF BeginMarking
  <2>2. Locks(w)' = Locks(w) /\ Locks(w) \subseteq UidsOf(batch[w])
    BY <2>1 DEF Locks, AloneInv, AllVisits, Visits
  <2>3. \A r \in Seen(w) : IsStale(r, batch[w]) => r \in table
    BY <2>2 DEF Seen, AloneInv, WInv, HoldsWell, IsStale
  <2>4. \A r \in table : IsStale(r, batch[w]) => r \in Seen(w)
    BY <2>2 DEF Seen, IsStale
  <2>5. \A r \in table : IsStale(r, batch[w]) => r.uid \in todo'[w]
    BY <2>1, <2>4
  <2>6. \A u \in todo'[w] : \E r \in table : r.uid = u /\ IsStale(r, batch[w])
    BY <2>1, <2>3
  <2> QED BY <2>1, <2>2, <2>5, <2>6 DEF Visits
<1>5. ASSUME NEW uid \in todo[w], MarkRow(w, uid)
      PROVE  Visits(w)'
  <2>1. /\ step[w] = "marking" /\ UNCHANGED <<table, step, batch>>
        /\ todo'[w] = todo[w] \ {uid} /\ Free(w, uid)
    BY <1>2, <1>5 DEF MarkRow
  <2>2. PICK r \in table : r.uid = uid /\ IsStale(r, batch[w])
    BY <2>1 DEF AloneInv, AllVisits, Visits
  <2>3. Write(w, uid, Zeroed(r))
    <3>1. PICK q \in table : q.uid = uid /\ Write(w, uid, IF IsStale(q, batch[w]) THEN Zeroed(q) ELSE q)
      BY <1>5, <2>2 DEF MarkRow
    <3>2. q = r
      BY <1>1, <2>2, <3>1
    <3> QED BY <2>2, <3>1, <3>2
  <2>4. /\ Locks(w)' = Locks(w) \cup {uid}
        /\ \A u \in Locks(w)' : written'[w][u] = IF u = uid THEN Zeroed(r) ELSE written[w][u]
    BY <2>1, <2>3, WriteStep DEF AloneInv
  <2>5. /\ \A u \in Locks(w) \ UidsOf(batch[w]) :
             \E q \in table : q.uid = u /\ IsStale(q, batch[w]) /\ written[w][u] = Zeroed(q)
        /\ \A q \in table : IsStale(q, batch[w]) => q.uid \in todo[w] \cup Locks(w)
        /\ \A u \in todo[w] : \E q \in table : q.uid = u /\ IsStale(q, batch[w])
    BY <2>1 DEF AloneInv, AllVisits, Visits
  <2>6. \A u \in Locks(w)' \ UidsOf(batch[w]) :
          \E q \in table : q.uid = u /\ IsStale(q, batch[w]) /\ written'[w][u] = Zeroed(q)
    BY <2>2, <2>4, <2>5
  <2>7. \A q \in table : IsStale(q, batch[w]) => q.uid \in todo'[w] \cup Locks(w)'
    BY <2>1, <2>4, <2>5
  <2> QED BY <2>1, <2>5, <2>6, <2>7 DEF Visits
<1>6. ASSUME NEW uid \in todo[w], DeleteRow(w, uid)
      PROVE  Visits(w)'
  <2>1. /\ step[w] = "deleting" /\ UNCHANGED <<table, step, batch>>
        /\ todo'[w] = todo[w] \ {uid} /\ Free(w, uid)
    BY <1>2, <1>6 DEF DeleteRow
  <2>2. /\ \A u \in todo[w] \cup Locks(w) :
             \E r \in table : r.uid = u /\ r.slot.venue \in KeysOf(batch[w])
        /\ \A r \in table : r.slot.venue \in KeysOf(batch[w]) => r.uid \in todo[w] \cup Locks(w)
    BY <2>1 DEF AloneInv, AllVisits, Visits
  <2>3. Write(w, uid, Gone)
    BY <1>6, <2>2 DEF DeleteRow
  <2>4. Locks(w)' = Locks(w) \cup {uid}
    BY <2>1, <2>3, WriteStep DEF AloneInv
  <2> QED BY <2>1, <2>2, <2>4 DEF Visits
<1> QED BY <1>3, <1>4, <1>5, <1>6 DEF Advance

LEMMA EndVisits ==
  ASSUME AloneInv, NEW w \in Runs, End(w)
  PROVE  Visits(w)'
<1>1. step'[w] = "idle"
  BY DEF End, AloneInv, WInv
<1> QED BY <1>1 DEF Visits

LEMMA BeginVisits ==
  ASSUME AloneInv, NEW w \in Runs, Begin(w)
  PROVE  UNCHANGED vars /\ Visits(w)'
<1>1. DOMAIN step = Runs /\ DOMAIN batch = Runs /\ DOMAIN todo = Runs
  BY DEF AloneInv, WInv, TInv
<1>2. ASSUME NEW slots \in SUBSET UpsertEntries, BeginUpsert(w, slots)
      PROVE  UNCHANGED vars /\ Visits(w)'
  <2>1. step[w] = "idle" /\ step'[w] = "upserting" /\ UNCHANGED <<table, today, written>>
    BY <1>1, <1>2 DEF BeginUpsert
  <2>2. Locks(w)' = {}
    BY <2>1 DEF AloneInv, WInv, HoldsWell, Locks
  <2> QED BY <2>1, <2>2 DEF Visits, vars
<1>3. ASSUME NEW slots \in SUBSET ReloadEntries, BeginReload(w, slots)
      PROVE  UNCHANGED vars /\ Visits(w)'
  <2>1. /\ step[w] = "idle" /\ step'[w] = "deleting" /\ batch'[w] = slots
        /\ UNCHANGED <<table, today, written>>
        /\ todo'[w] = {r.uid : r \in {r \in table : r.slot.venue \in KeysOf(slots)}}
    BY <1>1, <1>3 DEF BeginReload
  <2>2. Locks(w)' = {}
    BY <2>1 DEF AloneInv, WInv, HoldsWell, Locks
  <2>3. \A u \in todo'[w] : \E r \in table' : r.uid = u /\ r.slot.venue \in KeysOf(batch'[w])
    BY <2>1
  <2>4. \A r \in table' : r.slot.venue \in KeysOf(batch'[w]) => r.uid \in todo'[w]
    BY <2>1
  <2> QED BY <2>1, <2>2, <2>3, <2>4 DEF Visits, vars
<1> QED BY <1>2, <1>3 DEF Begin

\* What a transaction commits is what SlotStore's would.
LEMMA UpsertWhole ==
  ASSUME AloneInv, NEW w \in Runs, CommitUpsert(w)
  PROVE  InsertRecordsToTable(batch[w])
<1> DEFINE up == Upserted(table, won[w])
<1>1. /\ step[w] = "marking" /\ todo[w] = {} /\ table' = Seen(w) /\ today' = today
  BY DEF CommitUpsert
<1>2. batch[w] # {} /\ won[w] \in Deduplicated(batch[w]) /\ DOMAIN won[w] = SlotsOf(batch[w])
  BY <1>1 DEF AloneInv, TInv, Progress, Deduplicated
<1>3. /\ \A u \in Locks(w) \ UidsOf(batch[w]) :
           \E r \in table : r.uid = u /\ IsStale(r, batch[w]) /\ written[w][u] = Zeroed(r)
      /\ \A r \in table : IsStale(r, batch[w]) => r.uid \in Locks(w)
  BY <1>1 DEF AloneInv, AllVisits, Visits
<1>4. \A s \in SlotsOf(batch[w]) :
        UidOf(s) \in Locks(w) /\ written[w][UidOf(s)] = PostedRow(w, s)
  BY <1>1 DEF AloneInv, TInv, Progress, Posted
<1>5. \A r1, r2 \in table : r1.uid = r2.uid => r1 = r2
  BY DEF AloneInv, WInv, UidKeepsWritersApart
<1>6. \A r : r \in up <=> \/ r \in table /\ r.uid \notin UidsOf(batch[w])
                          \/ \E s \in SlotsOf(batch[w]) : r = PostedRow(w, s)
  BY <1>2, UidsAreSlots DEF Upserted, PostedRow
<1>7. \A s \in SlotsOf(batch[w]) : ~IsStale(PostedRow(w, s), batch[w]) /\ PostedRow(w, s).uid = UidOf(s)
  BY UidsAreSlots DEF IsStale, PostedRow
<1>8. \A r : Zeroed(r) # Gone /\ \A s : PostedRow(w, s) # Gone
  BY DEF Zeroed, PostedRow, Gone
<1>9. \A r \in table : IsStale(r, batch[w]) => r.uid \notin UidsOf(batch[w])
  BY DEF IsStale
<1> HIDE DEF up
<1>10. ASSUME NEW m \in Seen(w) PROVE m \in MarkedStale(up, batch[w])
  <2>1. CASE m \in table /\ m.uid \notin Locks(w)
    <3>1. ~IsStale(m, batch[w]) /\ m.uid \notin UidsOf(batch[w])
      BY <1>3, <1>4, <2>1, UidsAreSlots
    <3> QED BY <1>6, <2>1, <3>1 DEF MarkedStale
  <2>2. ASSUME NEW u \in Locks(w), m = written[w][u]
        PROVE  m \in MarkedStale(up, batch[w])
    <3>1. CASE u \in UidsOf(batch[w])
      <4>1. PICK s \in SlotsOf(batch[w]) : u = UidOf(s)
        BY <3>1, UidsAreSlots
      <4>2. m = PostedRow(w, s)
        BY <1>4, <2>2, <4>1
      <4> QED BY <1>6, <1>7, <4>2 DEF MarkedStale
    <3>2. CASE u \notin UidsOf(batch[w])
      <4>1. PICK r \in table : IsStale(r, batch[w]) /\ m = Zeroed(r)
        BY <1>3, <2>2, <3>2
      <4>2. r \in up
        BY <1>6, <1>9, <4>1
      <4> QED BY <4>1, <4>2 DEF MarkedStale
    <3> QED BY <3>1, <3>2
  <2> QED BY <2>1, <2>2 DEF Seen
<1>11. ASSUME NEW m \in MarkedStale(up, batch[w]) PROVE m \in Seen(w)
  <2>1. ASSUME m \in up, ~IsStale(m, batch[w]), m \in table, m.uid \notin UidsOf(batch[w])
        PROVE  m \in Seen(w)
    <3>1. m.uid \notin Locks(w)
      BY <1>3, <1>5, <2>1
    <3> QED BY <2>1, <3>1 DEF Seen
  <2>2. ASSUME NEW s \in SlotsOf(batch[w]), m = PostedRow(w, s)
        PROVE  m \in Seen(w)
    BY <1>4, <1>8, <2>2 DEF Seen
  <2>3. ASSUME NEW r \in up, IsStale(r, batch[w]), m = Zeroed(r)
        PROVE  m \in Seen(w)
    <3>1. r \in table /\ r.uid \notin UidsOf(batch[w])
      BY <1>6, <1>7, <2>3
    <3>2. r.uid \in Locks(w) \ UidsOf(batch[w])
      BY <1>3, <2>3, <3>1
    <3>3. written[w][r.uid] = Zeroed(r)
      BY <1>3, <1>5, <3>1, <3>2
    <3> QED BY <1>8, <2>3, <3>2, <3>3 DEF Seen
  <2> QED BY <1>6, <2>1, <2>2, <2>3 DEF MarkedStale
<1>12. Seen(w) = MarkedStale(up, batch[w])
  BY <1>10, <1>11
<1> QED BY <1>1, <1>2, <1>12 DEF InsertRecordsToTable, up

LEMMA ReloadWhole ==
  ASSUME AloneInv, NEW w \in Runs, CommitReload(w)
  PROVE  TruncateByCompositeKeyAndReload(batch[w])
<1>1. step[w] = "deleting" /\ todo[w] = {} /\ today' = today
  BY DEF CommitReload
<1>2. /\ \A u \in Locks(w) : \E r \in table : r.uid = u /\ r.slot.venue \in KeysOf(batch[w])
      /\ \A r \in table : r.slot.venue \in KeysOf(batch[w]) => r.uid \in Locks(w)
      /\ \A r1, r2 \in table : r1.uid = r2.uid => r1 = r2
      /\ \A u \in Locks(w) : written[w][u] = Gone
  BY <1>1 DEF AloneInv, AllVisits, Visits, WInv, UidKeepsWritersApart, HoldsWell
<1>3. Seen(w) = {r \in table : r.uid \notin Locks(w)}
  BY <1>2 DEF Seen
<1>4. Seen(w) = Truncated(table, batch[w])
  BY <1>2, <1>3 DEF Truncated
<1>5. PICK uuid \in Injection(batch[w], Uuids \ {r.uid : r \in table}) :
        table' = Truncated(table, batch[w]) \cup Inserted(batch[w], uuid)
  BY <1>4 DEF CommitReload
<1>6. uuid \in Injection(batch[w], Uuids \ {r.uid : r \in Truncated(table, batch[w])})
  BY <1>5 DEF Injection, Truncated
<1>7. batch[w] # {}
  BY <1>1 DEF AloneInv, TInv, Progress
<1> QED BY <1>1, <1>5, <1>6, <1>7 DEF TruncateByCompositeKeyAndReload

\* With one run at a time the statements add up to the transactions: whatever
\* kills a run, and at whichever statement, the table goes from one committed
\* batch to the next, as SlotStore has it.
THEOREM OneRunIsAtomic == OneRun => (WritersSpec => StoreSpec)
<1> SUFFICES ASSUME OneRun PROVE WritersSpec => StoreSpec
  OBVIOUS
<1>1. ASSUME AloneInv, NEW w \in Runs, Begin(w) \/ Advance(w)
      PROVE  [StoreStep]_vars /\ Visits(w)'
  <2>1. CASE Begin(w)
    BY <1>1, <2>1, BeginVisits
  <2>2. CASE CommitUpsert(w)
    <3>1. Visits(w)'
      BY <1>1, <2>2, EndVisits DEF CommitUpsert
    <3>2. InsertRecordsToTable(batch[w])
      BY <1>1, <2>2, UpsertWhole
    <3> QED BY <3>1, <3>2 DEF StoreStep
  <2>3. CASE CommitReload(w)
    <3>1. Visits(w)'
      BY <1>1, <2>3, EndVisits DEF CommitReload
    <3>2. TruncateByCompositeKeyAndReload(batch[w])
      BY <1>1, <2>3, ReloadWhole
    <3> QED BY <3>1, <3>2 DEF StoreStep
  <2>4. CASE Advance(w) /\ ~CommitUpsert(w) /\ ~CommitReload(w)
    <3>1. UNCHANGED vars /\ step[w] # "idle"
      BY <2>4 DEF Advance, UpsertRow, BeginMarking, MarkRow, DeleteRow, vars
    <3> QED BY <1>1, <2>4, <3>1, VisitsStep
  <2> QED BY <1>1, <2>1, <2>2, <2>3, <2>4
<1>2. ASSUME AloneInv, NEW w \in Runs, BreakDeadlock(w) \/ Crash(w)
      PROVE  [StoreStep]_vars /\ Visits(w)'
  BY <1>2, EndVisits DEF BreakDeadlock, Crash, vars
<1>3. ASSUME AloneInv, NEW w \in Runs, PurgePast(w)
      PROVE  [StoreStep]_vars /\ Visits(w)'
  BY <1>3 DEF PurgePast, StoreStep, Visits
<1>4. ASSUME AloneInv,
             \/ NextDay /\ UNCHANGED <<step, batch, won, todo, written>>
             \/ UNCHANGED writerVars
      PROVE  [StoreStep]_vars /\ AllVisits'
  <2>1. UNCHANGED <<table, step, batch, todo, written>> /\ (NextDay \/ UNCHANGED vars)
    BY <1>4 DEF NextDay, writerVars, vars
  <2>2. ASSUME NEW w \in Runs PROVE Visits(w)'
    <3>1. Locks(w)' = Locks(w) /\ Visits(w)
      BY <1>4, <2>1 DEF AloneInv, AllVisits, Locks
    <3> QED BY <2>1, <3>1 DEF Visits
  <2> QED BY <2>1, <2>2 DEF StoreStep, AllVisits
<1>5. AloneInv /\ [WritersNext]_writerVars => [StoreStep]_vars /\ AllVisits'
  BY <1>1, <1>2, <1>3, <1>4 DEF OneRun, WritersNext, AllVisits
<1>6. WritersInit => Init /\ AllVisits
  BY DEF WritersInit, Visits, AllVisits
<1>7. WritersSpec => []AllVisits
  BY <1>5, <1>6, TypesInvariance, PTL DEF WritersSpec, AloneInv
<1> QED BY <1>5, <1>6, <1>7, TypesInvariance, PTL DEF WritersSpec, StoreSpec, AloneInv
=============================================================================
