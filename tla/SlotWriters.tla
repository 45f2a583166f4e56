----------------------------- MODULE SlotWriters -----------------------------
(***************************************************************************)
(* SlotStore's transactions as the statements PostgreSQL executes for      *)
(* them, for pipeline runs that may overlap and may be killed.  The engine *)
(* is created without an isolation level, so every transaction is READ     *)
(* COMMITTED: a statement sees what was committed when it began and its    *)
(* own transaction's writes, locks each row it writes until its            *)
(* transaction ends, and waits for a row another transaction has locked.   *)
(* The GitHub workflow admits one run at a time; a run from the Makefile   *)
(* is not held back by it.                                                 *)
(***************************************************************************)
EXTENDS SlotStore

CONSTANT Runs  \* pipeline processes that may write the same master table

VARIABLES
  step,     \* the statement a run's transaction is in
  batch,    \* the slots it was called with
  won,      \* uid_to_slots: the spaces of the de-duplicated batch
  todo,     \* uids the statement has still to visit
  written   \* its uncommitted rows by uid; their uids are the locks it holds

writerVars == <<table, today, step, batch, won, todo, written>>

Gone == [deleted |-> TRUE]

Nothing == [u \in {} |-> Gone]

Locks(w) == DOMAIN written[w]

\* Rows another transaction has written make a writer wait.
Free(w, uid) == \A v \in Runs \ {w} : uid \notin Locks(v)

\* Mutant: a statement also sees the committed version of the rows it has written.
SeenTwice(w) == table \cup {written[w][u] : u \in {u \in Locks(w) : written[w][u] # Gone}}

\* What the transaction of w sees: the committed rows under its own writes.
Seen(w) ==
  {r \in table : r.uid \notin Locks(w)}
    \cup {written[w][u] : u \in {u \in Locks(w) : written[w][u] # Gone}}

Write(w, uid, row) ==
  written' = [written EXCEPT ![w] = [u \in Locks(w) \cup {uid} |-> IF u = uid THEN row ELSE @[u]]]

WritersTypeOK ==
  /\ TypeOK
  /\ step \in [Runs -> {"idle", "upserting", "marking", "deleting"}]
  /\ \A w \in Runs :
       /\ batch[w] \subseteq Entries
       /\ won[w] \in [SlotsOf(batch[w]) -> 0..MaxSpaces] \/ won[w] = <<>>
       /\ todo[w] \subseteq Slots \cup Uuids
       /\ Locks(w) \subseteq Slots \cup Uuids
       /\ \A u \in Locks(w) : written[w][u] \in Row \cup {Gone}

WritersInit ==
  /\ Init
  /\ step = [w \in Runs |-> "idle"]
  /\ batch = [w \in Runs |-> {}]
  /\ won = [w \in Runs |-> <<>>]
  /\ todo = [w \in Runs |-> {}]
  /\ written = [w \in Runs |-> Nothing]

-----------------------------------------------------------------------------
\* The transaction ends and its locks go.
End(w) ==
  /\ step' = [step EXCEPT ![w] = "idle"]
  /\ batch' = [batch EXCEPT ![w] = {}]
  /\ won' = [won EXCEPT ![w] = <<>>]
  /\ todo' = [todo EXCEPT ![w] = {}]
  /\ written' = [written EXCEPT ![w] = Nothing]

\* insert_records_to_table: the batch is de-duplicated, the INSERT begins.
BeginUpsert(w, slots) ==
  /\ step[w] = "idle" /\ slots # {}
  /\ \E chosen \in Deduplicated(slots) : won' = [won EXCEPT ![w] = chosen]
  /\ step' = [step EXCEPT ![w] = "upserting"]
  /\ batch' = [batch EXCEPT ![w] = slots]
  /\ todo' = [todo EXCEPT ![w] = UidsOf(slots)]
  /\ UNCHANGED <<table, today, written>>

\* One row of INSERT ... ON CONFLICT (uid) DO UPDATE.
UpsertRow(w, s) ==
  /\ step[w] = "upserting" /\ UidOf(s) \in todo[w]
  /\ Free(w, UidOf(s))
  /\ Write(w, UidOf(s), [uid |-> UidOf(s), slot |-> s, spaces |-> won[w][s]])
  /\ todo' = [todo EXCEPT ![w] = @ \ {UidOf(s)}]
  /\ UNCHANGED <<table, today, step, batch, won>>

\* The UPDATE begins: the rows it will visit are those stale in its snapshot.
BeginMarking(w) ==
  /\ step[w] = "upserting" /\ todo[w] = {}
  /\ step' = [step EXCEPT ![w] = "marking"]
  /\ todo' = [todo EXCEPT ![w] = {r.uid : r \in {r \in Seen(w) : IsStale(r, batch[w])}}]
  /\ UNCHANGED <<table, today, batch, won, written>>

\* One row of the UPDATE.  A row that was locked is read again once it is free;
\* it is left alone if it was deleted or is not stale any more.
MarkRow(w, uid) ==
  /\ step[w] = "marking" /\ uid \in todo[w]
  /\ Free(w, uid)
  /\ \/ \E r \in table : r.uid = uid /\ Write(w, uid, IF IsStale(r, batch[w]) THEN Zeroed(r) ELSE r)
     \/ uid \notin {r.uid : r \in table} /\ UNCHANGED written
  /\ todo' = [todo EXCEPT ![w] = @ \ {uid}]
  /\ UNCHANGED <<table, today, step, batch, won>>

\* Mutant: the upsert is committed before the stale rows are marked.
CommitUnmarked(w) ==
  /\ step[w] = "upserting" /\ todo[w] = {}
  /\ table' = Seen(w)
  /\ End(w)
  /\ UNCHANGED today

CommitUpsert(w) ==
  /\ step[w] = "marking" /\ todo[w] = {}
  /\ table' = Seen(w)
  /\ End(w)
  /\ UNCHANGED today

\* truncate_by_composite_key_and_reload: the DELETE begins on its snapshot.
BeginReload(w, slots) ==
  /\ step[w] = "idle" /\ slots # {}
  /\ step' = [step EXCEPT ![w] = "deleting"]
  /\ batch' = [batch EXCEPT ![w] = slots]
  /\ todo' = [todo EXCEPT ![w] = {r.uid : r \in {r \in table : r.slot.venue \in KeysOf(slots)}}]
  /\ UNCHANGED <<table, today, won, written>>

DeleteRow(w, uid) ==
  /\ step[w] = "deleting" /\ uid \in todo[w]
  /\ Free(w, uid)
  /\ IF \E r \in table : r.uid = uid THEN Write(w, uid, Gone) ELSE UNCHANGED written
  /\ todo' = [todo EXCEPT ![w] = @ \ {uid}]
  /\ UNCHANGED <<table, today, step, batch, won>>

\* The INSERTs are flushed by the commit; their uids are new, so none waits.
CommitReload(w) ==
  /\ step[w] = "deleting" /\ todo[w] = {}
  /\ \E uuid \in Injection(batch[w], Uuids \ {r.uid : r \in table}) :
       table' = Seen(w) \cup Inserted(batch[w], uuid)
  /\ End(w)
  /\ UNCHANGED today

\* delete_past_slots: one DELETE and its commit, once no run holds a past row.
PurgePast(w) ==
  /\ step[w] = "idle"
  /\ \A r \in table : r.slot.date < today => Free(w, r.uid)
  /\ DeletePastSlots
  /\ UNCHANGED <<step, batch, won, todo, written>>

\* Mutant: nobody looks for deadlocks.
NeverDeadlocked == {}

\* Each waits for a row another of them has locked: PostgreSQL ends one.
Deadlocked ==
  UNION {group \in SUBSET Runs :
           \A w \in group :
             /\ todo[w] # {}
             /\ \A u \in todo[w] : \E v \in group \ {w} : u \in Locks(v)}

\* The transaction is rolled back: as a deadlock's victim, or because its run
\* was cancelled, crashed or lost its connection.
BreakDeadlock(w) ==
  /\ w \in Deadlocked
  /\ End(w)
  /\ UNCHANGED <<table, today>>

Crash(w) ==
  /\ step[w] # "idle"
  /\ End(w)
  /\ UNCHANGED <<table, today>>

Begin(w) ==
  \/ \E slots \in SUBSET UpsertEntries : BeginUpsert(w, slots)
  \/ \E slots \in SUBSET ReloadEntries : BeginReload(w, slots)

Advance(w) ==
  \/ \E s \in SlotsOf(batch[w]) : UpsertRow(w, s)
  \/ BeginMarking(w)
  \/ \E uid \in todo[w] : MarkRow(w, uid) \/ DeleteRow(w, uid)
  \/ CommitUpsert(w)
  \/ CommitReload(w)

WritersNext ==
  \/ \E w \in Runs : Begin(w) \/ Advance(w) \/ PurgePast(w) \/ BreakDeadlock(w) \/ Crash(w)
  \/ NextDay /\ UNCHANGED <<step, batch, won, todo, written>>

WritersSpec == WritersInit /\ [][WritersNext]_writerVars

\* A statement runs, a row lock goes to the transaction that has waited for it
\* (PostgreSQL queues the waiters), and a deadlock is looked for and found.
WritersFairSpec ==
  WritersSpec /\ \A w \in Runs : SF_writerVars(Advance(w)) /\ WF_writerVars(BreakDeadlock(w))

-----------------------------------------------------------------------------
\* With one run at a time the statements are the transactions of SlotStore, on
\* the batch the run was called with: a reader never sees a batch half applied,
\* and a killed run leaves no trace of the transaction it was in.
StoreStep ==
  \/ \E w \in Runs : InsertRecordsToTable(batch[w]) \/ TruncateByCompositeKeyAndReload(batch[w])
  \/ DeletePastSlots
  \/ NextDay

StoreSpec == Init /\ [][StoreStep]_vars

\* Two runs never hold the same row, so that neither overwrites what the other
\* has written and not committed.
LocksExclusive == \A w, v \in Runs : w # v => Locks(w) \cap Locks(v) = {}

\* Overlapping upserts do not tear a batch: right after a commit the table
\* shows every slot of that batch with the spaces the run had collected.
CommitShowsItsBatch ==
  [][\A w \in Runs : CommitUpsert(w) =>
       \A s \in SlotsOf(batch[w]) :
         [uid |-> UidOf(s), slot |-> s, spaces |-> won[w][s]] \in table']_writerVars

\* Neither a wait nor a deadlock lasts: a transaction that begins ends.
TransactionsEnd == \A w \in Runs : step[w] # "idle" ~> step[w] = "idle"

\* truncate_by_composite_key_and_reload: "Deletes rows for matching
\* composite_key values ... and inserts fresh slots for those keys".
ReloadLeavesOnlyItsBatch ==
  [][\A w \in Runs : CommitReload(w) =>
       Cardinality({r \in table' : r.slot.venue \in KeysOf(batch[w])}) = Cardinality(batch[w])]_writerVars
=============================================================================
