-------------------------- MODULE JournalMigration --------------------------
(***************************************************************************)
(* What SqliteJournal::open does to the database file                      *)
(* (crates/engine-core/src/journal.rs): it creates the tables that are     *)
(* missing and migrates an events table of an older schema, copying it to  *)
(* events_v2, dropping it and renaming the copy.                           *)
(*                                                                         *)
(* Each statement is a transaction of its own, so the process may die, or  *)
(* a statement fail, between any two of them; the next open finds whatever *)
(* tables are there.  A table is its columns and its rows, of which the    *)
(* timestamp and the kind are copied as they are and left out; the payload *)
(* tells apart events that were committed under the same key.              *)
(*                                                                         *)
(* On an open journal a sequencer may start, if Sequencer::new accepts     *)
(* what it finds, and commit.  It numbers its commits from the latest      *)
(* snapshot, or from the beginning if there is none.                       *)
(***************************************************************************)
EXTENDS Integers, FiniteSets

CONSTANTS
  SequenceIds,       \* bound: the ids commits may have
  MaxEvents,         \* bound: events of one commit
  None

ASSUME JournalMigrationAssumption ==
  /\ SequenceIds \subseteq Nat \ {0}
  /\ MaxEvents \in Nat

VARIABLES
  pc,                \* the statement open is about to run, "closed", "open" or "running"
  events,            \* a table, or None
  events_v2,
  snapshots,         \* the snapshots table, or None
  sequence_gen,      \* the last id of the sequencer that is running
  legacy,            \* history: the events the file came with
  committed,         \* history: all events ever committed
  commits            \* history: the number of commits made here

histories == <<legacy, committed, commits>>

vars == <<pc, events, events_v2, snapshots, sequence_gen, histories>>

\* The columns that came with later schemas.
Columns == {"event_index", "schema_version"}

PERSISTED_SCHEMA_VERSION == 1

\* The older schemas: sequence_id is the key, and there is no event_index.
OldColumns == {{}, {"schema_version"}}

\* A payload is the number of the commit it came with, 0 before all of them.
Row == [sequence_id: SequenceIds, event_index: Nat \cup {None}, schema_version: {1, None},
        payload: Nat]

Table == [columns: SUBSET Columns, rows: SUBSET Row]

ASSUME NoneAssumption == None \notin Table

\* The latest snapshot is the only one that is read; 0 stands for none.
SnapshotTable == [columns: SUBSET {"schema_version"}, latest: SequenceIds \cup {0}]

\* Every event of the older schemas was alone in its commit.
Key(row) == <<row.sequence_id, IF row.event_index = None THEN 0 ELSE row.event_index>>

Event(row) == <<Key(row), row.payload>>

Events(table) == IF table = None THEN {} ELSE {Event(r) : r \in table.rows}

OldTable(columns, seqs) ==
  [columns |-> columns,
   rows |-> {[sequence_id |-> s, event_index |-> None,
              schema_version |-> IF columns = {} THEN None ELSE 1, payload |-> 0] : s \in seqs}]

NewRows(seq, n) ==
  {[sequence_id |-> seq, event_index |-> i, schema_version |-> PERSISTED_SCHEMA_VERSION,
    payload |-> commits + 1] : i \in 0 .. n - 1}

\* No file yet, or one that an older version of the engine wrote: with events
\* and any snapshot, or none (journal.rs, seed_schema_versioned_events...).
Init ==
  /\ pc = "closed"
  /\ \/ /\ events = None
        /\ snapshots = None
     \/ /\ \E columns \in OldColumns, seqs \in SUBSET SequenceIds :
             events = OldTable(columns, seqs)
        /\ snapshots \in SnapshotTable
  /\ events_v2 = None
  /\ sequence_gen = 0
  /\ legacy = Events(events)
  /\ committed = legacy
  /\ commits = 0

-----------------------------------------------------------------------------
(* The statements of open, in their order *)

At(statement, next) == pc = statement /\ pc' = next

Open ==
  /\ At("closed", "create events")
  /\ UNCHANGED <<events, events_v2, snapshots, sequence_gen, histories>>

\* CREATE TABLE IF NOT EXISTS events, in the current schema.
CreateEvents ==
  /\ At("create events", "create snapshots")
  /\ events' = IF events = None THEN [columns |-> Columns, rows |-> {}] ELSE events
  /\ UNCHANGED <<events_v2, snapshots, sequence_gen, histories>>

CreateSnapshots ==
  /\ At("create snapshots", "check events")
  /\ snapshots' = IF snapshots = None THEN [columns |-> {"schema_version"}, latest |-> 0]
                  ELSE snapshots
  /\ UNCHANGED <<events, events_v2, sequence_gen, histories>>

\* load_table_columns and the early return of ensure_events_schema.
CheckEvents ==
  /\ At("check events", IF Columns \subseteq events.columns THEN "check snapshots"
                                                            ELSE "create events_v2")
  /\ UNCHANGED <<events, events_v2, snapshots, sequence_gen, histories>>

\* CREATE TABLE events_v2, without IF NOT EXISTS.
CreateEventsV2 ==
  /\ events_v2 = None
  /\ At("create events_v2", "copy rows")
  /\ events_v2' = [columns |-> Columns, rows |-> {}]
  /\ UNCHANGED <<events, snapshots, sequence_gen, histories>>

\* A table of that name was left behind: open returns the error.
EventsV2Exists ==
  /\ events_v2 # None
  /\ At("create events_v2", "closed")
  /\ UNCHANGED <<events, events_v2, snapshots, sequence_gen, histories>>

\* Mutant: the newest row is not copied (sequence_id < MAX(sequence_id)).
MigratedButLast(table) ==
  {[r EXCEPT !.event_index = 0, !.schema_version = 1] :
     r \in {s \in table.rows : \E t \in table.rows : t.sequence_id > s.sequence_id}}

\* The SELECT: event_index 0, and version 1 where there was none.
Migrated(table) ==
  {[sequence_id |-> r.sequence_id, event_index |-> 0,
    schema_version |-> IF "schema_version" \in table.columns THEN r.schema_version ELSE 1,
    payload |-> r.payload] : r \in table.rows}

\* INSERT INTO events_v2 ... SELECT ... FROM events.
CopyRows ==
  /\ At("copy rows", "drop events")
  /\ events_v2' = [events_v2 EXCEPT !.rows = Migrated(events)]
  /\ UNCHANGED <<events, snapshots, sequence_gen, histories>>

DropEvents ==
  /\ At("drop events", "rename events_v2")
  /\ events' = None
  /\ UNCHANGED <<events_v2, snapshots, sequence_gen, histories>>

RenameEventsV2 ==
  /\ At("rename events_v2", "check snapshots")
  /\ events' = events_v2
  /\ events_v2' = None
  /\ UNCHANGED <<snapshots, sequence_gen, histories>>

\* ensure_schema_version_column for snapshots, the last step of open.
CheckSnapshots ==
  /\ At("check snapshots", "open")
  /\ snapshots' = [snapshots EXCEPT !.columns = {"schema_version"}]
  /\ UNCHANGED <<events, events_v2, sequence_gen, histories>>

\* The process dies, a statement fails and open returns its error, or an open
\* journal is closed, after Sequencer::new has refused it or run() has ended.
Interrupt ==
  /\ pc # "closed"
  /\ pc' = "closed"
  /\ UNCHANGED <<events, events_v2, snapshots, sequence_gen, histories>>

-----------------------------------------------------------------------------
(* The sequencer on an open journal *)

\* Mutant: without a snapshot nothing counts as a tail.
TailOfSnapshot == snapshots.latest # 0 /\ \E r \in events.rows : r.sequence_id > snapshots.latest

\* Events that the latest snapshot does not cover; all of them if there is none.
HasUnappliedJournalTail == \E r \in events.rows : r.sequence_id > snapshots.latest

\* Sequencer::new.
StartSequencer ==
  /\ At("open", "running")
  /\ ~ HasUnappliedJournalTail
  /\ sequence_gen' = snapshots.latest
  /\ UNCHANGED <<events, events_v2, snapshots, histories>>

\* persist_rows: a row whose key is taken is ignored, and the older snapshot is
\* pruned.  Commands that commit nothing use up ids too.
PersistCommit(seq, n) ==
  LET taken == {Key(r) : r \in events.rows}
      rows  == NewRows(seq, n)
  IN  /\ At("running", "running")
      /\ seq > sequence_gen
      /\ sequence_gen' = seq
      /\ events' = [events EXCEPT !.rows = @ \cup {r \in rows : Key(r) \notin taken}]
      /\ snapshots' = [snapshots EXCEPT !.latest = seq]
      /\ committed' = committed \cup {Event(r) : r \in rows}
      /\ commits' = commits + 1
      /\ UNCHANGED <<events_v2, legacy>>

Next ==
  \/ Open
  \/ CreateEvents
  \/ CreateSnapshots
  \/ CheckEvents
  \/ CreateEventsV2
  \/ EventsV2Exists
  \/ CopyRows
  \/ DropEvents
  \/ RenameEventsV2
  \/ CheckSnapshots
  \/ Interrupt
  \/ StartSequencer
  \/ \E seq \in SequenceIds, n \in 0 .. MaxEvents : PersistCommit(seq, n)

Spec == Init /\ [][Next]_vars

-----------------------------------------------------------------------------
(* Properties *)

\* No interruption, no retry after one, and no commit afterwards destroys or
\* hides an event: every event ever committed is in the events table or in the
\* copy of it.  INSERT OR IGNORE would drop one whose key is taken, so this
\* also says that a sequencer never starts on a table that has its ids.
RowsSurvive == Events(events) \cup Events(events_v2) = committed

\* A journal that opens has all the events it came with or none of them, never
\* some: it has none only when the migration was interrupted between DROP and
\* RENAME, and then all of them, and no others, are in the table that was not
\* renamed.  Without a snapshot the ids of later commits begin anew and repeat
\* those left behind; even so neither table takes an event of the other.
MigratedWholeOrNotAtAll ==
  pc \in {"open", "running"} =>
    \/ Events(events) = committed
    \/ Events(events_v2) = legacy /\ Events(events) = committed \ legacy
=============================================================================
