------------------------------ MODULE Journal ------------------------------
(***************************************************************************)
(* The durable store of the engine: SqliteJournal                          *)
(* (crates/engine-core/src/journal.rs).  Two tables survive a crash:       *)
(*                                                                         *)
(*   events     primary key (sequence_id, event_index)                     *)
(*   snapshots  primary key sequence_id                                    *)
(*                                                                         *)
(* A table is a set of rows.  Every write goes through one SQLite          *)
(* transaction run with synchronous=FULL, so a crash leaves either all of  *)
(* its effect or none of it: a write is one step.  Row encoding, schema    *)
(* versions and the WAL checkpoint (which is not fatal when it fails) have *)
(* no effect on which rows exist and are left out.                         *)
(***************************************************************************)
EXTENDS EngineState

VARIABLES
  events,            \* rows of the events table
  snapshots          \* rows of the snapshots table

journalVars == <<events, snapshots>>

EventRow == [sequence_id: Nat, event_index: Nat, event: Event]

\* EngineStateSnapshot
SnapshotRow == [sequence_id: Nat, state: State]

\* The rows of one commit: the events of a batch are numbered from 0.
EncodeEventRows(seq, evs) ==
  {[sequence_id |-> seq, event_index |-> i - 1, event |-> evs[i]] : i \in DOMAIN evs}

SameKey(r, s) ==
  /\ r.sequence_id = s.sequence_id
  /\ r.event_index = s.event_index

\* INSERT OR IGNORE: a row whose key is taken is dropped without an error.
InsertOrIgnore(table, rows) ==
  table \cup {r \in rows : \A t \in table : ~ SameKey(r, t)}

\* INSERT OR REPLACE of one snapshot, then DELETE of the older ones.
ReplaceAndPrune(table, row) ==
  {t \in table : t.sequence_id > row.sequence_id} \cup {row}

\* persist_rows: both tables in one transaction; either part may be absent.
PersistRows(rows, snapshot) ==
  /\ events' = InsertOrIgnore(events, rows)
  /\ snapshots' = IF snapshot = None THEN snapshots
                  ELSE ReplaceAndPrune(snapshots, snapshot)

\* append_batch and save_snapshot, the two halves of the trait's default
\* persist_commit.
AppendBatch(rows) == PersistRows(rows, None)

SaveSnapshot(snapshot) == PersistRows({}, snapshot)

\* load_latest_snapshot: ORDER BY sequence_id DESC LIMIT 1.
LatestSnapshot ==
  IF snapshots = {} THEN None
  ELSE CHOOSE s \in snapshots : \A t \in snapshots : t.sequence_id <= s.sequence_id

\* replay_from: the rows, ordered by their key.
ReplayFrom(seq) == {r \in events : r.sequence_id >= seq}

\* latest_sequence_id() > seq: MAX(sequence_id) over the events, ZERO if none.
LatestSequenceIdAfter(seq) == \E r \in events : r.sequence_id > seq

JournalInit ==
  /\ events = {}
  /\ snapshots = {}
=============================================================================
