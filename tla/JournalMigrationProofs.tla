----------------------- MODULE JournalMigrationProofs -----------------------
(***************************************************************************)
(* Proofs of the properties of JournalMigration, for any set of sequence   *)
(* ids and any number of events per commit.                                *)
(***************************************************************************)
EXTENDS JournalMigration, TLAPS

\* A table that open will migrate, and one that it leaves alone.
Old(table) == table # None /\ ~ Columns \subseteq table.columns
Current(table) == table # None /\ Columns \subseteq table.columns

\* The statements between which the migration works on the two tables.
Migrating == {"create events_v2", "copy rows", "drop events"}

Statements ==
  Migrating \cup {"closed", "create events", "create snapshots", "check events",
                  "rename events_v2", "check snapshots", "open", "running"}

TablesOK ==
  /\ pc \in Statements
  /\ snapshots \in SnapshotTable \cup {None}
  /\ sequence_gen \in Nat /\ commits \in Nat
  /\ events \in Table \cup {None}
  /\ events_v2 \in Table \cup {None}
  /\ events_v2 # None => Current(events_v2)

\* What the program counter says of the tables.
Progress ==
  /\ pc \notin {"closed", "create events", "rename events_v2"} => events # None
  /\ pc \in Migrating => Old(events)
  /\ pc \in {"copy rows", "drop events", "rename events_v2"} => events_v2 # None
  /\ pc \in {"drop events", "rename events_v2"} => Events(events_v2) = legacy
  /\ pc = "rename events_v2" => events = None
  /\ pc \in {"check snapshots", "open", "running"} => Current(events)
  /\ pc \notin {"closed", "create events", "create snapshots"} => snapshots \in SnapshotTable

\* Where the rows are.  An old table is complete, for nothing is appended to
\* it; a copy is empty or complete; a current table is complete, or was created
\* anew while the copy waited to be renamed.
Whereabouts ==
  /\ legacy \subseteq committed
  /\ \A e \in legacy : e[2] = 0
  /\ RowsSurvive
  /\ Events(events_v2) \in {{}, legacy}
  /\ ~ Current(events) => committed = legacy
  /\ Old(events) => /\ Events(events) = legacy
                    /\ \A r \in events.rows : r.event_index = None
  /\ Current(events) =>
       \/ Events(events) = committed
       \/ Events(events_v2) = legacy /\ Events(events) = committed \ legacy

\* A sequencer is ahead of all that is in the events table.
Numbering ==
  pc = "running" => \A r \in events.rows : r.sequence_id <= sequence_gen

IInv == TablesOK /\ Progress /\ Whereabouts /\ Numbering

-----------------------------------------------------------------------------

\* A created table holds nothing.
LEMMA CreatedTable ==
  ASSUME NEW table, table = [columns |-> Columns, rows |-> {}]
  PROVE  table \in Table /\ Events(table) = {} /\ Current(table)
<1>1. table \in Table /\ table.columns = Columns /\ table.rows = {}
  BY DEF Table
<1>2. table # None
  BY <1>1, NoneAssumption
<1> QED BY <1>1, <1>2 DEF Events, Current

LEMMA EventsOfNone == Events(None) = {}
BY DEF Events

\* The copy of an old table has its events: event_index 0 is what Key says of a
\* row without one.
LEMMA EventsOfCopy ==
  ASSUME NEW old \in Table, NEW copy \in Table,
         \A r \in old.rows : r.event_index = None,
         copy.rows = Migrated(old)
  PROVE  Events(copy) = Events(old)
<1> DEFINE copied(r) == [sequence_id |-> r.sequence_id, event_index |-> 0,
                         schema_version |-> IF "schema_version" \in old.columns
                                            THEN r.schema_version ELSE 1,
                         payload |-> r.payload]
<1>1. Events(copy) = {Event(c) : c \in copy.rows} /\ Events(old) = {Event(r) : r \in old.rows}
  BY NoneAssumption DEF Events
<1>2. ASSUME NEW r \in old.rows
      PROVE  Event(copied(r)) = Event(r)
  <2>1. Key(copied(r)) = Key(r)
    BY NoneAssumption DEF Key
  <2> QED BY <2>1 DEF Event
<1>3. copy.rows = {copied(r) : r \in old.rows}
  BY DEF Migrated
<1> HIDE DEF copied
<1> QED BY <1>1, <1>2, <1>3

\* The copy is a table of the current schema.
LEMMA CopyIsTable ==
  ASSUME NEW old \in Table
  PROVE  Migrated(old) \in SUBSET Row
BY DEF Migrated, Table, Row

\* The rows of a commit have its id and its number.
LEMMA NewRowsAreRows ==
  ASSUME NEW seq \in SequenceIds, NEW n \in 0 .. MaxEvents, commits \in Nat
  PROVE  /\ NewRows(seq, n) \in SUBSET Row
         /\ \A r \in NewRows(seq, n) : r.sequence_id = seq /\ r.payload # 0
BY JournalMigrationAssumption DEF NewRows, Row, PERSISTED_SCHEMA_VERSION

LEMMA EventsOfAppended ==
  ASSUME NEW table \in Table, NEW rows \in SUBSET Row
  PROVE  /\ [table EXCEPT !.rows = @ \cup rows] \in Table
         /\ Events([table EXCEPT !.rows = @ \cup rows])
              = Events(table) \cup {Event(r) : r \in rows}
BY NoneAssumption DEF Events, Table

-----------------------------------------------------------------------------

LEMMA InitEstablishes == Init => IInv
<1> SUFFICES ASSUME Init PROVE IInv
  OBVIOUS
<1>1. CASE events = None
  BY <1>1, EventsOfNone DEF Init, IInv, TablesOK, Progress, Whereabouts, Numbering, RowsSurvive, Old,
    Current, Statements, Migrating
<1>2. CASE \E columns \in OldColumns, seqs \in SUBSET SequenceIds : events = OldTable(columns, seqs)
  <2>1. PICK columns \in OldColumns, seqs \in SUBSET SequenceIds : events = OldTable(columns, seqs)
    BY <1>2
  <2>2. /\ events \in Table
        /\ ~ Columns \subseteq events.columns
        /\ \A r \in events.rows : r.event_index = None /\ r.payload = 0
    BY <2>1 DEF OldColumns, OldTable, Table, Row, Columns
  <2>3. \A e \in Events(events) : e[2] = 0
    BY <2>2 DEF Events, Event
  <2> QED BY <2>2, <2>3, NoneAssumption, EventsOfNone DEF Init, IInv, TablesOK, Progress, Whereabouts,
    Numbering, RowsSurvive, Old, Current, Statements, Migrating
<1> QED BY <1>1, <1>2 DEF Init

LEMMA NextPreserves == IInv /\ [Next]_vars => IInv'
<1> SUFFICES ASSUME IInv, [Next]_vars PROVE IInv'
  OBVIOUS
<1> USE DEF IInv
<1>0. CASE UNCHANGED vars
  BY <1>0 DEF vars, histories, TablesOK, Progress, Whereabouts, Numbering, RowsSurvive, Old, Current, Events
<1> USE DEF histories
<1>1. CASE Open \/ EventsV2Exists \/ Interrupt \/ CheckSnapshots \/ CreateSnapshots \/ CheckEvents
  <2>1. UNCHANGED <<events, events_v2, sequence_gen, legacy, committed, commits>>
    BY <1>1 DEF Open, EventsV2Exists, Interrupt, CheckSnapshots, CreateSnapshots, CheckEvents
  <2>2. /\ snapshots' \in SnapshotTable \cup {None}
        /\ pc' \notin {"closed", "create events", "create snapshots"} => snapshots' \in SnapshotTable
    <3>1. CASE CreateSnapshots
      BY <3>1 DEF CreateSnapshots, At, TablesOK, SnapshotTable
    <3>2. CASE CheckSnapshots
      <4>1. snapshots \in SnapshotTable /\ snapshots' = [snapshots EXCEPT !.columns = {"schema_version"}]
        BY <3>2 DEF CheckSnapshots, At, Progress
      <4> QED BY <4>1 DEF SnapshotTable
    <3>3. CASE Open \/ EventsV2Exists \/ Interrupt \/ CheckEvents
      <4>1. snapshots' = snapshots
        BY <3>3 DEF Open, EventsV2Exists, Interrupt, CheckEvents
      <4> QED BY <3>3, <4>1 DEF Open, EventsV2Exists, Interrupt, CheckEvents, At, TablesOK, Progress
    <3> QED BY <1>1, <3>1, <3>2, <3>3
  <2>3. TablesOK' /\ Whereabouts' /\ Numbering'
    <3>1. pc' \in Statements /\ pc' # "running"
      BY <1>1 DEF Open, EventsV2Exists, Interrupt, CheckSnapshots, CreateSnapshots,
        CheckEvents, At, Statements, Migrating
    <3> QED BY <2>1, <2>2, <3>1 DEF TablesOK, Whereabouts, Numbering, RowsSurvive, Old, Current, Events
  <2>4. Progress'
    BY <1>1, <2>1, <2>2 DEF Open, EventsV2Exists, Interrupt, CheckSnapshots,
      CreateSnapshots, CheckEvents, At, Progress, Migrating, Old, Current, Events
  <2> QED BY <2>3, <2>4
<1>2. CASE CreateEvents
  <2>1. CASE events = None
    <3>1. /\ events' = [columns |-> Columns, rows |-> {}]
          /\ UNCHANGED <<events_v2, snapshots, sequence_gen, legacy, committed, commits>>
          /\ pc' = "create snapshots"
      BY <1>2, <2>1 DEF CreateEvents, At
    <3>2. events' \in Table /\ Events(events') = {} /\ events' # None /\ Current(events')
      BY <3>1, CreatedTable DEF Current
    <3>3. Events(events_v2) = committed /\ committed = legacy
      BY <2>1, EventsOfNone DEF Whereabouts, RowsSurvive, Current
    <3>4. TablesOK' /\ Progress' /\ Numbering'
      BY <3>1, <3>2 DEF TablesOK, Progress, Numbering, Statements, Migrating, Current
    <3>5. Whereabouts'
      BY <3>1, <3>2, <3>3 DEF Whereabouts, RowsSurvive, Old, Current, Events
    <3> QED BY <3>4, <3>5
  <2>2. CASE events # None
    <3>1. UNCHANGED <<events, events_v2, snapshots, sequence_gen, legacy, committed, commits>> /\ pc' = "create snapshots"
      BY <1>2, <2>2 DEF CreateEvents, At
    <3> QED BY <2>2, <3>1 DEF TablesOK, Progress, Whereabouts, Numbering, RowsSurvive, Old, Current, Events,
      Statements, Migrating
  <2> QED BY <2>1, <2>2
<1>3. CASE CreateEventsV2
  <2>1. /\ events_v2' = [columns |-> Columns, rows |-> {}]
        /\ UNCHANGED <<events, snapshots, sequence_gen, legacy, committed, commits>>
        /\ pc = "create events_v2" /\ pc' = "copy rows"
        /\ events_v2 = None
    BY <1>3 DEF CreateEventsV2, At
  <2>2. events_v2' \in Table /\ Events(events_v2') = {} /\ events_v2' # None /\ Current(events_v2')
    BY <2>1, CreatedTable DEF Current
  <2>3. Old(events) /\ Events(events) = committed /\ committed = legacy
    BY <2>1 DEF Progress, Whereabouts, Migrating, Old, Current
  <2>4. TablesOK' /\ Progress' /\ Numbering'
    BY <2>1, <2>2, <2>3 DEF TablesOK, Progress, Numbering, Statements, Migrating, Old, Current
  <2>5. Whereabouts'
    BY <2>1, <2>2, <2>3 DEF Whereabouts, RowsSurvive, Old, Current, Events
  <2> QED BY <2>4, <2>5
<1>4. CASE CopyRows
  <2>1. /\ events_v2' = [events_v2 EXCEPT !.rows = Migrated(events)]
        /\ UNCHANGED <<events, snapshots, sequence_gen, legacy, committed, commits>>
        /\ pc = "copy rows" /\ pc' = "drop events"
    BY <1>4 DEF CopyRows, At
  <2>2. /\ Old(events) /\ events \in Table /\ events_v2 \in Table
        /\ \A r \in events.rows : r.event_index = None
        /\ Events(events) = committed /\ committed = legacy
    BY <2>1 DEF TablesOK, Progress, Whereabouts, Migrating, Old, Current
  <2>3. events_v2' \in Table /\ events_v2'.rows = Migrated(events) /\ Current(events_v2')
    <3>1. Columns \subseteq events_v2.columns
      BY <2>2, NoneAssumption DEF TablesOK, Current
    <3>2. /\ events_v2' \in Table
          /\ events_v2'.rows = Migrated(events)
          /\ events_v2'.columns = events_v2.columns
      BY <2>1, <2>2, CopyIsTable DEF Table
    <3> QED BY <3>1, <3>2, NoneAssumption DEF Current
  <2>4. Events(events_v2') = legacy
    BY <2>2, <2>3, EventsOfCopy
  <2>5. TablesOK' /\ Progress' /\ Numbering'
    BY <2>1, <2>2, <2>3, <2>4 DEF TablesOK, Progress, Numbering, Statements, Migrating, Old, Current, Events
  <2>6. Whereabouts'
    BY <2>1, <2>2, <2>4 DEF Whereabouts, RowsSurvive, Old, Current, Events
  <2> QED BY <2>5, <2>6
<1>5. CASE DropEvents
  <2>1. /\ events' = None
        /\ UNCHANGED <<events_v2, snapshots, sequence_gen, legacy, committed, commits>>
        /\ pc = "drop events" /\ pc' = "rename events_v2"
    BY <1>5 DEF DropEvents, At
  <2>2. Events(events_v2) = legacy /\ committed = legacy /\ events_v2 # None
    BY <2>1 DEF Progress, Whereabouts, Migrating, Old, Current
  <2>3. TablesOK' /\ Progress' /\ Numbering'
    BY <2>1, <2>2 DEF TablesOK, Progress, Numbering, Statements, Migrating, Old, Current, Events
  <2>4. Whereabouts'
    BY <2>1, <2>2, EventsOfNone DEF Whereabouts, RowsSurvive, Old, Current, Events
  <2> QED BY <2>3, <2>4
<1>6. CASE RenameEventsV2
  <2>1. /\ events' = events_v2
        /\ events_v2' = None
        /\ UNCHANGED <<snapshots, sequence_gen, legacy, committed, commits>>
        /\ pc = "rename events_v2" /\ pc' = "check snapshots"
    BY <1>6 DEF RenameEventsV2, At
  <2>2. /\ Events(events_v2) = legacy /\ committed = legacy
        /\ events_v2 \in Table /\ Current(events_v2)
    BY <2>1 DEF TablesOK, Progress, Whereabouts, Old, Current
  <2>3. TablesOK' /\ Progress' /\ Numbering'
    BY <2>1, <2>2 DEF TablesOK, Progress, Numbering, Statements, Migrating, Old, Current
  <2>4. Whereabouts'
    BY <2>1, <2>2, EventsOfNone DEF Whereabouts, RowsSurvive, Old, Current, Events
  <2> QED BY <2>3, <2>4
<1>7. CASE StartSequencer
  <2>1. /\ UNCHANGED <<events, events_v2, snapshots, legacy, committed, commits>>
        /\ pc = "open" /\ pc' = "running"
        /\ sequence_gen' = snapshots.latest
        /\ ~ \E r \in events.rows : r.sequence_id > snapshots.latest
    BY <1>7 DEF StartSequencer, HasUnappliedJournalTail, At
  <2>2. /\ snapshots \in SnapshotTable /\ Current(events) /\ events \in Table
        /\ snapshots.latest \in Nat
    BY <2>1, JournalMigrationAssumption DEF TablesOK, Progress, Current, SnapshotTable
  <2>3. Numbering'
    <3>1. ASSUME NEW r \in events.rows PROVE r.sequence_id <= snapshots.latest
      <4>1. r.sequence_id \in Nat /\ ~ (r.sequence_id > snapshots.latest)
        BY <2>1, <2>2, JournalMigrationAssumption DEF Table, Row
      <4> QED BY <2>2, <4>1
    <3> QED BY <2>1, <3>1 DEF Numbering
  <2> QED BY <2>1, <2>2, <2>3 DEF TablesOK, Progress, Whereabouts, RowsSurvive, Old, Current,
    Events, Statements, Migrating
<1>8. CASE \E seq \in SequenceIds, n \in 0 .. MaxEvents : PersistCommit(seq, n)
  <2>1. PICK seq \in SequenceIds, n \in 0 .. MaxEvents : PersistCommit(seq, n)
    BY <1>8
  <2> DEFINE new == {Event(r) : r \in NewRows(seq, n)}
             free == {r \in NewRows(seq, n) : Key(r) \notin {Key(t) : t \in events.rows}}
  <2>2. /\ events' = [events EXCEPT !.rows = @ \cup free]
        /\ committed' = committed \cup new
        /\ snapshots' = [snapshots EXCEPT !.latest = seq]
        /\ sequence_gen' = seq /\ seq > sequence_gen /\ commits' = commits + 1
        /\ UNCHANGED <<events_v2, legacy>>
        /\ pc = "running" /\ pc' = "running"
    BY <2>1 DEF PersistCommit, At
  <2>3. /\ events \in Table /\ Columns \subseteq events.columns
        /\ seq \in Nat /\ sequence_gen \in Nat /\ commits \in Nat /\ snapshots \in SnapshotTable
    BY <2>2, JournalMigrationAssumption DEF TablesOK, Progress, Current
  \* No key is taken: all that is there has an earlier id.
  <2>4. free = NewRows(seq, n)
    <3>1. ASSUME NEW r \in NewRows(seq, n), NEW t \in events.rows PROVE Key(r) # Key(t)
      <4>1. r.sequence_id = seq /\ t.sequence_id <= sequence_gen /\ t.sequence_id \in Nat
        BY <2>2, <2>3, NewRowsAreRows, JournalMigrationAssumption DEF Numbering, Table, Row
      <4> QED BY <2>2, <2>3, <4>1 DEF Key
    <3> QED BY <3>1
  <2> HIDE DEF free
  <2>5. events' \in Table /\ Events(events') = Events(events) \cup new
    BY <2>2, <2>3, <2>4, NewRowsAreRows, EventsOfAppended
  <2>6. Current(events')
    BY <2>2, <2>3, <2>5, NoneAssumption DEF Current, Table
  <2>7. new \cap legacy = {}
    <3>1. \A e \in new : e[2] # 0
      BY <2>3, NewRowsAreRows DEF Event
    <3> QED BY <3>1 DEF Whereabouts
  <2>8. Numbering'
    <3>1. events'.rows = events.rows \cup NewRows(seq, n)
      BY <2>2, <2>3, <2>4 DEF Table
    <3>2. ASSUME NEW r \in events.rows \cup NewRows(seq, n) PROVE r.sequence_id <= seq
      <4>1. CASE r \in events.rows
        BY <2>2, <2>3, <4>1, JournalMigrationAssumption DEF Numbering, Table, Row
      <4>2. CASE r \in NewRows(seq, n)
        BY <2>3, <4>2, NewRowsAreRows
      <4> QED BY <4>1, <4>2
    <3> QED BY <2>2, <3>1, <3>2 DEF Numbering
  <2>9. TablesOK' /\ Progress'
    <3>1. snapshots' \in SnapshotTable
      BY <2>2, <2>3 DEF SnapshotTable
    <3> QED BY <2>2, <2>3, <2>5, <2>6, <3>1 DEF TablesOK, Progress, Statements, Migrating, Old, Current
  <2>10. Whereabouts'
    <3>1. Current(events)
      BY <2>2 DEF Progress
    <3>2. Events(events_v2') = Events(events_v2)
      BY <2>2 DEF Events
    <3>3. legacy' = legacy /\ committed' = committed \cup new /\ ~ Old(events')
      BY <2>2, <2>6 DEF Old, Current
    <3> HIDE DEF new
    <3> QED BY <2>5, <2>6, <2>7, <3>1, <3>2, <3>3 DEF Whereabouts, RowsSurvive, Old, Current
  <2> QED BY <2>8, <2>9, <2>10
<1> QED BY <1>0, <1>1, <1>2, <1>3, <1>4, <1>5, <1>6, <1>7, <1>8 DEF Next

LEMMA InductiveInvariant == Spec => []IInv
BY InitEstablishes, NextPreserves, PTL DEF Spec

\* However often open is interrupted and tried again, every event ever
\* committed is in the events table or in its copy (ensure_events_schema).
THEOREM NoEventIsDestroyed == Spec => []RowsSurvive
<1>1. IInv => RowsSurvive
  BY DEF IInv, Whereabouts
<1> QED BY <1>1, InductiveInvariant, PTL

\* A journal that opens has all of its old events, or none while all of them
\* are in the table that was not renamed (ensure_events_schema).
THEOREM MigrationIsAllOrNothing == Spec => []MigratedWholeOrNotAtAll
<1>1. IInv => MigratedWholeOrNotAtAll
  BY DEF IInv, Progress, Whereabouts, MigratedWholeOrNotAtAll
<1> QED BY <1>1, InductiveInvariant, PTL
=============================================================================
