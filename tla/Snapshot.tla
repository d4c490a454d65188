------------------------------ MODULE Snapshot ------------------------------
(***************************************************************************)
(* The initial snapshot: SlotManager::ensure_slot creates the slot,        *)
(* SnapshotExporter opens a transaction and SnapshotBuilder reads table    *)
(* after table into synthetic INSERT events, all while clients keep        *)
(* changing the tables and the daemon may be restarted.                    *)
(*                                                                         *)
(* External: PostgreSQL.  A change of one row is one record of the WAL;    *)
(* the slot streams the records after its consistent point.  ensure_slot   *)
(* reads that point, a pg_lsn, as a &str: the answer is text or the read   *)
(* panics.  begin_export is told of a named snapshot of that point or of   *)
(* none, or its queries fail (pg_replication_slots has no snapshot_name    *)
(* column); without one, REPEATABLE READ fixes what the transaction sees   *)
(* at its first query.  A table query returns the rows in any order, or    *)
(* fails, which fails snapshot_all.                                        *)
(*                                                                         *)
(* External: the caller.  The source has none for the exporter and the     *)
(* builder; a caller that gets an LSN from ensure_slot exports, reads all  *)
(* tables with this LSN and commits, and ends at the first error.  One     *)
(* that gets none goes on without a snapshot, as the init of               *)
(* SlotLifecycleManager does.                                              *)
(*                                                                         *)
(*   wal      the changes so far: a row and its new value, None if deleted *)
(*   slot     the slot's consistent point, None if there is no slot        *)
(*   snapshot_lsn  what ensure_slot returned, None if nothing              *)
(*   view     the WAL position the export transaction sees, None before    *)
(*            that is fixed                                                *)
(*   phase    "start", "export", "read", "done", "resumed" (with a slot    *)
(*            that was there), "failed", "stopped"                         *)
(*   read     how many of the tables have been read                        *)
(*   events   the events snapshot_all has gathered                         *)
(*   finished whether a snapshot of this slot was ever taken (history)     *)
(*   restarts bound: restarts so far                                       *)
(***************************************************************************)
EXTENDS Integers, Sequences, FiniteSets

CONSTANTS
    tables,        \* SnapshotBuilder.tables: sequence of tables, each a set of rows
    Values, None,  \* what a row can hold
    TryGet,        \* what a row's columns are as Strings, by what it holds
    Half,          \* 2^32: an LSN is written as two such halves
    MaxWal,        \* bound
    MaxRestarts    \* bound

ASSUME SnapshotAssumption ==
    /\ Len(tables) \in Nat /\ DOMAIN tables = 1 .. Len(tables)
    /\ \A i \in DOMAIN tables : IsFiniteSet(tables[i])
    /\ \A i, j \in DOMAIN tables : i # j => tables[i] \cap tables[j] = {}
    /\ None \notin Values \cup Nat
    /\ TryGet \in [Values -> Values]
    /\ MaxWal \in Nat /\ MaxRestarts \in Nat
    /\ Half \in Nat \ {0} /\ MaxWal < Half * Half

VARIABLES wal, slot, snapshot_lsn, view, phase, read, events, finished, restarts

vars == <<wal, slot, snapshot_lsn, view, phase, read, events, finished, restarts>>

Rows == UNION {tables[i] : i \in DOMAIN tables}

(* The database after a prefix of the WAL, and after more of it. *)
Apply(state, records) ==
    LET last(r) == {i \in DOMAIN records :
                       /\ records[i].row = r
                       /\ \A j \in DOMAIN records : records[j].row = r => j <= i}
    IN  [r \in Rows |-> IF last(r) = {} THEN state[r]
                        ELSE records[CHOOSE i \in last(r) : TRUE].value]

Blank == [r \in Rows |-> None]
StateAt(n) == Apply(Blank, SubSeq(wal, 1, n))

Init ==
    /\ wal = <<>> /\ slot = None /\ snapshot_lsn = None /\ view = None
    /\ phase = "start" /\ read = 0 /\ events = <<>>
    /\ finished = FALSE /\ restarts = 0

Change(r, v) ==
    /\ Len(wal) < MaxWal
    /\ v # StateAt(Len(wal))[r]
    /\ wal' = Append(wal, [row |-> r, value |-> v])
    /\ UNCHANGED <<slot, snapshot_lsn, view, phase, read, events, finished, restarts>>

(* An LSN as PostgreSQL writes it, X/Y, and Lsn::from_pg_str. *)
PgText(lsn) == <<lsn \div Half, lsn % Half>>

\* Fault: the upper half is shifted too far.
FromPgStr_Shift(text) == text[1] * (Half + 1) + text[2]

FromPgStr(text) == text[1] * Half + text[2]

(* ensure_slot: a slot that exists is left as it is, and nothing is said   *)
(* of where it begins.  A new one begins where the WAL is, and stays if    *)
(* the read of its LSN panics.  An error may come from either query.       *)
EnsureSlot(auto_create, answer) ==
    /\ phase = "start"
    /\ IF answer = "error" \/ (slot = None /\ ~auto_create)
       THEN phase' = "failed" /\ UNCHANGED <<slot, snapshot_lsn, finished>>
       ELSE IF slot # None
       THEN phase' = "resumed" /\ UNCHANGED <<slot, snapshot_lsn, finished>>
       ELSE /\ slot' = Len(wal) /\ finished' = FALSE
            /\ IF answer = "text"
               THEN phase' = "export" /\ snapshot_lsn' = FromPgStr(PgText(Len(wal)))
               ELSE phase' = "failed" /\ UNCHANGED snapshot_lsn
    /\ UNCHANGED <<wal, view, read, events, restarts>>

(* drop_slot, "used during teardown" *)
DropSlot ==
    /\ phase \in {"done", "resumed", "failed"} /\ slot # None
    /\ slot' = None
    /\ phase' = "stopped"
    /\ UNCHANGED <<wal, snapshot_lsn, view, read, events, finished, restarts>>

(* The daemon is started again, with nothing but the slot. *)
Restart ==
    /\ phase # "start" /\ restarts < MaxRestarts
    /\ restarts' = restarts + 1
    /\ phase' = "start" /\ snapshot_lsn' = None
    /\ read' = 0 /\ view' = None /\ events' = <<>>
    /\ UNCHANGED <<wal, slot, finished>>

(* begin_export, with a named snapshot, without, or with an error. *)
BeginExport(answer) ==
    /\ phase = "export"
    /\ view' = IF answer = "named" THEN slot ELSE None
    /\ phase' = IF answer = "error" THEN "failed" ELSE "read"
    /\ UNCHANGED <<wal, slot, snapshot_lsn, read, events, finished, restarts>>

(* What the transaction sees: the view, fixed by its first query. *)
Seen == IF view = None THEN Len(wal) ELSE view

MoreTables == read < Len(tables)

Orders(set) == {s \in [1 .. Cardinality(set) -> set] : \A r \in set : \E i \in DOMAIN s : s[i] = r}

(* snapshot_table: one INSERT event per row of the table, all with the     *)
(* snapshot's LSN and xid 0.  Each column is asked for as a String, and    *)
(* one whose type does not give a String comes as NULL.                    *)
AsRead(value) == IF value = None THEN None ELSE TryGet[value]

TableRows(t) == {r \in t : StateAt(Seen)[r] # None}

TableEvents(rows) ==
    [i \in DOMAIN rows |->
        [row |-> rows[i], value |-> AsRead(StateAt(Seen)[rows[i]]), lsn |-> snapshot_lsn, xid |-> 0]]

\* Fault: the events of a table replace those of the tables before it.
SnapshotTable_Replaces ==
    /\ phase = "read" /\ MoreTables
    /\ \E rows \in Orders(TableRows(tables[read + 1])) : events' = TableEvents(rows)
    /\ read' = read + 1
    /\ view' = Seen
    /\ UNCHANGED <<wal, slot, snapshot_lsn, phase, finished, restarts>>

SnapshotTable ==
    /\ phase = "read" /\ MoreTables
    /\ \E rows \in Orders(TableRows(tables[read + 1])) : events' = events \o TableEvents(rows)
    /\ read' = read + 1
    /\ view' = Seen
    /\ UNCHANGED <<wal, slot, snapshot_lsn, phase, finished, restarts>>

(* An error leaves snapshot_all at once, and what was read is dropped. *)
TableFails ==
    /\ phase = "read" /\ MoreTables
    /\ phase' = "failed"
    /\ events' = <<>>
    /\ UNCHANGED <<wal, slot, snapshot_lsn, view, read, finished, restarts>>

(* snapshot_all has returned the events; commit_export. *)
CommitExport(ok) ==
    /\ phase = "read" /\ ~MoreTables
    /\ phase' = IF ok THEN "done" ELSE "failed"
    /\ events' = IF ok THEN events ELSE <<>>
    /\ finished' = ok
    /\ UNCHANGED <<wal, slot, snapshot_lsn, view, read, restarts>>

Ended == phase \in {"done", "resumed", "failed", "stopped"} /\ UNCHANGED vars

Next ==
    \/ \E r \in Rows, v \in Values \cup {None} : Change(r, v)
    \/ \E auto_create \in BOOLEAN, answer \in {"text", "pg_lsn", "error"} :
          EnsureSlot(auto_create, answer)
    \/ DropSlot
    \/ Restart
    \/ \E answer \in {"named", "none", "error"} : BeginExport(answer)
    \/ SnapshotTable
    \/ TableFails
    \/ \E ok \in BOOLEAN : CommitExport(ok)
    \/ Ended

Spec == Init /\ [][Next]_vars

-----------------------------------------------------------------------------
(* Properties *)

TypeOK ==
    /\ wal \in Seq([row : Rows, value : Values \cup {None}])
    /\ slot \in (0 .. Len(wal)) \cup {None}
    /\ snapshot_lsn \in (0 .. Len(wal)) \cup {None}
    /\ view \in (0 .. Len(wal)) \cup {None}
    /\ phase \in {"start", "export", "read", "done", "resumed", "failed", "stopped"}
    /\ read \in 0 .. Len(tables)
    /\ finished \in BOOLEAN /\ restarts \in 0 .. MaxRestarts
    /\ events \in Seq([row : Rows, value : Values, lsn : 0 .. MaxWal, xid : {0}])

(* What a consumer has after the snapshot's events. *)
Snapshotted == Apply(Blank, events)

(* Who takes the events that snapshot_all returned, and then the stream's  *)
(* after their LSN, ends with the rows of the database, whenever the rows  *)
(* change, with whichever view the tables are read, and whatever starts    *)
(* came before; a row that has not changed since that LSN they have as     *)
(* snapshot_table reads it (builder.rs snapshot_all, exporter.rs           *)
(* begin_export, slot.rs ensure_slot).  That the store keeps the events    *)
(* between the two is not said: see SnapshotIsStored.                      *)
SnapshotThenStreamConverges ==
    phase = "done" =>
        LET stream == SubSeq(wal, snapshot_lsn + 1, Len(wal))
            copy == Apply(Snapshotted, stream)
            database == StateAt(Len(wal))
        IN  \A r \in Rows :
                copy[r] = IF \E i \in DOMAIN stream : stream[i].row = r
                          THEN database[r] ELSE AsRead(database[r])

(* Statements of the source that its code does not keep.  No run checks    *)
(* them; TLC refutes each when it is named in the cfg.                     *)

(* "streaming can resume exactly where the snapshot left off"              *)
(* (builder.rs): the snapshot is the database at the slot's position, so   *)
(* that no change is both in the snapshot and in the stream.               *)
SnapshotIsExact ==
    phase = "done" => \A r \in Rows : Snapshotted[r] = AsRead(StateAt(snapshot_lsn)[r])

(* "for consumers that need the full current state before streaming        *)
(* incremental changes" (builder.rs): a start that goes on with a slot has *)
(* had its snapshot.  A start that failed after the slot was made leaves a *)
(* slot that every later one goes on with.                                 *)
SnapshotBeforeStream == phase = "resumed" => finished

(* "Extract as text representation" (builder.rs): the snapshot's events    *)
(* have the values of the rows, of whatever types their columns are.       *)
SnapshotIsText ==
    phase = "done" => \A i \in DOMAIN events : events[i].value = StateAt(view)[events[i].row]

S == INSTANCE Store WITH Events <- DOMAIN events,
                         LsnOf <- [i \in DOMAIN events |-> events[i].lsn],
                         XidOf <- [i \in DOMAIN events |-> events[i].xid]

(* The snapshot's events can "be fed into the same pipeline as streaming   *)
(* events" (builder.rs): stored like those, none of them is lost.          *)
SnapshotIsStored ==
    phase = "done" =>
        LET stored == S!Put(S!Empty, [i \in DOMAIN events |-> i])
        IN  \A i \in DOMAIN events : S!Holds(stored, i)
=============================================================================
