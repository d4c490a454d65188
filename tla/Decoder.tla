------------------------------ MODULE Decoder ------------------------------
(***************************************************************************)
(* PgOutputDecoder behind ReplicationStream::process_message: messages     *)
(* without table metadata are decoded with what an earlier Relation        *)
(* message left in the relations map.                                      *)
(*                                                                         *)
(* External: PostgreSQL's side of pgoutput.  It sends a table's Relation   *)
(* message before the first change of the table in a session and again     *)
(* after its definition changed; a new session starts with nothing sent.   *)
(* Messages are well formed, so the readers' bounds checks never fail.     *)
(*                                                                         *)
(* Version v of a table has the columns 1 .. v, each ALTER adds one.  The  *)
(* fingerprint's hash is taken to be free of collisions.                   *)
(*                                                                         *)
(*   schema     PostgreSQL: the current version of every table             *)
(*   sent       PostgreSQL: the version last sent in this session, or 0    *)
(*   xid        the transaction being sent, or None                        *)
(*   relations  PgOutputDecoder.relations: a version, or 0 if not there    *)
(*   change     the last data message, as it happened (history)            *)
(*   event      what decode returned for it: an event, None, or Failed     *)
(***************************************************************************)
EXTENDS Values, Integers, Sequences, FiniteSets

CONSTANTS
    Tables, Xids,
    Texts,                 \* column values in text format
    Null, Unchanged,       \* the column tags n and u
    MaxVersion             \* bound

(* Rows of cells, of every version. *)
Rows(Cells) == UNION {[1 .. v -> Cells] : v \in 1 .. MaxVersion}

Columns == [name : (Tables \cup {None}) \X (1 .. MaxVersion), type_oid : 0 .. MaxVersion,
            value : Texts \cup {None}]

Operations == {"Insert", "Update", "Delete", "Truncate"}

(* ChangeEvent, its fields as decode sets them. *)
ChangeEvents == [op : Operations, table : Tables, xid : {0},
              schema_fingerprint : Tables \X (1 .. MaxVersion),
              after : Rows(Columns) \cup {None}, before : Rows(Columns) \cup {None},
              commit_timestamp_us : {0}]

Changes == [op : Operations, tables : Seq(Tables), xid : Xids,
            old : Rows(Texts \cup {Null}) \cup {None},
            new : Rows(Texts \cup {Null, Unchanged}) \cup {None},
            version : Seq(1 .. MaxVersion)]

ASSUME DecoderAssumption ==
    /\ MaxVersion \in Nat \ {0}
    /\ Null \notin Texts /\ None \notin Xids
    /\ None \notin Rows(Columns) \cup Rows(Texts \cup {Null, Unchanged})
    /\ None \notin ChangeEvents \cup Changes /\ Failed \notin ChangeEvents \cup {None}

VARIABLES schema, sent, xid, relations, change, event

vars == <<schema, sent, xid, relations, change, event>>

Init ==
    /\ schema = [t \in Tables |-> 1]
    /\ sent = [t \in Tables |-> 0]
    /\ xid = None
    /\ relations = [t \in Tables |-> 0]
    /\ change = None /\ event = None

-----------------------------------------------------------------------------
(* The decoder *)

(* compute_fingerprint, from the table's name and columns. *)
Fingerprint(t) == <<t, relations[t]>>

(* decode_tuple_data: columns beyond the known ones are named by position. *)
DecodeTuple(t, tuple) ==
    [i \in DOMAIN tuple |->
        [name     |-> IF i <= relations[t] THEN <<t, i>> ELSE <<None, i>>,
         type_oid |-> IF i <= relations[t] THEN i ELSE 0,
         value    |-> IF tuple[i] \in Texts THEN tuple[i] ELSE None]]

(* The event of a data message; xid and timestamp are left 0. *)
MakeEvent(op, t, after, before) ==
    [op |-> op, table |-> t, xid |-> 0, schema_fingerprint |-> Fingerprint(t),
     after |-> after, before |-> before, commit_timestamp_us |-> 0]

DecodeInsert(t, new) ==
    IF relations[t] = 0 THEN Failed
    ELSE MakeEvent("Insert", t, DecodeTuple(t, new), None)

(* The old tuple is optional. *)
DecodeUpdate(t, old, new) ==
    IF relations[t] = 0 THEN Failed
    ELSE MakeEvent("Update", t, DecodeTuple(t, new),
                   IF old = None THEN None ELSE DecodeTuple(t, old))

DecodeDelete(t, old) ==
    IF relations[t] = 0 THEN Failed
    ELSE MakeEvent("Delete", t, None, DecodeTuple(t, old))

(* Only the first table of the message is looked at. *)
DecodeTruncate(ts) ==
    IF ts = <<>> \/ relations[ts[1]] = 0 THEN None
    ELSE MakeEvent("Truncate", ts[1], None, None)

-----------------------------------------------------------------------------
(* The stream *)

Alter(t) ==
    /\ schema[t] < MaxVersion
    /\ schema' = [schema EXCEPT ![t] = @ + 1]
    /\ UNCHANGED <<sent, xid, relations, change, event>>

Begin(x) ==
    /\ xid = None
    /\ xid' = x
    /\ UNCHANGED <<schema, sent, relations, change, event>>

Commit ==
    /\ xid # None
    /\ xid' = None
    /\ UNCHANGED <<schema, sent, relations, change, event>>

\* Fault: a table that is known is not updated.
Relation_KeepsFirst(t) ==
    /\ xid # None
    /\ sent[t] # schema[t]
    /\ sent' = [sent EXCEPT ![t] = schema[t]]
    /\ relations' = IF relations[t] = 0 THEN [relations EXCEPT ![t] = schema[t]]
                    ELSE relations
    /\ UNCHANGED <<schema, xid, change, event>>

\* Fault: one column too many is read.
Relation_ExtraColumn(t) ==
    /\ xid # None
    /\ sent[t] # schema[t]
    /\ sent' = [sent EXCEPT ![t] = schema[t]]
    /\ relations' = [relations EXCEPT ![t] = schema[t] + 1]
    /\ UNCHANGED <<schema, xid, change, event>>

(* decode_relation replaces what is known of the table. *)
Relation(t) ==
    /\ xid # None
    /\ sent[t] # schema[t]
    /\ sent' = [sent EXCEPT ![t] = schema[t]]
    /\ relations' = [relations EXCEPT ![t] = schema[t]]
    /\ UNCHANGED <<schema, xid, change, event>>

Announced(t) == xid # None /\ sent[t] = schema[t]

Tuples(t) == [1 .. schema[t] -> Texts \cup {Null, Unchanged}]
FullTuples(t) == [1 .. schema[t] -> Texts \cup {Null}]

Data(op, ts, old, new, result) ==
    /\ \A i \in DOMAIN ts : Announced(ts[i])
    /\ change' = [op |-> op, tables |-> ts, xid |-> xid, old |-> old, new |-> new,
                  version |-> [i \in DOMAIN ts |-> schema[ts[i]]]]
    /\ event' = result
    /\ UNCHANGED <<schema, sent, xid, relations>>

Insert(t) == \E new \in FullTuples(t) :
    Data("Insert", <<t>>, None, new, DecodeInsert(t, new))

Update(t) == \E old \in {None} \cup FullTuples(t), new \in Tuples(t) :
    Data("Update", <<t>>, old, new, DecodeUpdate(t, old, new))

Delete(t) == \E old \in FullTuples(t) :
    Data("Delete", <<t>>, old, None, DecodeDelete(t, old))

(* A message names each of its tables once. *)
TableLists == {ts \in UNION {[1 .. n -> Tables] : n \in 1 .. Cardinality(Tables)} :
                  \A i, j \in DOMAIN ts : ts[i] = ts[j] => i = j}

Truncate == \E ts \in TableLists :
    Data("Truncate", ts, None, None, DecodeTruncate(ts))

(* A new session, with the same ReplicationStream or a new one. *)
Reconnect ==
    /\ sent' = [t \in Tables |-> 0]
    /\ xid' = None
    /\ relations' \in {relations, [t \in Tables |-> 0]}
    /\ UNCHANGED <<schema, change, event>>

Next ==
    \/ \E t \in Tables :
          Alter(t) \/ Relation(t) \/ Insert(t) \/ Update(t) \/ Delete(t)
    \/ \E x \in Xids : Begin(x)
    \/ Truncate
    \/ Commit
    \/ Reconnect

Spec == Init /\ [][Next]_vars

-----------------------------------------------------------------------------
(* Properties *)

TypeOK ==
    /\ schema \in [Tables -> 1 .. MaxVersion]
    /\ sent \in [Tables -> 0 .. MaxVersion]
    /\ relations \in [Tables -> 0 .. MaxVersion]
    /\ xid \in Xids \cup {None}
    /\ change \in Changes \cup {None} /\ event \in ChangeEvents \cup {None, Failed}
    /\ (change = None) = (event = None)

(* A decoded row names the columns the table had when the row changed, and *)
(* has the values that were sent.                                          *)
RowMatches(row, tuple, t, version) ==
    /\ DOMAIN row = 1 .. version /\ DOMAIN tuple = 1 .. version
    /\ \A i \in 1 .. version :
          /\ row[i].name = <<t, i>> /\ row[i].type_oid = i
          /\ tuple[i] \in Texts => row[i].value = tuple[i]
          /\ tuple[i] = Null => row[i].value = None

RowDescribes(row, tuple, t, version) ==
    IF tuple = None THEN row = None ELSE row # None /\ RowMatches(row, tuple, t, version)

(* Every change of a row becomes an event that describes it: its           *)
(* operation, table, fingerprint and rows are those of the table's         *)
(* definition at the time of the change, across ALTERs and reconnects with *)
(* the map of relations kept or lost, and it has the rows that were sent   *)
(* and no other (pgoutput.rs decode_*, stream.rs).                         *)
EventDescribesChange ==
    change # None =>
        LET t == change.tables[1]
            v == change.version[1]
        IN  /\ event # Failed
            /\ event.op = change.op /\ event.table = t
            /\ event.schema_fingerprint = <<t, v>>
            /\ RowDescribes(event.after, change.new, t, v)
            /\ RowDescribes(event.before, change.old, t, v)

(* Statements of the source that its code does not keep.  No run checks    *)
(* them; TLC refutes each when it is named in the cfg.                     *)

(* "The transaction ID that produced this change" (envelope.rs).           *)
XidIsTransactions == change # None => event.xid = change.xid

(* "Emit one event per truncated table" (decode_truncate): decode returns  *)
(* one event, and no table of the message is without one.                  *)
TruncateReported ==
    (change # None /\ change.op = "Truncate") =>
        {event.table} = {change.tables[i] : i \in DOMAIN change.tables}

(* "marked as unchanged" (decode_tuple_data): a column whose value was not *)
(* sent can be told from one that is NULL.                                 *)
UnchangedIsMarked ==
    (change # None /\ change.new # None) =>
        \A i, j \in DOMAIN change.new :
            (change.new[i] = Unchanged /\ change.new[j] = Null) =>
                event.after[i].value # event.after[j].value
=============================================================================
