-------------------------------- MODULE Wire --------------------------------
(***************************************************************************)
(* The bytes an event is stored and sent as: encode_event and decode_event *)
(* of serialize::proto.                                                    *)
(*                                                                         *)
(* A buffer is a sequence of units: a number of fixed width is one unit, a *)
(* text as many as it is long.  The length of a text and of a list of      *)
(* columns is written with a fixed width, so it is taken modulo U16 or     *)
(* U32; PostgreSQL's limits on names, columns and values keep it below     *)
(* that.  With the lengths right, no reader meets the end of the buffer.   *)
(***************************************************************************)
EXTENDS Values, Integers, Sequences

CONSTANTS U16, U32   \* one more than the largest u16, u32

ASSUME WireAssumption == {U16, U32} \subseteq Nat \ {0}

OpByte == [Insert |-> "I", Update |-> "U", Delete |-> "D", Truncate |-> "T"]

ByteOp(b) == CHOOSE op \in DOMAIN OpByte : OpByte[op] = b

Text(s, limit) == <<Len(s) % limit>> \o s

\* Fault: no value is written as the empty text.
EncodeColumn_NullIsEmpty(c) ==
    Text(c.name, U16) \o <<c.type_oid, 1>> \o Text(IF c.value = None THEN <<>> ELSE c.value, U32)

EncodeColumn(c) ==
    Text(c.name, U16) \o <<c.type_oid>>
        \o (IF c.value = None THEN <<0>> ELSE <<1>> \o Text(c.value, U32))

(* The first n columns of a row, one after the other, for every n. *)
EncodeColumns(row) ==
    LET encoded[n \in 0 .. Len(row)] ==
            IF n = 0 THEN <<>> ELSE encoded[n - 1] \o EncodeColumn(row[n])
    IN  encoded

EncodeRow(row) ==
    IF row = None THEN <<0>>
    ELSE <<1, Len(row) % U16>> \o EncodeColumns(row)[Len(row)]

EncodeEvent(e) ==
    <<e.lsn, e.xid, OpByte[e.op]>>
        \o Text(e.table.schema, U16) \o Text(e.table.table, U16)
        \o <<e.schema_fingerprint, e.commit_timestamp_us>>
        \o EncodeRow(e.after) \o EncodeRow(e.before)

-----------------------------------------------------------------------------
(* Reading: what is read at pos, and the position after it. *)

ReadText(data, pos) ==
    [text |-> SubSeq(data, pos + 1, pos + data[pos]), pos |-> pos + 1 + data[pos]]

ReadColumn(data, pos) ==
    LET name == ReadText(data, pos)
        flag == name.pos + 1
        value == ReadText(data, flag + 1)
        column(v) == [name |-> name.text, type_oid |-> data[name.pos], value |-> v]
    IN  IF data[flag] = 0 THEN [column |-> column(None), pos |-> flag + 1]
        ELSE [column |-> column(value.text), pos |-> value.pos]

(* What is read after n of count columns, for every n. *)
ReadColumns(data, pos, count) ==
    LET next(acc) == LET c == ReadColumn(data, acc.pos)
                     IN  [row |-> Append(acc.row, c.column), pos |-> c.pos]
        read[n \in 0 .. count] ==
            IF n = 0 THEN [row |-> <<>>, pos |-> pos] ELSE next(read[n - 1])
    IN  read

(* A buffer that ends before a row has none. *)
DecodeRow(data, pos) ==
    IF pos > Len(data) THEN [row |-> None, pos |-> pos]
    ELSE IF data[pos] = 0 THEN [row |-> None, pos |-> pos + 1]
    ELSE ReadColumns(data, pos + 2, data[pos + 1])[data[pos + 1]]

DecodeEvent(data) ==
    LET schema == ReadText(data, 4)
        table == ReadText(data, schema.pos)
        after == DecodeRow(data, table.pos + 2)
        before == DecodeRow(data, after.pos)
    IN  IF Len(data) < 4 \/ data[3] \notin {OpByte[op] : op \in DOMAIN OpByte} THEN Failed
        ELSE [lsn |-> data[1], xid |-> data[2], op |-> ByteOp(data[3]),
              table |-> [schema |-> schema.text, table |-> table.text],
              schema_fingerprint |-> data[table.pos],
              commit_timestamp_us |-> data[table.pos + 1],
              after |-> after.row, before |-> before.row]
=============================================================================
