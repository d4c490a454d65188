---------------------------- MODULE StreamProofs ----------------------------
(***************************************************************************)
(* The replication stream, for all tables, versions and rows, every        *)
(* sequence of DDL messages and drains, and every rate, burst and          *)
(* resolution of the clock: the decoder, the handler of DDL messages and   *)
(* the throttle each keep an invariant of their own, and so the stream of  *)
(* the three keeps all of them.                                            *)
(***************************************************************************)
EXTENDS ReplicationStream, TLAPS

-----------------------------------------------------------------------------
(* The decoder *)

(* What PostgreSQL takes the decoder to know, the decoder knows; the       *)
(* converse fails when a session ends and the map is kept.                 *)
Known == \A t \in Tables : sent[t] # 0 => relations[t] = sent[t]

DecoderInv == TypeOK /\ Known /\ EventDescribesChange

(* Rows and events that the decoder makes of an announced table. *)
LEMMA DecodedRow ==
    ASSUME TypeOK, Known, NEW t \in Tables, Announced(t),
           NEW tuple \in [1 .. schema[t] -> Texts \cup {Null, Unchanged}]
    PROVE  /\ RowDescribes(DecodeTuple(t, tuple), tuple, t, schema[t])
           /\ DecodeTuple(t, tuple) \in Rows(Columns)
<1> DEFINE v == schema[t]
           row == DecodeTuple(t, tuple)
<1>1. v \in 1 .. MaxVersion /\ relations[t] = v /\ MaxVersion \in Nat /\ Null \notin Texts
  BY DecoderAssumption DEF TypeOK, Known, Announced
<1>2. row = [i \in 1 .. v |-> [name |-> <<t, i>>, type_oid |-> i,
                               value |-> IF tuple[i] \in Texts THEN tuple[i] ELSE None]]
  <2>1. DOMAIN tuple = 1 .. v /\ \A i \in 1 .. v : i <= relations[t]
    BY <1>1
  <2> QED  BY <2>1, Zenon DEF DecodeTuple
<1> HIDE DEF row, v
<1>3. ASSUME NEW i \in 1 .. v
      PROVE  /\ row[i].name = <<t, i>> /\ row[i].type_oid = i
             /\ tuple[i] \in Texts => row[i].value = tuple[i]
             /\ tuple[i] = Null => row[i].value = None
             /\ row[i] \in Columns
  <2>1. i \in 1 .. MaxVersion
    BY <1>1
  <2>2. row[i] = [name |-> <<t, i>>, type_oid |-> i,
                  value |-> IF tuple[i] \in Texts THEN tuple[i] ELSE None]
    BY <1>2
  <2>3. row[i] \in Columns
    BY <2>1, <2>2 DEF Columns
  <2> QED  BY <1>1, <2>2, <2>3
<1>4. row \in [1 .. v -> Columns] /\ DOMAIN row = 1 .. v
  BY <1>2, <1>3
<1>5. row \in Rows(Columns)
  BY <1>1, <1>4 DEF Rows
<1>6. RowMatches(row, tuple, t, v)
  <2>1. DOMAIN tuple = 1 .. v
    BY Zenon DEF v
  <2> QED  BY <1>3, <1>4, <2>1 DEF RowMatches
<1>7. tuple \in Rows(Texts \cup {Null, Unchanged})
  BY <1>1, Zenon DEF Rows, v
<1>8. tuple # None /\ row # None
  BY <1>5, <1>7, DecoderAssumption, Zenon
<1> QED  BY <1>5, <1>6, <1>8, Zenon DEF RowDescribes, row, v

(* A step that decodes nothing. *)
LEMMA OtherMessages ==
    ASSUME DecoderInv, UNCHANGED <<change, event>>,
           \/ \E t \in Tables : Alter(t) \/ Relation(t)
           \/ \E x \in Xids : Begin(x)
           \/ Commit \/ Reconnect \/ UNCHANGED vars
    PROVE  DecoderInv'
<1>1. /\ schema \in [Tables -> 1 .. MaxVersion] /\ sent \in [Tables -> 0 .. MaxVersion]
      /\ relations \in [Tables -> 0 .. MaxVersion] /\ xid \in Xids \cup {None}
      /\ MaxVersion \in Nat /\ Known
  BY DecoderAssumption DEF DecoderInv, TypeOK
<1>2. /\ schema' \in [Tables -> 1 .. MaxVersion] /\ sent' \in [Tables -> 0 .. MaxVersion]
      /\ relations' \in [Tables -> 0 .. MaxVersion] /\ xid' \in Xids \cup {None}
      /\ Known'
  <2>1. CASE \E t \in Tables : Alter(t)
    <3>1. PICK t \in Tables : Alter(t)
      BY <2>1
    <3>2. schema[t] \in 1 .. MaxVersion /\ schema[t] < MaxVersion
      BY <1>1, <3>1 DEF Alter
    <3>3. schema[t] + 1 \in 1 .. MaxVersion
      BY <1>1, <3>2
    <3> QED  BY <1>1, <3>1, <3>3 DEF Alter, Known
  <2>2. CASE \E t \in Tables : Relation(t)
    <3>1. PICK t \in Tables : Relation(t)
      BY <2>2
    <3>2. schema[t] \in 0 .. MaxVersion
      BY <1>1
    <3> QED  BY <1>1, <3>1, <3>2 DEF Relation, Known
  <2>3. CASE \E x \in Xids : Begin(x)
    BY <1>1, <2>3 DEF Begin, Known
  <2>4. CASE Commit \/ UNCHANGED vars
    BY <1>1, <2>4 DEF Commit, Known, vars
  <2>5. CASE Reconnect
    BY <1>1, <2>5 DEF Reconnect, Known
  <2> QED  BY <2>1, <2>2, <2>3, <2>4, <2>5
<1>3. EventDescribesChange'
  BY Zenon DEF DecoderInv, EventDescribesChange, RowDescribes, RowMatches
<1> QED  BY <1>2, <1>3 DEF DecoderInv, TypeOK

(* A data message whose event describes it. *)
LEMMA DataStep ==
    ASSUME DecoderInv, NEW op \in Operations, NEW ts \in Seq(Tables), ts # <<>>,
           NEW old \in Rows(Texts \cup {Null}) \cup {None},
           NEW new \in Rows(Texts \cup {Null, Unchanged}) \cup {None},
           NEW e \in ChangeEvents, Data(op, ts, old, new, e),
           e.op = op, e.table = ts[1], e.schema_fingerprint = <<ts[1], schema[ts[1]]>>,
           RowDescribes(e.after, new, ts[1], schema[ts[1]]),
           RowDescribes(e.before, old, ts[1], schema[ts[1]])
    PROVE  DecoderInv'
<1> DEFINE version == [i \in DOMAIN ts |-> schema[ts[i]]]
           c == [op |-> op, tables |-> ts, xid |-> xid, old |-> old, new |-> new,
                 version |-> version]
<1>1. change' = c /\ event' = e /\ UNCHANGED <<schema, sent, xid, relations>>
  BY ZenonT(60) DEF Data
<1>2. 1 \in DOMAIN ts /\ ts[1] \in Tables /\ version[1] = schema[ts[1]]
  BY SMTT(30)
<1>3. xid \in Xids
  BY <1>2, SMTT(30) DEF Data, Announced, DecoderInv, TypeOK
<1>4. version \in Seq(1 .. MaxVersion)
  <2>1. DOMAIN ts = 1 .. Len(ts) /\ Len(ts) \in Nat
    OBVIOUS
  <2>2. \A i \in 1 .. Len(ts) : schema[ts[i]] \in 1 .. MaxVersion
    BY <2>1, SMTT(30) DEF DecoderInv, TypeOK
  <2> QED  BY <2>1, <2>2, SMTT(30)
<1> HIDE DEF version
<1>5. c \in Changes
  BY <1>3, <1>4, Zenon DEF Changes
<1>6. c # None /\ e # None /\ e # Failed
  BY <1>5, DecoderAssumption
<1>7. TypeOK' /\ Known'
  BY <1>1, <1>5, <1>6, SMTT(30) DEF DecoderInv, TypeOK, Known
<1>8. EventDescribesChange'
  <2>1. /\ change'.tables[1] = ts[1] /\ change'.version[1] = schema[ts[1]]
        /\ change'.op = op /\ change'.new = new /\ change'.old = old
    BY <1>1, <1>2, Zenon
  <2>2. /\ RowDescribes(event'.after, new, ts[1], schema[ts[1]])
        /\ RowDescribes(event'.before, old, ts[1], schema[ts[1]])
    BY <1>1, Zenon
  <2> HIDE DEF c
  <2>3. /\ RowDescribes(event'.after, change'.new, change'.tables[1], change'.version[1])
        /\ RowDescribes(event'.before, change'.old, change'.tables[1], change'.version[1])
    BY <2>1, <2>2, Zenon
  <2>4. /\ event' # Failed /\ event'.op = change'.op /\ event'.table = change'.tables[1]
        /\ event'.schema_fingerprint = <<change'.tables[1], change'.version[1]>>
    BY <1>1, <1>6, <2>1, Zenon
  <2> QED  BY <2>3, <2>4, Zenon DEF EventDescribesChange, RowDescribes, RowMatches
<1> QED  BY <1>7, <1>8, ZenonT(60) DEF DecoderInv

(* Every message of the stream keeps the invariant. *)
LEMMA DecoderStep == DecoderInv /\ [Next]_vars => DecoderInv'
<1> SUFFICES ASSUME DecoderInv, [Next]_vars PROVE DecoderInv'
  OBVIOUS
<1>0. TypeOK /\ Known /\ MaxVersion \in Nat
  BY DecoderAssumption DEF DecoderInv
<1>k. ASSUME NEW t \in Tables, Announced(t)
      PROVE  /\ schema[t] \in 1 .. MaxVersion /\ relations[t] = schema[t] /\ relations[t] # 0
             /\ Fingerprint(t) = <<t, schema[t]>>
             /\ Fingerprint(t) \in Tables \X (1 .. MaxVersion)
             /\ FullTuples(t) \subseteq Tuples(t)
             /\ FullTuples(t) \subseteq Rows(Texts \cup {Null})
             /\ Tuples(t) \subseteq Rows(Texts \cup {Null, Unchanged})
             /\ <<t>> \in Seq(Tables) /\ <<t>> # <<>> /\ <<t>>[1] = t
  <2>1. schema[t] \in 1 .. MaxVersion /\ relations[t] = schema[t] /\ relations[t] # 0
    BY <1>0, <1>k DEF TypeOK, Known, Announced
  <2>2. /\ FullTuples(t) \subseteq Tuples(t)
        /\ FullTuples(t) \subseteq Rows(Texts \cup {Null})
        /\ Tuples(t) \subseteq Rows(Texts \cup {Null, Unchanged})
    BY <2>1 DEF FullTuples, Tuples, Rows
  <2>3. <<t>> \in Seq(Tables) /\ <<t>> # <<>> /\ <<t>>[1] = t
    BY SMTT(30)
  <2> QED  BY <2>1, <2>2, <2>3 DEF Fingerprint
<1>1. ASSUME NEW t \in Tables, Insert(t) PROVE DecoderInv'
  <2>1. PICK new \in FullTuples(t) :
            Data("Insert", <<t>>, None, new, DecodeInsert(t, new))
    BY <1>1 DEF Insert
  <2>2. Announced(t)
    BY <2>1 DEF Data
  <2> DEFINE e == DecodeInsert(t, new)
             row == DecodeTuple(t, new)
  <2>3. new \in Tuples(t) /\ new \in Rows(Texts \cup {Null, Unchanged})
    BY <1>k, <2>1, <2>2
  <2>4. RowDescribes(row, new, t, schema[t]) /\ row \in Rows(Columns)
    BY <1>0, <2>2, <2>3, DecodedRow DEF Tuples
  <2>5. e = [op |-> "Insert", table |-> t, xid |-> 0, schema_fingerprint |-> Fingerprint(t),
             after |-> row, before |-> None, commit_timestamp_us |-> 0]
    BY <1>k, <2>2 DEF DecodeInsert, MakeEvent
  <2> HIDE DEF e, row
  <2>6. e \in ChangeEvents /\ "Insert" \in Operations
    BY <1>k, <2>2, <2>4, <2>5 DEF ChangeEvents, Operations
  <2>7. /\ e.op = "Insert" /\ e.table = t /\ e.schema_fingerprint = <<t, schema[t]>>
        /\ e.after = row /\ RowDescribes(e.before, None, t, schema[t])
    BY <1>k, <2>2, <2>5 DEF RowDescribes
  <2>8. Data("Insert", <<t>>, None, new, e)
    BY <2>1, SMTT(30) DEF e
  <2> QED  BY <1>k, <2>2, <2>3, <2>4, <2>6, <2>7, <2>8, DataStep, Zenon
<1>2. ASSUME NEW t \in Tables, Update(t) PROVE DecoderInv'
  <2>1. PICK old \in {None} \cup FullTuples(t), new \in Tuples(t) :
            Data("Update", <<t>>, old, new, DecodeUpdate(t, old, new))
    BY <1>2 DEF Update
  <2>2. Announced(t)
    BY <2>1 DEF Data
  <2> DEFINE e == DecodeUpdate(t, old, new)
             row == DecodeTuple(t, new)
             was == DecodeTuple(t, old)
  <2>3. /\ new \in Rows(Texts \cup {Null, Unchanged})
        /\ old \in Rows(Texts \cup {Null}) \cup {None}
        /\ old # None => old \in Tuples(t)
    BY <1>k, <2>1, <2>2, Zenon
  <2>4. RowDescribes(row, new, t, schema[t]) /\ row \in Rows(Columns)
    BY <1>0, <2>1, <2>2, DecodedRow DEF Tuples
  <2>5. old # None => RowDescribes(was, old, t, schema[t]) /\ was \in Rows(Columns)
    BY <1>0, <2>2, <2>3, DecodedRow DEF Tuples
  <2>6. e = [op |-> "Update", table |-> t, xid |-> 0, schema_fingerprint |-> Fingerprint(t),
             after |-> row, before |-> IF old = None THEN None ELSE was,
             commit_timestamp_us |-> 0]
    BY <1>k, <2>2 DEF DecodeUpdate, MakeEvent
  <2> HIDE DEF e, row, was
  <2>7. e \in ChangeEvents /\ "Update" \in Operations
    BY <1>k, <2>2, <2>4, <2>5, <2>6 DEF ChangeEvents, Operations
  <2>8. /\ e.op = "Update" /\ e.table = t /\ e.schema_fingerprint = <<t, schema[t]>>
        /\ e.after = row /\ RowDescribes(e.before, old, t, schema[t])
    BY <1>k, <2>2, <2>5, <2>6 DEF RowDescribes
  <2>9. Data("Update", <<t>>, old, new, e)
    BY <2>1, SMTT(30) DEF e
  <2> QED  BY <1>k, <2>2, <2>3, <2>4, <2>5, <2>7, <2>8, <2>9, DataStep, ZenonT(60)
<1>3. ASSUME NEW t \in Tables, Delete(t) PROVE DecoderInv'
  <2>1. PICK old \in FullTuples(t) :
            Data("Delete", <<t>>, old, None, DecodeDelete(t, old))
    BY <1>3 DEF Delete
  <2>2. Announced(t)
    BY <2>1 DEF Data
  <2> DEFINE e == DecodeDelete(t, old)
             was == DecodeTuple(t, old)
  <2>3. old \in Tuples(t) /\ old \in Rows(Texts \cup {Null})
    BY <1>k, <2>1, <2>2, Zenon
  <2>4. RowDescribes(was, old, t, schema[t]) /\ was \in Rows(Columns)
    BY <1>0, <2>2, <2>3, DecodedRow DEF Tuples
  <2>5. e = [op |-> "Delete", table |-> t, xid |-> 0, schema_fingerprint |-> Fingerprint(t),
             after |-> None, before |-> was, commit_timestamp_us |-> 0]
    BY <1>k, <2>2 DEF DecodeDelete, MakeEvent
  <2> HIDE DEF e, was
  <2>6. e \in ChangeEvents /\ "Delete" \in Operations
    BY <1>k, <2>2, <2>4, <2>5 DEF ChangeEvents, Operations
  <2>7. /\ e.op = "Delete" /\ e.table = t /\ e.schema_fingerprint = <<t, schema[t]>>
        /\ e.before = was /\ RowDescribes(e.after, None, t, schema[t])
    BY <1>k, <2>2, <2>5 DEF RowDescribes
  <2>8. Data("Delete", <<t>>, old, None, e)
    BY <2>1, SMTT(30) DEF e
  <2> QED  BY <1>k, <2>2, <2>3, <2>4, <2>6, <2>7, <2>8, DataStep, Zenon
<1>4. CASE Truncate
  <2>1. PICK ts \in TableLists : Data("Truncate", ts, None, None, DecodeTruncate(ts))
    BY <1>4 DEF Truncate
  <2>2. PICK n \in 1 .. Cardinality(Tables) : ts \in [1 .. n -> Tables]
    BY <2>1 DEF TableLists
  <2>3. n \in Nat \ {0}
    BY <2>2
  <2>4. ts \in Seq(Tables) /\ ts # <<>> /\ ts[1] \in Tables /\ 1 \in DOMAIN ts
    BY <2>2, <2>3
  <2>5. Announced(ts[1])
    BY <2>1, <2>4 DEF Data
  <2> DEFINE e == DecodeTruncate(ts)
  <2>6. e = [op |-> "Truncate", table |-> ts[1], xid |-> 0,
             schema_fingerprint |-> Fingerprint(ts[1]),
             after |-> None, before |-> None, commit_timestamp_us |-> 0]
    BY <1>k, <2>4, <2>5 DEF DecodeTruncate, MakeEvent
  <2> HIDE DEF e
  <2>7. e \in ChangeEvents /\ "Truncate" \in Operations
    BY <1>k, <2>4, <2>5, <2>6 DEF ChangeEvents, Operations
  <2>8. /\ e.op = "Truncate" /\ e.table = ts[1]
        /\ e.schema_fingerprint = <<ts[1], schema[ts[1]]>>
        /\ RowDescribes(e.after, None, ts[1], schema[ts[1]])
        /\ RowDescribes(e.before, None, ts[1], schema[ts[1]])
    BY <1>k, <2>4, <2>5, <2>6 DEF RowDescribes
  <2>9. Data("Truncate", ts, None, None, e)
    BY <2>1 DEF e
  <2> QED  BY <2>4, <2>7, <2>8, <2>9, DataStep, Zenon
<1>5. CASE \/ \E t \in Tables : Alter(t) \/ Relation(t)
           \/ \E x \in Xids : Begin(x)
           \/ Commit \/ Reconnect \/ UNCHANGED vars
  <2>1. UNCHANGED <<change, event>>
    BY <1>5 DEF Alter, Relation, Begin, Commit, Reconnect, vars
  <2> QED  BY <1>5, <2>1, OtherMessages
<1> QED  BY <1>1, <1>2, <1>3, <1>4, <1>5 DEF Next

LEMMA DecoderStart == Init => DecoderInv
<1> SUFFICES ASSUME Init PROVE DecoderInv
  OBVIOUS
<1>1. 1 \in 1 .. MaxVersion /\ 0 \in 0 .. MaxVersion
  BY DecoderAssumption
<1> QED  BY <1>1 DEF Init, DecoderInv, TypeOK, Known, EventDescribesChange

(* Every change becomes an event with the operation, table, fingerprint    *)
(* and columns of the table's definition at the time, through any number   *)
(* of ALTERs and reconnects, with the relations map kept or lost.          *)
THEOREM EventDescribesChangeHolds == Spec => []EventDescribesChange
<1>1. DecoderInv => EventDescribesChange
  BY DEF DecoderInv
<1> QED  BY <1>1, DecoderStart, DecoderStep, PTL DEF Spec

-----------------------------------------------------------------------------
(* The handler of DDL messages *)

(* A message comes after the drains before it, and no drain since has      *)
(* reached a change that is pending.                                       *)
Ordered ==
    \A j \in 1 .. Len(messages) :
        /\ messages[j].after <= Len(drains)
        /\ \A i \in 1 .. j : messages[i].after <= messages[j].after

Waiting ==
    \A i \in pending : \A k \in messages[i].after + 1 .. Len(drains) :
        drains[k].lsn < messages[i].lsn

(* What DdlTakenOnce says of one message. *)
Taken(i) ==
    /\ \A k \in 1 .. Len(drains) : i \in drains[k].returned <=> Due(i) /\ FirstReaching(i, k)
    /\ i \in pending <=> Due(i) /\ \A k \in 1 .. Len(drains) : i \notin drains[k].returned

DdlInv == DdlTypeOK /\ Ordered /\ Waiting /\ \A i \in 1 .. Len(messages) : Taken(i)

(* A sequence, and a sequence with one more element. *)
LEMMA Elements ==
    ASSUME NEW S, NEW seq \in Seq(S)
    PROVE  /\ Len(seq) \in Nat /\ DOMAIN seq = 1 .. Len(seq)
           /\ \A i \in 1 .. Len(seq) : seq[i] \in S
  OBVIOUS

LEMMA OneMore ==
    ASSUME NEW S, NEW seq \in Seq(S), NEW x \in S
    PROVE  /\ Append(seq, x) \in Seq(S) /\ Len(seq) \in Nat
           /\ Len(Append(seq, x)) = Len(seq) + 1
           /\ \A i \in 1 .. Len(seq) : Append(seq, x)[i] = seq[i]
           /\ Append(seq, x)[Len(seq) + 1] = x
  OBVIOUS

LEMMA InLarger ==
    ASSUME NEW S, NEW T, NEW seq \in Seq(S), \A i \in 1 .. Len(seq) : seq[i] \in T
    PROVE  seq \in Seq(T)
  OBVIOUS

LEMMA DdlTypes ==
    ASSUME DdlTypeOK
    PROVE  /\ Len(messages) \in Nat /\ DOMAIN messages = 1 .. Len(messages)
           /\ Len(drains) \in Nat /\ DOMAIN drains = 1 .. Len(drains)
           /\ \A i \in 1 .. Len(messages) :
                 messages[i] \in Message /\ messages[i].lsn \in Nat /\ messages[i].after \in Nat
           /\ \A k \in 1 .. Len(drains) :
                 drains[k].lsn \in Nat /\ drains[k].returned \subseteq 1 .. Len(messages)
<1> DEFINE R == [lsn : Lsns, returned : SUBSET (1 .. Len(messages))]
<1>1. messages \in Seq(Message) /\ drains \in Seq(R)
  BY DEF DdlTypeOK
<1>2. \A m \in Message : m.lsn \in Nat /\ m.after \in Nat
  BY DdlAssumption DEF Message
<1>3. \A x \in R : x.lsn \in Nat /\ x.returned \subseteq 1 .. Len(messages)
  BY DdlAssumption
<1> HIDE DEF R
<1>4. /\ Len(messages) \in Nat /\ DOMAIN messages = 1 .. Len(messages)
      /\ \A i \in 1 .. Len(messages) : messages[i] \in Message
  BY <1>1, Elements
<1>5. /\ Len(drains) \in Nat /\ DOMAIN drains = 1 .. Len(drains)
      /\ \A k \in 1 .. Len(drains) : drains[k] \in R
  BY <1>1, Elements
<1> QED  BY <1>2, <1>3, <1>4, <1>5, Zenon

(* handle_ddl_message: of the messages before, nothing changes; the new    *)
(* one has met no drain yet.                                               *)
LEMMA MessageStep ==
    ASSUME DdlInv, NEW lsn \in Lsns, NEW content \in Contents, HandleDdlMessage(lsn, content)
    PROVE  DdlInv'
<1>n. PICK n \in Nat : n = Len(messages)
  BY DdlTypes DEF DdlInv
<1> DEFINE m == [lsn |-> lsn, content |-> content, monitored |-> monitored_tables,
                 after |-> Len(drains)]
<1>t. DdlTypeOK
  BY DEF DdlInv
<1>0. /\ n \in Nat /\ DOMAIN messages = 1 .. n
      /\ Len(drains) \in Nat /\ DOMAIN drains = 1 .. Len(drains)
      /\ \A i \in 1 .. n :
            messages[i] \in Message /\ messages[i].lsn \in Nat /\ messages[i].after \in Nat
      /\ \A k \in 1 .. Len(drains) :
            drains[k].lsn \in Nat /\ drains[k].returned \subseteq 1 .. n
  BY <1>t, <1>n, DdlTypes
<1>1. /\ messages' = Append(messages, m) /\ n + Len(drains) < MaxCalls
      /\ pending' = IF IsMonitored(ParseDdlMessage(content)) THEN pending \cup {n + 1} ELSE pending
      /\ UNCHANGED <<monitored_tables, drains>>
  BY <1>n DEF HandleDdlMessage, MayCall
<1>2. m \in Message /\ messages \in Seq(Message) /\ pending \subseteq 1 .. n
  BY <1>t, <1>n, <1>0 DEF Message, DdlTypeOK
<1>3. /\ messages' \in Seq(Message) /\ Len(messages') = n + 1
      /\ \A i \in 1 .. n : messages'[i] = messages[i]
      /\ messages'[n + 1] = m
  <2> HIDE DEF m
  <2> QED  BY <1>n, <1>1, <1>2, OneMore
<1>4. DdlTypeOK'
  <2>1. drains' \in Seq([lsn : Lsns, returned : SUBSET (1 .. n + 1)])
    <3> DEFINE R == [lsn : Lsns, returned : SUBSET (1 .. n)]
               T == [lsn : Lsns, returned : SUBSET (1 .. n + 1)]
    <3>1. drains \in Seq(R)
      BY <1>n, <1>t DEF DdlTypeOK
    <3>2. \A x \in R : x \in T
      BY <1>0
    <3> HIDE DEF R, T
    <3>3. \A k \in 1 .. Len(drains) : drains[k] \in T
      BY <3>1, <3>2, Elements
    <3>4. drains \in Seq(T)
      BY <3>1, <3>3, InLarger
    <3> QED  BY <1>1, <3>4 DEF T
  <2>2. pending' \subseteq 1 .. n + 1 /\ n + 1 + Len(drains) <= MaxCalls
    BY <1>0, <1>1, <1>2, DdlAssumption
  <2> QED  BY <1>1, <1>3, <1>t, <2>1, <2>2 DEF DdlTypeOK
<1>5. m.after = Len(drains) /\ m.content = content /\ m.monitored = monitored_tables
  OBVIOUS
<1> HIDE DEF m
<1>6. Ordered'
  BY <1>n, <1>0, <1>1, <1>3, <1>5 DEF DdlInv, Ordered
<1>7. Waiting'
  <2>1. pending' \subseteq pending \cup {n + 1}
    BY <1>1
  <2>2. \A k \in messages'[n + 1].after + 1 .. Len(drains') : FALSE
    BY <1>0, <1>1, <1>3, <1>5
  <2>3. \A i \in pending : messages'[i] = messages[i] /\ i \in 1 .. n
    BY <1>2, <1>3
  <2> QED  BY <1>1, <2>1, <2>2, <2>3 DEF DdlInv, Waiting
<1>8. ASSUME NEW i \in 1 .. n PROVE Taken(i)'
  <2>1. messages'[i] = messages[i] /\ drains' = drains
    BY <1>1, <1>3
  <2>2. Due(i)' <=> Due(i)
    BY <2>1 DEF Due
  <2>3. \A k : FirstReaching(i, k)' <=> FirstReaching(i, k)
    BY <2>1 DEF FirstReaching
  <2>4. i \in pending' <=> i \in pending
    BY <1>0, <1>1
  <2> QED  BY <1>n, <2>1, <2>2, <2>3, <2>4, Zenon DEF DdlInv, Taken
<1>9. ASSUME NEW new, new = n + 1 PROVE Taken(new)'
  <2>1. \A k \in 1 .. Len(drains) : new \notin drains[k].returned
    BY <1>9, <1>0
  <2>2. \A k \in 1 .. Len(drains) : ~FirstReaching(new, k)'
    <3>1. \A k \in 1 .. Len(drains) : ~(k > messages'[new].after)
      BY <1>9, <1>0, <1>3, <1>5
    <3> QED  BY <3>1 DEF FirstReaching
  <2>3. Due(new)' <=> IsMonitored(ParseDdlMessage(content))
    <3>1. /\ messages'[new].content = content
          /\ messages'[new].monitored = monitored_tables
      BY <1>9, <1>3, <1>5
    <3>2. CASE Len(content) < 3
      BY <3>1, <3>2 DEF Due, IsMonitored, ParseDdlMessage
    <3>3. CASE ~(Len(content) < 3)
      <4>1. ParseDdlMessage(content) = <<content[2]>>
        BY <3>3 DEF ParseDdlMessage
      <4>2. <<content[2]>> # <<>> /\ <<content[2]>>[1] = content[2]
        OBVIOUS
      <4> QED  BY <3>1, <3>3, <4>1, <4>2 DEF Due, IsMonitored
    <3> QED  BY <3>2, <3>3
  <2>4. new \in pending' <=> IsMonitored(ParseDdlMessage(content))
    BY <1>9, <1>0, <1>1, <1>2
  <2> QED  BY <1>1, <2>1, <2>2, <2>3, <2>4, Zenon DEF Taken
<1>10. \A i \in 1 .. Len(messages') : Taken(i)'
  <2>1. \A i \in 1 .. n + 1 : i \in 1 .. n \/ i = n + 1
    BY <1>n
  <2> QED  BY <1>3, <1>8, <1>9, <2>1, Zenon
<1> QED  BY <1>4, <1>6, <1>7, <1>10 DEF DdlInv

(* drain_up_to: a pending change that is reached is reached for the first  *)
(* time, and any other one was taken by an earlier drain that did.         *)
LEMMA DrainStep == ASSUME DdlInv, NEW lsn \in Lsns, DrainUpTo(lsn) PROVE DdlInv'
<1>n. PICK n \in Nat, d \in Nat : n = Len(messages) /\ d = Len(drains)
  BY DdlTypes DEF DdlInv
<1> DEFINE x == [lsn |-> lsn, returned |-> Ready(lsn)]
           R == [lsn : Lsns, returned : SUBSET (1 .. n)]
<1>t. DdlTypeOK
  BY DEF DdlInv
<1>0. /\ n \in Nat /\ d \in Nat
      /\ \A i \in 1 .. n : messages[i].lsn \in Nat /\ messages[i].after \in Nat
      /\ \A k \in 1 .. d : drains[k].lsn \in Nat /\ drains[k].returned \subseteq 1 .. n
      /\ lsn \in Nat
  BY <1>t, <1>n, DdlTypes, DdlAssumption
<1>1. /\ drains' = Append(drains, x) /\ n + d < MaxCalls /\ pending' = pending \ Ready(lsn)
      /\ UNCHANGED <<monitored_tables, messages>>
  BY <1>n DEF DrainUpTo, MayCall, Remaining
<1>2. x \in R /\ drains \in Seq(R) /\ pending \subseteq 1 .. n
  BY <1>n, <1>t DEF DdlTypeOK, Ready
<1>3. /\ drains' \in Seq(R) /\ Len(drains') = d + 1
      /\ \A k \in 1 .. d : drains'[k] = drains[k]
      /\ drains'[d + 1] = x
  <2> HIDE DEF x, R
  <2> QED  BY <1>n, <1>1, <1>2, OneMore
<1>4. DdlTypeOK'
  <2>1. n + (d + 1) <= MaxCalls
    BY <1>0, <1>1, DdlAssumption
  <2> QED  BY <1>n, <1>1, <1>2, <1>3, <1>t, <2>1 DEF DdlTypeOK
<1>5. x.lsn = lsn /\ x.returned = {i \in pending : messages[i].lsn <= lsn}
  BY DEF Ready
<1> HIDE DEF x, R
<1>6. Ordered'
  BY <1>n, <1>0, <1>1, <1>3 DEF DdlInv, Ordered
<1>7. \A i \in pending' : i \in pending /\ ~(messages[i].lsn <= lsn)
  BY <1>1 DEF Ready
<1>8. Waiting'
  <2> SUFFICES ASSUME NEW i \in pending', NEW k \in messages[i].after + 1 .. d + 1
               PROVE  drains'[k].lsn < messages[i].lsn
    BY <1>1, <1>3 DEF Waiting
  <2>1. i \in pending /\ i \in 1 .. n /\ ~(messages[i].lsn <= lsn)
    BY <1>2, <1>7
  <2>2. CASE k = d + 1
    BY <1>0, <1>3, <1>5, <2>1, <2>2
  <2>3. CASE k # d + 1
    <3>1. k \in 1 .. d /\ k \in messages[i].after + 1 .. d
      BY <1>0, <2>1, <2>3
    <3> QED  BY <1>n, <1>3, <2>1, <3>1 DEF DdlInv, Waiting
  <2> QED  BY <2>2, <2>3
<1>9. ASSUME NEW i \in 1 .. n PROVE Taken(i)'
  <2>0. PICK new \in Nat : new = d + 1
    BY <1>0
  <2>1. Taken(i)
    BY <1>n DEF DdlInv
  <2>2. Due(i)' <=> Due(i)
    BY <1>1 DEF Due
  <2>3. \A k \in 1 .. d : FirstReaching(i, k)' <=> FirstReaching(i, k)
    <3> SUFFICES ASSUME NEW k \in 1 .. d
                 PROVE  FirstReaching(i, k)' <=> FirstReaching(i, k)
      OBVIOUS
    <3>1. \A h \in messages[i].after + 1 .. k - 1 : drains'[h] = drains[h]
      <4>1. messages[i].after \in Nat
        BY <1>0
      <4>2. \A h \in messages[i].after + 1 .. k - 1 : h \in 1 .. d
        BY <1>n, <4>1
      <4> QED  BY <1>3, <4>2, Zenon
    <3>2. drains'[k] = drains[k] /\ messages' = messages
      BY <1>1, <1>3
    <3> QED  BY <3>1, <3>2 DEF FirstReaching
  <2>4. \A k \in 1 .. d :
            i \in drains'[k].returned <=> i \in drains[k].returned
    BY <1>3
  <2>5. messages[i].after <= d
    BY <1>n DEF DdlInv, Ordered
  <2>6. i \in x.returned <=> i \in pending /\ messages[i].lsn <= lsn
    BY <1>5
  <2>7. FirstReaching(i, new)' <=>
            /\ messages[i].lsn <= lsn
            /\ \A h \in messages[i].after + 1 .. d : drains[h].lsn < messages[i].lsn
    <3>1. new > messages[i].after /\ (drains'[new].lsn >= messages'[i].lsn <=> messages[i].lsn <= lsn)
      BY <2>0, <1>0, <1>1, <1>3, <1>5, <2>5
    <3>2. \A h \in messages[i].after + 1 .. d : h \in 1 .. d /\ drains'[h] = drains[h]
      <4>1. messages[i].after \in Nat
        BY <1>0
      <4>2. \A h \in messages[i].after + 1 .. d : h \in 1 .. d
        BY <1>n, <4>1
      <4> QED  BY <1>3, <4>2, Zenon
    <3>3. messages'[i].after + 1 .. new - 1 = messages[i].after + 1 .. d
      BY <2>0, <1>0, <1>1
    <3> QED  BY <1>1, <3>1, <3>2, <3>3 DEF FirstReaching
  <2>8. ASSUME i \in pending
        PROVE  Due(i) /\ \A h \in messages[i].after + 1 .. d : drains[h].lsn < messages[i].lsn
    BY <1>n, <2>1, <2>8 DEF Taken, DdlInv, Waiting
  <2>9. ASSUME Due(i), i \notin pending
        PROVE  ~FirstReaching(i, new)'
    <3>1. PICK k \in 1 .. d : FirstReaching(i, k)
      BY <1>n, <2>1, <2>9, Zenon DEF Taken
    <3>2. k \in messages[i].after + 1 .. d /\ ~(drains[k].lsn < messages[i].lsn)
      BY <1>0, <3>1 DEF FirstReaching
    <3> QED  BY <2>7, <3>2, Zenon
  <2>10. i \in drains'[new].returned <=> Due(i)' /\ FirstReaching(i, new)'
    BY <2>0, <1>3, <2>2, <2>6, <2>7, <2>8, <2>9, Zenon
  <2>11. i \in pending' <=> i \in pending /\ i \notin x.returned
    BY <1>1, <1>5 DEF Ready
  <2>12. \A k \in 1 .. d + 1 : i \in drains'[k].returned <=> Due(i)' /\ FirstReaching(i, k)'
    <3>1. \A k \in 1 .. d : i \in drains'[k].returned <=> Due(i)' /\ FirstReaching(i, k)'
      BY <1>n, <2>1, <2>2, <2>3, <2>4, Zenon DEF Taken
    <3>2. \A k \in 1 .. d + 1 : k \in 1 .. d \/ k = new
      BY <2>0, <1>0
    <3> QED  BY <2>10, <3>1, <3>2, Zenon
  <2>13. i \in pending' <=> Due(i)' /\ \A k \in 1 .. d + 1 : i \notin drains'[k].returned
    <3>1. \A k \in 1 .. d + 1 : k \in 1 .. d \/ k = new
      BY <2>0, <1>0
    <3>2. new \in 1 .. d + 1 /\ \A k \in 1 .. d : k \in 1 .. d + 1
      BY <2>0, <1>0
    <3>3. i \in pending <=> Due(i) /\ \A k \in 1 .. d : i \notin drains[k].returned
      BY <1>n, <2>1, Zenon DEF Taken
    <3>4. drains'[new].returned = x.returned
      BY <2>0, <1>3
    <3> QED  BY <2>2, <2>4, <2>11, <3>1, <3>2, <3>3, <3>4, Zenon
  <2> QED  BY <1>3, <2>12, <2>13, Zenon DEF Taken
<1> QED  BY <1>n, <1>1, <1>4, <1>6, <1>8, <1>9, Zenon DEF DdlInv

(* Each call keeps the account of the messages. *)
LEMMA DdlStep == DdlInv /\ [DdlNext]_ddlVars => DdlInv'
<1> SUFFICES ASSUME DdlInv, [DdlNext]_ddlVars PROVE DdlInv'
  OBVIOUS
<1>1. ASSUME NEW lsn \in Lsns, NEW content \in Contents, HandleDdlMessage(lsn, content)
      PROVE  DdlInv'
  BY <1>1, MessageStep
<1>2. ASSUME NEW lsn \in Lsns, DrainUpTo(lsn) PROVE DdlInv'
  BY <1>2, DrainStep
<1>3. ASSUME UNCHANGED <<pending, messages, drains>>, monitored_tables' \in Publications
      PROVE  DdlInv'
  <2>1. DdlTypeOK' /\ Ordered' /\ Waiting'
    BY <1>3 DEF DdlInv, DdlTypeOK, Ordered, Waiting
  <2>2. \A i : Taken(i)' <=> Taken(i)
    BY <1>3 DEF Taken, Due, FirstReaching
  <2> QED  BY <1>3, <2>1, <2>2 DEF DdlInv
<1>4. CASE UNCHANGED ddlVars
  BY <1>3, <1>4 DEF ddlVars, DdlInv, DdlTypeOK
<1>5. ASSUME NEW tables \in Publications, SetMonitoredTables(tables) PROVE DdlInv'
  BY <1>3, <1>5 DEF SetMonitoredTables
<1> QED  BY <1>1, <1>2, <1>4, <1>5 DEF DdlNext

LEMMA DdlStart == DdlInit => DdlInv
<1> SUFFICES ASSUME DdlInit PROVE DdlInv
  OBVIOUS
<1>1. messages = <<>> /\ drains = <<>> /\ pending = {} /\ monitored_tables \in Publications
  BY DEF DdlInit
<1>2. DdlTypeOK
  BY <1>1, DdlAssumption DEF DdlTypeOK
<1> QED  BY <1>1, <1>2 DEF DdlInv, Ordered, Waiting

(* handle_ddl_message and drain_up_to keep the types: the buffer holds     *)
(* changes of messages that came, and a drain returns no other.            *)
THEOREM DdlTypeCorrect == DdlSpec => []DdlTypeOK
<1>1. DdlInv => DdlTypeOK
  BY DEF DdlInv
<1> QED  BY <1>1, DdlStart, DdlStep, PTL DEF DdlSpec

(* DDL of a monitored table is returned once, by the first drain_up_to     *)
(* that reaches its LSN, for every sequence of messages, drains and lists  *)
(* of tables.                                                              *)
THEOREM DdlTakenOnceHolds == DdlSpec => []DdlTakenOnce
<1>1. DdlInv => DdlTakenOnce
  BY DdlTypes DEF DdlInv, DdlTakenOnce, Taken
<1> QED  BY <1>1, DdlStart, DdlStep, PTL DEF DdlSpec

(* DDL that arrives in the order of its LSNs is taken in this order.       *)
THEOREM DdlInOrderHolds == DdlSpec => []DdlInOrder
<1>1. DdlInv => DdlInOrder
  <2> SUFFICES ASSUME DdlInv, NEW i \in DOMAIN messages, NEW j \in DOMAIN messages,
                      i < j, Due(i), messages[i].lsn <= messages[j].lsn,
                      NEW k \in DOMAIN drains, j \in drains[k].returned
               PROVE  \E h \in 1 .. k : i \in drains[h].returned
    BY DEF DdlInOrder
  <2>1. /\ i \in 1 .. Len(messages) /\ j \in 1 .. Len(messages) /\ k \in 1 .. Len(drains)
        /\ messages[i].lsn \in Nat /\ messages[j].lsn \in Nat /\ drains[k].lsn \in Nat
        /\ messages[i].after \in Nat /\ messages[j].after \in Nat /\ Len(drains) \in Nat
        /\ Len(messages) \in Nat
    BY DdlTypes DEF DdlInv
  <2>2. Taken(i) /\ Taken(j)
    BY <2>1 DEF DdlInv
  <2>3. FirstReaching(j, k)
    BY <2>1, <2>2 DEF Taken
  <2>4. messages[i].after <= messages[j].after
    <3>1. i \in 1 .. j
      BY <2>1
    <3> QED  BY <2>1, <3>1 DEF DdlInv, Ordered
  <2>5. k \in messages[i].after + 1 .. Len(drains) /\ ~(drains[k].lsn < messages[i].lsn)
    BY <2>1, <2>3, <2>4 DEF FirstReaching
  <2>6. i \notin pending
    BY <2>5 DEF DdlInv, Waiting
  <2>7. PICK h \in 1 .. Len(drains) : i \in drains[h].returned
    BY <2>2, <2>6, Zenon DEF Taken
  <2>8. FirstReaching(i, h)
    BY <2>2, <2>7 DEF Taken
  <2>9. h <= k
    <3> SUFFICES ASSUME ~(h <= k) PROVE FALSE
      OBVIOUS
    <3>1. k \in messages[i].after + 1 .. h - 1
      BY <2>1, <2>5
    <3> QED  BY <2>5, <2>8, <3>1, Zenon DEF FirstReaching
  <2> QED  BY <2>1, <2>7, <2>9
<1> QED  BY <1>1, DdlStart, DdlStep, PTL DEF DdlSpec

-----------------------------------------------------------------------------
(* The throttle *)

(* What can be taken at once counts as taken: the property itself says     *)
(* nothing of the tokens a caller may find at its next call.               *)
Potential == taken * Unit + Refilled <= burst * Unit + rate * (now - start)

ThrottleInv == ThrottleTypeOK /\ Potential

(* The products of the bucket are natural numbers. *)
LEMMA Products ==
    ASSUME ThrottleTypeOK
    PROVE  /\ burst * Unit \in Nat /\ taken * Unit \in Nat
           /\ rate * (now - last_refill) \in Nat /\ rate * (now - start) \in Nat
           /\ burst * Unit >= Unit
<1> USE ThrottleAssumption DEF ThrottleTypeOK
<1>1. \A a, b \in Nat : a * b \in Nat
  OBVIOUS
<1>2. \A a \in Nat \ {0}, b \in Nat : a * b >= b
  <2> SUFFICES ASSUME NEW a \in Nat \ {0}, NEW b \in Nat PROVE a * b >= b
    OBVIOUS
  <2>1. a - 1 \in Nat
    OBVIOUS
  <2>2. (a - 1) * b \in Nat
    BY <1>1, <2>1
  <2>3. a * b = (a - 1) * b + b
    OBVIOUS
  <2> QED  BY <1>1, <2>2, <2>3
<1>3. now - last_refill \in Nat /\ now - start \in Nat
  OBVIOUS
<1> QED  BY <1>1, <1>2, <1>3

(* A refill leaves between nothing and a full bucket. *)
LEMMA RefilledType == ASSUME ThrottleTypeOK PROVE Refilled \in 0 .. burst * Unit
<1>1. tokens \in Nat
  BY Products DEF ThrottleTypeOK
<1> DEFINE gained == rate * (now - last_refill)
           full == burst * Unit
<1>2. gained \in Nat /\ full \in Nat
  BY Products
<1>3. Refilled = IF tokens + gained <= full THEN tokens + gained ELSE full
  BY DEF Refilled
<1> HIDE DEF gained, full
<1>4. Refilled \in 0 .. full
  BY <1>1, <1>2, <1>3
<1> QED  BY <1>4 DEF full

(* After a refill at this moment another one adds nothing. *)
LEMMA RefilledNow ==
    ASSUME ThrottleTypeOK, last_refill' = now, now' = now, tokens' \in 0 .. burst * Unit
    PROVE  Refilled' = tokens'
<1>1. now' - last_refill' = 0
  BY DEF ThrottleTypeOK
<1>2. rate * (now' - last_refill') = 0
  BY <1>1, ThrottleAssumption
<1>3. tokens' + rate * (now' - last_refill') = tokens' /\ tokens' <= burst * Unit
  BY <1>2, Products
<1> QED  BY <1>3 DEF Refilled

(* Every step of the throttle keeps the invariant. *)
LEMMA ThrottleStep == ThrottleInv /\ [ThrottleNext]_throttleVars => ThrottleInv'
<1> SUFFICES ASSUME ThrottleInv, [ThrottleNext]_throttleVars PROVE ThrottleInv'
  OBVIOUS
<1>0. ThrottleTypeOK /\ Potential
  BY DEF ThrottleInv
<1> DEFINE full == burst * Unit
           used == taken * Unit
           given == rate * (now - start)
<1>p. full \in Nat /\ used \in Nat /\ given \in Nat /\ Unit \in Nat /\ full >= Unit
  BY <1>0, Products, ThrottleAssumption
<1>r. Refilled \in 0 .. full /\ used + Refilled <= full + given
  BY <1>0, RefilledType DEF Potential
<1>1. CASE Refuse
  <2>1. tokens' \in 0 .. burst * Unit /\ tokens' = Refilled
    BY <1>1, <1>r DEF Refuse
  <2>2. Refilled' = tokens'
    BY <1>0, <1>1, <2>1, RefilledNow DEF Refuse
  <2>3. Potential'
    BY <1>1, <1>r, <2>1, <2>2 DEF Refuse, Potential
  <2>4. BackoffDuration(Refilled) \in Nat
    <3>1. Refilled \in Nat /\ Refilled < Unit /\ Unit - Refilled \in Nat
      BY <1>1, <1>r, <1>p DEF Refuse
    <3> DEFINE n == 2 * (Unit - Refilled) + rate
               d == 2 * rate
    <3>2. n \in Nat /\ d \in Nat \ {0}
      BY <3>1, ThrottleAssumption
    <3> HIDE DEF n, d
    <3>3. n \div d \in Nat
      BY <3>2
    <3> QED  BY <3>3 DEF BackoffDuration, n, d
  <2>5. ThrottleTypeOK'
    BY <1>0, <1>1, <2>1, <2>4 DEF Refuse, ThrottleTypeOK
  <2> QED  BY <2>3, <2>5 DEF ThrottleInv
<1>2. CASE Acquire
  <2>1. tokens' \in 0 .. burst * Unit /\ tokens' = Refilled - Unit
    <3> HIDE DEF full
    <3>1. tokens' \in 0 .. full /\ tokens' = Refilled - Unit
      BY <1>2, <1>r, <1>p DEF Acquire
    <3> QED  BY <3>1 DEF full
  <2>2. Refilled' = tokens'
    BY <1>0, <1>2, <2>1, RefilledNow DEF Acquire
  <2>3. taken' * Unit = used + Unit
    BY <1>0, <1>2, ThrottleAssumption DEF Acquire, ThrottleTypeOK
  <2>4. used + Unit + (Refilled - Unit) <= full + given
    <3> HIDE DEF full, used, given
    <3> QED  BY <1>p, <1>r
  <2>5. Potential'
    BY <1>2, <2>1, <2>2, <2>3, <2>4 DEF Acquire, Potential
  <2>6. ThrottleTypeOK'
    BY <1>0, <1>2, <2>1 DEF Acquire, ThrottleTypeOK
  <2> QED  BY <2>5, <2>6 DEF ThrottleInv
<1>3. CASE Tick
  <2>1. rate * (now' - start') = given + rate
    BY <1>0, <1>3, ThrottleAssumption DEF Tick, ThrottleTypeOK
  <2>2. Refilled' <= Refilled + rate /\ Refilled' \in Int
    <3> DEFINE gained == rate * (now - last_refill)
    <3>1. rate * (now' - last_refill') = gained + rate
      BY <1>0, <1>3, ThrottleAssumption DEF Tick, ThrottleTypeOK
    <3>2. Refilled = IF tokens + gained <= full THEN tokens + gained ELSE full
      BY DEF Refilled
    <3>3. Refilled' = IF tokens + (gained + rate) <= full THEN tokens + (gained + rate) ELSE full
      BY <1>3, <3>1 DEF Refilled, Tick
    <3>4. tokens \in Nat /\ gained \in Nat /\ rate \in Nat
      BY <1>0, Products, ThrottleAssumption DEF ThrottleTypeOK
    <3> HIDE DEF gained, full
    <3> QED  BY <1>p, <3>2, <3>3, <3>4
  <2>3. used + Refilled' <= full + (given + rate)
    <3>1. rate \in Int /\ Refilled \in Int
      BY <1>p, <1>r, ThrottleAssumption
    <3>2. \A u, f, g, r, q, p \in Int : u + q <= f + g /\ p <= q + r => u + p <= f + (g + r)
      OBVIOUS
    <3> HIDE DEF full, used, given
    <3>3. used \in Int /\ full \in Int /\ given \in Int
      BY <1>p
    <3> QED  BY <1>r, <2>2, <3>1, <3>2, <3>3, Zenon
  <2>4. Potential'
    BY <1>3, <2>1, <2>3 DEF Tick, Potential
  <2>5. ThrottleTypeOK'
    BY <1>0, <1>3 DEF Tick, ThrottleTypeOK
  <2> QED  BY <2>4, <2>5 DEF ThrottleInv
<1>4. CASE Watch
  <2>1. taken' * Unit = 0 /\ rate * (now' - start') = 0
    BY <1>0, <1>4, ThrottleAssumption DEF Watch, ThrottleTypeOK
  <2>2. Refilled' = Refilled
    BY <1>4 DEF Watch, Refilled
  <2>3. 0 + Refilled <= full + 0
    <3> HIDE DEF full
    <3> QED  BY <1>p, <1>r
  <2>4. Potential'
    BY <2>1, <2>2, <2>3 DEF Potential
  <2>5. ThrottleTypeOK'
    BY <1>0, <1>4 DEF Watch, ThrottleTypeOK
  <2> QED  BY <2>4, <2>5 DEF ThrottleInv
<1>5. CASE UNCHANGED throttleVars
  BY <1>0, <1>5 DEF throttleVars, ThrottleInv, ThrottleTypeOK, Potential, Refilled
<1> QED  BY <1>1, <1>2, <1>3, <1>4, <1>5 DEF ThrottleNext

(* The invariant holds from the start: a full bucket and nothing taken. *)
LEMMA ThrottleStart == ThrottleInit => ThrottleInv
<1> SUFFICES ASSUME ThrottleInit PROVE ThrottleInv
  OBVIOUS
<1>1. burst * Unit \in Nat
  BY ThrottleAssumption
<1>2. ThrottleTypeOK
  BY <1>1 DEF ThrottleInit, ThrottleTypeOK
<1>3. taken * Unit = 0 /\ rate * (now - start) = 0 /\ rate * (now - last_refill) = 0
  BY ThrottleAssumption DEF ThrottleInit
<1>4. Refilled \in 0 .. burst * Unit
  BY <1>2, RefilledType
<1>5. Potential
  BY <1>1, <1>3, <1>4 DEF Potential
<1> QED  BY <1>2, <1>5 DEF ThrottleInv

(* try_acquire keeps the tokens between none and the burst, and            *)
(* last_refill in the past.                                                *)
THEOREM ThrottleTypeCorrect == ThrottleSpec => []ThrottleTypeOK
<1>1. ThrottleInv => ThrottleTypeOK
  BY DEF ThrottleInv
<1> QED  BY <1>1, ThrottleStart, ThrottleStep, PTL DEF ThrottleSpec

(* From any moment on, try_acquire lets no more through than the burst and *)
(* what the rate gives for the time since.                                 *)
THEOREM RateLimitedHolds == ThrottleSpec => []RateLimited
<1>1. ThrottleInv => RateLimited
  <2> SUFFICES ASSUME ThrottleInv PROVE RateLimited
    OBVIOUS
  <2> DEFINE full == burst * Unit
             used == taken * Unit
             given == rate * (now - start)
  <2>1. full \in Nat /\ used \in Nat /\ given \in Nat /\ Refilled \in 0 .. full
    BY Products, RefilledType DEF ThrottleInv
  <2>2. used + Refilled <= full + given
    BY DEF ThrottleInv, Potential
  <2> HIDE DEF full, used, given
  <2>3. used <= full + given
    BY <2>1, <2>2
  <2> QED  BY <2>3 DEF RateLimited, full, used, given
<1> QED  BY <1>1, ThrottleStart, ThrottleStep, PTL DEF ThrottleSpec

(* What the rate has given since the first refusal is still in the bucket, *)
(* and is less than a token.                                               *)
BackoffInv ==
    asked # -1 => /\ asked <= last_refill
                  /\ rate * (last_refill - asked) <= tokens /\ tokens < Unit
                  /\ until <= asked + TokenTime

LEMMA Quotient ==
    ASSUME NEW n \in Nat, NEW d \in Nat \ {0}
    PROVE  n \div d \in Nat /\ d * (n \div d) <= n /\ n < d * (n \div d) + d
OBVIOUS

(* The rate gives a token in TokenTime ticks. *)
LEMMA TokenTimeFacts == TokenTime \in Nat /\ Unit <= rate * TokenTime
<1> DEFINE n == Unit + rate - 1
<1>1. n \in Nat /\ rate \in Nat \ {0} /\ Unit = n - rate + 1
  BY ThrottleAssumption
<1>2. TokenTime = n \div rate
  BY DEF TokenTime
<1> HIDE DEF n
<1>3. TokenTime \in Nat /\ n < rate * TokenTime + rate
  BY <1>1, <1>2, Quotient
<1>4. rate * TokenTime \in Nat
  BY <1>1, <1>3
<1> QED  BY <1>1, <1>3, <1>4

(* Rounded to the nearest tick, the wait of a caller that was first        *)
(* refused d ticks ago ends no later than the token comes.                 *)
LEMMA WaitIsShort ==
    ASSUME NEW d \in Nat, NEW left \in Nat, rate * d <= left, left < Unit
    PROVE  BackoffDuration(left) \in Nat /\ d + BackoffDuration(left) <= TokenTime
<1> DEFINE q == BackoffDuration(left)
           n == 2 * (Unit - left) + rate
<1>1. rate \in Nat \ {0} /\ Unit \in Nat /\ n \in Nat /\ 2 * rate \in Nat \ {0}
  BY ThrottleAssumption
<1>2. q \in Nat /\ (2 * rate) * q <= n
  <2>1. q = n \div (2 * rate)
    BY DEF BackoffDuration
  <2> HIDE DEF q, n
  <2> QED  BY <1>1, <2>1, Quotient, Zenon
<1> HIDE DEF q
<1>3. TokenTime \in Nat /\ Unit <= rate * TokenTime
  BY TokenTimeFacts
<1> DEFINE e == d + q - TokenTime
           rd == rate * d
           rq == rate * q
           rt == rate * TokenTime
           re == rate * e
<1>4. e \in Int /\ rd \in Nat /\ rq \in Nat /\ rt \in Nat /\ re \in Int
  BY <1>1, <1>2, <1>3
<1>5. re = rd + rq - rt
  BY <1>1, <1>2, <1>3
<1>6. 2 * rq <= 2 * (Unit - left) + rate
  BY <1>1, <1>2
<1>7. rd <= left /\ Unit <= rt
  BY <1>3
<1>8. e >= 1 => re >= rate
  BY <1>1, <1>4
<1> HIDE DEF e, rd, rq, rt, re
<1>9. ~(e >= 1)
  <2> SUFFICES ASSUME e >= 1 PROVE FALSE
    OBVIOUS
  <2> QED  BY <1>1, <1>4, <1>5, <1>6, <1>7, <1>8
<1>10. d + q <= TokenTime
  BY <1>2, <1>3, <1>9 DEF e
<1> QED  BY <1>2, <1>10 DEF q

(* Every step of the throttle and its caller keeps it. *)
LEMMA BackoffStep ==
    ThrottleTypeOK /\ BackoffInv /\ [ThrottleNext]_throttleVars => BackoffInv'
<1> SUFFICES ASSUME ThrottleTypeOK, BackoffInv, [ThrottleNext]_throttleVars, asked' # -1
             PROVE  /\ asked' <= last_refill'
                    /\ rate * (last_refill' - asked') <= tokens' /\ tokens' < Unit
                    /\ until' <= asked' + TokenTime
  BY DEF BackoffInv
<1>1. CASE Refuse
  <2>1. /\ tokens' = Refilled /\ last_refill' = now /\ Refilled < Unit
        /\ until' = now + BackoffDuration(Refilled)
        /\ asked' = IF asked = -1 THEN now ELSE asked
    BY <1>1 DEF Refuse
  <2>2. Refilled \in Nat /\ now \in Nat /\ rate \in Nat /\ last_refill \in 0 .. now
    BY RefilledType, Products, ThrottleAssumption DEF ThrottleTypeOK
  <2>3. asked' \in 0 .. now /\ rate * (now - asked') <= Refilled
    <3>1. CASE asked = -1
      <4>1. now - asked' = 0 /\ asked' = now
        BY <2>1, <2>2, <3>1
      <4> QED  BY <2>2, <4>1
    <3>2. CASE asked # -1
      <4>1. /\ asked' = asked /\ asked \in 0 .. now /\ asked <= last_refill
            /\ rate * (last_refill - asked) <= tokens
        BY <2>1, <2>2, <3>2 DEF BackoffInv, ThrottleTypeOK
      <4> DEFINE gained == rate * (now - last_refill)
                 before == rate * (last_refill - asked)
                 full == burst * Unit
      <4>2. rate * (now - asked) = before + gained
        BY <2>2, <4>1
      <4>3. gained \in Nat /\ before \in Int /\ full \in Nat /\ full >= Unit /\ tokens \in Nat
            /\ Unit \in Nat
        BY <2>2, <4>1, Products, ThrottleAssumption DEF ThrottleTypeOK
      <4>4. Refilled = IF tokens + gained <= full THEN tokens + gained ELSE full
        BY DEF Refilled
      <4>5. before <= tokens
        BY <4>1
      <4> HIDE DEF gained, before, full
      <4>6. before + gained <= Refilled
        BY <2>1, <4>3, <4>4, <4>5
      <4> QED  BY <4>1, <4>2, <4>6
    <3> QED  BY <3>1, <3>2
  <2>4. now - asked' \in Nat
    <3>1. \A a \in 0 .. now : now - a \in Nat
      BY <2>2
    <3> QED  BY <2>3, <3>1
  <2>5. /\ BackoffDuration(Refilled) \in Nat
        /\ (now - asked') + BackoffDuration(Refilled) <= TokenTime
    BY <2>1, <2>2, <2>3, <2>4, WaitIsShort
  <2>6. until' <= asked' + TokenTime
    BY <2>1, <2>2, <2>3, <2>5, TokenTimeFacts
  <2> QED  BY <2>1, <2>2, <2>3, <2>6
<1>2. CASE Acquire
  BY <1>2 DEF Acquire
<1>3. CASE Tick \/ Watch \/ UNCHANGED throttleVars
  BY <1>3 DEF Tick, Watch, throttleVars, BackoffInv
<1> QED  BY <1>1, <1>2, <1>3 DEF ThrottleNext

(* A caller is refused, and told to wait, only until the rate has given    *)
(* it a token, although backoff_duration's rounding may wake it before.    *)
LEMMA BackoffInvImplies == ThrottleTypeOK /\ BackoffInv => BackoffIsEnough
<1> SUFFICES ASSUME ThrottleTypeOK, BackoffInv, asked # -1
             PROVE  last_refill < asked + TokenTime /\ until <= asked + TokenTime
  BY DEF BackoffIsEnough
<1>1. asked <= last_refill /\ rate * (last_refill - asked) <= tokens /\ tokens < Unit
      /\ until <= asked + TokenTime
  BY DEF BackoffInv
<1>2. asked \in Int /\ last_refill \in Int /\ tokens \in Nat /\ rate \in Nat \ {0} /\ Unit \in Nat
  BY Products, ThrottleAssumption DEF ThrottleTypeOK
<1> DEFINE d == last_refill - asked
           rd == rate * d
           rt == rate * TokenTime
           gap == d - TokenTime
<1>3. d \in Nat /\ gap \in Int /\ rd \in Nat /\ rt \in Nat /\ rd <= tokens /\ Unit <= rt
  BY <1>1, <1>2, TokenTimeFacts
<1>4. rd = rt + rate * gap
  BY <1>2, <1>3, TokenTimeFacts
<1>5. gap >= 0 => rate * gap >= 0
  BY <1>2, <1>3
<1>6. rate * gap \in Int
  BY <1>2, <1>3
<1>7. d < TokenTime
  <2> SUFFICES ASSUME gap >= 0 PROVE FALSE
    BY <1>3, TokenTimeFacts
  <2> DEFINE rg == rate * gap
  <2>1. rg >= 0 /\ rg \in Int /\ rd = rt + rg
    BY <1>4, <1>5, <1>6
  <2> HIDE DEF rd, rt, rg
  <2> QED  BY <1>1, <1>2, <1>3, <2>1
<1> QED  BY <1>1, <1>2, <1>7, TokenTimeFacts

(* backoff_duration never sends a caller to sleep past the moment at which *)
(* the rate has given it a token, for every rate and resolution.           *)
THEOREM BackoffIsEnoughHolds == ThrottleSpec => []BackoffIsEnough
<1>1. ThrottleInit => ThrottleInv /\ BackoffInv
  BY ThrottleStart DEF ThrottleInit, BackoffInv
<1>2. ThrottleInv /\ BackoffInv /\ [ThrottleNext]_throttleVars => (ThrottleInv /\ BackoffInv)'
  BY ThrottleStep, BackoffStep DEF ThrottleInv
<1>3. ThrottleInv /\ BackoffInv => BackoffIsEnough
  BY BackoffInvImplies DEF ThrottleInv
<1> QED  BY <1>1, <1>2, <1>3, PTL DEF ThrottleSpec

-----------------------------------------------------------------------------
(* The three parts *)

StreamInv == DecoderInv /\ DdlInv /\ ThrottleInv

LEMMA StreamInvariant == StreamSpec => []StreamInv
<1>1. StreamInit => StreamInv
  BY DecoderStart, DdlStart, ThrottleStart DEF StreamInit, StreamInv
<1>2. StreamInv /\ [StreamNext]_<<vars, ddlVars, throttleVars, part>> => StreamInv'
  BY DecoderStep, DdlStep, ThrottleStep DEF StreamInv, StreamNext
<1> QED  BY <1>1, <1>2, PTL DEF StreamSpec

(* The decoder, the handler of DDL messages and the throttle keep the      *)
(* types of their variables: a message gives an event exactly if it is one *)
(* of data, and the map of relations holds no version a table never had.   *)
THEOREM StreamTypeCorrect == StreamSpec => []StreamTypeOK
<1>1. StreamInv => StreamTypeOK
  BY DEF StreamInv, DecoderInv, DdlInv, ThrottleInv, StreamTypeOK
<1> QED  BY <1>1, StreamInvariant, PTL
=============================================================================
