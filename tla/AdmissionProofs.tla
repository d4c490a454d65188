-------------------------- MODULE AdmissionProofs --------------------------
(***************************************************************************)
(* What becomes of an event on its way into the store, for any tables,     *)
(* texts and rules: it is read back as it was written, and it is stored if *)
(* and only if the row that PostgreSQL wrote passes the rule.              *)
(***************************************************************************)
EXTENDS Admission, FormatProofs, StreamProofs

(* The decoder's columns, rows and events fit. *)
LEMMA AreUnits ==
    /\ Nat \subseteq Units /\ Chars \subseteq Units /\ Tables \subseteq Units /\ None \in Units
    /\ Tables \X (1 .. MaxVersion) \subseteq Units
<1>1. Nat \subseteq Units /\ Chars \subseteq Units
  BY Zenon DEF Units
<1>2. Tables \cup {None} \cup (Tables \X (1 .. MaxVersion)) \subseteq Chars
  BY AdmissionAssumption, Zenon
<1> QED  BY <1>1, <1>2, Zenon

LEMMA ColumnsFit == Columns \subseteq WireColumns
<1> SUFFICES ASSUME NEW c \in Columns PROVE c \in WireColumns
  OBVIOUS
<1>1. /\ c.name \in (Tables \cup {None}) \X (1 .. MaxVersion) /\ c.type_oid \in 0 .. MaxVersion
      /\ c.value \in Texts \cup {None}
      /\ c = [name |-> c.name, type_oid |-> c.type_oid, value |-> c.value]
  BY DEF Columns
<1>2. /\ Texts \subseteq Seq(Chars) /\ \A text \in Texts : Len(text) < U32
      /\ 2 < U16 /\ MaxVersion \in Nat
  BY AdmissionAssumption, DecoderAssumption
<1>3. Chars \subseteq Units /\ Tables \cup {None} \subseteq Units /\ 0 .. MaxVersion \subseteq Units
  <2>1. 0 .. MaxVersion \subseteq Nat
    BY <1>2
  <2> QED  BY <2>1, AreUnits, Zenon
<1>4. c.name \in Seq(Units) /\ Len(c.name) < U16
  <2>1. PICK t \in Tables \cup {None}, i \in 1 .. MaxVersion : c.name = <<t, i>>
    BY <1>1
  <2>2. t \in Units /\ i \in Units
    BY <1>2, <1>3
  <2>3. <<t, i>> \in Seq(Units) /\ Len(<<t, i>>) = 2
    BY <2>2
  <2> QED  BY <1>2, <2>1, <2>3, Zenon
<1>5. c.value \in Seq(Units) \cup {None} /\ (c.value # None => Len(c.value) < U32)
  <2>1. Seq(Chars) \subseteq Seq(Units)
    BY <1>3
  <2> QED  BY <1>1, <1>2, <2>1, Zenon
<1>6. c.type_oid \in Units
  BY <1>1, <1>3, Zenon
<1>7. c \in [name : Seq(Units), type_oid : Units, value : Seq(Units) \cup {None}]
  BY <1>1, <1>4, <1>5, <1>6
<1> QED  BY <1>4, <1>5, <1>7, Zenon DEF WireColumns

LEMMA RowsFit == Rows(Columns) \subseteq WireRows
<1> SUFFICES ASSUME NEW row \in Rows(Columns) PROVE row \in WireRows
  OBVIOUS
<1>1. PICK v \in 1 .. MaxVersion : row \in [1 .. v -> Columns]
  BY DEF Rows
<1>2. v \in Nat /\ v < U16
  <2>1. MaxVersion < U16 /\ U16 \in Nat /\ MaxVersion \in Nat
    BY AdmissionAssumption, DecoderAssumption, Widths, Zenon
  <2> QED  BY <2>1
<1>3. row \in [1 .. v -> WireColumns]
  BY <1>1, ColumnsFit
<1>4. row \in Seq(WireColumns) /\ Len(row) = v
  <2> HIDE DEF WireColumns
  <2> QED  BY <1>2, <1>3
<1> QED  BY <1>2, <1>4, Zenon DEF WireRows

LEMMA EventsFit ==
    ASSUME NEW e \in ChangeEvents PROVE ChangeEvent(e) \in WireEvents
<1>1. /\ e.op \in Operations /\ e.table \in Tables /\ e.xid = 0 /\ e.commit_timestamp_us = 0
      /\ e.schema_fingerprint \in Tables \X (1 .. MaxVersion)
      /\ e.after \in Rows(Columns) \cup {None} /\ e.before \in Rows(Columns) \cup {None}
  BY DEF ChangeEvents
<1>2. e.schema_fingerprint \in Units /\ e.table \in Units
  BY <1>1, AreUnits, Zenon
<1>3. e.after \in WireRows \cup {None} /\ e.before \in WireRows \cup {None}
  BY <1>1, RowsFit, Zenon
<1> DEFINE name == <<e.table>>
<1>4. <<>> \in Names /\ name \in Names
  <2>1. <<>> \in Seq(Units) /\ Len(<<>>) = 0 /\ name \in Seq(Units) /\ Len(name) = 1
    BY <1>2
  <2>2. 0 < U16 /\ 1 < U16
    BY AdmissionAssumption, Widths
  <2> QED  BY <2>1, <2>2, Zenon DEF Names
<1> HIDE DEF name
<1> DEFINE table == [schema |-> <<>>, table |-> name]
<1>5. table \in [schema : Names, table : Names]
  BY <1>4
<1>6. ChangeEvent(e) =
        [lsn |-> 0, xid |-> 0, op |-> e.op, table |-> table,
         schema_fingerprint |-> e.schema_fingerprint, after |-> e.after, before |-> e.before,
         commit_timestamp_us |-> 0]
  BY <1>1, Zenon DEF ChangeEvent, name
<1> HIDE DEF table
<1>7. e.op \in DOMAIN OpByte
  BY <1>1 DEF Operations, OpByte
<1> QED  BY <1>1, <1>2, <1>3, <1>5, <1>6, <1>7 DEF WireEvents

(* Every event of the decoder is read from the store as it was written, a  *)
(* missing row, a missing value and an empty text included, for all tables *)
(* and texts whose lengths fit what encode_event writes them with.         *)
THEOREM ReadAsWrittenHolds == Spec => []ReadAsWritten
<1>1. TypeOK => ReadAsWritten
  <2> SUFFICES ASSUME event \in ChangeEvents
               PROVE  DecodeEvent(EncodeEvent(ChangeEvent(event))) = ChangeEvent(event)
    BY Zenon DEF TypeOK, ReadAsWritten
  <2> QED  BY EventsFit, RoundTrip, Zenon
<1>2. DecoderInv => TypeOK
  BY DEF DecoderInv
<1> QED  BY <1>1, <1>2, DecoderStart, DecoderStep, PTL DEF Spec

-----------------------------------------------------------------------------
(* Whatever the configuration, the rules in force are those that are meant. *)
THEOREM LoadedAsMeant == \A c \in Configs : Loaded[c] = Meant(c)
<1> SUFFICES ASSUME NEW c \in Configs PROVE Loaded[c] = Meant(c)
  OBVIOUS
<1> DEFINE texts == [t \in DOMAIN c.written |-> c.written[t].text]
<1>1. ASSUME NEW t \in DOMAIN c.written
      PROVE  ParseFilterExpr(c.written[t].text) = c.written[t].rule
  <2>1. /\ t \notin Symbols /\ NoRule \notin c.written[t].rule.predicates
        /\ c.written[t].rule \in
              Rules({t} \X (0 .. MaxVersion), DOMAIN Symbol, Seq(Chars \ Symbols))
        /\ Writes(c.written[t].text, c.written[t].rule)
        /\ Symbols \cap (0 .. MaxVersion) = {}
    BY AdmissionAssumption, Zenon DEF RuleColumns
  <2> QED  BY <2>1, RuleParsed, Zenon
<1>2. FromConfig(texts) = [t \in DOMAIN c.written |-> c.written[t].rule]
  BY <1>1, Zenon DEF FromConfig
<1>3. Loaded[c] = AddRules(FromConfig(texts), c.added)
  BY Zenon DEF Loaded
<1>4. AddRules([t \in DOMAIN c.written |-> c.written[t].rule], c.added) = Meant(c)
  BY DEF AddRules, Meant
<1> QED  BY <1>2, <1>3, <1>4, Zenon

-----------------------------------------------------------------------------
(* The filter's decision *)

(* The text of a column is that of the row that was sent. *)
ReadsSent(row, tuple, t, i) ==
    GetText(row, <<t, i>>) = IF i \notin DOMAIN tuple \/ tuple[i] = Null THEN None ELSE tuple[i]

LEMMA TextOfColumn ==
    ASSUME NEW tuple, NEW t, NEW v \in Nat, NEW row, RowMatches(row, tuple, t, v), NEW i \in Nat,
           i \in DOMAIN tuple => tuple[i] \in Texts \cup {Null}
    PROVE  ReadsSent(row, tuple, t, i)
<1> DEFINE found == {j \in DOMAIN row : row[j].name = <<t, i>>}
<1>1. /\ DOMAIN row = 1 .. v /\ DOMAIN tuple = 1 .. v
      /\ \A j \in 1 .. v :
            /\ row[j].name = <<t, j>>
            /\ tuple[j] \in Texts => row[j].value = tuple[j]
            /\ tuple[j] = Null => row[j].value = None
  BY Zenon DEF RowMatches
<1>2. \A j \in 1 .. v : row[j].name = <<t, i>> => j = i
  BY <1>1
<1>3. CASE i \in 1 .. v
  <2>1. found = {i}
    BY <1>1, <1>2, <1>3, Zenon
  <2>2. First({i}) = i
    <3> DEFINE S == {i}
    <3>1. S \subseteq Int /\ i \in S /\ \A q \in S : i <= q
      OBVIOUS
    <3> HIDE DEF S
    <3>2. First(S) = i
      BY <3>1, FirstIs, Zenon
    <3> QED  BY <3>2, Zenon DEF S
  <2>3. GetText(row, <<t, i>>) = row[i].value
    BY <2>1, <2>2, Zenon DEF GetText
  <2>4. tuple[i] \in Texts \/ tuple[i] = Null
    BY <1>1, <1>3, Zenon
  <2>5. Null \notin Texts
    BY DecoderAssumption
  <2> QED  BY <1>1, <1>3, <2>3, <2>4, <2>5, Zenon DEF ReadsSent
<1>4. CASE i \notin 1 .. v
  <2>1. found = {}
    BY <1>1, <1>2, <1>4, Zenon
  <2>2. GetText(row, <<t, i>>) = None
    BY <2>1, Zenon DEF GetText
  <2> QED  BY <1>1, <1>4, <2>2, Zenon DEF ReadsSent
<1> QED  BY <1>3, <1>4

LEMMA PredicateDecided ==
    ASSUME NEW tuple, NEW t, NEW v \in Nat, NEW row, RowMatches(row, tuple, t, v),
           \A j \in DOMAIN tuple : tuple[j] \in Texts \cup {Null, Unchanged},
           NEW p, p.column \in {t} \X (0 .. MaxVersion),
           \A j \in DOMAIN tuple : p.column = <<t, j>> => tuple[j] # Unchanged
    PROVE  EvaluatePredicate(GetText(row, p.column), p) <=> RowSatisfies(tuple, t, p)
<1>1. PICK i \in 0 .. MaxVersion : p.column = <<t, i>>
  OBVIOUS
<1>2. (CHOOSE j \in 0 .. MaxVersion : p.column = <<t, j>>) = i
  BY <1>1
<1> DEFINE absent == i \notin DOMAIN tuple \/ tuple[i] = Null
           actual == GetText(row, p.column)
<1>3. actual = IF absent THEN None ELSE tuple[i]
  <2>1. i \in Nat
    BY DecoderAssumption
  <2>2. i \in DOMAIN tuple => tuple[i] \in Texts \cup {Null}
    BY <1>1, Zenon
  <2>3. ReadsSent(row, tuple, t, i)
    BY <2>1, <2>2, TextOfColumn, Zenon
  <2> QED  BY <1>1, <2>3, Zenon DEF ReadsSent
<1>4. ~absent => tuple[i] \in Texts
  BY <1>1, Zenon
<1>5. None \notin Texts
  BY AdmissionAssumption, Zenon
<1>6. RowSatisfies(tuple, t, p) <=>
        IF p.op = "IsNull" THEN absent
        ELSE ~absent /\ (p.op # "IsNotNull" => <<tuple[i], p.value>> \in Compare[p.op])
  BY <1>2, Zenon DEF RowSatisfies
<1> HIDE DEF actual, absent
<1>7. actual = None <=> absent
  BY <1>3, <1>4, <1>5, Zenon
<1>8. CASE p.op = "IsNull"
  <2>1. EvaluatePredicate(actual, p) <=> actual = None
    BY <1>8 DEF EvaluatePredicate
  <2> QED  BY <1>6, <1>7, <1>8, <2>1, Zenon DEF actual
<1>9. CASE p.op = "IsNotNull"
  <2>1. EvaluatePredicate(actual, p) <=> actual # None
    BY <1>9 DEF EvaluatePredicate
  <2>2. p.op # "IsNull"
    BY <1>9
  <2> QED  BY <1>6, <1>7, <1>9, <2>1, <2>2, Zenon DEF actual
<1>10. CASE p.op # "IsNull" /\ p.op # "IsNotNull"
  <2>1. EvaluatePredicate(actual, p) <=> actual # None /\ <<actual, p.value>> \in Compare[p.op]
    BY <1>10 DEF EvaluatePredicate
  <2> QED  BY <1>3, <1>6, <1>7, <1>10, <2>1, Zenon DEF actual
<1> QED  BY <1>8, <1>9, <1>10, Zenon

(* A predicate of a rule names a column of the rule's table. *)
LEMMA ColumnsOfRules ==
    ASSUME NEW c \in Configs, NEW t \in DOMAIN Meant(c), NEW p \in Meant(c)[t].predicates
    PROVE  p.column \in {t} \X (0 .. MaxVersion)
<1>1. CASE t \in DOMAIN c.added
  <2>1. Meant(c)[t] = c.added[t]
    BY <1>1, Zenon DEF Meant
  <2>2. c.added[t] \in Rules(RuleColumns(t), Comparisons, Seq(Chars))
    BY <1>1, AdmissionAssumption, Zenon
  <2> QED  BY <2>1, <2>2 DEF Rules, RuleColumns
<1>2. CASE t \notin DOMAIN c.added
  <2>1. t \in DOMAIN c.written /\ Meant(c)[t] = c.written[t].rule
    BY <1>2, Zenon DEF Meant
  <2>2. c.written[t].rule \in Rules(RuleColumns(t), DOMAIN Symbol, Seq(Chars \ Symbols))
    BY <2>1, AdmissionAssumption, Zenon
  <2> QED  BY <2>1, <2>2 DEF Rules, RuleColumns
<1> QED  BY <1>1, <1>2

LEMMA Decided == TypeOK /\ EventDescribesChange => StoredIfRowPasses
<1> DEFINE t == change.tables[1]
           v == change.version[1]
           new == change.new
<1> SUFFICES ASSUME TypeOK, EventDescribesChange, change # None, change.op # "Truncate",
                    NEW c \in Configs, t \in DOMAIN Meant(c),
                    new = None \/ \A p \in Meant(c)[t].predicates : \A i \in DOMAIN new :
                        p.column = <<t, i>> => new[i] # Unchanged
             PROVE  Accept(Loaded[c], event) <=>
                        /\ Meant(c)[t].ops = {} \/ change.op \in Meant(c)[t].ops
                        /\ new # None =>
                              \A p \in Meant(c)[t].predicates : RowSatisfies(new, t, p)
  BY Zenon DEF StoredIfRowPasses
<1>1. /\ event.op = change.op /\ event.table = t
      /\ RowDescribes(event.after, new, t, v)
  BY Zenon DEF EventDescribesChange
<1>2. new \in Rows(Texts \cup {Null, Unchanged}) \cup {None}
  BY Zenon DEF TypeOK, Changes
<1> DEFINE rule == Meant(c)[t]
<1>3. Accept(Loaded[c], event) <=>
         /\ rule.ops # {} => change.op \in rule.ops
         /\ event.after # None => \A p \in rule.predicates :
               EvaluatePredicate(GetText(event.after, p.column), p)
  BY <1>1, LoadedAsMeant, Zenon DEF Accept
<1>4. event.after # None <=> new # None
  BY <1>1, Zenon DEF RowDescribes
<1>5. ASSUME new # None, NEW p \in rule.predicates
      PROVE  EvaluatePredicate(GetText(event.after, p.column), p) <=> RowSatisfies(new, t, p)
  <2>1. RowMatches(event.after, new, t, v)
    BY <1>1, <1>5, Zenon DEF RowDescribes
  <2>2. PICK w \in 1 .. MaxVersion : new \in [1 .. w -> Texts \cup {Null, Unchanged}]
    BY <1>2, <1>5, Zenon DEF Rows
  <2>3. /\ w \in Nat /\ DOMAIN new = 1 .. w
        /\ \A i \in DOMAIN new : new[i] \in Texts \cup {Null, Unchanged}
    BY <2>2, DecoderAssumption
  <2>4. RowMatches(event.after, new, t, w)
    BY <2>1, <2>3, Zenon DEF RowMatches
  <2>5. p.column \in {t} \X (0 .. MaxVersion)
    BY ColumnsOfRules, Zenon
  <2>6. \A i \in DOMAIN new : p.column = <<t, i>> => new[i] # Unchanged
    BY <1>5, Zenon
  <2> HIDE DEF t, new
  <2> QED  BY <2>3, <2>4, <2>5, <2>6, PredicateDecided, Zenon
<1> QED  BY <1>3, <1>4, <1>5, Zenon

(* The filter stores a change if and only if the row that PostgreSQL wrote *)
(* passes the table's rule, for all rules that the syntax can express or   *)
(* add_rule is given, through ALTERs and reconnects.                       *)
THEOREM StoredIfRowPassesHolds == Spec => []StoredIfRowPasses
<1>1. DecoderInv => StoredIfRowPasses
  BY Decided DEF DecoderInv
<1> QED  BY <1>1, DecoderStart, DecoderStep, PTL DEF Spec
=============================================================================
