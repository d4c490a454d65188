----------------------------- MODULE Admission -----------------------------
(***************************************************************************)
(* What becomes of the decoder's events: IngestionFilter decides which are *)
(* stored at all, and TenantStore writes them with encode_event and reads  *)
(* them with decode_event.  A rule names columns; the event names them as  *)
(* the decoder's map of relations does, so what the filter decides depends *)
(* on that map.                                                            *)
(*                                                                         *)
(* The comparisons of texts are relations on Texts.  External: whoever     *)
(* writes the configuration (Writes) or calls add_rule.                    *)
(***************************************************************************)
EXTENDS Decoder, FilterRule, Wire

CONSTANTS
    Configs,   \* [written, added]: table -> [text, rule], and table -> rule
    Compare    \* comparison -> the pairs of texts for which it holds

(* The rules as they are meant. *)
Meant(c) == [t \in DOMAIN c.added \cup DOMAIN c.written |->
                IF t \in DOMAIN c.added THEN c.added[t] ELSE c.written[t].rule]

(* The columns a table's rules may name; no version has column 0. *)
RuleColumns(t) == {t} \X (0 .. MaxVersion)

Comparisons == DOMAIN Compare \cup {"IsNull", "IsNotNull"}

(* What is written in a rule is free of the symbols' characters. *)
ASSUME AdmissionAssumption ==
    /\ 2 < U16 /\ MaxVersion < U16
    /\ Tables \cup {None} \cup (Tables \X (1 .. MaxVersion)) \subseteq Chars
    /\ Texts \subseteq Seq(Chars) /\ None \notin Texts
    /\ \A text \in Texts : Len(text) < U32
    /\ Symbols \cap (0 .. MaxVersion) = {}
    /\ \A c \in Configs :
          /\ \A t \in DOMAIN c.written :
                /\ t \notin Symbols /\ NoRule \notin c.written[t].rule.predicates
                /\ c.written[t].rule \in Rules(RuleColumns(t), DOMAIN Symbol, Seq(Chars \ Symbols))
                /\ Writes(c.written[t].text, c.written[t].rule)
          /\ \A t \in DOMAIN c.added :
                c.added[t] \in Rules(RuleColumns(t), Comparisons, Seq(Chars))

FromConfig(cfg) == [t \in DOMAIN cfg |-> ParseFilterExpr(cfg[t])]

(* add_rule replaces the rule of its table. *)
AddRules(filters, added) ==
    [t \in DOMAIN filters \cup DOMAIN added |->
        IF t \in DOMAIN added THEN added[t] ELSE filters[t]]

Loaded == [c \in Configs |->
              AddRules(FromConfig([t \in DOMAIN c.written |-> c.written[t].text]), c.added)]

(* RowData::get_text: None if the column is missing or has no value. *)
GetText(row, column) ==
    LET found == {i \in DOMAIN row : row[i].name = column}
    IN  IF found = {} THEN None ELSE row[First(found)].value

EvaluatePredicate(actual, p) ==
    CASE p.op = "IsNull" -> actual = None
      [] p.op = "IsNotNull" -> actual # None
      [] OTHER -> actual # None /\ <<actual, p.value>> \in Compare[p.op]

(* No rule accepts all, as do no operations; an event without an after row *)
(* has no predicate to meet.                                               *)
Accept(filters, e) ==
    e.table \in DOMAIN filters =>
        LET rule == filters[e.table]
        IN  /\ rule.ops # {} => e.op \in rule.ops
            /\ e.after # None => \A p \in rule.predicates :
                                    EvaluatePredicate(GetText(e.after, p.column), p)

(* The event as a ChangeEvent; its LSN is that of the message. *)
ChangeEvent(e) ==
    [lsn |-> 0, xid |-> e.xid, op |-> e.op, table |-> [schema |-> <<>>, table |-> <<e.table>>],
     schema_fingerprint |-> e.schema_fingerprint, after |-> e.after, before |-> e.before,
     commit_timestamp_us |-> e.commit_timestamp_us]

-----------------------------------------------------------------------------
(* Properties *)

(* Whether a row as PostgreSQL has it satisfies a predicate: the column is *)
(* one of the table's definition at the time of the change, or is missing. *)
RowSatisfies(tuple, t, p) ==
    LET i == CHOOSE i \in 0 .. MaxVersion : p.column = <<t, i>>
        absent == i \notin DOMAIN tuple \/ tuple[i] = Null
    IN  IF p.op = "IsNull" THEN absent
        ELSE ~absent /\ (p.op # "IsNotNull" => <<tuple[i], p.value>> \in Compare[p.op])

(* The filter stores a change exactly if the row PostgreSQL wrote passes   *)
(* the table's rule as it was meant, across ALTERs and reconnects: the     *)
(* text of the rule is read as it was written, and a predicate never reads *)
(* another column, or a definition that is no longer or not yet the        *)
(* table's ("should be stored", ingestion.rs accept, parse_filter_expr).   *)
(* A column that was not sent because it did not change has no value to    *)
(* compare, and rules about such a column are excepted.                    *)
StoredIfRowPasses ==
    (change # None /\ change.op # "Truncate") =>
        \A c \in {c \in Configs : change.tables[1] \in DOMAIN Meant(c)} :
            LET t == change.tables[1]
                rule == Meant(c)[t]
                sentInFull == change.new = None \/ \A p \in rule.predicates :
                    \A i \in DOMAIN change.new :
                        p.column = <<t, i>> => change.new[i] # Unchanged
                passes ==
                    /\ rule.ops = {} \/ change.op \in rule.ops
                    /\ change.new # None =>
                          \A p \in rule.predicates : RowSatisfies(change.new, t, p)
            IN  sentInFull => (Accept(Loaded[c], event) <=> passes)

(* What is read from the store, or by a consumer, is the event that was    *)
(* written: a missing row, a missing value and an empty text stay apart,   *)
(* with rows of every length, before and after an ALTER (proto.rs          *)
(* encode_event, decode_event; tenant.rs write_batch, read_from).          *)
ReadAsWritten ==
    event \notin {None, Failed} =>
        DecodeEvent(EncodeEvent(ChangeEvent(event))) = ChangeEvent(event)
=============================================================================
