----------------------------- MODULE MCDecoder -----------------------------
(* Two tables whose definitions change once, and tuples of one or two      *)
(* columns with the empty text and a longer one.  The rules use each       *)
(* comparison, some on a column that the table gets by ALTER.              *)
(*                                                                         *)
(* For the DDL messages, one that is malformed and two tables, the first  *)
(* of which leaves and comes back to the publication.                      *)
(*                                                                         *)
(* For the throttle, a rate that divides neither a token nor the bucket,   *)
(* and time for the bucket to run empty and fill up again.                 *)
EXTENDS ReplicationStream, Admission, TLC

LOCAL INSTANCE SequencesExt

CONSTANTS orders, users, x

empty == <<>>
long == <<x, x>>

MCTexts == {empty, long}

MCChars == {x, None} \cup Tables \cup (Tables \X (1 .. MaxVersion))

MCCompare ==
    LET less == {<<empty, long>>}
        same == {<<text, text>> : text \in MCTexts}
        more == {<<long, empty>>}
    IN  [Eq |-> same, Neq |-> less \cup more, Lt |-> less, Gt |-> more,
         Lte |-> less \cup same, Gte |-> more \cup same]

Predicate(t, i, op, value) == [column |-> <<t, i>>, op |-> op, value |-> value]

Rule(ops, predicates) == [ops |-> ops, predicates |-> predicates]

(* A rule as the configuration has it: the predicates, an empty part, the  *)
(* operations and a word that names none.                                  *)
RuleText(rule) ==
    LET tag(op) == CHOOSE tag \in OpTags[op] : TRUE
    IN  SetToSeq({PredicateText(p) : p \in rule.predicates})
            \o << <<>>, <<OpPrefix, "merge">> \o SetToSeq({tag(op) : op \in rule.ops}) >>

Written(ops, predicates) ==
    [text |-> RuleText(Rule(ops, predicates)), rule |-> Rule(ops, predicates)]

MCConfigs == {
    [written |-> orders :> Written({"Insert", "Update"}, {Predicate(orders, 2, "Gte", long)})
                 @@ users :> Written({}, {Predicate(users, 1, "Lt", long),
                                          Predicate(users, 2, "Neq", empty)}),
     added   |-> <<>>],
    [written |-> orders :> Written({"Delete"}, {})
                 @@ users :> Written({}, {Predicate(users, 1, "Eq", empty)}),
     added   |-> users :> Rule({"Update"}, {Predicate(users, 2, "IsNull", empty)})],
    [written |-> orders :> Written({}, {Predicate(orders, 1, "Lte", empty)}),
     added   |-> users :> Rule({}, {Predicate(users, 1, "Gt", empty)})]}

Ddl(t) == <<"ALTER_TABLE", t, "statement">>

MCContents == {Ddl(orders), Ddl(users), <<"hello">>}
=============================================================================
