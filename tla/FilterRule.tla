----------------------------- MODULE FilterRule -----------------------------
(***************************************************************************)
(* IngestionFilter's rules as the configuration writes them:               *)
(*     op:insert,update; column_name == value; other_col != val2           *)
(*                                                                         *)
(* A text is a sequence of units: a column's name and a value are texts,   *)
(* the characters of the comparison symbols are units of their own.  An    *)
(* expression is given as the sequence of its trimmed parts, the part      *)
(* "op:insert,update" as <<OpPrefix, "insert", "update">>.                 *)
(***************************************************************************)
EXTENDS Integers, Sequences, Functions

CONSTANTS NoRule, OpPrefix, Bang, Equals, Greater, Less

Symbols == {Bang, Equals, Greater, Less}

ASSUME FilterRuleAssumption ==
    Bang \notin {Equals, Greater, Less} /\ Equals \notin {Greater, Less} /\ Greater # Less

(* OpType::from_str_tag. *)
OpTags == [Insert   |-> {"insert", "INSERT", "I"}, Update   |-> {"update", "UPDATE", "U"},
           Delete   |-> {"delete", "DELETE", "D"}, Truncate |-> {"truncate", "TRUNCATE", "T"}]

FromStrTags(tags) == {op \in DOMAIN OpTags : OpTags[op] \cap tags # {}}

\* Fault: the longer symbols come last.
Operators_ShortFirst ==
    << [sym |-> <<Greater>>, op |-> "Gt"], [sym |-> <<Less>>, op |-> "Lt"],
       [sym |-> <<Bang, Equals>>, op |-> "Neq"], [sym |-> <<Greater, Equals>>, op |-> "Gte"],
       [sym |-> <<Less, Equals>>, op |-> "Lte"], [sym |-> <<Equals, Equals>>, op |-> "Eq"] >>

(* In the order in which they are looked for. *)
Operators ==
    << [sym |-> <<Bang, Equals>>, op |-> "Neq"], [sym |-> <<Greater, Equals>>, op |-> "Gte"],
       [sym |-> <<Less, Equals>>, op |-> "Lte"], [sym |-> <<Equals, Equals>>, op |-> "Eq"],
       [sym |-> <<Greater>>, op |-> "Gt"], [sym |-> <<Less>>, op |-> "Lt"] >>

First(positions) == CHOOSE p \in positions : \A q \in positions : p <= q

(* str::find *)
Occurrences(sym, expr) ==
    {p \in DOMAIN expr : \A i \in DOMAIN sym :
        p + i - 1 \in DOMAIN expr /\ expr[p + i - 1] = sym[i]}

(* The first symbol that occurs, where it occurs first, splits the text. *)
ParsePredicate(expr) ==
    LET found == {k \in DOMAIN Operators : Occurrences(Operators[k].sym, expr) # {}}
        k == First(found)
        p == First(Occurrences(Operators[k].sym, expr))
    IN  IF found = {} THEN NoRule
        ELSE [column |-> SubSeq(expr, 1, p - 1), op |-> Operators[k].op,
              value |-> SubSeq(expr, p + Len(Operators[k].sym), Len(expr))]

(* Unknown operations and parts without a symbol are passed over. *)
ParseFilterExpr(parts) ==
    LET opParts == {p \in Range(parts) : p # <<>> /\ p[1] = OpPrefix}
        others == Range(parts) \ (opParts \cup {<<>>})
    IN  [ops |-> FromStrTags(UNION {Range(Tail(p)) : p \in opParts}),
         predicates |-> {ParsePredicate(p) : p \in others} \ {NoRule}]

-----------------------------------------------------------------------------
(* The syntax, as whoever writes a configuration uses it (external). *)
Symbol == [Neq |-> <<Bang, Equals>>, Gte |-> <<Greater, Equals>>, Lte |-> <<Less, Equals>>,
           Eq  |-> <<Equals, Equals>>, Gt |-> <<Greater>>, Lt |-> <<Less>>]

PredicateText(p) == p.column \o Symbol[p.op] \o p.value

(* Each part of the text is empty, names operations, or is a predicate. *)
Writes(text, rule) ==
    LET opParts == {p \in Range(text) : p # <<>> /\ p[1] = OpPrefix}
    IN  /\ \A p \in Range(text) : p \in Seq(Range(p))
        /\ rule.ops = {op \in DOMAIN OpTags :
                         \E p \in opParts : \E j \in 2 .. Len(p) : p[j] \in OpTags[op]}
        /\ Range(text) \ (opParts \cup {<<>>}) = {PredicateText(p) : p \in rule.predicates}

(* The rules over given columns, comparisons and values. *)
Rules(columns, ops, values) ==
    [ops : SUBSET DOMAIN OpTags, predicates : SUBSET [column : columns, op : ops, value : values]]
=============================================================================
