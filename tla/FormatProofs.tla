---------------------------- MODULE FormatProofs ----------------------------
(***************************************************************************)
(* What is written is what is read: a filter rule, by parse_filter_expr,   *)
(* as whoever writes the configuration means it; the records of the        *)
(* write-ahead log in the order of the appends, for every segment size,    *)
(* all sizes of records and any failures; and an event, by decode_event,   *)
(* whatever its names and texts and however many columns its rows have.    *)
(*                                                                         *)
(* That the two loops over the columns agree is shown by induction on      *)
(* their number; the induction is on sets of natural numbers, from the     *)
(* theorem WFMin.                                                          *)
(***************************************************************************)
EXTENDS Wire, FilterRule, Wal, SequenceTheorems, WellFoundedInduction, TLAPS

-----------------------------------------------------------------------------
(* The text of a rule *)

LEMMA FirstIs ==
    ASSUME NEW S, S \subseteq Int, NEW m \in S, \A q \in S : m <= q
    PROVE  First(S) = m
<1> DEFINE f == First(S)
<1>1. f \in S /\ \A q \in S : f <= q
  BY Zenon DEF First
<1> HIDE DEF f
<1>2. f <= m /\ m <= f /\ f \in Int /\ m \in Int
  BY <1>1
<1>3. f = m
  BY <1>2
<1> QED  BY <1>3 DEF f

(* Where a symbol of one or of two characters occurs. *)
LEMMA OneOccurs ==
    ASSUME NEW b, NEW expr, NEW n \in Nat, DOMAIN expr = 1 .. n
    PROVE  Occurrences(<<b>>, expr) = {p \in 1 .. n : expr[p] = b}
<1>1. DOMAIN <<b>> = {1} /\ <<b>>[1] = b
  OBVIOUS
<1>2. \A p \in 1 .. n : p + 1 - 1 = p
  OBVIOUS
<1> QED  BY <1>1, <1>2, Zenon DEF Occurrences

PlacesOfTwo(b, c, expr, n) ==
    {p \in 1 .. n : expr[p] = b /\ p + 1 \in 1 .. n /\ expr[p + 1] = c}

LEMMA TwoOccur ==
    ASSUME NEW b, NEW c, NEW expr, NEW n \in Nat, DOMAIN expr = 1 .. n
    PROVE  Occurrences(<<b, c>>, expr) = PlacesOfTwo(b, c, expr, n)
<1>1. DOMAIN <<b, c>> = {1, 2} /\ <<b, c>>[1] = b /\ <<b, c>>[2] = c
  OBVIOUS
<1>2. \A p \in 1 .. n : p + 1 - 1 = p /\ p + 2 - 1 = p + 1
  OBVIOUS
<1> QED  BY <1>1, <1>2, Zenon DEF Occurrences, PlacesOfTwo

(* A text with one symbol, of two characters or of one, from its third     *)
(* place on.                                                               *)
TwoAtThree(expr, n, a) ==
    /\ n \in Nat /\ 4 <= n /\ DOMAIN expr = 1 .. n /\ a \in Symbols
    /\ expr[3] = a /\ expr[4] = Equals
    /\ \A j \in 1 .. n : j \notin {3, 4} => expr[j] \notin Symbols

OneAtThree(expr, n, a) ==
    /\ n \in Nat /\ 3 <= n /\ DOMAIN expr = 1 .. n /\ a \in Symbols
    /\ expr[3] = a
    /\ \A j \in 1 .. n : j # 3 => expr[j] \notin Symbols

LEMMA TwoFound ==
    ASSUME NEW expr, NEW n, NEW a, TwoAtThree(expr, n, a), NEW b \in Symbols
    PROVE  Occurrences(<<b, Equals>>, expr) = IF b = a THEN {3} ELSE {}
<1>1. /\ n \in Nat /\ 4 <= n /\ DOMAIN expr = 1 .. n
      /\ expr[3] = a /\ expr[4] = Equals
      /\ \A j \in 1 .. n : j \notin {3, 4} => expr[j] \notin Symbols
  BY Zenon DEF TwoAtThree
<1>2. Equals \in Symbols
  BY Zenon DEF Symbols
<1>3. Occurrences(<<b, Equals>>, expr)
        = {p \in 1 .. n : expr[p] = b /\ p + 1 \in 1 .. n /\ expr[p + 1] = Equals}
  <2>1. Occurrences(<<b, Equals>>, expr) = PlacesOfTwo(b, Equals, expr, n)
    BY <1>1, TwoOccur, Zenon
  <2> QED  BY <2>1, Zenon DEF PlacesOfTwo
<1>4. ASSUME NEW p \in 1 .. n, expr[p] = b, p + 1 \in 1 .. n, expr[p + 1] = Equals
      PROVE  p = 3
  <2>1. p \in {3, 4} /\ p + 1 \in {3, 4}
    BY <1>1, <1>2, <1>4, Zenon
  <2> QED  BY <2>1
<1>5. 3 \in 1 .. n /\ 3 + 1 = 4 /\ 4 \in 1 .. n
  BY <1>1
<1> QED  BY <1>1, <1>3, <1>4, <1>5, Zenon

LEMMA NoneOfTwo ==
    ASSUME NEW expr, NEW n, NEW a, OneAtThree(expr, n, a), NEW b \in Symbols
    PROVE  Occurrences(<<b, Equals>>, expr) = {}
<1>1. /\ n \in Nat /\ DOMAIN expr = 1 .. n
      /\ \A j \in 1 .. n : j # 3 => expr[j] \notin Symbols
  BY Zenon DEF OneAtThree
<1>2. Equals \in Symbols
  BY Zenon DEF Symbols
<1>3. Occurrences(<<b, Equals>>, expr)
        = {p \in 1 .. n : expr[p] = b /\ p + 1 \in 1 .. n /\ expr[p + 1] = Equals}
  <2>1. Occurrences(<<b, Equals>>, expr) = PlacesOfTwo(b, Equals, expr, n)
    BY <1>1, TwoOccur, Zenon
  <2> QED  BY <2>1, Zenon DEF PlacesOfTwo
<1>4. ASSUME NEW p \in 1 .. n, expr[p] = b, p + 1 \in 1 .. n, expr[p + 1] = Equals
      PROVE  FALSE
  <2>1. p = 3 /\ p + 1 = 3
    BY <1>1, <1>2, <1>4, Zenon
  <2> QED  BY <2>1
<1> QED  BY <1>3, <1>4, Zenon

LEMMA OneFound ==
    ASSUME NEW expr, NEW n, NEW a, OneAtThree(expr, n, a), NEW b \in Symbols
    PROVE  Occurrences(<<b>>, expr) = IF b = a THEN {3} ELSE {}
<1>1. /\ n \in Nat /\ 3 <= n /\ DOMAIN expr = 1 .. n /\ expr[3] = a
      /\ \A j \in 1 .. n : j # 3 => expr[j] \notin Symbols
  BY Zenon DEF OneAtThree
<1>2. Occurrences(<<b>>, expr) = {p \in 1 .. n : expr[p] = b}
  BY <1>1, OneOccurs, Zenon
<1>3. 3 \in 1 .. n
  BY <1>1
<1> QED  BY <1>1, <1>2, <1>3, Zenon

(* The first of the operators that occurs splits the text where it occurs. *)
LEMMA ParsedAt ==
    ASSUME NEW expr, NEW k \in DOMAIN Operators,
           Occurrences(Operators[k].sym, expr) = {3},
           \A j \in DOMAIN Operators : Occurrences(Operators[j].sym, expr) # {} => k <= j
    PROVE  ParsePredicate(expr) =
               [column |-> SubSeq(expr, 1, 2), op |-> Operators[k].op,
                value |-> SubSeq(expr, 3 + Len(Operators[k].sym), Len(expr))]
<1> DEFINE found == {j \in DOMAIN Operators : Occurrences(Operators[j].sym, expr) # {}}
<1>1. DOMAIN Operators \subseteq Int
  BY DEF Operators
<1>2. k \in found /\ found # {} /\ found \subseteq Int /\ \A j \in found : k <= j
  BY <1>1, Zenon
<1>3. First(found) = k
  <2> HIDE DEF found
  <2> QED  BY <1>2, FirstIs, Zenon
<1>4. First(Occurrences(Operators[k].sym, expr)) = 3
  <2>1. {3} \subseteq Int /\ 3 \in {3} /\ \A q \in {3} : 3 <= q
    OBVIOUS
  <2>2. First({3}) = 3
    BY <2>1, FirstIs, Zenon
  <2> QED  BY <2>2, Zenon
<1>5. 3 - 1 = 2
  OBVIOUS
<1> QED  BY <1>2, <1>3, <1>4, <1>5, Zenon DEF ParsePredicate

(* A predicate's text, with a symbol of two characters and with one of one. *)
LEMMA ColumnOf ==
    ASSUME NEW U, NEW t \in U, NEW i \in U, NEW expr \in Seq(U),
           2 <= Len(expr), expr[1] = t, expr[2] = i
    PROVE  SubSeq(expr, 1, 2) = <<t, i>>
<1> DEFINE r == SubSeq(expr, 1, 2)
<1>1. r \in Seq(U) /\ Len(r) = 2 /\ r[1] = t /\ r[2] = i
  OBVIOUS
<1> HIDE DEF r
<1>2. r = <<t, i>>
  BY <1>1
<1> QED  BY <1>2 DEF r

FactsOfTwo(U, expr, t, i, a, e, value) ==
    /\ Len(expr) = 4 + Len(value) /\ DOMAIN expr = 1 .. Len(expr)
    /\ expr[1] = t /\ expr[2] = i /\ expr[3] = a /\ expr[4] = e
    /\ \A j \in 1 .. Len(expr) : j > 4 => expr[j] = value[j - 4] /\ j - 4 \in 1 .. Len(value)
    /\ SubSeq(expr, 1, 2) = <<t, i>> /\ SubSeq(expr, 3 + 2, Len(expr)) = value

LEMMA TextOfTwo ==
    ASSUME NEW U, NEW t \in U, NEW i \in U, NEW a \in U, NEW e \in U, NEW value \in Seq(U),
           NEW expr, expr = (<<t, i>> \o <<a, e>>) \o value
    PROVE  FactsOfTwo(U, expr, t, i, a, e, value)
<1>1. /\ Len(expr) = 4 + Len(value) /\ DOMAIN expr = 1 .. Len(expr) /\ expr \in Seq(U)
      /\ expr[1] = t /\ expr[2] = i /\ expr[3] = a /\ expr[4] = e
      /\ \A j \in 1 .. Len(expr) : j > 4 => expr[j] = value[j - 4] /\ j - 4 \in 1 .. Len(value)
      /\ SubSeq(expr, 3 + 2, Len(expr)) = value /\ 2 <= Len(expr)
  OBVIOUS
<1>2. SubSeq(expr, 1, 2) = <<t, i>>
  BY <1>1, ColumnOf, Zenon
<1> QED  BY <1>1, <1>2, Zenon DEF FactsOfTwo

FactsOfOne(U, expr, t, i, a, value) ==
    /\ Len(expr) = 3 + Len(value) /\ DOMAIN expr = 1 .. Len(expr)
    /\ expr[1] = t /\ expr[2] = i /\ expr[3] = a
    /\ \A j \in 1 .. Len(expr) : j > 3 => expr[j] = value[j - 3] /\ j - 3 \in 1 .. Len(value)
    /\ SubSeq(expr, 1, 2) = <<t, i>> /\ SubSeq(expr, 3 + 1, Len(expr)) = value

LEMMA TextOfOne ==
    ASSUME NEW U, NEW t \in U, NEW i \in U, NEW a \in U, NEW value \in Seq(U),
           NEW expr, expr = (<<t, i>> \o <<a>>) \o value
    PROVE  FactsOfOne(U, expr, t, i, a, value)
<1>1. /\ Len(expr) = 3 + Len(value) /\ DOMAIN expr = 1 .. Len(expr) /\ expr \in Seq(U)
      /\ expr[1] = t /\ expr[2] = i /\ expr[3] = a
      /\ \A j \in 1 .. Len(expr) : j > 3 => expr[j] = value[j - 3] /\ j - 3 \in 1 .. Len(value)
      /\ SubSeq(expr, 3 + 1, Len(expr)) = value /\ 2 <= Len(expr)
  OBVIOUS
<1>2. SubSeq(expr, 1, 2) = <<t, i>>
  BY <1>1, ColumnOf, Zenon
<1> QED  BY <1>1, <1>2, Zenon DEF FactsOfOne

(* A text whose only symbol is that of operator k, at the third place. *)
Splits(expr, k, t, i, value) ==
    /\ SubSeq(expr, 1, 2) = <<t, i>>
    /\ SubSeq(expr, 3 + Len(Operators[k].sym), Len(expr)) = value
    /\ Occurrences(Operators[k].sym, expr) = {3}
    /\ \A j \in DOMAIN Operators : Occurrences(Operators[j].sym, expr) # {} => k <= j

LEMMA OperatorFacts ==
    /\ DOMAIN Operators = 1 .. 6
    /\ Operators[1].sym = <<Bang, Equals>> /\ Operators[1].op = "Neq"
    /\ Operators[2].sym = <<Greater, Equals>> /\ Operators[2].op = "Gte"
    /\ Operators[3].sym = <<Less, Equals>> /\ Operators[3].op = "Lte"
    /\ Operators[4].sym = <<Equals, Equals>> /\ Operators[4].op = "Eq"
    /\ Operators[5].sym = <<Greater>> /\ Operators[5].op = "Gt"
    /\ Operators[6].sym = <<Less>> /\ Operators[6].op = "Lt"
  BY DEF Operators

LEMMA TwoSplits ==
    ASSUME NEW t, NEW i, t \notin Symbols, i \notin Symbols, NEW value \in Seq(Chars \ Symbols),
           NEW a \in Symbols, NEW k \in 1 .. 4, Operators[k].sym = <<a, Equals>>,
           NEW expr, expr = (<<t, i>> \o <<a, Equals>>) \o value
    PROVE  Splits(expr, k, t, i, value)
<1> DEFINE U == {t, i} \cup Symbols \cup Chars
           n == Len(expr)
<1>1. /\ t \in U /\ i \in U /\ a \in U /\ Equals \in U /\ Equals \in Symbols
      /\ Bang \in Symbols /\ Greater \in Symbols /\ Less \in Symbols
  BY Zenon DEF Symbols
<1>2. value \in Seq(U) /\ Len(value) \in Nat /\ \A j \in 1 .. Len(value) : value[j] \notin Symbols
  OBVIOUS
<1> HIDE DEF U
<1>3. /\ n = 4 + Len(value) /\ DOMAIN expr = 1 .. n
      /\ expr[1] = t /\ expr[2] = i /\ expr[3] = a /\ expr[4] = Equals
      /\ \A j \in 1 .. n : j > 4 => expr[j] = value[j - 4] /\ j - 4 \in 1 .. Len(value)
      /\ SubSeq(expr, 1, 2) = <<t, i>> /\ SubSeq(expr, 3 + 2, n) = value
  <2>1. FactsOfTwo(U, expr, t, i, a, Equals, value)
    BY <1>1, <1>2, TextOfTwo, Zenon
  <2> QED  BY <2>1, Zenon DEF FactsOfTwo
<1>4. n \in Nat /\ 4 <= n
  BY <1>2, <1>3
<1>6. ASSUME NEW j \in 1 .. n, j \notin {3, 4} PROVE expr[j] \notin Symbols
  <2>1. CASE j > 4
    BY <1>2, <1>3, <2>1, Zenon
  <2>2. CASE ~(j > 4)
    <3>1. j = 1 \/ j = 2
      BY <1>4, <1>6, <2>2
    <3> QED  BY <1>3, <3>1, Zenon
  <2> QED  BY <2>1, <2>2
<1>7. TwoAtThree(expr, n, a)
  BY <1>3, <1>4, <1>6, Zenon DEF TwoAtThree
<1>8. Occurrences(Operators[k].sym, expr) = {3}
  BY <1>7, TwoFound, Zenon
<1>9. ASSUME NEW j \in DOMAIN Operators, Occurrences(Operators[j].sym, expr) # {}
      PROVE  k <= j
  <2>1. j \in 1 .. 6
    BY OperatorFacts, Zenon
  <2>2. CASE j \in {5, 6}
    BY <2>2
  <2>3. CASE j \in 1 .. 4
    <3>1. PICK b \in Symbols : Operators[j].sym = <<b, Equals>>
      BY <1>1, <2>3, OperatorFacts
    <3>2. b = a
      BY <1>7, <1>9, <3>1, TwoFound, Zenon
    <3>3. Operators[j].sym = Operators[k].sym
      BY <3>1, <3>2, Zenon
    <3>4. j = k
      BY <2>3, <3>3, OperatorFacts, FilterRuleAssumption
    <3> QED  BY <3>4
  <2> QED  BY <2>1, <2>2, <2>3
<1>10. Len(Operators[k].sym) = 2
  OBVIOUS
<1> QED  BY <1>3, <1>8, <1>9, <1>10, Zenon DEF Splits

LEMMA OneSplits ==
    ASSUME NEW t, NEW i, t \notin Symbols, i \notin Symbols, NEW value \in Seq(Chars \ Symbols),
           NEW a \in Symbols, NEW k \in 5 .. 6, Operators[k].sym = <<a>>,
           NEW expr, expr = (<<t, i>> \o <<a>>) \o value
    PROVE  Splits(expr, k, t, i, value)
<1> DEFINE U == {t, i} \cup Symbols \cup Chars
           n == Len(expr)
<1>1. /\ t \in U /\ i \in U /\ a \in U /\ Equals \in Symbols
      /\ Bang \in Symbols /\ Greater \in Symbols /\ Less \in Symbols
  BY Zenon DEF Symbols
<1>2. value \in Seq(U) /\ Len(value) \in Nat /\ \A j \in 1 .. Len(value) : value[j] \notin Symbols
  OBVIOUS
<1> HIDE DEF U
<1>3. /\ n = 3 + Len(value) /\ DOMAIN expr = 1 .. n
      /\ expr[1] = t /\ expr[2] = i /\ expr[3] = a
      /\ \A j \in 1 .. n : j > 3 => expr[j] = value[j - 3] /\ j - 3 \in 1 .. Len(value)
      /\ SubSeq(expr, 1, 2) = <<t, i>> /\ SubSeq(expr, 3 + 1, n) = value
  <2>1. FactsOfOne(U, expr, t, i, a, value)
    BY <1>1, <1>2, TextOfOne, Zenon
  <2> QED  BY <2>1, Zenon DEF FactsOfOne
<1>4. n \in Nat /\ 3 <= n
  BY <1>2, <1>3
<1>5. ASSUME NEW j \in 1 .. n, j # 3 PROVE expr[j] \notin Symbols
  <2>1. CASE j > 3
    BY <1>2, <1>3, <2>1, Zenon
  <2>2. CASE ~(j > 3)
    <3>1. j = 1 \/ j = 2
      BY <1>4, <1>5, <2>2
    <3> QED  BY <1>3, <3>1, Zenon
  <2> QED  BY <2>1, <2>2
<1>6. OneAtThree(expr, n, a)
  BY <1>3, <1>4, <1>5, Zenon DEF OneAtThree
<1>7. Occurrences(Operators[k].sym, expr) = {3}
  BY <1>6, OneFound, Zenon
<1>8. ASSUME NEW j \in DOMAIN Operators, Occurrences(Operators[j].sym, expr) # {}
      PROVE  k <= j
  <2>1. j \in 1 .. 6
    BY OperatorFacts, Zenon
  <2>2. CASE j \in 1 .. 4
    <3>1. PICK b \in Symbols : Operators[j].sym = <<b, Equals>>
      BY <1>1, <2>2, OperatorFacts
    <3> QED  BY <1>6, <1>8, <3>1, NoneOfTwo, Zenon
  <2>3. CASE j \in 5 .. 6
    <3>1. PICK b \in Symbols : Operators[j].sym = <<b>>
      BY <1>1, <2>3, OperatorFacts
    <3>2. b = a
      BY <1>6, <1>8, <3>1, OneFound, Zenon
    <3>3. Operators[j].sym = Operators[k].sym
      BY <3>1, <3>2, Zenon
    <3>4. j = k
      BY <2>3, <3>3, OperatorFacts, FilterRuleAssumption
    <3> QED  BY <3>4
  <2> QED  BY <2>1, <2>2, <2>3
<1>9. Len(Operators[k].sym) = 1
  OBVIOUS
<1> QED  BY <1>3, <1>7, <1>8, <1>9, Zenon DEF Splits

(* A predicate free of the symbols' characters is read as it was written. *)
LEMMA PredicateParsed ==
    ASSUME NEW t, t \notin Symbols, NEW I, Symbols \cap I = {},
           NEW p \in [column : {t} \X I, op : DOMAIN Symbol, value : Seq(Chars \ Symbols)]
    PROVE  ParsePredicate(PredicateText(p)) = p
<1>1. /\ p.column \in {t} \X I /\ p.value \in Seq(Chars \ Symbols)
      /\ p.op \in DOMAIN Symbol /\ p = [column |-> p.column, op |-> p.op, value |-> p.value]
  OBVIOUS
<1>2. PICK i \in I : p.column = <<t, i>>
  BY <1>1
<1>3. i \notin Symbols
  OBVIOUS
<1> DEFINE expr == PredicateText(p)
<1>4. PICK k \in DOMAIN Operators : Operators[k].op = p.op /\ Splits(expr, k, t, i, p.value)
  <2>1. expr = (<<t, i>> \o Symbol[p.op]) \o p.value
    BY <1>2, Zenon DEF PredicateText
  <2> HIDE DEF expr
  <2>2. Bang \in Symbols /\ Greater \in Symbols /\ Less \in Symbols /\ Equals \in Symbols
    BY Zenon DEF Symbols
  <2>3. CASE p.op = "Neq"
    <3>1. Symbol[p.op] = <<Bang, Equals>> /\ 1 \in 1 .. 4 /\ 1 \in 1 .. 6
      BY <2>3 DEF Symbol
    <3>2. expr = (<<t, i>> \o <<Bang, Equals>>) \o p.value
      BY <2>1, <3>1, Zenon
    <3>3. Splits(expr, 1, t, i, p.value)
      BY <1>1, <1>3, <2>2, <3>1, <3>2, TwoSplits, OperatorFacts, Zenon
    <3> QED  BY <2>3, <3>1, <3>3, OperatorFacts, Zenon
  <2>4. CASE p.op = "Gte"
    <3>1. Symbol[p.op] = <<Greater, Equals>> /\ 2 \in 1 .. 4 /\ 2 \in 1 .. 6
      BY <2>4 DEF Symbol
    <3>2. expr = (<<t, i>> \o <<Greater, Equals>>) \o p.value
      BY <2>1, <3>1, Zenon
    <3>3. Splits(expr, 2, t, i, p.value)
      BY <1>1, <1>3, <2>2, <3>1, <3>2, TwoSplits, OperatorFacts, Zenon
    <3> QED  BY <2>4, <3>1, <3>3, OperatorFacts, Zenon
  <2>5. CASE p.op = "Lte"
    <3>1. Symbol[p.op] = <<Less, Equals>> /\ 3 \in 1 .. 4 /\ 3 \in 1 .. 6
      BY <2>5 DEF Symbol
    <3>2. expr = (<<t, i>> \o <<Less, Equals>>) \o p.value
      BY <2>1, <3>1, Zenon
    <3>3. Splits(expr, 3, t, i, p.value)
      BY <1>1, <1>3, <2>2, <3>1, <3>2, TwoSplits, OperatorFacts, Zenon
    <3> QED  BY <2>5, <3>1, <3>3, OperatorFacts, Zenon
  <2>6. CASE p.op = "Eq"
    <3>1. Symbol[p.op] = <<Equals, Equals>> /\ 4 \in 1 .. 4 /\ 4 \in 1 .. 6
      BY <2>6 DEF Symbol
    <3>2. expr = (<<t, i>> \o <<Equals, Equals>>) \o p.value
      BY <2>1, <3>1, Zenon
    <3>3. Splits(expr, 4, t, i, p.value)
      BY <1>1, <1>3, <2>2, <3>1, <3>2, TwoSplits, OperatorFacts, Zenon
    <3> QED  BY <2>6, <3>1, <3>3, OperatorFacts, Zenon
  <2>7. CASE p.op = "Gt"
    <3>1. Symbol[p.op] = <<Greater>> /\ 5 \in 5 .. 6 /\ 5 \in 1 .. 6
      BY <2>7 DEF Symbol
    <3>2. expr = (<<t, i>> \o <<Greater>>) \o p.value
      BY <2>1, <3>1, Zenon
    <3>3. Splits(expr, 5, t, i, p.value)
      BY <1>1, <1>3, <2>2, <3>1, <3>2, OneSplits, OperatorFacts, Zenon
    <3> QED  BY <2>7, <3>1, <3>3, OperatorFacts, Zenon
  <2>8. CASE p.op = "Lt"
    <3>1. Symbol[p.op] = <<Less>> /\ 6 \in 5 .. 6 /\ 6 \in 1 .. 6
      BY <2>8 DEF Symbol
    <3>2. expr = (<<t, i>> \o <<Less>>) \o p.value
      BY <2>1, <3>1, Zenon
    <3>3. Splits(expr, 6, t, i, p.value)
      BY <1>1, <1>3, <2>2, <3>1, <3>2, OneSplits, OperatorFacts, Zenon
    <3> QED  BY <2>8, <3>1, <3>3, OperatorFacts, Zenon
  <2> QED  BY <1>1, <2>3, <2>4, <2>5, <2>6, <2>7, <2>8 DEF Symbol
<1> HIDE DEF expr
<1>5. ParsePredicate(expr) = [column |-> <<t, i>>, op |-> p.op, value |-> p.value]
  <2>1. /\ SubSeq(expr, 1, 2) = <<t, i>>
        /\ SubSeq(expr, 3 + Len(Operators[k].sym), Len(expr)) = p.value
        /\ Occurrences(Operators[k].sym, expr) = {3}
        /\ \A j \in DOMAIN Operators : Occurrences(Operators[j].sym, expr) # {} => k <= j
    BY <1>4, Zenon DEF Splits
  <2>2. ParsePredicate(expr) =
            [column |-> SubSeq(expr, 1, 2), op |-> Operators[k].op,
             value |-> SubSeq(expr, 3 + Len(Operators[k].sym), Len(expr))]
    BY <2>1, ParsedAt, Zenon
  <2> QED  BY <1>4, <2>1, <2>2, Zenon
<1> QED  BY <1>1, <1>2, <1>5, Zenon DEF expr

TailOf(p) == {p[j] : j \in 2 .. Len(p)}

LEMMA TailRange ==
    ASSUME NEW U, NEW p \in Seq(U), p # <<>>
    PROVE  Range(Tail(p)) = TailOf(p)
<1>1. Len(p) \in Nat /\ Len(p) # 0 /\ DOMAIN Tail(p) = 1 .. Len(p) - 1
  OBVIOUS
<1>2. \A j \in 1 .. Len(p) - 1 : Tail(p)[j] = p[j + 1]
  OBVIOUS
<1>3. \A j \in 2 .. Len(p) : j - 1 \in 1 .. Len(p) - 1 /\ (j - 1) + 1 = j
  BY <1>1
<1>4. \A j \in 1 .. Len(p) - 1 : j + 1 \in 2 .. Len(p)
  BY <1>1
<1>5. Range(Tail(p)) = {Tail(p)[j] : j \in 1 .. Len(p) - 1}
  BY <1>1, Zenon DEF Range
<1>6. \A x \in Range(Tail(p)) : x \in {p[j] : j \in 2 .. Len(p)}
  BY <1>2, <1>4, <1>5, Zenon
<1>7. ASSUME NEW j \in 2 .. Len(p) PROVE p[j] \in Range(Tail(p))
  <2>1. Tail(p)[j - 1] = p[(j - 1) + 1]
    BY <1>2, <1>3, Zenon
  <2>2. Tail(p)[j - 1] = p[j]
    BY <1>3, <2>1, Zenon
  <2> QED  BY <1>3, <1>5, <2>2, Zenon
<1> QED  BY <1>6, <1>7, Zenon DEF TailOf

(* parse_filter_expr reads a rule as it was written: the symbols share     *)
(* characters, and no predicate is split at a part of its symbol or taken  *)
(* for another comparison.  Operations may come in several parts.          *)
THEOREM RuleParsed ==
    ASSUME NEW t, t \notin Symbols, NEW I, Symbols \cap I = {},
           NEW rule \in Rules({t} \X I, DOMAIN Symbol, Seq(Chars \ Symbols)),
           NoRule \notin rule.predicates, NEW text, Writes(text, rule)
    PROVE  ParseFilterExpr(text) = rule
<1> DEFINE opParts == {p \in Range(text) : p # <<>> /\ p[1] = OpPrefix}
           others == Range(text) \ (opParts \cup {<<>>})
           tags == UNION {Range(Tail(p)) : p \in opParts}
           Predicates == [column : {t} \X I, op : DOMAIN Symbol,
                          value : Seq(Chars \ Symbols)]
<1>1. /\ rule.predicates \subseteq Predicates
      /\ rule = [ops |-> rule.ops, predicates |-> rule.predicates]
  BY DEF Rules
<1>2. /\ \A p \in Range(text) : p \in Seq(Range(p))
      /\ rule.ops = {op \in DOMAIN OpTags :
                       \E p \in opParts : \E j \in 2 .. Len(p) : p[j] \in OpTags[op]}
      /\ others = {PredicateText(p) : p \in rule.predicates}
  BY Zenon DEF Writes
<1>3. FromStrTags(tags) = rule.ops
  <2>1. ASSUME NEW p \in opParts PROVE Range(Tail(p)) = TailOf(p)
    <3>1. p \in Seq(Range(p)) /\ p # <<>>
      BY <1>2, Zenon
    <3> QED  BY <3>1, TailRange, Zenon
  <2> HIDE DEF opParts
  <2>2. tags = UNION {TailOf(p) : p \in opParts}
    BY <2>1, Zenon
  <2> HIDE DEF tags
  <2>3. \A op \in DOMAIN OpTags : OpTags[op] \cap tags # {} <=>
            \E p \in opParts : \E j \in 2 .. Len(p) : p[j] \in OpTags[op]
    <3> SUFFICES ASSUME NEW op \in DOMAIN OpTags
                 PROVE  OpTags[op] \cap tags # {} <=>
                            \E p \in opParts : \E j \in 2 .. Len(p) : p[j] \in OpTags[op]
      OBVIOUS
    <3>1. ASSUME NEW tag \in OpTags[op] \cap tags
          PROVE  \E p \in opParts : \E j \in 2 .. Len(p) : p[j] \in OpTags[op]
      <4>1. PICK p \in opParts : tag \in TailOf(p)
        BY <2>2, Zenon
      <4> QED  BY <4>1, Zenon DEF TailOf
    <3>2. ASSUME NEW p \in opParts, NEW j \in 2 .. Len(p), p[j] \in OpTags[op]
          PROVE  OpTags[op] \cap tags # {}
      <4>1. p[j] \in TailOf(p)
        BY Zenon DEF TailOf
      <4>2. p[j] \in tags
        BY <2>2, <4>1, Zenon
      <4> QED  BY <3>2, <4>2, Zenon
    <3> QED  BY <3>1, <3>2, Zenon
  <2> QED  BY <1>2, <2>3, Zenon DEF FromStrTags
<1>4. {ParsePredicate(p) : p \in others} \ {NoRule} = rule.predicates
  <2>1. \A p \in rule.predicates : ParsePredicate(PredicateText(p)) = p
    <3> HIDE DEF Predicates
    <3>1. \A p \in Predicates : ParsePredicate(PredicateText(p)) = p
      BY PredicateParsed, Zenon DEF Predicates
    <3> QED  BY <1>1, <3>1, Zenon
  <2>2. others = {PredicateText(p) : p \in rule.predicates}
    BY <1>2, Zenon
  <2> HIDE DEF others
  <2>3. \A q \in others : ParsePredicate(q) \in rule.predicates
    BY <2>1, <2>2, Zenon
  <2>4. \A p \in rule.predicates : \E q \in others : p = ParsePredicate(q)
    BY <2>1, <2>2, Zenon
  <2> QED  BY <2>3, <2>4, Zenon
<1>5. ParseFilterExpr(text) =
         [ops |-> FromStrTags(tags), predicates |-> {ParsePredicate(p) : p \in others} \ {NoRule}]
  BY Zenon DEF ParseFilterExpr
<1> QED  BY <1>1, <1>3, <1>4, <1>5, Zenon

-----------------------------------------------------------------------------
(* The write-ahead log *)

Recs == (1 .. MaxAppends) \cup {Torn}

File == [recs : Seq(Recs), bytes : Nat, synced : Nat]

(* The whole records of all segments stand in the order they were          *)
(* appended, those behind a torn one too.                                  *)
RecordsInOrder ==
    \A f, g \in DOMAIN files :
        \A i \in DOMAIN files[f].recs, j \in DOMAIN files[g].recs :
            /\ f < g \/ (f = g /\ i < j)
            /\ Torn \notin {files[f].recs[i], files[g].recs[j]}
            => files[f].recs[i] < files[g].recs[j]

(* Segments are numbered as they are made, one append makes at most one,   *)
(* and what they hold has been appended.  A writer that need not rotate is *)
(* at the end of the last segment and knows its size; the file of one that *)
(* must may even have been removed.                                        *)
WalInv ==
    /\ WalTypeOK /\ RecordsInOrder /\ SegmentsBounded
    /\ DOMAIN files \subseteq 1 .. segment
    /\ \A f \in DOMAIN files : \A i \in DOMAIN files[f].recs :
          files[f].recs[i] # Torn => files[f].recs[i] <= last_lsn
    /\ ~NeedsRotation =>
          open = segment /\ open \in DOMAIN files /\ files[open].bytes = segment_bytes

(* The types, one by one. *)
LEMMA WalTypes ==
    ASSUME WalInv
    PROVE  /\ \A f \in DOMAIN files : /\ files[f] \in File /\ f \in 1 .. segment
                                      /\ files[f].synced <= Len(files[f].recs)
           /\ open \in (0 .. MaxAppends) \cup {NoFile}
           /\ segment \in Nat /\ segment <= given
           /\ segment_bytes \in Nat /\ max_segment_bytes \in Nat /\ MaxAppends \in Nat
           /\ given \in 0 .. MaxAppends
           /\ last_lsn \in 0 .. given /\ synced \in 0 .. given /\ mark \in 0 .. given
           /\ Torn \notin Nat /\ NoFile \notin Nat
<1>1. /\ \A f \in DOMAIN files : files[f] \in File /\ files[f].synced <= Len(files[f].recs)
      /\ DOMAIN files \subseteq 1 .. segment
      /\ open \in (0 .. MaxAppends) \cup {NoFile}
      /\ segment_bytes \in Nat /\ given \in 0 .. MaxAppends
      /\ {segment, last_lsn, synced, mark} \subseteq 0 .. given
  BY Zenon DEF WalInv, WalTypeOK, File, Recs
<1>2. /\ max_segment_bytes \in Nat /\ MaxAppends \in Nat /\ Torn \notin Nat /\ NoFile \notin Nat
  BY WalAssumption
<1> QED  BY <1>1, <1>2

(* The file an append writes to: the last segment, old or new. *)
LEMMA TargetFacts ==
    ASSUME WalInv, given < MaxAppends
    PROVE  LET t == Target
           IN  /\ t.open = t.segment /\ t.segment \in 1 .. given + 1 /\ t.segment >= segment
               /\ DOMAIN t.files = DOMAIN files \cup {t.open}
               /\ \A f \in DOMAIN files : t.files[f] = files[f]
               /\ t.open \notin DOMAIN files =>
                     t.files[t.open] = [recs |-> <<>>, bytes |-> 0, synced |-> 0]
               /\ t.files[t.open].bytes = t.bytes /\ t.bytes \in Nat
               /\ t.bytes = 0 \/ t.bytes < max_segment_bytes
<1>1. CASE NeedsRotation
  <2>1. segment + 1 \notin DOMAIN files
    BY WalTypes
  <2> DEFINE new == [g \in DOMAIN files \cup {segment + 1} |->
                        IF g = segment + 1 THEN [recs |-> <<>>, bytes |-> 0, synced |-> 0]
                        ELSE files[g]]
  <2>2. Target = [segment |-> segment + 1, open |-> segment + 1, bytes |-> 0, files |-> new]
    BY <1>1, <2>1 DEF Target, Rotated, SegmentFile
  <2>3. /\ DOMAIN new = DOMAIN files \cup {segment + 1}
        /\ \A f \in DOMAIN files : new[f] = files[f]
        /\ new[segment + 1] = [recs |-> <<>>, bytes |-> 0, synced |-> 0]
    BY <2>1
  <2>4. /\ Target.segment = segment + 1 /\ Target.open = segment + 1 /\ Target.bytes = 0
        /\ Target.files = new
    BY <2>2
  <2> HIDE DEF new
  <2>5. segment + 1 \in 1 .. given + 1 /\ segment + 1 >= segment
    BY WalTypes
  <2> QED  BY <2>3, <2>4, <2>5
<1>2. CASE ~NeedsRotation
  <2>1. /\ Target.segment = segment /\ Target.open = open /\ Target.bytes = segment_bytes
        /\ Target.files = files
    BY <1>2 DEF Target, AsIs
  <2>2. open = segment /\ open \in DOMAIN files /\ files[open].bytes = segment_bytes
    BY <1>2 DEF WalInv
  <2>3. segment_bytes < max_segment_bytes
    BY <1>2, WalTypes DEF NeedsRotation
  <2>4. segment \in 1 .. given + 1 /\ segment >= segment
    BY <2>2, WalTypes
  <2>5. DOMAIN files = DOMAIN files \cup {open}
    BY <2>2
  <2> QED  BY <2>1, <2>2, <2>3, <2>4, <2>5, WalTypes
<1> QED  BY <1>1, <1>2

(* A record, whole or torn, comes to the end of the last segment. *)
LEMMA LastRecord ==
    ASSUME WalInv, NEW k \in 1 .. given + 1, k >= segment,
           NEW old \in File, NEW new \in File, NEW r \in {given + 1, Torn},
           k \in DOMAIN files => old = files[k],
           k \notin DOMAIN files => old.recs = <<>>,
           new.recs = Append(old.recs, r),
           DOMAIN files' = DOMAIN files \cup {k}, files'[k] = new,
           \A f \in DOMAIN files : f # k => files'[f] = files[f],
           last_lsn' = IF r = Torn THEN last_lsn ELSE given + 1
    PROVE  /\ RecordsInOrder'
           /\ \A f \in DOMAIN files' : f \in 1 .. k
           /\ \A f \in DOMAIN files' : \A i \in DOMAIN files'[f].recs :
                 files'[f].recs[i] # Torn => files'[f].recs[i] <= last_lsn'
<1> DEFINE n == Len(old.recs)
<1>1. /\ n \in Nat /\ DOMAIN old.recs = 1 .. n
      /\ DOMAIN new.recs = 1 .. n + 1 /\ new.recs[n + 1] = r
      /\ \A i \in 1 .. n : new.recs[i] = old.recs[i]
      /\ k \notin DOMAIN files => n = 0
  <2>1. old.recs \in Seq(Recs)
    BY DEF File
  <2> QED  BY <2>1
<1> HIDE DEF n
<1>2. \A f \in DOMAIN files' : f \in 1 .. k
  <2>1. \A f \in DOMAIN files : f \in 1 .. segment
    BY WalTypes
  <2>2. segment \in Nat /\ k \in Nat \ {0}
    BY WalTypes
  <2> QED  BY <2>1, <2>2
<1>3. ASSUME NEW f \in DOMAIN files', NEW i \in DOMAIN files'[f].recs
      PROVE  \/ f = k /\ i = n + 1 /\ files'[f].recs[i] = r
             \/ /\ f \in DOMAIN files /\ i \in DOMAIN files[f].recs
                /\ files'[f].recs[i] = files[f].recs[i]
  <2>1. CASE f # k
    BY <1>3, <2>1
  <2>2. CASE f = k
    <3>1. i \in 1 .. n + 1 /\ files'[f].recs[i] = new.recs[i]
      BY <1>1, <1>3, <2>2
    <3>2. CASE i = n + 1
      BY <1>1, <2>2, <3>1, <3>2
    <3>3. CASE i # n + 1
      <4>1. i \in 1 .. n
        BY <1>1, <3>1, <3>3
      <4>2. n # 0
        BY <1>1, <4>1
      <4>3. k \in DOMAIN files /\ old = files[k]
        BY <1>1, <4>2
      <4> QED  BY <1>1, <2>2, <3>1, <4>1, <4>3
    <3> QED  BY <3>2, <3>3
  <2> QED  BY <2>1, <2>2
<1>4. ASSUME NEW f \in DOMAIN files, NEW i \in DOMAIN files[f].recs, files[f].recs[i] # Torn
      PROVE  files[f].recs[i] <= last_lsn /\ files[f].recs[i] \in Nat
  <2>1. files[f].recs \in Seq(Recs)
    BY WalTypes DEF File
  <2>2. files[f].recs[i] \in Recs
    BY <2>1
  <2>3. files[f].recs[i] \in Nat
    BY <1>4, <2>2, WalTypes DEF Recs
  <2> QED  BY <1>4, <2>3 DEF WalInv
<1>5. last_lsn \in Nat /\ given \in Nat /\ last_lsn <= given /\ Torn \notin Nat
  BY WalTypes
<1>6. ASSUME NEW f \in DOMAIN files', NEW i \in DOMAIN files'[f].recs, files'[f].recs[i] # Torn
      PROVE  files'[f].recs[i] <= last_lsn'
  <2>1. CASE files'[f].recs[i] = r
    BY <1>5, <1>6, <2>1
  <2>2. CASE f \in DOMAIN files /\ i \in DOMAIN files[f].recs
             /\ files'[f].recs[i] = files[f].recs[i]
    <3>1. files[f].recs[i] <= last_lsn /\ files[f].recs[i] \in Nat
      BY <1>4, <1>6, <2>2
    <3>2. last_lsn <= last_lsn' /\ last_lsn' \in Nat
      BY <1>5
    <3> QED  BY <1>5, <2>2, <3>1, <3>2
  <2> QED  BY <1>3, <2>1, <2>2
<1>7. ASSUME NEW f \in DOMAIN files', NEW g \in DOMAIN files',
             NEW i \in DOMAIN files'[f].recs, NEW j \in DOMAIN files'[g].recs,
             f < g \/ (f = g /\ i < j),
             files'[f].recs[i] # Torn, files'[g].recs[j] # Torn
      PROVE  files'[f].recs[i] < files'[g].recs[j]
  <2>1. f \in 1 .. k /\ g \in 1 .. k /\ k \in Int
    BY <1>2
  <2>2. CASE f = k /\ i = n + 1
    <3>1. g = k /\ i < j
      BY <1>7, <2>1, <2>2
    <3>2. j \in 1 .. n + 1
      BY <1>1, <3>1
    <3> QED  BY <1>1, <2>2, <3>1, <3>2
  <2>3. CASE f \in DOMAIN files /\ i \in DOMAIN files[f].recs
             /\ files'[f].recs[i] = files[f].recs[i]
    <3>1. CASE files'[g].recs[j] = r
      <4>1. files[f].recs[i] <= last_lsn /\ files[f].recs[i] \in Nat
        BY <1>4, <1>7, <2>3
      <4> QED  BY <1>5, <1>7, <2>3, <3>1, <4>1
    <3>2. CASE g \in DOMAIN files /\ j \in DOMAIN files[g].recs
               /\ files'[g].recs[j] = files[g].recs[j]
      BY <1>7, <2>3, <3>2 DEF WalInv, RecordsInOrder
    <3> QED  BY <1>3, <3>1, <3>2
  <2> QED  BY <1>3, <2>2, <2>3
<1>8. RecordsInOrder'
  BY <1>7 DEF RecordsInOrder
<1> QED  BY <1>2, <1>6, <1>8

(* append, whether it returns Ok or stops half way. *)
LEMMA AppendStep ==
    ASSUME WalInv, NEW k \in 1 .. given + 1, k >= segment,
           NEW old \in File, NEW new \in File, NEW r \in {given + 1, Torn},
           k \in DOMAIN files => old = files[k],
           k \notin DOMAIN files => old.recs = <<>>,
           new.recs = Append(old.recs, r),
           DOMAIN files' = DOMAIN files \cup {k}, files'[k] = new,
           \A f \in DOMAIN files : f # k => files'[f] = files[f],
           last_lsn' = IF r = Torn THEN last_lsn ELSE given + 1,
           NEW s \in Nat, s \in Sizes \/ s = 0, new.bytes = old.bytes + s,
           old.bytes = 0 \/ old.bytes < max_segment_bytes,
           new.synced <= Len(new.recs), Give,
           open' = k, segment' = k, segment_bytes' = new.bytes
    PROVE  WalInv'
<1>1. given < MaxAppends /\ given' = given + 1 /\ synced' = synced /\ mark' = mark
  BY DEF Give
<1>2. /\ RecordsInOrder'
      /\ \A f \in DOMAIN files' : f \in 1 .. k
      /\ \A f \in DOMAIN files' : \A i \in DOMAIN files'[f].recs :
            files'[f].recs[i] # Torn => files'[f].recs[i] <= last_lsn'
  BY LastRecord, Zenon
<1>3. old.bytes \in Nat /\ new.bytes \in Nat
  BY DEF File
<1>4. WalTypeOK'
  <2>1. \A f \in DOMAIN files : files[f] \in File /\ files[f].synced <= Len(files[f].recs)
    BY WalTypes
  <2>2. \A f \in DOMAIN files' : files'[f] \in File /\ files'[f].synced <= Len(files'[f].recs)
    BY <2>1, Zenon
  <2>3. /\ k \in 0 .. MaxAppends /\ k \in 0 .. given' /\ given' \in 0 .. MaxAppends /\ synced' \in 0 .. given'
        /\ mark' \in 0 .. given' /\ last_lsn' \in 0 .. given' /\ MaxAppends \in Nat
    <3>1. given \in Nat /\ last_lsn \in 0 .. given /\ synced \in 0 .. given /\ mark \in 0 .. given
          /\ MaxAppends \in Nat
      BY WalTypes
    <3>2. last_lsn' = last_lsn \/ last_lsn' = given + 1
      OBVIOUS
    <3> QED  BY <1>1, <3>1, <3>2
  <2>4. DOMAIN files' \subseteq 0 .. MaxAppends
    BY <1>2, <2>3
  <2>5. {segment', last_lsn', synced', mark'} \subseteq 0 .. given'
    BY <2>3
  <2> QED  BY <1>3, <2>2, <2>3, <2>4, <2>5, Zenon DEF WalTypeOK, File, Recs
<1>5. ASSUME NEW f \in DOMAIN files'
      PROVE  \E z \in Sizes : files'[f].bytes <= z \/ files'[f].bytes < max_segment_bytes + z
  <2>1. CASE f # k
    BY <1>5, <2>1 DEF WalInv, SegmentsBounded
  <2>2. CASE f = k
    <3>1. PICK z \in Sizes : s <= z /\ z \in Nat
      <4>1. Sizes \subseteq Nat /\ Sizes # {}
        BY WalAssumption
      <4>2. CASE s \in Sizes
        BY <4>1, <4>2
      <4>3. CASE s = 0
        <5>1. PICK z \in Sizes : TRUE
          BY <4>1, Zenon
        <5>2. z \in Nat /\ 0 <= z
          BY <4>1, <5>1
        <5> QED  BY <4>3, <5>2
      <4> QED  BY <4>2, <4>3
    <3>2. max_segment_bytes \in Nat /\ files'[f].bytes = old.bytes + s
      BY <2>2, WalTypes
    <3> QED  BY <1>3, <3>1, <3>2
  <2> QED  BY <2>1, <2>2
<1>6. k <= given' /\ files'[k].bytes = segment_bytes' /\ k \in DOMAIN files'
  BY <1>1, WalTypes
<1> QED  BY <1>2, <1>4, <1>5, <1>6 DEF WalInv, SegmentsBounded

(* append fails before it has written a byte: a segment may be new. *)
LEMMA NothingWritten ==
    ASSUME WalInv, AppendFails(FALSE) PROVE WalInv'
<1>1. PICK t, k : t = Target /\ k = t.open
  OBVIOUS
<1>2. /\ Give /\ given < MaxAppends /\ given' = given + 1 /\ synced' = synced /\ mark' = mark
      /\ last_lsn' = last_lsn /\ open' = k /\ segment' = t.segment /\ segment_bytes' = t.bytes
      /\ files' = t.files
  BY <1>1 DEF AppendFails, Give
<1>3. /\ k = t.segment /\ k \in 1 .. given + 1 /\ k >= segment
      /\ DOMAIN t.files = DOMAIN files \cup {k}
      /\ \A f \in DOMAIN files : t.files[f] = files[f]
      /\ k \notin DOMAIN files => t.files[k] = [recs |-> <<>>, bytes |-> 0, synced |-> 0]
      /\ t.files[k].bytes = t.bytes /\ t.bytes \in Nat
  BY <1>1, <1>2, TargetFacts
<1>4. [recs |-> <<>>, bytes |-> 0, synced |-> 0] \in File /\ 0 <= Len(<<>>)
  BY DEF File
<1>5. \A f \in DOMAIN t.files : t.files[f] \in File /\ t.files[f].synced <= Len(t.files[f].recs)
  <2>1. \A f \in DOMAIN files : t.files[f] \in File /\ t.files[f].synced <= Len(t.files[f].recs)
    BY <1>3, WalTypes, Zenon
  <2>2. k \notin DOMAIN files => t.files[k] \in File /\ t.files[k].synced <= Len(t.files[k].recs)
    BY <1>3, <1>4
  <2> QED  BY <1>3, <2>1, <2>2, Zenon
<1>6. /\ DOMAIN files' = DOMAIN files \cup {k}
      /\ \A f \in DOMAIN files' : \A i \in DOMAIN files'[f].recs :
            f \in DOMAIN files /\ files'[f] = files[f]
  BY <1>3, <1>2
<1>7. /\ {segment', last_lsn', synced', mark'} \subseteq 0 .. given' /\ given' \in 0 .. MaxAppends
      /\ open' \in 0 .. MaxAppends /\ segment_bytes' \in Nat
      /\ DOMAIN files' \subseteq 1 .. segment' /\ DOMAIN files' \subseteq 0 .. MaxAppends
  <2>1. /\ DOMAIN files \subseteq 1 .. segment /\ segment \in Nat /\ MaxAppends \in Nat
        /\ given \in 0 .. MaxAppends /\ {last_lsn, synced, mark} \subseteq 0 .. given
    BY WalTypes, Zenon
  <2>2. {segment', last_lsn', synced', mark'} \subseteq 0 .. given' /\ given' \in 0 .. MaxAppends
    BY <1>2, <1>3, <2>1
  <2>3. open' \in 0 .. MaxAppends /\ segment_bytes' \in Nat
    BY <1>2, <1>3, <2>1
  <2>4. DOMAIN files' \subseteq 1 .. segment' /\ DOMAIN files' \subseteq 0 .. MaxAppends
    BY <1>2, <1>3, <1>6, <2>1
  <2> QED  BY <2>2, <2>3, <2>4
<1>8. WalTypeOK'
  BY <1>5, <1>2, <1>7, Zenon DEF WalTypeOK, File, Recs
<1>9. RecordsInOrder'
  BY <1>6, Zenon DEF WalInv, RecordsInOrder
<1>10. SegmentsBounded'
  <2>1. ASSUME NEW f \in DOMAIN files'
        PROVE  \E z \in Sizes : files'[f].bytes <= z \/ files'[f].bytes < max_segment_bytes + z
    <3>1. CASE f \in DOMAIN files
      BY <1>3, <1>2, <3>1 DEF WalInv, SegmentsBounded
    <3>2. CASE f \notin DOMAIN files
      <4>1. files'[f].bytes = 0
        BY <1>3, <1>2, <2>1, <3>2
      <4>2. PICK z \in Sizes : z \in Nat
        BY WalAssumption
      <4> QED  BY <4>1, <4>2
    <3> QED  BY <3>1, <3>2
  <2> QED  BY <2>1 DEF SegmentsBounded
<1>11. \A f \in DOMAIN files' : \A i \in DOMAIN files'[f].recs :
           files'[f].recs[i] # Torn => files'[f].recs[i] <= last_lsn'
  BY <1>2, <1>6, Zenon DEF WalInv
<1>12. open' = segment' /\ open' \in DOMAIN files' /\ files'[open'].bytes = segment_bytes'
  BY <1>2, <1>3, <1>6
<1> QED  BY <1>7, <1>8, <1>9, <1>10, <1>11, <1>12 DEF WalInv

(* rotate fails: nothing but the numbers moves on. *)
LEMMA RotateFailsStep == ASSUME WalInv, RotateFails PROVE WalInv'
<1>1. /\ given < MaxAppends /\ given' = given + 1 /\ segment' = segment + 1 /\ NeedsRotation
      /\ UNCHANGED <<synced, mark, files, open, segment_bytes, last_lsn>>
  BY DEF RotateFails, Give
<1>2. /\ given' \in 0 .. MaxAppends
      /\ {segment', last_lsn, synced, mark} \subseteq 0 .. given' /\ 1 .. segment \subseteq 1 .. segment'
  BY <1>1, WalTypes
<1>3. WalTypeOK'
  BY <1>1, <1>2 DEF WalInv, WalTypeOK
<1>4. NeedsRotation'
  BY <1>1 DEF NeedsRotation
<1> QED
  BY <1>1, <1>2, <1>3, <1>4 DEF WalInv, RecordsInOrder, SegmentsBounded

(* sync_all *)
LEMMA SyncStep == ASSUME WalInv, Sync PROVE WalInv'
<1>1. /\ open \in DOMAIN files /\ synced' = last_lsn
      /\ files' = [files EXCEPT ![open].synced = Len(files[open].recs)]
      /\ UNCHANGED <<open, segment, segment_bytes, last_lsn, given, mark>>
  BY DEF Sync
<1>2. /\ DOMAIN files' = DOMAIN files
      /\ \A f \in DOMAIN files : /\ files'[f].recs = files[f].recs
                                 /\ files'[f].bytes = files[f].bytes
                                 /\ files'[f] \in File
                                 /\ files'[f].synced <= Len(files'[f].recs)
  <2>1. ASSUME NEW f \in DOMAIN files
        PROVE  /\ files[f] \in File /\ files[f].synced <= Len(files[f].recs)
               /\ Len(files[f].recs) \in Nat
    BY WalTypes DEF File
  <2>2. DOMAIN files' = DOMAIN files /\ \A f \in DOMAIN files : f # open => files'[f] = files[f]
    BY <1>1
  <2>3. files'[open] = [files[open] EXCEPT !.synced = Len(files[open].recs)]
    BY <1>1
  <2>4. /\ files'[open].recs = files[open].recs /\ files'[open].bytes = files[open].bytes
        /\ files'[open].synced = Len(files[open].recs) /\ files'[open] \in File
    BY <1>1, <2>1, <2>3 DEF File
  <2>5. files'[open].synced <= Len(files'[open].recs)
    BY <1>1, <2>1, <2>4
  <2> QED  BY <2>1, <2>2, <2>4, <2>5
<1>3. WalTypeOK'
  <2>1. \A f \in DOMAIN files' : files'[f] \in File /\ files'[f].synced <= Len(files'[f].recs)
    BY <1>2, Zenon
  <2>2. {segment, last_lsn, synced, mark}' \subseteq 0 .. given'
    BY <1>1, Zenon DEF WalInv, WalTypeOK
  <2> QED  BY <1>1, <1>2, <2>1, <2>2, Zenon DEF WalInv, WalTypeOK, File, Recs
<1>4. RecordsInOrder'
  BY <1>2 DEF WalInv, RecordsInOrder
<1>5. SegmentsBounded'
  BY <1>2 DEF WalInv, SegmentsBounded
<1>6. \A f \in DOMAIN files' : \A i \in DOMAIN files'[f].recs :
          files'[f].recs[i] # Torn => files'[f].recs[i] <= last_lsn'
  BY <1>1, <1>2 DEF WalInv
<1>7. ~NeedsRotation' =>
          open' = segment' /\ open' \in DOMAIN files' /\ files'[open'].bytes = segment_bytes'
  BY <1>1, <1>2, Zenon DEF WalInv, NeedsRotation
<1>8. DOMAIN files' \subseteq 1 .. segment'
  BY <1>1, <1>2 DEF WalInv
<1> QED  BY <1>3, <1>4, <1>5, <1>6, <1>7, <1>8 DEF WalInv

(* gc_segments takes away segments that are not the last. *)
LEMMA GcStep ==
    ASSUME WalInv, NEW w \in 0 .. last_lsn, NEW removed \in SUBSET DOMAIN files,
           GcSegments(w, removed)
    PROVE  WalInv'
<1>1. /\ removed \subseteq {f \in DOMAIN files : f + 2 < segment} /\ mark' = w
      /\ files' = Restrict(files, DOMAIN files \ removed)
      /\ UNCHANGED <<open, segment, segment_bytes, last_lsn, given, synced>>
  BY DEF GcSegments
<1>2. /\ DOMAIN files' = DOMAIN files \ removed
      /\ \A f \in DOMAIN files' : f \in DOMAIN files /\ files'[f] = files[f]
  BY <1>1 DEF Restrict
<1>3. WalTypeOK'
  <2>1. w \in 0 .. given
    BY WalTypes
  <2> QED  BY <1>1, <1>2, <2>1, Zenon DEF WalInv, WalTypeOK
<1>4. RecordsInOrder'
  BY <1>2 DEF WalInv, RecordsInOrder
<1>5. SegmentsBounded'
  BY <1>2 DEF WalInv, SegmentsBounded
<1>6. segment \notin removed
  BY <1>1, WalTypes
<1>7. ~NeedsRotation' => open' \in DOMAIN files'
  BY <1>1, <1>2, <1>6 DEF WalInv, NeedsRotation
<1> QED  BY <1>1, <1>2, <1>3, <1>4, <1>5, <1>7 DEF WalInv, NeedsRotation

(* Every call keeps the invariant. *)
LEMMA WalStep == ASSUME WalInv, [WalNext]_walVars PROVE WalInv'
<1>1. ASSUME Give, NEW r \in {given + 1, Torn}, NEW s \in Nat, s \in Sizes \/ s = 0,
             NEW new \in File, new.recs = Append(Target.files[Target.open].recs, r),
             new.bytes = Target.bytes + s, new.synced = Target.files[Target.open].synced,
             DOMAIN files' = DOMAIN Target.files, files'[Target.open] = new,
             \A f \in DOMAIN Target.files : f # Target.open => files'[f] = Target.files[f],
             open' = Target.open, segment' = Target.segment, segment_bytes' = Target.bytes + s,
             last_lsn' = IF r = Torn THEN last_lsn ELSE given + 1
      PROVE  WalInv'
  <2>1. PICK k, old : k = Target.open /\ old = Target.files[Target.open]
    OBVIOUS
  <2>2. /\ k = Target.segment /\ k \in 1 .. given + 1 /\ k >= segment
        /\ DOMAIN Target.files = DOMAIN files \cup {k}
        /\ \A f \in DOMAIN files : Target.files[f] = files[f]
        /\ k \notin DOMAIN files => old = [recs |-> <<>>, bytes |-> 0, synced |-> 0]
        /\ old.bytes = Target.bytes
        /\ old.bytes = 0 \/ old.bytes < max_segment_bytes
    BY <1>1, <2>1, TargetFacts DEF Give
  <2>3. old \in File /\ (k \in DOMAIN files => old = files[k])
        /\ (k \notin DOMAIN files => old.recs = <<>>) /\ old.synced <= Len(old.recs)
    <3>1. [recs |-> <<>>, bytes |-> 0, synced |-> 0] \in File /\ 0 <= Len(<<>>)
      BY DEF File
    <3> QED  BY <2>1, <2>2, <3>1, WalTypes
  <2>4. /\ DOMAIN files' = DOMAIN files \cup {k} /\ files'[k] = new
        /\ \A f \in DOMAIN files : f # k => files'[f] = files[f]
    BY <1>1, <2>1, <2>2
  <2>5. new.synced <= Len(new.recs)
    <3>1. old.recs \in Seq(Recs) /\ old.synced \in Nat /\ new.recs = Append(old.recs, r)
      BY <1>1, <2>1, <2>3 DEF File
    <3>2. Len(new.recs) = Len(old.recs) + 1 /\ Len(old.recs) \in Nat
      BY <3>1
    <3>3. new.synced = old.synced
      BY <1>1, <2>1, <2>3 DEF File
    <3> QED  BY <2>3, <3>1, <3>2, <3>3
  <2>6. /\ new.recs = Append(old.recs, r) /\ new.bytes = old.bytes + s
        /\ open' = k /\ segment' = k /\ segment_bytes' = new.bytes
        /\ k \in 1 .. given + 1 /\ k >= segment
        /\ old.bytes = 0 \/ old.bytes < max_segment_bytes
    BY <1>1, <2>1, <2>2, Zenon
  <2> QED  BY <1>1, <2>3, <2>4, <2>5, <2>6, AppendStep, Zenon
<1>2. ASSUME given < MaxAppends
      PROVE  /\ Target.open \in DOMAIN Target.files /\ Target.files[Target.open] \in File
             /\ Target.files[Target.open].bytes = Target.bytes /\ Target.bytes \in Nat
  <2>1. [recs |-> <<>>, bytes |-> 0, synced |-> 0] \in File
    BY DEF File
  <2> QED  BY <1>2, <2>1, TargetFacts, WalTypes
<1>3. ASSUME NEW s \in Sizes, AppendOk(s) PROVE WalInv'
  <2>1. PICK t, k, old : t = Target /\ k = t.open /\ old = t.files[k]
    OBVIOUS
  <2>2. /\ Give /\ given < MaxAppends /\ last_lsn' = given + 1
        /\ open' = k /\ segment' = t.segment /\ segment_bytes' = t.bytes + s
        /\ files' = [t.files EXCEPT ![k].recs = Append(@, given + 1), ![k].bytes = @ + s]
    BY <1>3, <2>1 DEF AppendOk, Give
  <2>3. k \in DOMAIN t.files /\ old \in File /\ old.bytes = t.bytes
    BY <1>2, <2>1, <2>2
  <2> DEFINE mid == [old EXCEPT !.recs = Append(@, given + 1)]
             new == [mid EXCEPT !.bytes = @ + s]
  <2>4. /\ DOMAIN files' = DOMAIN t.files /\ files'[k] = new
        /\ \A f \in DOMAIN t.files : f # k => files'[f] = t.files[f]
    <3>1. /\ DOMAIN files' = DOMAIN t.files
          /\ \A f \in DOMAIN t.files : f # k => files'[f] = t.files[f]
      BY <2>2, <2>3
    <3>2. files'[k] = new
      BY <2>1, <2>2, <2>3, Zenon
    <3> QED  BY <3>1, <3>2
  <2>5. s \in Nat /\ given + 1 # Torn /\ given + 1 \in Recs
    BY <2>2, WalTypes, WalAssumption DEF Recs
  <2>6. mid \in File /\ mid.recs = Append(old.recs, given + 1) /\ mid.bytes = t.bytes
        /\ mid.synced = old.synced
    BY <2>3, <2>5, SMTT(30) DEF File
  <2> HIDE DEF mid
  <2>7. new \in File /\ new.recs = Append(old.recs, given + 1) /\ new.bytes = t.bytes + s
        /\ new.synced = old.synced
    BY <2>3, <2>5, <2>6 DEF File
  <2> HIDE DEF new
  <2>8. /\ Give /\ new.recs = Append(Target.files[Target.open].recs, given + 1)
        /\ new.bytes = Target.bytes + s /\ new.synced = Target.files[Target.open].synced
        /\ DOMAIN files' = DOMAIN Target.files /\ files'[Target.open] = new
        /\ \A f \in DOMAIN Target.files : f # Target.open => files'[f] = Target.files[f]
        /\ open' = Target.open /\ segment' = Target.segment
        /\ segment_bytes' = Target.bytes + s
    BY <2>1, <2>2, <2>4, <2>7, Zenon
  <2>9. last_lsn' = IF given + 1 = Torn THEN last_lsn ELSE given + 1
    BY <2>2, <2>5
  <2> QED  BY <1>1, <1>3, <2>5, <2>7, <2>8, <2>9, Zenon
<1>4. CASE AppendFails(TRUE)
  <2>1. PICK t, k, old : t = Target /\ k = t.open /\ old = t.files[k]
    OBVIOUS
  <2>2. /\ Give /\ given < MaxAppends /\ last_lsn' = last_lsn
        /\ open' = k /\ segment' = t.segment /\ segment_bytes' = t.bytes
        /\ files' = [t.files EXCEPT ![k].recs = Append(@, Torn)]
    BY <1>4, <2>1 DEF AppendFails, Give
  <2>3. k \in DOMAIN t.files /\ old \in File /\ old.bytes = t.bytes /\ t.bytes + 0 = t.bytes
    BY <1>2, <2>1, <2>2
  <2> DEFINE new == [recs |-> Append(old.recs, Torn), bytes |-> old.bytes, synced |-> old.synced]
  <2>4. /\ DOMAIN files' = DOMAIN t.files /\ files'[k] = new
        /\ \A f \in DOMAIN t.files : f # k => files'[f] = t.files[f]
    <3>1. /\ DOMAIN files' = DOMAIN t.files
          /\ \A f \in DOMAIN t.files : f # k => files'[f] = t.files[f]
      BY <2>2, <2>3
    <3>2. files'[k] = [old EXCEPT !.recs = Append(@, Torn)]
      BY <2>1, <2>2, <2>3
    <3>3. [old EXCEPT !.recs = Append(@, Torn)] = new
      <4>1. old = [recs |-> old.recs, bytes |-> old.bytes, synced |-> old.synced]
        BY <2>3 DEF File
      <4> HIDE DEF new
      <4>2. PICK x, y, z : old = [recs |-> x, bytes |-> y, synced |-> z]
        BY <4>1
      <4> QED  BY <4>2 DEF new
    <3> QED  BY <3>1, <3>2, <3>3
  <2>5. new \in File
    BY <2>3 DEF File, Recs
  <2>6. new.recs = Append(old.recs, Torn) /\ new.bytes = t.bytes /\ new.synced = old.synced
    BY <2>3
  <2> HIDE DEF new
  <2>7. /\ Give /\ new.recs = Append(Target.files[Target.open].recs, Torn)
        /\ new.bytes = Target.bytes + 0 /\ new.synced = Target.files[Target.open].synced
        /\ DOMAIN files' = DOMAIN Target.files /\ files'[Target.open] = new
        /\ \A f \in DOMAIN Target.files : f # Target.open => files'[f] = Target.files[f]
        /\ open' = Target.open /\ segment' = Target.segment
        /\ segment_bytes' = Target.bytes + 0
    BY <2>1, <2>2, <2>3, <2>4, <2>6, Zenon
  <2>8. last_lsn' = IF Torn = Torn THEN last_lsn ELSE given + 1
    BY <2>2
  <2>9. 0 \in Nat
    OBVIOUS
  <2> QED  BY <1>1, <2>5, <2>7, <2>8, <2>9, Zenon
<1>5. CASE UNCHANGED walVars
  BY <1>5 DEF walVars, WalInv, WalTypeOK, RecordsInOrder, SegmentsBounded, NeedsRotation
<1> QED
  BY <1>3, <1>4, <1>5, NothingWritten, RotateFailsStep, SyncStep, GcStep DEF WalNext, Done

LEMMA WalStart == ASSUME WalInit PROVE WalInv
<1>1. DOMAIN files = {} /\ NeedsRotation
  BY DEF WalInit, NeedsRotation
<1>2. WalTypeOK
  BY <1>1, WalAssumption DEF WalInit, WalTypeOK
<1> QED  BY <1>1, <1>2 DEF WalInit, WalInv, RecordsInOrder, SegmentsBounded

LEMMA WalInvariant == WalSpec => []WalInv
<1>1. WalInit => WalInv
  BY WalStart
<1>2. WalInv /\ [WalNext]_walVars => WalInv'
  BY WalStep
<1> QED  BY <1>1, <1>2, PTL DEF WalSpec

(* The writer's fields and the files keep within their types; no more      *)
(* segment numbers are used than appends were made.                        *)
THEOREM WalTypeCorrect == WalSpec => []WalTypeOK
<1>1. WalInv => WalTypeOK
  BY DEF WalInv
<1> QED  BY <1>1, WalInvariant, PTL

(* What a replay can read of the segments is in the order it was appended, *)
(* whatever rotations, appends and removals fail.                          *)
THEOREM ReplayInOrderHolds == WalSpec => []ReplayInOrder
<1>1. ASSUME WalInv PROVE ReplayInOrder
  <2>1. ASSUME NEW f \in DOMAIN files, NEW i \in Framed(f)
        PROVE  i \in DOMAIN files[f].recs /\ files[f].recs[i] # Torn
    <3>1. i \in DOMAIN files[f].recs /\ \A j \in 1 .. i : files[f].recs[j] # Torn
      BY Zenon DEF Framed
    <3>2. files[f].recs \in Seq(Recs)
      BY <1>1, WalTypes DEF File
    <3>3. i \in 1 .. i
      BY <3>1, <3>2
    <3> QED  BY <3>1, <3>3
  <2> QED  BY <1>1, <2>1, Zenon DEF WalInv, RecordsInOrder, ReplayInOrder
<1> QED  BY <1>1, WalInvariant, PTL

(* No segment outgrows max_segment_bytes by a record or more, unless it    *)
(* is a single record.                                                     *)
THEOREM SegmentsBoundedHolds == WalSpec => []SegmentsBounded
<1>1. WalInv => SegmentsBounded
  BY DEF WalInv
<1> QED  BY <1>1, WalInvariant, PTL

-----------------------------------------------------------------------------
(* A set of natural numbers that is not empty has a least element. *)
LEMMA LeastNat ==
    ASSUME NEW T, T \subseteq Nat, T # {}
    PROVE  \E n \in T : \A m \in T : n <= m
<1> DEFINE R == {mn \in Nat \X Nat : mn[1] < mn[2]}
<1>1. OpToRel(<, Nat) = R
  BY DEF OpToRel
<1>2. IsWellFoundedOn(R, Nat)
  BY <1>1, NatLessThanWellFounded
<1>3. PICK n \in T : \A m \in T : <<m, n>> \notin R
  <2> HIDE DEF R
  <2> QED  BY <1>2, WFMin
<1>4. ASSUME NEW m \in T PROVE n <= m
  <2>1. n \in Nat /\ m \in Nat /\ <<m, n>> \in Nat \X Nat
    OBVIOUS
  <2>2. ~(m < n)
    BY <1>3, <2>1
  <2> QED  BY <2>1, <2>2
<1> QED  BY <1>4

(* A set with 0 and with the successor of each of its numbers has them all. *)
LEMMA Induction ==
    ASSUME NEW P, 0 \in P, \A n \in P : n \in Nat => n + 1 \in P
    PROVE  Nat \subseteq P
<1> SUFFICES ASSUME Nat \ P # {} PROVE FALSE
  OBVIOUS
<1>1. PICK n \in Nat \ P : \A m \in Nat \ P : n <= m
  BY LeastNat
<1>2. n # 0 /\ n - 1 \in Nat /\ (n - 1) + 1 = n
  OBVIOUS
<1>3. n - 1 \in P
  BY <1>1, <1>2
<1> QED  BY <1>2, <1>3

-----------------------------------------------------------------------------
(* What a buffer consists of. *)
Units == Nat \cup Chars \cup {"I", "U", "D", "T"}

(* The buffer has the units of s from place k on. *)
At(data, k, s) ==
    /\ k + Len(s) <= Len(data) + 1
    /\ \A i \in 1 .. Len(s) : data[k + i - 1] = s[i]

(* What is at place k is made of two parts, one after the other. *)
LEMMA AtConcat ==
    ASSUME NEW data \in Seq(Units), NEW k \in Nat \ {0},
           NEW s \in Seq(Units), NEW t \in Seq(Units), At(data, k, s \o t)
    PROVE  /\ At(data, k, s) /\ At(data, k + Len(s), t)
           /\ s \o t \in Seq(Units) /\ Len(s \o t) = Len(s) + Len(t)
           /\ k + Len(s) \in Nat \ {0}
<1>1. /\ Len(s) \in Nat /\ Len(t) \in Nat /\ Len(data) \in Nat
      /\ s \o t \in Seq(Units) /\ Len(s \o t) = Len(s) + Len(t)
  BY LenProperties, ConcatProperties
<1>2. \A i \in 1 .. Len(s) + Len(t) :
          (s \o t)[i] = IF i <= Len(s) THEN s[i] ELSE t[i - Len(s)]
  BY ConcatProperties
<1>3. \A i \in 1 .. Len(s) + Len(t) : data[k + i - 1] = (s \o t)[i]
  BY <1>1 DEF At
<1>4. At(data, k, s)
  <2>1. k + Len(s) <= Len(data) + 1
    BY <1>1 DEF At
  <2>2. ASSUME NEW i \in 1 .. Len(s) PROVE data[k + i - 1] = s[i]
    <3>1. i \in 1 .. Len(s) + Len(t) /\ i <= Len(s)
      BY <1>1
    <3> QED  BY <1>2, <1>3, <3>1
  <2> QED  BY <2>1, <2>2 DEF At
<1>5. At(data, k + Len(s), t)
  <2>1. (k + Len(s)) + Len(t) <= Len(data) + 1
    BY <1>1 DEF At
  <2>2. ASSUME NEW i \in 1 .. Len(t) PROVE data[(k + Len(s)) + i - 1] = t[i]
    <3>1. /\ Len(s) + i \in 1 .. Len(s) + Len(t) /\ ~(Len(s) + i <= Len(s))
          /\ (Len(s) + i) - Len(s) = i /\ (k + Len(s)) + i - 1 = k + (Len(s) + i) - 1
      BY <1>1
    <3> QED  BY <1>2, <1>3, <3>1
  <2> QED  BY <2>1, <2>2 DEF At
<1> QED  BY <1>1, <1>4, <1>5

(* A single unit at place k, and what comes behind it. *)
LEMMA AtUnit ==
    ASSUME NEW data \in Seq(Units), NEW k \in Nat \ {0}, NEW u \in Units,
           At(data, k, <<u>>)
    PROVE  data[k] = u /\ k <= Len(data)
<1>1. Len(<<u>>) = 1 /\ <<u>>[1] = u /\ Len(data) \in Nat
  OBVIOUS
<1>2. k + 1 - 1 = k /\ 1 \in 1 .. 1
  OBVIOUS
<1> QED  BY <1>1, <1>2 DEF At

LEMMA AtFirst ==
    ASSUME NEW data \in Seq(Units), NEW k \in Nat \ {0}, NEW u \in Units, NEW t \in Seq(Units),
           At(data, k, <<u>> \o t)
    PROVE  data[k] = u /\ At(data, k + 1, t) /\ k + 1 \in Nat \ {0}
<1> DEFINE s == <<u>>
<1>1. s \in Seq(Units) /\ Len(s) = 1
  OBVIOUS
<1>2. At(data, k, <<u>>)
  BY <1>1, AtConcat, Zenon
<1>3. At(data, k + Len(s), t) /\ k + Len(s) \in Nat \ {0}
  <2>1. At(data, k, s \o t)
    OBVIOUS
  <2> HIDE DEF s
  <2> QED  BY <1>1, <2>1, AtConcat, Zenon
<1> QED  BY <1>1, <1>2, <1>3, AtUnit, Zenon

(* The parts of a buffer. *)
LEMMA UnitBefore ==
    ASSUME NEW U, NEW u \in U, NEW t \in Seq(U)
    PROVE  <<u>> \o t \in Seq(U) /\ Len(<<u>> \o t) = 1 + Len(t)
  OBVIOUS

LEMMA Slice ==
    ASSUME NEW U, NEW data \in Seq(U), NEW s \in Seq(U), NEW k \in Nat,
           k + Len(s) <= Len(data), \A i \in 1 .. Len(s) : data[k + i] = s[i]
    PROVE  SubSeq(data, k + 1, k + Len(s)) = s
<1> DEFINE r == SubSeq(data, k + 1, k + Len(s))
<1>1. r \in Seq(U) /\ Len(r) = Len(s) /\ \A i \in 1 .. Len(s) : r[i] = data[k + i]
  OBVIOUS
<1> HIDE DEF r
<1>2. r = s
  BY <1>1, SeqEqual
<1> QED  BY <1>2 DEF r

LEMMA SliceAt ==
    ASSUME NEW data \in Seq(Units), NEW k \in Nat \ {0}, NEW s \in Seq(Units), At(data, k + 1, s)
    PROVE  SubSeq(data, k + 1, k + Len(s)) = s
<1>1. k \in Nat /\ k + Len(s) <= Len(data) /\ \A i \in 1 .. Len(s) : data[k + i] = s[i]
  BY DEF At
<1> QED  BY <1>1, Slice, Zenon

(* A text that fits is read as it was written. *)
LEMMA TextSeq ==
    ASSUME NEW s \in Seq(Units), NEW limit \in Nat \ {0}, Len(s) < limit
    PROVE  /\ Text(s, limit) = <<Len(s)>> \o s /\ Len(s) \in Units /\ Len(s) \in Nat
           /\ Text(s, limit) \in Seq(Units) /\ Len(Text(s, limit)) = 1 + Len(s)
<1>1. Len(s) \in Nat /\ Len(s) % limit = Len(s)
  OBVIOUS
<1>2. Len(s) \in Units
  BY <1>1 DEF Units
<1>3. Text(s, limit) = <<Len(s)>> \o s
  BY <1>1, Zenon DEF Text
<1> QED  BY <1>1, <1>2, <1>3, UnitBefore, Zenon

LEMMA TextRead ==
    ASSUME NEW s \in Seq(Units), NEW limit \in Nat \ {0}, Len(s) < limit,
           NEW data \in Seq(Units), NEW k \in Nat \ {0}, At(data, k, Text(s, limit))
    PROVE  ReadText(data, k) = [text |-> s, pos |-> k + 1 + Len(s)]
<1>1. At(data, k, <<Len(s)>> \o s) /\ Len(s) \in Units
  BY TextSeq, Zenon
<1>2. data[k] = Len(s) /\ At(data, k + 1, s)
  BY <1>1, AtFirst, Zenon
<1>3. SubSeq(data, k + 1, k + Len(s)) = s
  BY <1>2, SliceAt, Zenon
<1> QED  BY <1>2, <1>3, Zenon DEF ReadText

-----------------------------------------------------------------------------
(* Columns whose lengths fit their width. *)
WireColumns ==
    {c \in [name : Seq(Units), type_oid : Units, value : Seq(Units) \cup {None}] :
        Len(c.name) < U16 /\ (c.value # None => Len(c.value) < U32)}

(* The last part of a column. *)
EncodedValue(v) == IF v = None THEN <<0>> ELSE <<1>> \o Text(v, U32)

LEMMA Widths == U16 \in Nat \ {0} /\ U32 \in Nat \ {0}
  BY WireAssumption

LEMMA ColumnParts ==
    ASSUME NEW c \in WireColumns
    PROVE  /\ c.name \in Seq(Units) /\ Len(c.name) < U16 /\ c.type_oid \in Units
           /\ c.value # None => c.value \in Seq(Units) /\ Len(c.value) < U32
           /\ c = [name |-> c.name, type_oid |-> c.type_oid, value |-> c.value]
<1>1. c \in [name : Seq(Units), type_oid : Units, value : Seq(Units) \cup {None}]
  BY Zenon DEF WireColumns
<1>2. Len(c.name) < U16 /\ (c.value # None => Len(c.value) < U32)
  BY Zenon DEF WireColumns
<1> QED  BY <1>1, <1>2

LEMMA ValueSeq ==
    ASSUME NEW v, v # None => v \in Seq(Units) /\ Len(v) < U32
    PROVE  /\ EncodedValue(v) \in Seq(Units)
           /\ Len(EncodedValue(v)) = IF v = None THEN 1 ELSE 2 + Len(v)
<1>1. 0 \in Units /\ 1 \in Units
  BY DEF Units
<1>2. CASE v = None
  <2>1. EncodedValue(v) = <<0>>
    BY <1>2, Zenon DEF EncodedValue
  <2>2. <<0>> \in Seq(Units) /\ Len(<<0>>) = 1
    BY <1>1
  <2> QED  BY <1>2, <2>1, <2>2, Zenon
<1>3. CASE v # None
  <2> DEFINE text == Text(v, U32)
  <2>1. text \in Seq(Units) /\ Len(text) = 1 + Len(v) /\ Len(v) \in Nat
    BY <1>3, TextSeq, Widths, Zenon
  <2>2. EncodedValue(v) = <<1>> \o text
    BY <1>3, Zenon DEF EncodedValue
  <2> HIDE DEF text
  <2>3. <<1>> \o text \in Seq(Units) /\ Len(<<1>> \o text) = 1 + Len(text)
    BY <1>1, <2>1, UnitBefore, Zenon
  <2>4. 1 + Len(text) = 2 + Len(v)
    BY <2>1
  <2> QED  BY <1>3, <2>2, <2>3, <2>4, Zenon
<1> QED  BY <1>2, <1>3, Zenon

LEMMA Concat ==
    ASSUME NEW U, NEW s \in Seq(U), NEW t \in Seq(U)
    PROVE  s \o t \in Seq(U) /\ Len(s \o t) = Len(s) + Len(t) /\ Len(s) \in Nat /\ Len(t) \in Nat
  OBVIOUS

LEMMA ColumnSeq ==
    ASSUME NEW c \in WireColumns
    PROVE  /\ EncodeColumn(c)
                = (Text(c.name, U16) \o <<c.type_oid>>) \o EncodedValue(c.value)
           /\ Text(c.name, U16) \o <<c.type_oid>> \in Seq(Units)
           /\ EncodedValue(c.value) \in Seq(Units)
           /\ EncodeColumn(c) \in Seq(Units)
           /\ Len(EncodeColumn(c))
                = 2 + Len(c.name) + (IF c.value = None THEN 1 ELSE 2 + Len(c.value))
<1> DEFINE name == Text(c.name, U16)
           oid == <<c.type_oid>>
           value == EncodedValue(c.value)
<1>1. name \in Seq(Units) /\ Len(name) = 1 + Len(c.name) /\ Len(c.name) \in Nat
  BY ColumnParts, TextSeq, Widths, Zenon
<1>2. oid \in Seq(Units) /\ Len(oid) = 1
  BY ColumnParts
<1>3. value \in Seq(Units) /\ Len(value) = IF c.value = None THEN 1 ELSE 2 + Len(c.value)
  BY ColumnParts, ValueSeq, Zenon
<1>4. EncodeColumn(c) = (name \o oid) \o value
  BY Zenon DEF EncodeColumn, EncodedValue
<1> HIDE DEF name, oid, value
<1>5. name \o oid \in Seq(Units) /\ Len(name \o oid) = Len(name) + Len(oid)
  BY <1>1, <1>2, Concat, Zenon
<1>6. /\ (name \o oid) \o value \in Seq(Units)
      /\ Len((name \o oid) \o value) = Len(name \o oid) + Len(value)
  BY <1>3, <1>5, Concat, Zenon
<1>7. Len((name \o oid) \o value)
        = 2 + Len(c.name) + (IF c.value = None THEN 1 ELSE 2 + Len(c.value))
  <2>1. Len((name \o oid) \o value) = ((1 + Len(c.name)) + 1) + Len(value)
    BY <1>1, <1>2, <1>5, <1>6, Zenon
  <2>2. Len(value) \in Nat /\ Len(c.name) \in Nat
    BY <1>1, <1>3
  <2>3. ((1 + Len(c.name)) + 1) + Len(value) = 2 + Len(c.name) + Len(value)
    BY <2>2
  <2> QED  BY <1>3, <2>1, <2>3, Zenon
<1> QED  BY <1>3, <1>4, <1>5, <1>6, <1>7, Zenon DEF name, oid, value

LEMMA ReadColumnNone ==
    ASSUME NEW data, NEW k, data[ReadText(data, k).pos + 1] = 0
    PROVE  ReadColumn(data, k) =
               [column |-> [name |-> ReadText(data, k).text,
                            type_oid |-> data[ReadText(data, k).pos], value |-> None],
                pos |-> ReadText(data, k).pos + 1 + 1]
  BY Zenon DEF ReadColumn

LEMMA ReadColumnSome ==
    ASSUME NEW data, NEW k, data[ReadText(data, k).pos + 1] # 0
    PROVE  ReadColumn(data, k) =
               [column |-> [name |-> ReadText(data, k).text,
                            type_oid |-> data[ReadText(data, k).pos],
                            value |-> ReadText(data, ReadText(data, k).pos + 1 + 1).text],
                pos |-> ReadText(data, ReadText(data, k).pos + 1 + 1).pos]
  BY Zenon DEF ReadColumn

(* A column that fits is read as it was written, and what follows it next. *)
LEMMA ColumnRead ==
    ASSUME NEW c \in WireColumns, NEW data \in Seq(Units), NEW k \in Nat \ {0},
           At(data, k, EncodeColumn(c))
    PROVE  ReadColumn(data, k) = [column |-> c, pos |-> k + Len(EncodeColumn(c))]
<1> DEFINE name == Text(c.name, U16)
           oid == <<c.type_oid>>
           value == EncodedValue(c.value)
           n == Len(c.name)
           flag == k + 1 + n + 1
<1>1. /\ name \in Seq(Units) /\ Len(name) = 1 + n /\ n \in Nat
      /\ oid \in Seq(Units) /\ Len(oid) = 1
  <2>1. name \in Seq(Units) /\ Len(name) = 1 + n /\ n \in Nat
    BY ColumnParts, TextSeq, Widths, Zenon
  <2>2. oid \in Seq(Units) /\ Len(oid) = 1
    BY ColumnParts
  <2> QED  BY <2>1, <2>2, Zenon
<1>2. /\ At(data, k, name) /\ At(data, k + Len(name), oid) /\ k + Len(name) \in Nat \ {0}
      /\ At(data, k + Len(name \o oid), value)
  <2>1. /\ At(data, k, (name \o oid) \o value)
        /\ name \o oid \in Seq(Units) /\ value \in Seq(Units)
    BY ColumnSeq, Zenon
  <2> HIDE DEF name, oid, value
  <2>2. At(data, k, name \o oid) /\ At(data, k + Len(name \o oid), value)
    BY <2>1, AtConcat, Zenon
  <2> QED  BY <1>1, <2>2, AtConcat, Zenon
<1>3. Len(name \o oid) = Len(name) + Len(oid)
  <2> HIDE DEF name, oid
  <2> QED  BY <1>1, Concat, Zenon
<1>4. /\ k + Len(name) = k + 1 + n /\ k + (Len(name) + Len(oid)) = flag
      /\ flag \in Nat \ {0} /\ flag + 1 \in Nat \ {0}
  <2>1. k + Len(name) = k + (1 + n) /\ k + (Len(name) + Len(oid)) = k + ((1 + n) + 1)
    BY <1>1, Zenon
  <2>2. n \in Nat
    BY <1>1, Zenon
  <2> HIDE DEF n
  <2>3. k + (1 + n) = k + 1 + n /\ k + ((1 + n) + 1) = flag /\ flag \in Nat /\ flag # 0
    BY <2>2
  <2>4. flag + 1 \in Nat /\ flag + 1 # 0
    BY <2>2
  <2> QED  BY <2>1, <2>3, <2>4, Zenon
<1>5. ReadText(data, k) = [text |-> c.name, pos |-> k + 1 + n]
  <2>1. c.name \in Seq(Units) /\ n < U16 /\ U16 \in Nat \ {0}
    BY ColumnParts, Widths, Zenon
  <2>2. At(data, k, name)
    BY <1>2, Zenon
  <2> QED  BY <2>1, <2>2, TextRead, Zenon
<1>6. data[k + 1 + n] = c.type_oid
  BY <1>2, <1>4, ColumnParts, AtUnit, Zenon
<1>7. At(data, flag, value)
  BY <1>2, <1>3, <1>4, Zenon
<1>8. 0 \in Units /\ 1 \in Units
  BY DEF Units
<1>9. c = [name |-> c.name, type_oid |-> c.type_oid, value |-> c.value]
  BY ColumnParts, Zenon
<1> DEFINE len == Len(EncodeColumn(c))
<1>10. CASE c.value = None
  <2>1. data[flag] = 0
    <3>1. At(data, flag, <<0>>)
      BY <1>7, <1>10, Zenon DEF EncodedValue
    <3> QED  BY <1>4, <1>8, <3>1, AtUnit, Zenon
  <2>2. flag + 1 = k + len
    <3>1. len = 2 + n + 1
      BY <1>10, ColumnSeq, Zenon
    <3>2. n \in Nat
      BY <1>1, Zenon
    <3> HIDE DEF len, n
    <3> QED  BY <3>1, <3>2
  <2> HIDE DEF len, n
  <2>3. ReadText(data, k).text = c.name /\ ReadText(data, k).pos = k + 1 + n
    BY <1>5
  <2>4. ReadColumn(data, k) =
            [column |-> [name |-> c.name, type_oid |-> c.type_oid, value |-> None],
             pos |-> flag + 1]
    <3>1. data[ReadText(data, k).pos + 1] = 0 /\ data[ReadText(data, k).pos] = c.type_oid
      BY <1>6, <2>1, <2>3, Zenon
    <3> QED  BY <2>3, <3>1, ReadColumnNone, Zenon
  <2> QED  BY <1>9, <1>10, <2>2, <2>4, Zenon DEF len
<1>11. CASE c.value # None
  <2>1. data[flag] = 1 /\ At(data, flag + 1, Text(c.value, U32))
    <3>1. At(data, flag, <<1>> \o Text(c.value, U32))
      BY <1>7, <1>11, Zenon DEF EncodedValue
    <3>2. Text(c.value, U32) \in Seq(Units)
      BY <1>11, ColumnParts, TextSeq, Widths, Zenon
    <3>3. flag \in Nat \ {0}
      BY <1>4, Zenon
    <3>4. PICK text : text = Text(c.value, U32)
      OBVIOUS
    <3>5. At(data, flag, <<1>> \o text) /\ text \in Seq(Units)
      BY <3>1, <3>2, <3>4, Zenon
    <3> HIDE DEF flag
    <3>6. data[flag] = 1 /\ At(data, flag + 1, text)
      BY <1>8, <3>3, <3>5, AtFirst, Zenon
    <3> QED  BY <3>4, <3>6, Zenon
  <2>2. ReadText(data, flag + 1) = [text |-> c.value, pos |-> flag + 1 + 1 + Len(c.value)]
    <3>1. c.value \in Seq(Units) /\ Len(c.value) < U32 /\ U32 \in Nat \ {0}
      BY <1>11, ColumnParts, Widths, Zenon
    <3>2. flag + 1 \in Nat \ {0} /\ At(data, flag + 1, Text(c.value, U32))
      BY <1>4, <2>1, Zenon
    <3> HIDE DEF flag
    <3> QED  BY <3>1, <3>2, TextRead, Zenon
  <2>3. flag + 1 + 1 + Len(c.value) = k + len
    <3> DEFINE v == Len(c.value)
    <3>1. len = 2 + n + (2 + v)
      BY <1>11, ColumnSeq, Zenon
    <3>2. n \in Nat /\ v \in Nat
      BY <1>1, <1>11, ColumnParts, TextSeq, Widths, Zenon
    <3> HIDE DEF len, n, v
    <3>3. flag + 1 + 1 + v = k + len
      BY <3>1, <3>2
    <3> QED  BY <3>3 DEF v
  <2>4. ~(data[flag] = 0)
    BY <2>1
  <2> HIDE DEF len, n
  <2>5. /\ ReadText(data, k).text = c.name /\ ReadText(data, k).pos = k + 1 + n
        /\ ReadText(data, flag + 1).text = c.value
        /\ ReadText(data, flag + 1).pos = flag + 1 + 1 + Len(c.value)
    BY <1>5, <2>2
  <2>6. ReadColumn(data, k) =
            [column |-> [name |-> c.name, type_oid |-> c.type_oid, value |-> c.value],
             pos |-> flag + 1 + 1 + Len(c.value)]
    <3>1. /\ data[ReadText(data, k).pos + 1] # 0 /\ data[ReadText(data, k).pos] = c.type_oid
          /\ ReadText(data, ReadText(data, k).pos + 1 + 1) = ReadText(data, flag + 1)
      BY <1>6, <2>4, <2>5, Zenon
    <3> QED  BY <2>5, <3>1, ReadColumnSome, Zenon
  <2> QED  BY <1>9, <2>3, <2>5, <2>6, Zenon DEF len
<1> QED  BY <1>10, <1>11, Zenon

-----------------------------------------------------------------------------
(* The concatenations of the first n of N texts exist, by induction on n. *)
Concatenates(f, x, n) == f[0] = <<>> /\ \A i \in 1 .. n : f[i] = f[i - 1] \o x[i]

LEMMA Concatenations ==
    ASSUME NEW U, NEW N \in Nat, NEW x \in [1 .. N -> Seq(U)]
    PROVE  \E f \in [0 .. N -> Seq(U)] : Concatenates(f, x, N)
<1> DEFINE P == {n \in Nat : n <= N => \E f \in [0 .. n -> Seq(U)] : Concatenates(f, x, n)}
<1>1. 0 \in P
  <2> DEFINE f == [i \in 0 .. 0 |-> <<>>]
  <2>1. f \in [0 .. 0 -> Seq(U)] /\ f[0] = <<>>
    OBVIOUS
  <2> HIDE DEF f
  <2>2. Concatenates(f, x, 0)
    BY <2>1 DEF Concatenates
  <2> QED  BY <2>1, <2>2
<1>2. ASSUME NEW n \in P PROVE n + 1 \in P
  <2> SUFFICES ASSUME n + 1 <= N
               PROVE  \E f \in [0 .. n + 1 -> Seq(U)] : Concatenates(f, x, n + 1)
    OBVIOUS
  <2>1. PICK f \in [0 .. n -> Seq(U)] : Concatenates(f, x, n)
    OBVIOUS
  <2> DEFINE g == [i \in 0 .. n + 1 |-> IF i = n + 1 THEN f[n] \o x[n + 1] ELSE f[i]]
  <2>2. n \in 0 .. n /\ n + 1 \in 1 .. N /\ n + 1 \in 0 .. n + 1 /\ (n + 1) - 1 = n
    OBVIOUS
  <2>3. f[n] \o x[n + 1] \in Seq(U)
    BY <2>2, Concat
  <2>4. g \in [0 .. n + 1 -> Seq(U)]
    BY <2>3
  <2>5. g[n + 1] = f[n] \o x[n + 1] /\ \A i \in 0 .. n : g[i] = f[i]
    BY <2>2
  <2> HIDE DEF g
  <2>6. g[0] = <<>>
    <3>1. 0 \in 0 .. n
      BY <2>2
    <3> QED  BY <2>1, <2>5, <3>1, Zenon DEF Concatenates
  <2>7. ASSUME NEW i \in 1 .. n + 1 PROVE g[i] = g[i - 1] \o x[i]
    <3>1. CASE i = n + 1
      <4>1. i - 1 = n
        BY <3>1
      <4> QED  BY <2>2, <2>5, <3>1, <4>1, Zenon
    <3>2. CASE i # n + 1
      <4>1. i \in 1 .. n /\ i \in 0 .. n /\ i - 1 \in 0 .. n
        BY <3>2
      <4> QED  BY <2>1, <2>5, <4>1, Zenon DEF Concatenates
    <3> QED  BY <3>1, <3>2
  <2> QED  BY <2>4, <2>6, <2>7 DEF Concatenates
<1>3. N \in P
  <2> HIDE DEF P
  <2> QED  BY <1>1, <1>2, Induction
<1> QED  BY <1>3

(* encode_row_data: each column is appended to those before it. *)
LEMMA ColumnsEncoded ==
    ASSUME NEW row \in Seq(WireColumns)
    PROVE  /\ EncodeColumns(row) \in [0 .. Len(row) -> Seq(Units)]
           /\ EncodeColumns(row)[0] = <<>>
           /\ \A n \in 1 .. Len(row) :
                 EncodeColumns(row)[n] = EncodeColumns(row)[n - 1] \o EncodeColumn(row[n])
<1> DEFINE N == Len(row)
           x == [n \in 1 .. N |-> EncodeColumn(row[n])]
           next(f) == [n \in 0 .. N |-> IF n = 0 THEN <<>> ELSE f[n - 1] \o EncodeColumn(row[n])]
           e == EncodeColumns(row)
<1>1. N \in Nat /\ \A n \in 1 .. N : row[n] \in WireColumns
  OBVIOUS
<1>2. x \in [1 .. N -> Seq(Units)]
  BY <1>1, ColumnSeq, Zenon
<1>3. PICK f \in [0 .. N -> Seq(Units)] : Concatenates(f, x, N)
  <2> HIDE DEF N, x
  <2> QED  BY <1>1, <1>2, Concatenations, Zenon
<1>4. ASSUME NEW n \in 0 .. N PROVE f[n] = next(f)[n]
  <2>1. CASE n = 0
    BY <1>3, <2>1, Zenon DEF Concatenates
  <2>2. CASE n # 0
    <3>1. n \in 1 .. N
      BY <1>1, <2>2
    <3>2. f[n] = f[n - 1] \o x[n] /\ x[n] = EncodeColumn(row[n])
      BY <1>3, <3>1, Zenon DEF Concatenates
    <3> QED  BY <2>2, <3>2, Zenon
  <2> QED  BY <2>1, <2>2
<1>5. f = next(f)
  BY <1>4
<1>6. e = next(e)
  BY <1>5, Zenon DEF EncodeColumns
<1> HIDE DEF e
<1>7. 0 \in 0 .. N /\ e[0] = <<>>
  BY <1>1, <1>6
<1>8. ASSUME NEW n \in 1 .. N
      PROVE  /\ e[n] = e[n - 1] \o EncodeColumn(row[n])
             /\ e[n - 1] \in Seq(Units) => e[n] \in Seq(Units)
  <2>1. n \in 0 .. N /\ n # 0
    OBVIOUS
  <2>2. e[n] = e[n - 1] \o EncodeColumn(row[n])
    BY <1>6, <2>1, Zenon
  <2>3. EncodeColumn(row[n]) \in Seq(Units)
    BY <1>1, ColumnSeq, Zenon
  <2>4. ASSUME e[n - 1] \in Seq(Units) PROVE e[n] \in Seq(Units)
    <3>1. e[n - 1] \o EncodeColumn(row[n]) \in Seq(Units)
      BY <2>3, <2>4, Concat, Zenon
    <3> QED  BY <2>2, <3>1, Zenon
  <2> QED  BY <2>2, <2>4, Zenon
<1> DEFINE P == {n \in Nat : n <= N => e[n] \in Seq(Units)}
<1>9. 0 \in P
  <2>1. e[0] \in Seq(Units) /\ 0 \in Nat
    BY <1>7, EmptySeq, Zenon
  <2> QED  BY <2>1, Zenon
<1>10. ASSUME NEW n \in P PROVE n + 1 \in P
  <2> SUFFICES ASSUME n + 1 <= N PROVE e[n + 1] \in Seq(Units)
    OBVIOUS
  <2> HIDE DEF N
  <2>1. n \in Nat /\ n + 1 \in 1 .. N /\ (n + 1) - 1 = n /\ e[n] \in Seq(Units)
    BY <1>1
  <2> QED  BY <1>8, <2>1, Zenon
<1>11. Nat \subseteq P
  <2> HIDE DEF P
  <2> QED  BY <1>9, <1>10, Induction
<1>12. \A n \in 0 .. N : e[n] \in Seq(Units)
  BY <1>1, <1>11
<1>13. e \in [0 .. N -> Seq(Units)]
  <2> HIDE DEF N
  <2> QED  BY <1>6, <1>12, Zenon
<1> QED  BY <1>7, <1>8, <1>13, Zenon DEF e

(* What is at place k begins with each of the shorter concatenations. *)
LEMMA ColumnsAt ==
    ASSUME NEW row \in Seq(WireColumns), NEW data \in Seq(Units), NEW k \in Nat \ {0},
           At(data, k, EncodeColumns(row)[Len(row)])
    PROVE  \A n \in 1 .. Len(row) :
              /\ At(data, k + Len(EncodeColumns(row)[n - 1]), EncodeColumn(row[n]))
              /\ k + Len(EncodeColumns(row)[n - 1]) \in Nat \ {0}
              /\ Len(EncodeColumns(row)[n])
                   = Len(EncodeColumns(row)[n - 1]) + Len(EncodeColumn(row[n]))
<1> DEFINE N == Len(row)
           e == EncodeColumns(row)
<1>1. N \in Nat /\ \A n \in 1 .. N : row[n] \in WireColumns
  OBVIOUS
<1>2. /\ e \in [0 .. N -> Seq(Units)]
      /\ \A n \in 1 .. N : e[n] = e[n - 1] \o EncodeColumn(row[n])
  BY ColumnsEncoded, Zenon
<1> HIDE DEF N, e
<1>3. At(data, k, e[N])
  BY Zenon DEF N, e
<1>4. ASSUME NEW n \in 1 .. N, At(data, k, e[n])
      PROVE  /\ At(data, k, e[n - 1])
             /\ At(data, k + Len(e[n - 1]), EncodeColumn(row[n]))
             /\ k + Len(e[n - 1]) \in Nat \ {0}
             /\ Len(e[n]) = Len(e[n - 1]) + Len(EncodeColumn(row[n]))
  <2>1. n - 1 \in 0 .. N
    BY <1>1
  <2>2. e[n - 1] \in Seq(Units) /\ EncodeColumn(row[n]) \in Seq(Units)
    BY <1>1, <1>2, <2>1, ColumnSeq, Zenon
  <2>3. e[n] = e[n - 1] \o EncodeColumn(row[n])
    BY <1>2, Zenon
  <2>4. At(data, k, e[n - 1] \o EncodeColumn(row[n]))
    BY <1>4, <2>3, Zenon
  <2> DEFINE d == e[n - 1]
             c == EncodeColumn(row[n])
  <2> HIDE DEF d, c
  <2>5. At(data, k, d) /\ At(data, k + Len(d), c) /\ k + Len(d) \in Nat \ {0}
        /\ Len(d \o c) = Len(d) + Len(c)
    <3>1. d \in Seq(Units) /\ c \in Seq(Units) /\ At(data, k, d \o c)
      BY <2>2, <2>4, Zenon DEF d, c
    <3>2. At(data, k, d) /\ At(data, k + Len(d), c) /\ k + Len(d) \in Nat \ {0}
      BY <3>1, AtConcat, Zenon
    <3>3. Len(d \o c) = Len(d) + Len(c)
      BY <3>1, Concat, Zenon
    <3> QED  BY <3>2, <3>3, Zenon
  <2> QED  BY <2>3, <2>5, Zenon DEF d, c
<1> DEFINE P == {j \in Nat : j <= N => At(data, k, e[N - j])}
<1>5. 0 \in P
  <2>1. N - 0 = N
    BY <1>1
  <2> QED  BY <1>3, <2>1
<1>6. ASSUME NEW j \in P PROVE j + 1 \in P
  <2> SUFFICES ASSUME j + 1 <= N PROVE At(data, k, e[N - (j + 1)])
    OBVIOUS
  <2>1. N - j \in 1 .. N /\ (N - j) - 1 = N - (j + 1) /\ At(data, k, e[N - j])
    BY <1>1
  <2>2. At(data, k, e[(N - j) - 1])
    BY <1>4, <2>1, Zenon
  <2> QED  BY <2>1, <2>2, Zenon
<1>7. Nat \subseteq P
  <2> HIDE DEF P
  <2> QED  BY <1>5, <1>6, Induction
<1>8. ASSUME NEW n \in 1 .. N PROVE At(data, k, e[n])
  <2>1. N - n \in Nat /\ N - n <= N /\ N - (N - n) = n
    BY <1>1
  <2>2. At(data, k, e[N - (N - n)])
    BY <1>7, <2>1, Zenon
  <2> QED  BY <2>1, <2>2, Zenon
<1> QED  BY <1>4, <1>8, Zenon DEF N, e

LEMMA Prefix ==
    ASSUME NEW U, NEW s \in Seq(U)
    PROVE  /\ SubSeq(s, 1, 0) = <<>> /\ SubSeq(s, 1, Len(s)) = s
           /\ \A n \in 1 .. Len(s) : Append(SubSeq(s, 1, n - 1), s[n]) = SubSeq(s, 1, n)
  OBVIOUS

(* decode_row_data: after n columns it has read them and is behind them. *)
LEMMA ColumnsRead ==
    ASSUME NEW row \in Seq(WireColumns), NEW data \in Seq(Units), NEW k \in Nat \ {0},
           At(data, k, EncodeColumns(row)[Len(row)])
    PROVE  ReadColumns(data, k, Len(row))[Len(row)] =
               [row |-> row, pos |-> k + Len(EncodeColumns(row)[Len(row)])]
<1> DEFINE N == Len(row)
           e == EncodeColumns(row)
           step(acc) == [row |-> Append(acc.row, ReadColumn(data, acc.pos).column),
                         pos |-> ReadColumn(data, acc.pos).pos]
           next(f) == [n \in 0 .. N |->
                          IF n = 0 THEN [row |-> <<>>, pos |-> k] ELSE step(f[n - 1])]
           g == [n \in 0 .. N |-> [row |-> SubSeq(row, 1, n), pos |-> k + Len(e[n])]]
           r == ReadColumns(data, k, N)
<1>1. N \in Nat /\ \A n \in 1 .. N : row[n] \in WireColumns
  OBVIOUS
<1>2. ASSUME NEW n \in 1 .. N
      PROVE  step([row |-> SubSeq(row, 1, n - 1), pos |-> k + Len(e[n - 1])])
                = [row |-> SubSeq(row, 1, n), pos |-> k + Len(e[n])]
  <2> DEFINE p == k + Len(e[n - 1])
             c == EncodeColumn(row[n])
  <2>1. At(data, p, c) /\ p \in Nat \ {0} /\ Len(e[n]) = Len(e[n - 1]) + Len(c)
    BY ColumnsAt, Zenon
  <2>2. ReadColumn(data, p) = [column |-> row[n], pos |-> p + Len(c)]
    BY <1>1, <2>1, ColumnRead, Zenon
  <2>3. k + Len(e[n]) = p + Len(c)
    <3> DEFINE a == Len(e[n - 1])
               b == Len(c)
    <3>1. a \in Nat /\ b \in Nat
      <4>1. n - 1 \in 0 .. N
        BY <1>1
      <4>2. e[n - 1] \in Seq(Units) /\ c \in Seq(Units)
        BY <1>1, <4>1, ColumnsEncoded, ColumnSeq, Zenon
      <4> HIDE DEF e, c
      <4> QED  BY <4>2, LenProperties, Zenon
    <3>2. k + Len(e[n]) = k + (a + b)
      BY <2>1, Zenon
    <3> HIDE DEF a, b
    <3>3. k + (a + b) = (k + a) + b
      BY <3>1
    <3> QED  BY <3>2, <3>3, Zenon DEF a, b
  <2>4. Append(SubSeq(row, 1, n - 1), row[n]) = SubSeq(row, 1, n)
    BY Prefix, Zenon
  <2>5. ReadColumn(data, p).column = row[n] /\ ReadColumn(data, p).pos = p + Len(c)
    <3> DEFINE rc == ReadColumn(data, p)
               q == p + Len(c)
    <3>1. rc = [column |-> row[n], pos |-> q]
      BY <2>2
    <3> HIDE DEF rc, q
    <3>2. rc.column = row[n] /\ rc.pos = q
      BY <3>1
    <3> QED  BY <3>2 DEF rc, q
  <2> DEFINE acc == [row |-> SubSeq(row, 1, n - 1), pos |-> p]
  <2>6. acc.row = SubSeq(row, 1, n - 1) /\ acc.pos = p
    OBVIOUS
  <2> HIDE DEF acc
  <2>7. step(acc) = [row |-> SubSeq(row, 1, n), pos |-> k + Len(e[n])]
    BY <2>3, <2>4, <2>5, <2>6, Zenon
  <2> QED  BY <2>7 DEF acc
<1>3. g = next(g)
  <2>1. ASSUME NEW n \in 0 .. N PROVE g[n] = next(g)[n]
    <3>1. CASE n = 0
      <4>1. SubSeq(row, 1, 0) = <<>> /\ k + Len(e[0]) = k
        <5>1. e[0] = <<>>
          BY ColumnsEncoded, Zenon
        <5>2. SubSeq(row, 1, 0) = <<>>
          BY Prefix, Zenon
        <5> HIDE DEF e
        <5> QED  BY <5>1, <5>2
      <4> QED  BY <3>1, <4>1, Zenon
    <3>2. CASE n # 0
      <4>1. n \in 1 .. N /\ n - 1 \in 0 .. N
        BY <1>1, <3>2
      <4>2. next(g)[n] = step(g[n - 1])
        BY <3>2, Zenon
      <4>3. /\ g[n - 1] = [row |-> SubSeq(row, 1, n - 1), pos |-> k + Len(e[n - 1])]
            /\ g[n] = [row |-> SubSeq(row, 1, n), pos |-> k + Len(e[n])]
        BY <4>1, Zenon
      <4> HIDE DEF g, e
      <4> QED  BY <1>2, <4>1, <4>2, <4>3, Zenon
    <3> QED  BY <3>1, <3>2, Zenon
  <2> QED  BY <2>1, Zenon
<1>4. r = next(r)
  <2> HIDE DEF g
  <2> QED  BY <1>3, Zenon DEF ReadColumns
<1> HIDE DEF r, g, N
<1> DEFINE P == {n \in Nat : n <= N => r[n] = g[n]}
<1>5. 0 \in P
  <2>1. 0 \in 0 .. N
    BY <1>1
  <2>2. r[0] = [row |-> <<>>, pos |-> k] /\ g[0] = [row |-> <<>>, pos |-> k]
    BY <1>3, <1>4, <2>1, Zenon
  <2> QED  BY <2>2, Zenon
<1>6. ASSUME NEW n \in P PROVE n + 1 \in P
  <2> SUFFICES ASSUME n + 1 <= N PROVE r[n + 1] = g[n + 1]
    OBVIOUS
  <2>1. n + 1 \in 0 .. N /\ n + 1 # 0 /\ (n + 1) - 1 = n /\ r[n] = g[n]
    BY <1>1
  <2>2. r[n + 1] = step(r[(n + 1) - 1]) /\ g[n + 1] = step(g[(n + 1) - 1])
    BY <1>3, <1>4, <2>1, Zenon
  <2> QED  BY <2>1, <2>2, Zenon
<1>7. Nat \subseteq P
  <2> HIDE DEF P
  <2> QED  BY <1>5, <1>6, Induction
<1>8. r[N] = g[N] /\ N \in 0 .. N
  BY <1>1, <1>7
<1> QED  BY <1>8, Prefix, Zenon DEF r, g, N

-----------------------------------------------------------------------------
(* Rows whose number of columns fits its width. *)
WireRows == {row \in Seq(WireColumns) : Len(row) < U16}

LEMMA AtPair ==
    ASSUME NEW data \in Seq(Units), NEW k \in Nat \ {0}, NEW u \in Units, NEW v \in Units,
           At(data, k, <<u, v>>)
    PROVE  data[k] = u /\ data[k + 1] = v /\ k <= Len(data)
<1>1. Len(<<u, v>>) = 2 /\ <<u, v>>[1] = u /\ <<u, v>>[2] = v /\ Len(data) \in Nat
  OBVIOUS
<1>2. k + 1 - 1 = k /\ k + 2 - 1 = k + 1 /\ 1 \in 1 .. 2 /\ 2 \in 1 .. 2
  OBVIOUS
<1> QED  BY <1>1, <1>2 DEF At

LEMMA RowSeq ==
    ASSUME NEW row \in WireRows \cup {None}
    PROVE  /\ EncodeRow(row) \in Seq(Units)
           /\ row = None => EncodeRow(row) = <<0>>
           /\ row # None =>
                /\ row \in Seq(WireColumns) /\ Len(row) \in Units
                /\ EncodeRow(row) = <<1, Len(row)>> \o EncodeColumns(row)[Len(row)]
                /\ EncodeColumns(row)[Len(row)] \in Seq(Units)
                /\ <<1, Len(row)>> \in Seq(Units)
<1>1. 0 \in Units /\ 1 \in Units
  BY DEF Units
<1>2. CASE row = None
  <2>1. EncodeRow(row) = <<0>>
    BY <1>2, Zenon DEF EncodeRow
  <2>2. <<0>> \in Seq(Units)
    BY <1>1
  <2> QED  BY <1>2, <2>1, <2>2, Zenon
<1>3. CASE row # None
  <2>1. row \in Seq(WireColumns) /\ Len(row) < U16
    BY <1>3, Zenon DEF WireRows
  <2>2. Len(row) \in Nat /\ Len(row) % U16 = Len(row)
    BY <2>1, Widths
  <2>3. Len(row) \in Units /\ Len(row) \in 0 .. Len(row)
    BY <2>2 DEF Units
  <2>4. EncodeColumns(row)[Len(row)] \in Seq(Units)
    BY <2>1, <2>3, ColumnsEncoded, Zenon
  <2>5. EncodeRow(row) = <<1, Len(row)>> \o EncodeColumns(row)[Len(row)]
    BY <1>3, <2>2, Zenon DEF EncodeRow
  <2> DEFINE n == Len(row)
  <2>6. <<1, n>> \in Seq(Units)
    <3> HIDE DEF n
    <3>1. n \in Units
      BY <2>3, Zenon DEF n
    <3> QED  BY <1>1, <3>1
  <2>7. <<1, n>> \o EncodeColumns(row)[Len(row)] \in Seq(Units)
    BY <2>4, <2>6, Concat, Zenon
  <2> QED  BY <1>3, <2>1, <2>3, <2>4, <2>5, <2>6, <2>7, Zenon
<1> QED  BY <1>2, <1>3, Zenon

(* A row that fits is read as it was written, as is that there is none. *)
LEMMA RowRead ==
    ASSUME NEW row \in WireRows \cup {None}, NEW data \in Seq(Units), NEW k \in Nat \ {0},
           At(data, k, EncodeRow(row))
    PROVE  DecodeRow(data, k) = [row |-> row, pos |-> k + Len(EncodeRow(row))]
<1>1. 0 \in Units /\ 1 \in Units
  BY DEF Units
<1>2. CASE row = None
  <2>1. At(data, k, <<0>>) /\ EncodeRow(row) = <<0>>
    BY <1>2, RowSeq, Zenon
  <2>2. data[k] = 0 /\ k <= Len(data)
    BY <1>1, <2>1, AtUnit, Zenon
  <2>3. ~(k > Len(data)) /\ Len(<<0>>) = 1
    BY <2>2
  <2> QED  BY <1>2, <2>1, <2>2, <2>3, Zenon DEF DecodeRow
<1>3. CASE row # None
  <2> DEFINE n == Len(row)
             s == <<1, n>>
             t == EncodeColumns(row)[n]
  <2>1. /\ row \in Seq(WireColumns) /\ n \in Units /\ s \in Seq(Units) /\ t \in Seq(Units)
        /\ EncodeRow(row) = s \o t
    BY <1>3, RowSeq, Zenon
  <2>2. Len(s) = 2
    OBVIOUS
  <2>3. At(data, k, s) /\ At(data, k + Len(s), t) /\ k + Len(s) \in Nat \ {0}
    <3>1. At(data, k, s \o t)
      BY <2>1, Zenon
    <3> HIDE DEF s, t
    <3> QED  BY <2>1, <3>1, AtConcat, Zenon
  <2>4. At(data, k + 2, t) /\ k + 2 \in Nat \ {0}
    BY <2>2, <2>3, Zenon
  <2>5. data[k] = 1 /\ data[k + 1] = n /\ k <= Len(data)
    <3>1. At(data, k, <<1, n>>)
      BY <2>3, Zenon
    <3> QED  BY <1>1, <2>1, <3>1, AtPair, Zenon
  <2>6. ReadColumns(data, k + 2, n)[n] = [row |-> row, pos |-> k + 2 + Len(t)]
    BY <2>1, <2>4, ColumnsRead, Zenon
  <2>7. k + 2 + Len(t) = k + Len(EncodeRow(row))
    <3>1. Len(t) \in Nat /\ Len(s \o t) = 2 + Len(t)
      <4> HIDE DEF s, t
      <4> QED  BY <2>1, <2>2, Concat, Zenon
    <3> DEFINE m == Len(t)
    <3>2. Len(EncodeRow(row)) = 2 + m /\ m \in Nat
      BY <2>1, <3>1, Zenon
    <3> HIDE DEF m
    <3>3. k + 2 + m = k + (2 + m)
      BY <3>2
    <3> QED  BY <3>2, <3>3, Zenon DEF m
  <2>8. ~(k > Len(data)) /\ data[k] # 0
    BY <2>5
  <2> QED  BY <2>5, <2>6, <2>7, <2>8, Zenon DEF DecodeRow
<1> QED  BY <1>2, <1>3, Zenon

-----------------------------------------------------------------------------
(* Names whose length fits, and the events of them and of such rows. *)
Names == {s \in Seq(Units) : Len(s) < U16}

WireEvents ==
    [lsn : Nat, xid : Nat, op : DOMAIN OpByte, table : [schema : Names, table : Names],
     schema_fingerprint : Units, after : WireRows \cup {None}, before : WireRows \cup {None},
     commit_timestamp_us : Nat]

LEMMA EventParts ==
    ASSUME NEW e \in WireEvents
    PROVE  /\ e.lsn \in Units /\ e.xid \in Units /\ e.op \in DOMAIN OpByte
           /\ OpByte[e.op] \in Units /\ ByteOp(OpByte[e.op]) = e.op
           /\ e.table.schema \in Seq(Units) /\ Len(e.table.schema) < U16
           /\ e.table.table \in Seq(Units) /\ Len(e.table.table) < U16
           /\ e.schema_fingerprint \in Units /\ e.commit_timestamp_us \in Units
           /\ e.after \in WireRows \cup {None} /\ e.before \in WireRows \cup {None}
           /\ e = [lsn |-> e.lsn, xid |-> e.xid, op |-> e.op,
                   table |-> [schema |-> e.table.schema, table |-> e.table.table],
                   schema_fingerprint |-> e.schema_fingerprint,
                   commit_timestamp_us |-> e.commit_timestamp_us,
                   after |-> e.after, before |-> e.before]
<1>1. /\ e.lsn \in Nat /\ e.xid \in Nat /\ e.op \in DOMAIN OpByte /\ e.commit_timestamp_us \in Nat
      /\ e.schema_fingerprint \in Units
      /\ e.after \in WireRows \cup {None} /\ e.before \in WireRows \cup {None}
  BY DEF WireEvents
<1>2. e.table \in [schema : Names, table : Names]
  BY DEF WireEvents
<1>3. e.table.schema \in Names /\ e.table.table \in Names
      /\ e.table = [schema |-> e.table.schema, table |-> e.table.table]
  BY <1>2
<1>4. e = [lsn |-> e.lsn, xid |-> e.xid, op |-> e.op, table |-> e.table,
           schema_fingerprint |-> e.schema_fingerprint,
           commit_timestamp_us |-> e.commit_timestamp_us,
           after |-> e.after, before |-> e.before]
  BY DEF WireEvents
<1>5. e.lsn \in Units /\ e.xid \in Units /\ e.commit_timestamp_us \in Units
  BY <1>1, Zenon DEF Units
<1>6. /\ e.op \in DOMAIN OpByte /\ OpByte[e.op] \in {"I", "U", "D", "T"}
      /\ ByteOp(OpByte[e.op]) = e.op
  BY <1>1 DEF OpByte, ByteOp
<1>7. OpByte[e.op] \in Units
  BY <1>6, Zenon DEF Units
<1> QED  BY <1>1, <1>3, <1>4, <1>5, <1>6, <1>7, Zenon DEF Names

(* Where the six parts of an event are in its buffer. *)
SixPartsAt(data, h, s, t, m, a, b) ==
    /\ data \in Seq(Units) /\ At(data, 1, h) /\ At(data, 1 + Len(h), s)
    /\ At(data, 1 + (Len(h) + Len(s)), t)
    /\ At(data, 1 + ((Len(h) + Len(s)) + Len(t)), m)
    /\ At(data, 1 + (((Len(h) + Len(s)) + Len(t)) + Len(m)), a)
    /\ At(data, 1 + ((((Len(h) + Len(s)) + Len(t)) + Len(m)) + Len(a)), b)
    /\ Len(data) = ((((Len(h) + Len(s)) + Len(t)) + Len(m)) + Len(a)) + Len(b)

LEMMA SixParts ==
    ASSUME NEW h \in Seq(Units), NEW s \in Seq(Units), NEW t \in Seq(Units),
           NEW m \in Seq(Units), NEW a \in Seq(Units), NEW b \in Seq(Units)
    PROVE  SixPartsAt(((((h \o s) \o t) \o m) \o a) \o b, h, s, t, m, a, b)
<1> DEFINE p1 == h \o s
           p2 == p1 \o t
           p3 == p2 \o m
           p4 == p3 \o a
           data == p4 \o b
<1> HIDE DEF data
<1>1. data = p4 \o b
  BY Zenon DEF data
<1> HIDE DEF p4
<1>2. p4 = p3 \o a
  BY Zenon DEF p4
<1> HIDE DEF p3
<1>3. p3 = p2 \o m
  BY Zenon DEF p3
<1> HIDE DEF p2
<1>4. p2 = p1 \o t
  BY Zenon DEF p2
<1> HIDE DEF p1
<1>5. p1 = h \o s
  BY Zenon DEF p1
<1>6. p1 \in Seq(Units) /\ Len(p1) = Len(h) + Len(s)
  BY <1>5, Concat, Zenon
<1>7. p2 \in Seq(Units) /\ Len(p2) = Len(p1) + Len(t)
  BY <1>4, <1>6, Concat, Zenon
<1>8. p3 \in Seq(Units) /\ Len(p3) = Len(p2) + Len(m)
  BY <1>3, <1>7, Concat, Zenon
<1>9. p4 \in Seq(Units) /\ Len(p4) = Len(p3) + Len(a)
  BY <1>2, <1>8, Concat, Zenon
<1>10. data \in Seq(Units) /\ Len(data) = Len(p4) + Len(b)
  BY <1>1, <1>9, Concat, Zenon
<1>11. At(data, 1, data) /\ 1 \in Nat \ {0}
  <2>1. Len(data) \in Nat /\ \A i \in 1 .. Len(data) : 1 + i - 1 = i
    BY <1>10
  <2>2. 1 + Len(data) <= Len(data) + 1
    BY <2>1
  <2>3. \A i \in 1 .. Len(data) : data[1 + i - 1] = data[i]
    BY <2>1, Zenon
  <2>4. 1 \in Nat \ {0}
    OBVIOUS
  <2> QED  BY <2>2, <2>3, <2>4, Zenon DEF At
<1>12. At(data, 1, p4) /\ At(data, 1 + Len(p4), b)
  <2>1. At(data, 1, p4 \o b)
    BY <1>1, <1>11, Zenon
  <2> QED  BY <1>9, <1>10, <1>11, <2>1, AtConcat, Zenon
<1>13. At(data, 1, p3) /\ At(data, 1 + Len(p3), a)
  <2>1. At(data, 1, p3 \o a)
    BY <1>2, <1>12, Zenon
  <2> QED  BY <1>8, <1>10, <1>11, <2>1, AtConcat, Zenon
<1>14. At(data, 1, p2) /\ At(data, 1 + Len(p2), m)
  <2>1. At(data, 1, p2 \o m)
    BY <1>3, <1>13, Zenon
  <2> QED  BY <1>7, <1>10, <1>11, <2>1, AtConcat, Zenon
<1>15. At(data, 1, p1) /\ At(data, 1 + Len(p1), t)
  <2>1. At(data, 1, p1 \o t)
    BY <1>4, <1>14, Zenon
  <2> QED  BY <1>6, <1>10, <1>11, <2>1, AtConcat, Zenon
<1>16. At(data, 1, h) /\ At(data, 1 + Len(h), s)
  <2>1. At(data, 1, h \o s)
    BY <1>5, <1>15, Zenon
  <2> QED  BY <1>10, <1>11, <2>1, AtConcat, Zenon
<1>17. /\ Len(p2) = (Len(h) + Len(s)) + Len(t)
       /\ Len(p3) = ((Len(h) + Len(s)) + Len(t)) + Len(m)
       /\ Len(p4) = (((Len(h) + Len(s)) + Len(t)) + Len(m)) + Len(a)
  BY <1>6, <1>7, <1>8, <1>9, Zenon
<1>18. SixPartsAt(data, h, s, t, m, a, b)
  BY <1>6, <1>10, <1>12, <1>13, <1>14, <1>15, <1>16, <1>17, Zenon DEF SixPartsAt
<1> QED  BY <1>18, Zenon DEF data, p4, p3, p2, p1

LEMMA AtTriple ==
    ASSUME NEW data \in Seq(Units), NEW u \in Units, NEW v \in Units, NEW w \in Units,
           At(data, 1, <<u, v, w>>)
    PROVE  data[1] = u /\ data[2] = v /\ data[3] = w
<1>1. /\ Len(<<u, v, w>>) = 3 /\ <<u, v, w>>[1] = u /\ <<u, v, w>>[2] = v /\ <<u, v, w>>[3] = w
  OBVIOUS
<1>2. /\ 1 + 1 - 1 = 1 /\ 1 + 2 - 1 = 2 /\ 1 + 3 - 1 = 3
      /\ 1 \in 1 .. 3 /\ 2 \in 1 .. 3 /\ 3 \in 1 .. 3
  OBVIOUS
<1> QED  BY <1>1, <1>2 DEF At

SumsAgree(ls, lt, la, lb) ==
    /\ 1 + 3 = 4 /\ 1 + (3 + (1 + ls)) = 4 + 1 + ls
    /\ 1 + ((3 + (1 + ls)) + (1 + lt)) = 4 + 1 + ls + 1 + lt
    /\ 1 + (((3 + (1 + ls)) + (1 + lt)) + 2) = 4 + 1 + ls + 1 + lt + 2
    /\ 1 + ((((3 + (1 + ls)) + (1 + lt)) + 2) + la) = 4 + 1 + ls + 1 + lt + 2 + la
    /\ ~(((((3 + (1 + ls)) + (1 + lt)) + 2) + la) + lb < 4)

LEMMA Sums ==
    ASSUME NEW ls \in Nat, NEW lt \in Nat, NEW la \in Nat, NEW lb \in Nat
    PROVE  SumsAgree(ls, lt, la, lb)
  BY DEF SumsAgree

(* The parts of an event's buffer, each at its place. *)
LEMMA EventAt ==
    ASSUME NEW e \in WireEvents, NEW ls, NEW lt, NEW la,
           ls = Len(e.table.schema), lt = Len(e.table.table), la = Len(EncodeRow(e.after))
    PROVE  /\ EncodeEvent(e) \in Seq(Units) /\ ls \in Nat /\ lt \in Nat /\ la \in Nat
           /\ At(EncodeEvent(e), 1, <<e.lsn, e.xid, OpByte[e.op]>>)
           /\ At(EncodeEvent(e), 4, Text(e.table.schema, U16))
           /\ At(EncodeEvent(e), 4 + 1 + ls, Text(e.table.table, U16))
           /\ At(EncodeEvent(e), 4 + 1 + ls + 1 + lt,
                 <<e.schema_fingerprint, e.commit_timestamp_us>>)
           /\ At(EncodeEvent(e), 4 + 1 + ls + 1 + lt + 2, EncodeRow(e.after))
           /\ At(EncodeEvent(e), 4 + 1 + ls + 1 + lt + 2 + la, EncodeRow(e.before))
           /\ ~(Len(EncodeEvent(e)) < 4)
<1> DEFINE h == <<e.lsn, e.xid, OpByte[e.op]>>
           s == Text(e.table.schema, U16)
           t == Text(e.table.table, U16)
           m == <<e.schema_fingerprint, e.commit_timestamp_us>>
           a == EncodeRow(e.after)
           b == EncodeRow(e.before)
           data == EncodeEvent(e)
<1>1. h \in Seq(Units) /\ Len(h) = 3
  BY EventParts
<1>2. s \in Seq(Units) /\ Len(s) = 1 + ls /\ ls \in Nat
  BY EventParts, TextSeq, Widths, Zenon
<1>3. t \in Seq(Units) /\ Len(t) = 1 + lt /\ lt \in Nat
  BY EventParts, TextSeq, Widths, Zenon
<1>4. m \in Seq(Units) /\ Len(m) = 2
  BY EventParts
<1>5. a \in Seq(Units) /\ b \in Seq(Units)
  BY EventParts, RowSeq, Zenon
<1>6. data = ((((h \o s) \o t) \o m) \o a) \o b
  BY Zenon DEF EncodeEvent
<1> HIDE DEF h, s, t, m, a, b, data
<1>7. la = Len(a)
  BY DEF a
<1>8. la \in Nat /\ Len(b) \in Nat
  BY <1>5, <1>7, LenProperties, Zenon
<1>9. /\ data \in Seq(Units) /\ At(data, 1, h) /\ At(data, 1 + 3, s)
      /\ At(data, 1 + (3 + (1 + ls)), t)
      /\ At(data, 1 + ((3 + (1 + ls)) + (1 + lt)), m)
      /\ At(data, 1 + (((3 + (1 + ls)) + (1 + lt)) + 2), a)
      /\ At(data, 1 + ((((3 + (1 + ls)) + (1 + lt)) + 2) + la), b)
      /\ Len(data) = ((((3 + (1 + ls)) + (1 + lt)) + 2) + la) + Len(b)
  <2>1. /\ data \in Seq(Units) /\ At(data, 1, h) /\ At(data, 1 + Len(h), s)
        /\ At(data, 1 + (Len(h) + Len(s)), t)
        /\ At(data, 1 + ((Len(h) + Len(s)) + Len(t)), m)
        /\ At(data, 1 + (((Len(h) + Len(s)) + Len(t)) + Len(m)), a)
        /\ At(data, 1 + ((((Len(h) + Len(s)) + Len(t)) + Len(m)) + Len(a)), b)
        /\ Len(data) = ((((Len(h) + Len(s)) + Len(t)) + Len(m)) + Len(a)) + Len(b)
    <3>1. SixPartsAt(((((h \o s) \o t) \o m) \o a) \o b, h, s, t, m, a, b)
      BY <1>1, <1>2, <1>3, <1>4, <1>5, SixParts, Zenon
    <3>2. SixPartsAt(data, h, s, t, m, a, b)
      BY <1>6, <3>1, Zenon
    <3> QED  BY <3>2, Zenon DEF SixPartsAt
  <2> QED  BY <1>1, <1>2, <1>3, <1>4, <1>7, <2>1, Zenon
<1> DEFINE lb == Len(b)
<1> HIDE DEF lb
<1>10. lb \in Nat
  BY <1>8, Zenon DEF lb
<1>11. /\ 1 + 3 = 4 /\ 1 + (3 + (1 + ls)) = 4 + 1 + ls
       /\ 1 + ((3 + (1 + ls)) + (1 + lt)) = 4 + 1 + ls + 1 + lt
       /\ 1 + (((3 + (1 + ls)) + (1 + lt)) + 2) = 4 + 1 + ls + 1 + lt + 2
       /\ 1 + ((((3 + (1 + ls)) + (1 + lt)) + 2) + la) = 4 + 1 + ls + 1 + lt + 2 + la
       /\ ~(((((3 + (1 + ls)) + (1 + lt)) + 2) + la) + lb < 4)
  <2>1. SumsAgree(ls, lt, la, lb)
    BY <1>2, <1>3, <1>8, <1>10, Sums, Zenon
  <2> QED  BY <2>1, Zenon DEF SumsAgree
<1>13. ~(Len(data) < 4)
  BY <1>9, <1>11, Zenon DEF lb
<1> QED  BY <1>2, <1>3, <1>8, <1>9, <1>11, <1>13, Zenon DEF h, s, t, m, a, b, data

(* Every event that fits is read as it was written: encode_event and       *)
(* decode_event of proto.rs agree on rows of every length.                 *)
THEOREM RoundTrip ==
    ASSUME NEW e \in WireEvents
    PROVE  DecodeEvent(EncodeEvent(e)) = e
<1> DEFINE ls == Len(e.table.schema)
           lt == Len(e.table.table)
           la == Len(EncodeRow(e.after))
           q == 4 + 1 + ls + 1 + lt
           data == EncodeEvent(e)
<1>1. /\ data \in Seq(Units) /\ ls \in Nat /\ lt \in Nat /\ la \in Nat
      /\ At(data, 1, <<e.lsn, e.xid, OpByte[e.op]>>)
      /\ At(data, 4, Text(e.table.schema, U16))
      /\ At(data, 4 + 1 + ls, Text(e.table.table, U16))
      /\ At(data, q, <<e.schema_fingerprint, e.commit_timestamp_us>>)
      /\ At(data, q + 2, EncodeRow(e.after))
      /\ At(data, q + 2 + la, EncodeRow(e.before))
      /\ ~(Len(data) < 4)
  BY EventAt, Zenon
<1> HIDE DEF data
<1>2. data[1] = e.lsn /\ data[2] = e.xid /\ data[3] = OpByte[e.op]
  <2>1. e.lsn \in Units /\ e.xid \in Units /\ OpByte[e.op] \in Units
    BY EventParts, Zenon
  <2>2. data \in Seq(Units) /\ At(data, 1, <<e.lsn, e.xid, OpByte[e.op]>>)
    BY <1>1, Zenon
  <2> QED  BY <2>1, <2>2, AtTriple, Zenon
<1>3. ReadText(data, 4) = [text |-> e.table.schema, pos |-> 4 + 1 + ls]
  <2>1. e.table.schema \in Seq(Units) /\ ls < U16 /\ U16 \in Nat \ {0}
    BY EventParts, Widths, Zenon
  <2>2. 4 \in Nat \ {0}
    OBVIOUS
  <2>3. data \in Seq(Units) /\ At(data, 4, Text(e.table.schema, U16))
    BY <1>1, Zenon
  <2> QED  BY <2>1, <2>2, <2>3, TextRead, Zenon
<1>4. 4 + 1 + ls \in Nat \ {0} /\ q \in Nat \ {0} /\ q + 2 \in Nat \ {0} /\ q + 2 + la \in Nat \ {0}
  <2>1. ls \in Nat /\ lt \in Nat /\ la \in Nat
    BY <1>1, Zenon
  <2> HIDE DEF ls, lt, la
  <2> QED  BY <2>1
<1>5. ReadText(data, 4 + 1 + ls) = [text |-> e.table.table, pos |-> q]
  <2>1. e.table.table \in Seq(Units) /\ lt < U16 /\ U16 \in Nat \ {0}
    BY EventParts, Widths, Zenon
  <2>2. data \in Seq(Units) /\ At(data, 4 + 1 + ls, Text(e.table.table, U16))
    BY <1>1, Zenon
  <2>3. 4 + 1 + ls \in Nat \ {0}
    BY <1>4, Zenon
  <2> HIDE DEF ls
  <2> QED  BY <2>1, <2>2, <2>3, TextRead, Zenon
<1>6. data[q] = e.schema_fingerprint /\ data[q + 1] = e.commit_timestamp_us
  <2>1. e.schema_fingerprint \in Units /\ e.commit_timestamp_us \in Units
    BY EventParts, Zenon
  <2>2. /\ data \in Seq(Units) /\ q \in Nat \ {0}
        /\ At(data, q, <<e.schema_fingerprint, e.commit_timestamp_us>>)
    BY <1>1, <1>4, Zenon
  <2> HIDE DEF q
  <2> DEFINE f == e.schema_fingerprint
             us == e.commit_timestamp_us
  <2> HIDE DEF f, us
  <2>3. /\ f \in Units /\ us \in Units
        /\ data \in Seq(Units) /\ q \in Nat \ {0} /\ At(data, q, <<f, us>>)
    BY <2>1, <2>2, Zenon DEF f, us
  <2>4. data[q] = f /\ data[q + 1] = us
    BY <2>3, AtPair, Zenon
  <2> QED  BY <2>4, Zenon DEF f, us
<1>7. DecodeRow(data, q + 2) = [row |-> e.after, pos |-> q + 2 + la]
  <2>1. e.after \in WireRows \cup {None}
    BY EventParts, Zenon
  <2>2. /\ data \in Seq(Units) /\ q + 2 \in Nat \ {0}
        /\ At(data, q + 2, EncodeRow(e.after))
    BY <1>1, <1>4, Zenon
  <2> HIDE DEF q
  <2> QED  BY <2>1, <2>2, RowRead, Zenon
<1>8. DecodeRow(data, q + 2 + la)
        = [row |-> e.before, pos |-> q + 2 + la + Len(EncodeRow(e.before))]
  <2>1. e.before \in WireRows \cup {None}
    BY EventParts, Zenon
  <2>2. /\ data \in Seq(Units) /\ q + 2 + la \in Nat \ {0}
        /\ At(data, q + 2 + la, EncodeRow(e.before))
    BY <1>1, <1>4, Zenon
  <2> HIDE DEF q, la
  <2> QED  BY <2>1, <2>2, RowRead, Zenon
<1> HIDE DEF ls, lt, la, q
<1>9. /\ ReadText(data, 4).text = e.table.schema
      /\ ReadText(data, ReadText(data, 4).pos).text = e.table.table
      /\ ReadText(data, ReadText(data, 4).pos).pos = q
      /\ DecodeRow(data, q + 2).row = e.after
      /\ DecodeRow(data, DecodeRow(data, q + 2).pos).row = e.before
  BY <1>3, <1>5, <1>7, <1>8
<1>10. data[3] \in {OpByte[op] : op \in DOMAIN OpByte} /\ ByteOp(data[3]) = e.op
  BY <1>2, EventParts, Zenon
<1>11. DecodeEvent(data) =
          [lsn |-> e.lsn, xid |-> e.xid, op |-> e.op,
           table |-> [schema |-> e.table.schema, table |-> e.table.table],
           schema_fingerprint |-> e.schema_fingerprint,
           commit_timestamp_us |-> e.commit_timestamp_us,
           after |-> e.after, before |-> e.before]
  BY <1>1, <1>2, <1>6, <1>9, <1>10, Zenon DEF DecodeEvent
<1> QED  BY <1>11, EventParts, Zenon DEF data
=============================================================================
