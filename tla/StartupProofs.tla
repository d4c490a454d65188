--------------------------- MODULE StartupProofs ---------------------------
(***************************************************************************)
(* The start of the daemon, for every set of tables and rows, every        *)
(* history of changes and definitions, and any number of restarts: the     *)
(* snapshot and the stream after it, what a load leaves in the registry,   *)
(* and what the health endpoint says.                                      *)
(***************************************************************************)
EXTENDS Startup, FiniteSetTheorems, WellFoundedInduction, TLAPS

-----------------------------------------------------------------------------
(* A set of natural numbers has a least element. *)
LEMMA Least ==
    ASSUME NEW T \in SUBSET Nat, T # {}
    PROVE  \E m \in T : \A k \in T : m <= k
<1> DEFINE R == {ss \in Nat \X Nat : ss[1] < ss[2]}
<1>1. IsWellFoundedOn(R, Nat)
  BY NatLessThanWellFounded, Zenon DEF OpToRel
<1>2. PICK m \in T : \A k \in T : ~(<<k, m>> \in R)
  <2> HIDE DEF R
  <2> QED  BY <1>1, WFMin, Zenon
<1>3. \A k \in Nat : k < m => <<k, m>> \in R
  OBVIOUS
<1>4. \A k \in T : ~(k < m)
  <2> HIDE DEF R
  <2> QED  BY <1>2, <1>3, Zenon
<1> QED  BY <1>4

(* A bounded one has a greatest. *)
LEMMA Greatest ==
    ASSUME NEW n \in Nat, NEW T \in SUBSET (0 .. n), T # {}
    PROVE  \E m \in T : \A k \in T : k <= m
<1> DEFINE D == {n - k : k \in T}
<1>1. D \in SUBSET Nat /\ D # {}
  <2>1. \A k \in T : n - k \in Nat
    OBVIOUS
  <2>2. PICK k \in T : TRUE
    BY Zenon
  <2>3. n - k \in D
    OBVIOUS
  <2> QED  BY <2>1, <2>3
<1>2. PICK d \in D : \A k \in D : d <= k
  <2> HIDE DEF D
  <2> QED  BY <1>1, Least
<1>3. PICK m \in T : d = n - m
  OBVIOUS
<1>4. \A k \in T : n - m <= n - k
  BY <1>2, <1>3, Zenon
<1> QED  BY <1>4

-----------------------------------------------------------------------------
(* The state of a row *)

Records == [row : Rows, value : Values \cup {None}]

(* A row that no record names keeps its value. *)
LEMMA ApplyNone ==
    ASSUME NEW st, NEW recs, NEW r \in Rows, \A i \in DOMAIN recs : recs[i].row # r
    PROVE  Apply(st, recs)[r] = st[r]
BY DEF Apply

(* Otherwise it has that of the last record that names it. *)
LEMMA ApplyLast ==
    ASSUME NEW st, NEW recs, NEW r \in Rows, DOMAIN recs \subseteq Int,
           NEW m \in DOMAIN recs, recs[m].row = r,
           \A j \in DOMAIN recs : recs[j].row = r => j <= m
    PROVE  Apply(st, recs)[r] = recs[m].value
<1> DEFINE last == {i \in DOMAIN recs :
                       /\ recs[i].row = r
                       /\ \A j \in DOMAIN recs : recs[j].row = r => j <= i}
<1>1. last = {m}
  <2>1. \A i \in last : i <= m /\ m <= i /\ i \in Int /\ m \in Int
    OBVIOUS
  <2>2. \A i \in last : i = m
    BY <2>1
  <2>3. m \in last
    OBVIOUS
  <2> QED  BY <2>2, <2>3
<1>2. Apply(st, recs)[r] = IF last = {} THEN st[r] ELSE recs[CHOOSE i \in last : TRUE].value
  BY DEF Apply
<1> HIDE DEF last
<1>3. last # {} /\ (CHOOSE i \in last : TRUE) = m
  BY <1>1
<1> QED  BY <1>2, <1>3, Zenon

(* One of the two is the case. *)
LEMMA LastExists ==
    ASSUME NEW n \in Nat, NEW recs, DOMAIN recs = 1 .. n, NEW r,
           NEW i \in DOMAIN recs, recs[i].row = r
    PROVE  \E m \in DOMAIN recs :
              recs[m].row = r /\ \A j \in DOMAIN recs : recs[j].row = r => j <= m
<1> DEFINE T == {j \in DOMAIN recs : recs[j].row = r}
<1>1. T \in SUBSET (0 .. n) /\ i \in T
  OBVIOUS
<1>2. PICK m \in T : \A k \in T : k <= m
  <2> HIDE DEF T
  <2> QED  BY <1>1, Greatest, Zenon
<1> QED  BY <1>2

(* The database after n records of a WAL. *)
StateOf(w, n) == Apply(Blank, SubSeq(w, 1, n))

LEMMA StateOfLast ==
    ASSUME NEW w \in Seq(Records), NEW n \in 0 .. Len(w), NEW r \in Rows,
           NEW m \in 1 .. n, w[m].row = r, \A j \in 1 .. n : w[j].row = r => j <= m
    PROVE  StateOf(w, n)[r] = w[m].value
<1> DEFINE recs == SubSeq(w, 1, n)
<1>1. DOMAIN recs = 1 .. n /\ \A i \in 1 .. n : recs[i] = w[i]
  OBVIOUS
<1> HIDE DEF recs
<1>2. Apply(Blank, recs)[r] = recs[m].value
  BY <1>1, ApplyLast
<1> QED  BY <1>1, <1>2 DEF StateOf, recs

LEMMA StateOfNone ==
    ASSUME NEW w \in Seq(Records), NEW n \in 0 .. Len(w), NEW r \in Rows,
           \A j \in 1 .. n : w[j].row # r
    PROVE  StateOf(w, n)[r] = None
<1> DEFINE recs == SubSeq(w, 1, n)
<1>1. DOMAIN recs = 1 .. n /\ \A i \in 1 .. n : recs[i] = w[i]
  OBVIOUS
<1> HIDE DEF recs
<1>2. Apply(Blank, recs)[r] = Blank[r]
  BY <1>1, ApplyNone
<1> QED  BY <1>2 DEF StateOf, recs, Blank

(* The value of a row is one of its records', or None. *)
LEMMA StateOfType ==
    ASSUME NEW w \in Seq(Records), NEW n \in 0 .. Len(w), NEW r \in Rows
    PROVE  StateOf(w, n)[r] \in Values \cup {None}
<1>1. CASE \A j \in 1 .. n : w[j].row # r
  BY <1>1, StateOfNone
<1>2. CASE \E j \in 1 .. n : w[j].row = r
  <2> DEFINE recs == [j \in 1 .. n |-> w[j]]
  <2>1. n \in Nat /\ DOMAIN recs = 1 .. n /\ \E j \in DOMAIN recs : recs[j].row = r
    BY <1>2
  <2> HIDE DEF recs
  <2>2. PICK m \in DOMAIN recs :
            recs[m].row = r /\ \A j \in DOMAIN recs : recs[j].row = r => j <= m
    BY <2>1, LastExists, Zenon
  <2>3. m \in 1 .. n /\ w[m].row = r /\ \A j \in 1 .. n : w[j].row = r => j <= m
    BY <2>1, <2>2 DEF recs
  <2>4. StateOf(w, n)[r] = w[m].value
    BY <2>3, StateOfLast
  <2>5. w[m] \in Records
    BY <2>3
  <2> QED  BY <2>4, <2>5 DEF Records
<1> QED  BY <1>1, <1>2

(* Records after the first n change nothing of the state after n. *)
LEMMA StateOfPrefix ==
    ASSUME NEW w \in Seq(Records), NEW x \in Records, NEW n \in 0 .. Len(w)
    PROVE  StateOf(Append(w, x), n) = StateOf(w, n)
<1>1. SubSeq(Append(w, x), 1, n) = SubSeq(w, 1, n)
  OBVIOUS
<1> QED  BY <1>1, Zenon DEF StateOf

(* What SnapshotThenStreamConverges says of a snapshot and a stream. *)
Converged(snap, stream, database) ==
    \A r \in Rows :
        Apply(snap, stream)[r] = IF \E i \in DOMAIN stream : stream[i].row = r
                                 THEN database[r] ELSE AsRead(database[r])

(* A snapshot of any moment since the slot's, and the records from the     *)
(* slot on: a row that one of these names has its value from the last of   *)
(* them, and the others have not changed since the slot and are as the     *)
(* snapshot has read them.                                                 *)
LEMMA Converges ==
    ASSUME NEW w \in Seq(Records), NEW a \in Nat, NEW v \in a .. Len(w), NEW snap,
           \A r \in Rows : snap[r] = AsRead(StateOf(w, v)[r])
    PROVE  Converged(snap, SubSeq(w, a + 1, Len(w)), StateOf(w, Len(w)))
<1> DEFINE n == Len(w)
           tail == SubSeq(w, a + 1, n)
<1>1. n \in Nat /\ n - a \in Nat /\ DOMAIN tail = 1 .. n - a /\ v \in 0 .. n /\ n \in 0 .. n
      /\ a \in 0 .. n
  OBVIOUS
<1>2. \A i \in 1 .. n - a : tail[i] = w[a + i]
  BY <1>1
<1> HIDE DEF n, tail
<1>3. ASSUME NEW r \in Rows
      PROVE  Apply(snap, tail)[r] = IF \E i \in DOMAIN tail : tail[i].row = r
                                    THEN StateOf(w, n)[r] ELSE AsRead(StateOf(w, n)[r])
  <2>1. CASE \E i \in 1 .. n - a : tail[i].row = r
    <3>1. PICK m \in DOMAIN tail :
              tail[m].row = r /\ \A j \in DOMAIN tail : tail[j].row = r => j <= m
      BY <1>1, <2>1, LastExists, Zenon
    <3>2. Apply(snap, tail)[r] = tail[m].value
      <4>1. DOMAIN tail \subseteq Int
        BY <1>1
      <4>2. ASSUME NEW st, NEW recs, recs = tail PROVE Apply(st, recs)[r] = recs[m].value
        <5>1. /\ DOMAIN recs \subseteq Int /\ m \in DOMAIN recs /\ recs[m].row = r
              /\ \A j \in DOMAIN recs : recs[j].row = r => j <= m
          BY <3>1, <4>1, <4>2
        <5> QED  BY <5>1, ApplyLast
      <4> QED  BY <4>2
    <3>3. a + m \in 1 .. n /\ tail[m] = w[a + m]
      BY <1>1, <1>2, <3>1
    <3>4. ASSUME NEW j \in 1 .. n, w[j].row = r PROVE j <= a + m
      <4>1. CASE j <= a
        BY <1>1, <3>1, <4>1
      <4>2. CASE j > a
        <5>1. j - a \in 1 .. n - a /\ a + (j - a) = j
          BY <1>1, <4>2
        <5>2. tail[j - a].row = r
          BY <1>2, <3>4, <5>1
        <5>3. j - a <= m
          BY <1>1, <3>1, <5>1, <5>2
        <5> QED  BY <1>1, <3>1, <5>3
      <4> QED  BY <1>1, <4>1, <4>2
    <3>5. StateOf(w, n)[r] = w[a + m].value
      BY <1>1, <3>1, <3>3, <3>4, StateOfLast, Zenon DEF n
    <3> QED  BY <3>1, <3>2, <3>3, <3>5
  <2>2. CASE \A i \in 1 .. n - a : tail[i].row # r
    <3>1. Apply(snap, tail)[r] = AsRead(StateOf(w, v)[r])
      BY <1>1, <2>2, ApplyNone
    <3> SUFFICES StateOf(w, v)[r] = StateOf(w, n)[r]
      BY <1>1, <2>2, <3>1
    <3>2. ASSUME NEW j \in 1 .. n, w[j].row = r PROVE j <= a
      <4> SUFFICES ASSUME j > a PROVE FALSE
        BY <1>1
      <4>1. j - a \in 1 .. n - a /\ a + (j - a) = j
        BY <1>1
      <4> QED  BY <1>2, <2>2, <3>2, <4>1
    <3>3. CASE \A j \in 1 .. n : w[j].row # r
      <4>1. StateOf(w, n)[r] = None
        BY <1>1, <3>3, StateOfNone DEF n
      <4>2. \A j \in 1 .. v : w[j].row # r
        BY <1>1, <3>3
      <4>3. StateOf(w, v)[r] = None
        BY <1>1, <4>2, StateOfNone DEF n
      <4> QED  BY <4>1, <4>3
    <3>4. CASE \E j \in 1 .. n : w[j].row = r
      <4> DEFINE recs == [j \in 1 .. n |-> w[j]]
      <4>1. DOMAIN recs = 1 .. n /\ \E j \in DOMAIN recs : recs[j].row = r
        BY <3>4
      <4> HIDE DEF recs
      <4>2. PICK m \in DOMAIN recs :
                recs[m].row = r /\ \A j \in DOMAIN recs : recs[j].row = r => j <= m
        BY <1>1, <4>1, LastExists, Zenon
      <4>3. m \in 1 .. n /\ w[m].row = r /\ \A j \in 1 .. n : w[j].row = r => j <= m
        BY <4>1, <4>2 DEF recs
      <4>4. m \in 1 .. v /\ \A j \in 1 .. v : w[j].row = r => j <= m
        BY <1>1, <3>2, <4>3
      <4>5. StateOf(w, n)[r] = w[m].value
        BY <1>1, <4>3, StateOfLast, Zenon DEF n
      <4>6. StateOf(w, v)[r] = w[m].value
        BY <1>1, <4>3, <4>4, StateOfLast DEF n
      <4> QED  BY <4>5, <4>6
    <3> QED  BY <3>3, <3>4
  <2> QED  BY <2>1, <2>2
<1> QED  BY <1>3 DEF tail, n, Converged

-----------------------------------------------------------------------------
(* The snapshot *)

SnapshotEvents == [row : Rows, value : Values, lsn : 0 .. MaxWal, xid : {0}]

(* The events are those of the first n tables, as they were after v        *)
(* records.                                                                *)
Matches(w, v, es, n) ==
    /\ \A j \in DOMAIN es : es[j].value = AsRead(StateOf(w, v)[es[j].row])
    /\ \A i \in 1 .. n : \A r \in tables[i] :
          StateOf(w, v)[r] # None => \E j \in DOMAIN es : es[j].row = r

(* The next table adds its rows, in any order. *)
LEMMA MatchesTable ==
    ASSUME NEW w \in Seq(Records), NEW v \in 0 .. Len(w), NEW es \in Seq(SnapshotEvents),
           NEW n \in 0 .. Len(tables) - 1, Matches(w, v, es, n), NEW lsn \in 0 .. MaxWal,
           NEW list \in Orders({r \in tables[n + 1] : StateOf(w, v)[r] # None}),
           NEW new,
           new = [i \in DOMAIN list |->
                     [row |-> list[i], value |-> AsRead(StateOf(w, v)[list[i]]),
                      lsn |-> lsn, xid |-> 0]]
    PROVE  es \o new \in Seq(SnapshotEvents) /\ Matches(w, v, es \o new, n + 1)
<1> DEFINE t == {r \in tables[n + 1] : StateOf(w, v)[r] # None}
           k == Cardinality(t)
<1>1. list \in [1 .. k -> t] /\ \A r \in t : \E i \in DOMAIN list : list[i] = r
  BY SMTT(30) DEF Orders
<1>2. n + 1 \in DOMAIN tables /\ tables[n + 1] \subseteq Rows
  BY SnapshotAssumption DEF Rows
<1>3. ASSUME NEW i \in 1 .. k
      PROVE  new[i] \in SnapshotEvents /\ new[i].row = list[i]
             /\ new[i].value = AsRead(StateOf(w, v)[list[i]])
  <2>1. list[i] \in Rows /\ StateOf(w, v)[list[i]] # None
    BY <1>1, <1>2, <1>3
  <2>2. AsRead(StateOf(w, v)[list[i]]) \in Values
    <3>1. StateOf(w, v)[list[i]] \in Values
      BY <2>1, StateOfType, Zenon
    <3> QED  BY <2>1, <3>1, SnapshotAssumption DEF AsRead
  <2>3. new[i] = [row |-> list[i], value |-> AsRead(StateOf(w, v)[list[i]]),
                  lsn |-> lsn, xid |-> 0]
    BY <1>1, <1>3
  <2> QED  BY <2>1, <2>2, <2>3 DEF SnapshotEvents
<1>4. k \in Nat /\ DOMAIN new = 1 .. k
  <2>1. IsFiniteSet(tables[n + 1]) /\ t \subseteq tables[n + 1]
    BY <1>2, SnapshotAssumption, Zenon
  <2>2. k \in Nat
    BY <2>1, FS_Subset, FS_CardinalityType
  <2> QED  BY <1>1, <2>2
<1> HIDE DEF k, t
<1>5. new \in Seq(SnapshotEvents) /\ Len(new) = k
  <2>1. new \in [1 .. k -> SnapshotEvents]
    BY <1>3, <1>4, Zenon
  <2>2. \A m \in Nat : \A f \in [1 .. m -> SnapshotEvents] :
            f \in Seq(SnapshotEvents) /\ Len(f) = m
    OBVIOUS
  <2> QED  BY <1>4, <2>1, <2>2, Zenon
<1> DEFINE all == es \o new
<1>6. /\ all \in Seq(SnapshotEvents) /\ Len(all) = Len(es) + k
      /\ \A j \in 1 .. Len(es) : all[j] = es[j]
      /\ \A i \in 1 .. k : all[Len(es) + i] = new[i]
  BY <1>4, <1>5
<1>7. /\ Len(es) \in Nat /\ DOMAIN es = 1 .. Len(es)
      /\ DOMAIN all = 1 .. Len(es) + k
  BY <1>6
<1> HIDE DEF all
<1>8. ASSUME NEW j \in DOMAIN all PROVE all[j].value = AsRead(StateOf(w, v)[all[j].row])
  <2>1. CASE j <= Len(es)
    BY <1>6, <1>7, <2>1 DEF Matches
  <2>2. CASE j > Len(es)
    <3>1. PICK i \in 1 .. k : Len(es) + i = j
      <4>1. j - Len(es) \in 1 .. k /\ Len(es) + (j - Len(es)) = j
        BY <1>4, <1>7, <2>2
      <4> QED  BY <4>1, Zenon
    <3>2. all[j] = new[i]
      BY <1>6, <3>1, Zenon
    <3>3. new[i].row = list[i] /\ new[i].value = AsRead(StateOf(w, v)[list[i]])
      BY <1>3, Zenon
    <3> QED  BY <3>2, <3>3, Zenon
  <2> QED  BY <1>4, <1>7, <2>1, <2>2
<1>9. ASSUME NEW i \in 1 .. n + 1, NEW r \in tables[i], StateOf(w, v)[r] # None
      PROVE  \E j \in DOMAIN all : all[j].row = r
  <2>1. CASE i = n + 1
    <3>1. PICK m \in 1 .. k : list[m] = r
      BY <1>1, <1>9, <2>1 DEF t
    <3>2. Len(es) + m \in DOMAIN all
      BY <1>4, <1>7
    <3>3. all[Len(es) + m] = new[m] /\ new[m].row = r
      BY <1>3, <1>6, <3>1, Zenon
    <3> QED  BY <3>2, <3>3, Zenon
  <2>2. CASE i # n + 1
    <3>1. i \in 1 .. n
      BY <2>2
    <3>2. PICK j \in DOMAIN es : es[j].row = r
      BY <1>9, <3>1 DEF Matches
    <3> QED  BY <1>4, <1>6, <1>7, <3>2
  <2> QED  BY <2>1, <2>2
<1> QED  BY <1>6, <1>8, <1>9, Zenon DEF Matches, all

(* The events of all tables make the database of their moment. *)
LEMMA MatchesAll ==
    ASSUME NEW w \in Seq(Records), NEW v \in 0 .. Len(w), NEW es \in Seq(SnapshotEvents),
           Matches(w, v, es, Len(tables)), NEW r \in Rows
    PROVE  Apply(Blank, es)[r] = AsRead(StateOf(w, v)[r])
<1>1. Len(es) \in Nat /\ DOMAIN es = 1 .. Len(es) /\ DOMAIN es \subseteq Int
  OBVIOUS
<1>2. CASE \E j \in DOMAIN es : es[j].row = r
  <2>1. PICK m \in DOMAIN es : es[m].row = r /\ \A j \in DOMAIN es : es[j].row = r => j <= m
    BY <1>1, <1>2, LastExists, Zenon
  <2>2. Apply(Blank, es)[r] = es[m].value
    BY <1>1, <2>1, ApplyLast
  <2> QED  BY <2>1, <2>2 DEF Matches
<1>3. CASE \A j \in DOMAIN es : es[j].row # r
  <2>1. Apply(Blank, es)[r] = None
    BY <1>3, ApplyNone DEF Blank
  <2>2. PICK i \in DOMAIN tables : r \in tables[i]
    BY DEF Rows
  <2>3. StateOf(w, v)[r] = None
    BY <1>3, <2>2, SnapshotAssumption DEF Matches
  <2> QED  BY <2>1, <2>3 DEF AsRead
<1> QED  BY <1>2, <1>3

Untouched == read = 0 /\ view = None /\ events = <<>>

(* What is read is read at one moment, which is not before the slot's, and *)
(* this is the LSN that ensure_slot has returned; it is kept from the      *)
(* first query to the end, and a restart starts over.                      *)
SnapshotInv ==
    /\ TypeOK /\ Len(wal) <= MaxWal
    /\ phase \in {"start", "export"} => Untouched
    /\ phase \in {"export", "read", "done"} => slot # None /\ snapshot_lsn = slot
    /\ phase = "done" => read = Len(tables)
    /\ phase \in {"read", "done"} =>
          IF view = None THEN Untouched ELSE slot <= view /\ Matches(wal, view, events, read)

LEMMA SnapshotTypes ==
    ASSUME SnapshotInv
    PROVE  /\ wal \in Seq(Records) /\ Len(wal) \in Nat /\ Len(wal) <= MaxWal /\ MaxWal \in Nat
           /\ slot \in (0 .. Len(wal)) \cup {None} /\ view \in (0 .. Len(wal)) \cup {None}
           /\ events \in Seq(SnapshotEvents) /\ read \in 0 .. Len(tables)
           /\ Len(tables) \in Nat /\ None \notin Nat
<1>1. /\ wal \in Seq(Records) /\ Len(wal) <= MaxWal
      /\ slot \in (0 .. Len(wal)) \cup {None} /\ view \in (0 .. Len(wal)) \cup {None}
      /\ events \in Seq(SnapshotEvents) /\ read \in 0 .. Len(tables)
  BY Zenon DEF SnapshotInv, TypeOK, Records, SnapshotEvents
<1>2. Len(wal) \in Nat
  BY <1>1
<1> QED  BY <1>1, <1>2, SnapshotAssumption, Zenon

(* Clients go on; what has been read is of a moment that is past. *)
LEMMA ChangeStep ==
    ASSUME SnapshotInv, NEW r \in Rows, NEW v \in Values \cup {None}, Change(r, v)
    PROVE  SnapshotInv'
<1> DEFINE x == [row |-> r, value |-> v]
<1>1. /\ Len(wal) < MaxWal /\ wal' = Append(wal, x)
      /\ UNCHANGED <<slot, snapshot_lsn, view, phase, read, events, finished, restarts>>
  BY DEF Change
<1>2. x \in Records
  BY DEF Records
<1>3. wal' \in Seq(Records) /\ Len(wal') = Len(wal) + 1
  BY <1>1, <1>2, SnapshotTypes
<1>4. 0 .. Len(wal) \subseteq 0 .. Len(wal') /\ Len(wal') <= MaxWal
  BY <1>1, <1>3, SnapshotTypes
<1>5. TypeOK'
  BY <1>1, <1>3, <1>4 DEF SnapshotInv, TypeOK, Records
<1>6. view # None => (Matches(wal, view, events, read) => Matches(wal', view, events, read))
  <2> SUFFICES ASSUME view # None PROVE StateOf(wal', view) = StateOf(wal, view)
    BY Zenon DEF Matches
  <2> QED  BY <1>1, <1>2, SnapshotTypes, StateOfPrefix
<1> QED  BY <1>1, <1>4, <1>5, <1>6 DEF SnapshotInv, Untouched

(* from_pg_str reads what PostgreSQL writes. *)
LEMMA PgTextRead == ASSUME NEW n \in Nat PROVE FromPgStr(PgText(n)) = n
<1> DEFINE q == n \div Half
           m == n % Half
           p == Half * q
<1>1. Half \in Nat \ {0}
  BY SnapshotAssumption
<1>2. n - p = m /\ q \in Int /\ p \in Int /\ m \in Int
  BY <1>1
<1>3. FromPgStr(PgText(n)) = q * Half + m
  BY DEF FromPgStr, PgText
<1>4. q * Half = p
  BY <1>1, <1>2
<1> HIDE DEF q, m, p
<1> QED  BY <1>2, <1>3, <1>4

(* The start: the slot is made or found, or there is an error. *)
LEMMA SlotStep ==
    ASSUME SnapshotInv, NEW auto_create \in BOOLEAN,
           NEW answer \in {"text", "pg_lsn", "error"}, EnsureSlot(auto_create, answer)
    PROVE  SnapshotInv'
<1>1. phase = "start" /\ UNCHANGED <<wal, view, read, events, restarts>>
  BY DEF EnsureSlot
<1>2. Untouched
  BY <1>1 DEF SnapshotInv
<1>3. \/ phase' \in {"failed", "resumed"} /\ UNCHANGED <<slot, snapshot_lsn, finished>>
      \/ slot' = Len(wal) /\ finished' = FALSE /\ phase' = "failed" /\ UNCHANGED snapshot_lsn
      \/ /\ slot' = Len(wal) /\ finished' = FALSE /\ phase' = "export"
         /\ snapshot_lsn' = FromPgStr(PgText(Len(wal)))
  BY Zenon DEF EnsureSlot
<1>4. /\ FromPgStr(PgText(Len(wal))) = Len(wal) /\ Len(wal) \in 0 .. Len(wal)
      /\ Len(wal) # None
  BY SnapshotTypes, PgTextRead
<1>5. TypeOK'
  BY <1>1, <1>3, <1>4 DEF SnapshotInv, TypeOK
<1>6. phase' = "export" => slot' # None /\ snapshot_lsn' = slot'
  BY <1>1, <1>3, <1>4
<1>7. phase' \in {"failed", "resumed", "export"} /\ Untouched'
  BY <1>1, <1>2, <1>3 DEF Untouched
<1> QED  BY <1>1, <1>5, <1>6, <1>7 DEF SnapshotInv

(* A restart forgets everything but the slot. *)
LEMMA RestartStep == ASSUME SnapshotInv, Restart PROVE SnapshotInv'
<1>1. restarts' \in 0 .. MaxRestarts
  <2>1. restarts \in 0 .. MaxRestarts /\ MaxRestarts \in Nat
    BY SnapshotAssumption, Zenon DEF SnapshotInv, TypeOK
  <2>2. restarts < MaxRestarts /\ restarts' = restarts + 1
    BY DEF Restart
  <2> QED  BY <2>1, <2>2
<1>2. /\ UNCHANGED <<wal, slot, finished>> /\ phase' = "start" /\ snapshot_lsn' = None
      /\ Untouched'
  BY DEF Restart, Untouched
<1>3. read' \in 0 .. Len(tables) /\ events' \in Seq(SnapshotEvents)
  BY <1>2, SnapshotTypes DEF Untouched
<1>4. TypeOK'
  BY <1>1, <1>2, <1>3 DEF SnapshotInv, TypeOK, Untouched, SnapshotEvents
<1> QED  BY <1>2, <1>4 DEF SnapshotInv

(* No table matches any moment before the first is read. *)
LEMMA MatchesNone ==
    ASSUME NEW w, NEW v PROVE Matches(w, v, <<>>, 0)
BY DEF Matches

(* The transaction sees the slot's moment, or has yet to choose one. *)
LEMMA BeginExportStep ==
    ASSUME SnapshotInv, NEW answer \in {"named", "none", "error"}, BeginExport(answer)
    PROVE  SnapshotInv'
<1>1. /\ UNCHANGED <<wal, slot, snapshot_lsn, read, events, finished, restarts>>
      /\ phase = "export" /\ phase' \in {"read", "failed"}
      /\ view' = slot \/ view' = None
  BY DEF BeginExport
<1>2. slot # None /\ snapshot_lsn = slot /\ read = 0 /\ events = <<>>
  BY <1>1 DEF SnapshotInv, Untouched
<1>3. TypeOK'
  BY <1>1 DEF SnapshotInv, TypeOK
<1>4. slot <= slot
  BY <1>2, SnapshotTypes, SMTT(30)
<1> QED  BY <1>1, <1>2, <1>3, <1>4, MatchesNone DEF SnapshotInv, Untouched

(* A table is read at the moment the first one was. *)
LEMMA SnapshotTableStep == ASSUME SnapshotInv, SnapshotTable PROVE SnapshotInv'
<1>1. /\ phase = "read" /\ read < Len(tables)
      /\ read' = read + 1 /\ view' = Seen
      /\ UNCHANGED <<wal, slot, snapshot_lsn, phase, finished, restarts>>
  BY DEF SnapshotTable, MoreTables
<1>2. slot # None /\ snapshot_lsn = slot
  BY <1>1 DEF SnapshotInv
<1>3. read \in 0 .. Len(tables) - 1 /\ read + 1 \in 0 .. Len(tables)
      /\ slot \in 0 .. Len(wal) /\ slot \in 0 .. MaxWal /\ snapshot_lsn \in 0 .. MaxWal
  BY <1>1, <1>2, SnapshotTypes
<1>4. Seen \in 0 .. Len(wal) /\ slot <= Seen /\ Seen # None /\ Matches(wal, Seen, events, read)
  <2>1. CASE view = None
    <3>1. Seen = Len(wal) /\ read = 0 /\ events = <<>>
      BY <1>1, <2>1 DEF Seen, SnapshotInv, Untouched
    <3>2. Len(wal) \in 0 .. Len(wal) /\ slot <= Len(wal) /\ Len(wal) # None
      BY <1>3, SnapshotTypes
    <3> QED  BY <3>1, <3>2, MatchesNone
  <2>2. CASE view # None
    <3>1. Seen = view /\ slot <= view /\ Matches(wal, view, events, read)
      BY <1>1, <2>2 DEF Seen, SnapshotInv
    <3> QED  BY <2>2, <3>1, SnapshotTypes
  <2> QED  BY <2>1, <2>2
<1>5. PICK list \in Orders({r \in tables[read + 1] : StateOf(wal, Seen)[r] # None}) :
          events' = events \o [i \in DOMAIN list |->
                                 [row |-> list[i], value |-> AsRead(StateOf(wal, Seen)[list[i]]),
                                  lsn |-> snapshot_lsn, xid |-> 0]]
  BY Zenon DEF SnapshotTable, TableRows, TableEvents, StateAt, StateOf
<1>6. events' \in Seq(SnapshotEvents) /\ Matches(wal, Seen, events', read + 1)
  BY <1>3, <1>4, <1>5, SnapshotTypes, MatchesTable, ZenonT(60)
<1>7. TypeOK'
  BY <1>1, <1>3, <1>4, <1>6 DEF SnapshotInv, TypeOK, SnapshotEvents
<1> QED  BY <1>1, <1>2, <1>4, <1>6, <1>7, Zenon DEF SnapshotInv

(* Every step keeps the snapshot's invariant. *)
LEMMA SnapshotStep == ASSUME SnapshotInv, [Next]_vars PROVE SnapshotInv'
<1>1. ASSUME NEW r \in Rows, NEW v \in Values \cup {None}, Change(r, v) PROVE SnapshotInv'
  BY <1>1, ChangeStep
<1>2. ASSUME NEW auto_create \in BOOLEAN, NEW answer \in {"text", "pg_lsn", "error"},
             EnsureSlot(auto_create, answer)
      PROVE  SnapshotInv'
  BY <1>2, SlotStep
<1>3. CASE Restart
  BY <1>3, RestartStep
<1>4. ASSUME NEW answer \in {"named", "none", "error"}, BeginExport(answer) PROVE SnapshotInv'
  BY <1>4, BeginExportStep
<1>5. CASE SnapshotTable
  BY <1>5, SnapshotTableStep
<1>6. CASE TableFails
  <2>1. events' \in Seq(SnapshotEvents) /\ phase' = "failed"
    BY <1>6 DEF TableFails
  <2>2. TypeOK'
    BY <1>6, <2>1 DEF TableFails, SnapshotInv, TypeOK, SnapshotEvents
  <2> QED  BY <1>6, <2>1, <2>2 DEF TableFails, SnapshotInv
<1>7. ASSUME NEW ok \in BOOLEAN, CommitExport(ok) PROVE SnapshotInv'
  <2>1. /\ phase = "read" /\ UNCHANGED <<wal, slot, snapshot_lsn, view, read, restarts>>
        /\ finished' \in BOOLEAN
        /\ \/ phase' = "done" /\ events' = events
           \/ phase' = "failed" /\ events' = <<>>
    BY <1>7 DEF CommitExport
  <2>2. read = Len(tables)
    BY <1>7, SnapshotTypes DEF CommitExport, MoreTables
  <2>3. events' \in Seq(SnapshotEvents)
    <3>1. events \in Seq(SnapshotEvents) /\ <<>> \in Seq(SnapshotEvents)
      BY SnapshotTypes
    <3> QED  BY <2>1, <3>1
  <2>4. TypeOK'
    BY <2>1, <2>3 DEF SnapshotInv, TypeOK, SnapshotEvents
  <2> QED  BY <2>1, <2>2, <2>4 DEF SnapshotInv, Untouched
<1>8. CASE UNCHANGED vars
  BY <1>8 DEF vars, SnapshotInv, TypeOK, Untouched
<1>9. CASE DropSlot
  BY <1>9 DEF DropSlot, SnapshotInv, TypeOK
<1> QED  BY <1>1, <1>2, <1>3, <1>4, <1>5, <1>6, <1>7, <1>8, <1>9 DEF Next, Ended

LEMMA SnapshotStart == ASSUME Init PROVE SnapshotInv
<1>1. /\ wal \in Seq(Records) /\ Len(wal) = 0 /\ events \in Seq(SnapshotEvents)
      /\ read \in 0 .. Len(tables) /\ restarts \in 0 .. MaxRestarts /\ 0 <= MaxWal
  BY SnapshotAssumption DEF Init
<1>2. TypeOK
  BY <1>1, Zenon DEF Init, TypeOK, Records, SnapshotEvents
<1> QED  BY <1>1, <1>2 DEF Init, SnapshotInv, Untouched

(* The invariant gives what a consumer relies on. *)
LEMMA SnapshotInvImplies == ASSUME SnapshotInv PROVE SnapshotThenStreamConverges
<1> SUFFICES ASSUME phase = "done"
             PROVE  Converged(Snapshotted, SubSeq(wal, slot + 1, Len(wal)),
                              StateOf(wal, Len(wal)))
  <2>1. phase = "done" => snapshot_lsn = slot
    BY DEF SnapshotInv
  <2> QED  BY <2>1, Zenon DEF SnapshotThenStreamConverges, Converged, StateAt, StateOf
<1>1. slot # None /\ read = Len(tables)
      /\ IF view = None THEN Untouched ELSE slot <= view /\ Matches(wal, view, events, read)
  BY DEF SnapshotInv
<1>2. PICK v \in 0 .. Len(wal) : slot <= v /\ Matches(wal, v, events, Len(tables))
  <2>1. CASE view = None
    <3>1. Len(tables) = 0 /\ events = <<>>
      BY <1>1, <2>1 DEF Untouched
    <3>2. Len(wal) \in 0 .. Len(wal) /\ slot <= Len(wal)
      BY <1>1, SnapshotTypes
    <3> QED  BY <3>1, <3>2, MatchesNone
  <2> QED  BY <1>1, <2>1, SnapshotTypes
<1>3. \A r \in Rows : Snapshotted[r] = AsRead(StateOf(wal, v)[r])
  BY <1>2, SnapshotTypes, MatchesAll DEF Snapshotted
<1>4. slot \in Nat /\ v \in slot .. Len(wal)
  BY <1>1, <1>2, SnapshotTypes
<1>5. wal \in Seq(Records)
  BY SnapshotTypes
<1> QED  BY <1>3, <1>4, <1>5, Converges, Zenon

-----------------------------------------------------------------------------
(* The registry *)

(* Every entry carries the fingerprint of its own columns. *)
Stamped(map) ==
    \A t \in DOMAIN map : map[t].fingerprint = SchemaFingerprint(t, map[t].columns)

(* The tables the load is done with: all of them once it has returned Ok. *)
Loaded(i) == i \in 1 .. Len(publication) /\ (loadedAll \/ (loading # "no" /\ i <= count))

(* The part of a load that is done is recent, and so are the columns that  *)
(* wait for the primary key.                                               *)
Progress ==
    /\ \A t \in Published : began[t] <= version[t]
    /\ \A i \in 1 .. Len(publication) : Loaded(i) => Recent(publication[i])
    /\ loading # "no" => ~loadedAll
    /\ loading = "pk" => \E v \in began[Current] .. version[Current] : rows = Definitions[v].columns

RegistryInv == RegistryTypeOK /\ Stamped(registry) /\ Progress

(* The next table is one of the publication. *)
LEMMA CurrentPublished ==
    ASSUME RegistryTypeOK, More
    PROVE  Current \in Published /\ count + 1 \in 1 .. Len(publication)
BY RegistryAssumption DEF RegistryTypeOK, More, Current, Published

(* Every step of the loader, of PostgreSQL and of the consumers keeps the  *)
(* invariant.                                                              *)
LEMMA RegistryStep == RegistryInv /\ [RegistryNext]_registryVars => RegistryInv'
<1> SUFFICES ASSUME RegistryInv, [RegistryNext]_registryVars PROVE RegistryInv'
  OBVIOUS
<1>t. RegistryTypeOK
  BY DEF RegistryInv
<1>a. Stamped(registry)
  BY DEF RegistryInv
<1>g. Progress
  BY DEF RegistryInv
<1>p. \A i \in 1 .. Len(publication) : publication[i] \in Published
  BY RegistryAssumption DEF Published
<1>1. ASSUME NEW t \in Published, AlterTable(t) PROVE RegistryInv'
  <2>1. RegistryTypeOK'
    BY <1>t, <1>1, RegistryAssumption DEF RegistryTypeOK, AlterTable
  <2>2. \A u \in Published : version[u] <= version'[u] /\ version'[u] \in Int /\ version[u] \in Int /\ began[u] \in Int
    BY <1>t, <1>1, RegistryAssumption DEF RegistryTypeOK, AlterTable
  <2>3. \A u \in Published : Recent(u) => Recent(u)'
    BY <1>1, <2>2 DEF Recent, AlterTable
  <2>4. \A u \in Published : began'[u] <= version'[u]
    BY <1>g, <1>1, <2>2 DEF Progress, AlterTable
  <2>5. \A i \in 1 .. Len(publication) : Loaded(i)' => Recent(publication[i])'
    BY <1>g, <1>1, <1>p, <2>3 DEF Progress, Loaded, AlterTable
  <2>6. loading' = "pk" => \E v \in began'[Current'] .. version'[Current'] : rows' = Definitions[v].columns
    <3> SUFFICES ASSUME loading = "pk"
                 PROVE  \E v \in began[Current] .. version'[Current] : rows = Definitions[v].columns
      BY <1>1, Zenon DEF AlterTable, Current
    <3>1. Current \in Published
      BY <1>t, CurrentPublished, Zenon DEF RegistryTypeOK, More
    <3> QED  BY <1>g, <2>2, <3>1 DEF Progress
  <2>7. Progress'
    BY <1>g, <1>1, <2>4, <2>5, <2>6, SMTT(30) DEF Progress, AlterTable
  <2> QED  BY <1>a, <1>1, <2>1, <2>7, Zenon DEF RegistryInv, AlterTable, Stamped
<1>2. ASSUME NEW t \in Published, Get(t) PROVE RegistryInv'
  <2>1. DOMAIN held' = DOMAIN held \cup {t}
    BY <1>2 DEF Get, Insert
  <2>2. RegistryTypeOK'
    BY <1>t, <1>2, <2>1, SMTT(30) DEF RegistryTypeOK, Get
  <2>3. Progress'
    BY <1>g, <1>2, Zenon DEF Progress, Loaded, Recent, Current, Get
  <2> QED  BY <1>a, <1>2, <2>2, <2>3, Zenon DEF RegistryInv, Get, Stamped
<1>3. CASE BeginLoad
  <2>1. RegistryTypeOK'
    <3>1. loads' \in 0 .. MaxLoads /\ count' \in 0 .. Len(publication)
      BY <1>t, <1>3, RegistryAssumption DEF RegistryTypeOK, BeginLoad
    <3> QED  BY <1>t, <1>3, <3>1, Zenon DEF RegistryTypeOK, BeginLoad
  <2>2. \A i \in 1 .. Len(publication) : ~Loaded(i)'
    BY <1>3 DEF Loaded, BeginLoad
  <2>3. Progress'
    BY <1>t, <1>g, <1>3, <2>2, SMTT(30) DEF Progress, RegistryTypeOK, BeginLoad
  <2> QED  BY <1>a, <1>3, <2>1, <2>3, Zenon DEF RegistryInv, BeginLoad, Stamped
<1>4. CASE QueryColumns
  <2>1. RegistryTypeOK'
    BY <1>t, <1>4, Zenon DEF RegistryTypeOK, QueryColumns, More
  <2>2. Current' = Current /\ Current \in Published
    BY <1>t, <1>4, CurrentPublished DEF QueryColumns, Current
  <2>3. \A i \in 1 .. Len(publication) : Loaded(i)' => Loaded(i) /\ Recent(publication[i])' = Recent(publication[i])
    BY <1>4 DEF Loaded, Recent, QueryColumns
  <2>4. version[Current] \in began[Current] .. version[Current]
    BY <1>t, <1>g, <2>2, SMTT(30) DEF Progress, RegistryTypeOK
  <2>5. Progress'
    BY <1>g, <1>4, <2>2, <2>3, <2>4, ZenonT(60) DEF Progress, QueryColumns
  <2> QED  BY <1>a, <1>4, <2>1, <2>5, Zenon DEF RegistryInv, QueryColumns, Stamped
<1>5. CASE ColumnsFail
  <2>1. RegistryTypeOK'
    BY <1>t, <1>5, Zenon DEF RegistryTypeOK, ColumnsFail
  <2>2. Progress'
    BY <1>g, <1>5, Zenon DEF Progress, Loaded, Recent, ColumnsFail
  <2> QED  BY <1>a, <1>5, <2>1, <2>2, Zenon DEF RegistryInv, ColumnsFail, Stamped
<1>6. ASSUME NEW fails \in BOOLEAN, QueryPk(fails) PROVE RegistryInv'
  <2>1. PICK entry : /\ registry' = Insert(registry, Current, entry)
                     /\ entry.columns = rows
                     /\ entry.fingerprint = SchemaFingerprint(Current, rows)
    <3>1. PICK pk : registry' = Insert(registry, Current, TableSchema(Current, rows, pk))
      BY <1>6, Zenon DEF QueryPk
    <3>2. /\ TableSchema(Current, rows, pk).columns = rows
          /\ TableSchema(Current, rows, pk).fingerprint = SchemaFingerprint(Current, rows)
      BY Zenon DEF TableSchema
    <3> QED  BY <3>1, <3>2, Zenon
  <2>2. Current \in Published /\ count + 1 \in 1 .. Len(publication)
    BY <1>t, <1>6, CurrentPublished, Zenon DEF QueryPk, RegistryTypeOK, More
  <2>3. PICK c : c = Current
    OBVIOUS
  <2>4. /\ DOMAIN registry' = DOMAIN registry \cup {c}
        /\ registry'[c] = entry
        /\ \A u \in DOMAIN registry : u # c => registry'[u] = registry[u]
    BY <2>1, <2>3, SMTT(30) DEF Insert
  <2>5. RegistryTypeOK'
    <3>1. count' \in 0 .. Len(publication)
      BY <1>6, <2>2 DEF QueryPk
    <3>2. /\ version' = version /\ began' = began /\ held' = held /\ loads' = loads
          /\ loadedAll' = loadedAll /\ loading' = "columns" /\ "columns" # "pk"
      BY <1>6 DEF QueryPk
    <3>3. DOMAIN registry' \subseteq Published /\ DOMAIN held \subseteq DOMAIN registry'
      BY <1>t, <2>2, <2>3, <2>4, Zenon DEF RegistryTypeOK
    <3> QED  BY <1>t, <3>1, <3>2, <3>3, Zenon DEF RegistryTypeOK
  <2>6. Stamped(registry')
    <3> SUFFICES ASSUME NEW u \in DOMAIN registry'
                 PROVE  registry'[u].fingerprint = SchemaFingerprint(u, registry'[u].columns)
      BY Zenon DEF Stamped
    <3>1. CASE u = c
      BY <2>1, <2>3, <2>4, <3>1
    <3>2. CASE u # c
      BY <1>a, <2>4, <3>2, SMTT(30) DEF Stamped
    <3> QED  BY <3>1, <3>2
  <2>7. Recent(c)'
    <3>1. PICK v \in began[c] .. version[c] : rows = Definitions[v].columns
      BY <1>g, <1>6, <2>3, Zenon DEF Progress, QueryPk
    <3>2. registry'[c].columns = Definitions[v].columns
      BY <2>1, <2>4, <3>1, SMTT(30)
    <3> QED  BY <1>6, <2>4, <3>1, <3>2, ZenonT(60) DEF Recent, QueryPk
  <2>8. \A u \in Published : u # c /\ Recent(u) => Recent(u)'
    BY <1>6, <2>4, Zenon DEF Recent, QueryPk
  <2>9. ASSUME NEW i \in 1 .. Len(publication), Loaded(i)' PROVE Recent(publication[i])'
    <3>1. CASE publication[i] = c
      BY <2>7, <3>1, SMTT(30)
    <3>2. CASE publication[i] # c
      <4>1. i # count + 1
        BY <2>3, <3>2, SMTT(30) DEF Current
      <4>2. Loaded(i)
        BY <1>t, <1>6, <2>9, <4>1, SMTT(30) DEF Loaded, QueryPk, RegistryTypeOK
      <4> QED  BY <1>g, <1>p, <2>8, <3>2, <4>2 DEF Progress
    <3> QED  BY <3>1, <3>2
  <2>10. Progress'
    BY <1>g, <1>6, <2>9, Zenon DEF Progress, QueryPk
  <2> QED  BY <1>a, <1>6, <2>5, <2>6, <2>10, ZenonT(60) DEF RegistryInv, QueryPk, Stamped
<1>7. CASE EndLoad
  <2>1. RegistryTypeOK'
    BY <1>t, <1>7 DEF RegistryTypeOK, EndLoad
  <2>2. \A i \in 1 .. Len(publication) : Loaded(i) /\ Recent(publication[i])' = Recent(publication[i])
    BY <1>t, <1>7, RegistryAssumption, SMTT(30) DEF Loaded, Recent, EndLoad, RegistryTypeOK, More
  <2>3. Progress'
    BY <1>g, <1>7, <2>2, Zenon DEF Progress, EndLoad
  <2> QED  BY <1>a, <1>7, <2>1, <2>3, Zenon DEF RegistryInv, EndLoad, Stamped
<1>8. CASE UNCHANGED registryVars
  <2>1. RegistryTypeOK' /\ Stamped(registry)'
    BY <1>t, <1>a, <1>8, Zenon DEF registryVars, RegistryTypeOK, Stamped
  <2>2. Progress'
    BY <1>g, <1>8, Zenon DEF registryVars, Progress, Loaded, Recent, Current
  <2> QED  BY <2>1, <2>2, SMTT(30) DEF RegistryInv
<1> QED
  BY <1>1, <1>2, <1>3, <1>4, <1>5, <1>6, <1>7, <1>8 DEF RegistryNext, NoMoreLoads

(* The invariant holds from the start: nothing is registered. *)
LEMMA RegistryStart == RegistryInit => RegistryInv
<1> SUFFICES ASSUME RegistryInit PROVE RegistryInv
  OBVIOUS
<1>1. RegistryTypeOK
  <2>1. 1 \in 1 .. Len(Definitions) /\ 0 \in 0 .. Len(publication) /\ 0 \in 0 .. MaxLoads
    BY RegistryAssumption
  <2>2. DOMAIN registry = {} /\ DOMAIN held = {}
    BY DEF RegistryInit
  <2> QED  BY <2>1, <2>2, Zenon DEF RegistryInit, RegistryTypeOK
<1>2. Stamped(registry)
  BY DEF RegistryInit, Stamped
<1>3. Progress
  <2>1. \A t \in Published : began[t] = 1 /\ version[t] = 1
    BY DEF RegistryInit
  <2>2. loading = "no" /\ loadedAll = FALSE
    BY DEF RegistryInit
  <2> QED  BY <2>1, <2>2 DEF Progress, Loaded
<1> QED  BY <1>1, <1>2, <1>3 DEF RegistryInv

(* load_publication_schemas walks the publication within its bounds, and   *)
(* the registry holds tables of the publication only.                      *)
THEOREM RegistryTypeCorrect == RegistrySpec => []RegistryTypeOK
<1>1. RegistryInv => RegistryTypeOK
  BY DEF RegistryInv
<1> QED  BY <1>1, RegistryStart, RegistryStep, PTL DEF RegistrySpec

(* A load that returned Ok has left every table of the publication with    *)
(* columns it had since the load began, whatever was altered meanwhile.    *)
THEOREM LoadedIsRecentHolds == RegistrySpec => []LoadedIsRecent
<1>1. RegistryInv => LoadedIsRecent
  <2> SUFFICES ASSUME RegistryInv, loadedAll, NEW t \in Published PROVE Recent(t)
    BY DEF LoadedIsRecent
  <2>1. PICK i \in 1 .. Len(publication) : t = publication[i]
    BY RegistryAssumption DEF Published
  <2> QED  BY <2>1 DEF RegistryInv, Progress, Loaded
<1> QED  BY <1>1, RegistryStart, RegistryStep, PTL DEF RegistrySpec

(* What validate_fingerprint accepts after a load that returned Ok is the  *)
(* fingerprint of columns the table had since the load began, whatever the *)
(* hash is.                                                                *)
THEOREM ValidatedIsRecentHolds == RegistrySpec => []ValidatedIsRecent
<1>1. RegistryInv => ValidatedIsRecent
  <2> SUFFICES ASSUME RegistryInv, loadedAll, NEW t \in DOMAIN held,
                      ValidateFingerprint(t, held[t].fingerprint)
               PROVE  \E v \in began[t] .. version[t] :
                          held[t].fingerprint = SchemaFingerprint(t, Definitions[v].columns)
    BY DEF ValidatedIsRecent
  <2>1. t \in DOMAIN registry /\ t \in Published /\ registry[t].fingerprint = held[t].fingerprint
    BY DEF ValidateFingerprint, RegistryInv, RegistryTypeOK
  <2>2. PICK i \in 1 .. Len(publication) : t = publication[i]
    BY <2>1, RegistryAssumption DEF Published
  <2>3. Recent(t)
    BY <2>2 DEF RegistryInv, Progress, Loaded
  <2>4. registry[t].fingerprint = SchemaFingerprint(t, registry[t].columns)
    BY <2>1 DEF RegistryInv, Stamped
  <2> QED  BY <2>1, <2>3, <2>4, Zenon DEF Recent
<1> QED  BY <1>1, RegistryStart, RegistryStep, PTL DEF RegistrySpec

-----------------------------------------------------------------------------
(* The daemon *)

(* Where run_daemon is says what Lifecycle and the health endpoint say; a  *)
(* process that was killed leaves both as they were.                       *)
DaemonInv ==
    /\ DaemonTypeOK
    /\ at \in {"init", "run"} => state = "Initializing"
    /\ at \in {"set_ready", "install", "wait"} => state = "Running"
    /\ at \in {"set_not_ready", "stop"} => state = "ShuttingDown"
    /\ at \in {"init", "run", "set_ready", "stop", "ended"} => ~ready
    /\ at = "killed" => (ready => state \in {"Running", "ShuttingDown"})

(* Every step of run_daemon, and a signal at any step, keeps that. *)
LEMMA DaemonKeeps == ASSUME DaemonInv, [DaemonNext]_daemonVars PROVE DaemonInv'
<1>1. CASE Initialize
  BY <1>1 DEF DaemonInv, DaemonTypeOK, Initialize, Transition
<1>2. CASE InitFails
  BY <1>2 DEF DaemonInv, DaemonTypeOK, InitFails
<1>3. CASE Run
  BY <1>3 DEF DaemonInv, DaemonTypeOK, Run, Transition
<1>4. CASE SetReady
  BY <1>4 DEF DaemonInv, DaemonTypeOK, SetReady
<1>5. CASE InstallHandlers
  BY <1>5 DEF DaemonInv, DaemonTypeOK, InstallHandlers
<1>6. CASE ReceiveSignal
  BY <1>6 DEF DaemonInv, DaemonTypeOK, ReceiveSignal, Transition
<1>7. CASE SetNotReady
  BY <1>7, Zenon DEF DaemonInv, DaemonTypeOK, SetNotReady
<1>8. CASE Stop
  BY <1>8 DEF DaemonInv, DaemonTypeOK, Stop, Transition
<1>9. CASE Signal
  BY <1>9 DEF DaemonInv, DaemonTypeOK, Signal
<1>10. CASE UNCHANGED daemonVars
  BY <1>10 DEF DaemonInv, DaemonTypeOK, daemonVars
<1> QED
  BY <1>1, <1>2, <1>3, <1>4, <1>5, <1>6, <1>7, <1>8, <1>9, <1>10, SMTT(30) DEF DaemonNext, DaemonStep, Gone

LEMMA DaemonStart == ASSUME DaemonInit PROVE DaemonInv
BY Zenon DEF DaemonInit, DaemonInv, DaemonTypeOK

-----------------------------------------------------------------------------
(* The start as a whole *)

StartupInv == SnapshotInv /\ RegistryInv /\ DaemonInv

(* A step of one part leaves the others where they are. *)
LEMMA StartupInvariant == StartupSpec => []StartupInv
<1>1. StartupInit => StartupInv
  BY SnapshotStart, RegistryStart, DaemonStart DEF StartupInit, StartupInv
<1>2. StartupInv /\ [StartupNext]_startupVars => StartupInv'
  <2> SUFFICES ASSUME StartupInv, [StartupNext]_startupVars PROVE StartupInv'
    OBVIOUS
  <2>1. [Next]_vars /\ [RegistryNext]_registryVars /\ [DaemonNext]_daemonVars
    BY DEF StartupNext, startupVars
  <2> QED  BY <2>1, SnapshotStep, RegistryStep, DaemonKeeps DEF StartupInv
<1> QED  BY <1>1, <1>2, PTL DEF StartupSpec

(* The WAL, the slot, the view and the tables read, the registry and       *)
(* run_daemon's steps keep within their types, in every interleaving.      *)
THEOREM StartupTypeCorrect == StartupSpec => []StartupTypeOK
<1>1. StartupInv => StartupTypeOK
  BY DEF StartupInv, SnapshotInv, RegistryInv, DaemonInv, StartupTypeOK
<1> QED  BY <1>1, StartupInvariant, PTL

(* The events snapshot_all returned and then the stream's after their LSN  *)
(* give the rows of the database, for any tables, any order in which a     *)
(* query returns their rows, any changes meanwhile, and any starts before. *)
THEOREM SnapshotThenStreamConvergesHolds == StartupSpec => []SnapshotThenStreamConverges
<1>1. StartupInv => SnapshotThenStreamConverges
  BY SnapshotInvImplies DEF StartupInv
<1> QED  BY <1>1, StartupInvariant, PTL

(* A probe that is told ready finds Lifecycle Running or ShuttingDown,     *)
(* wherever it falls between run_daemon's steps.                           *)
THEOREM ReadyWhileRunningHolds == StartupSpec => []ReadyWhileRunning
<1>1. StartupInv => ReadyWhileRunning
  BY Zenon DEF StartupInv, DaemonInv, DaemonTypeOK, ReadyWhileRunning
<1> QED  BY <1>1, StartupInvariant, PTL
=============================================================================
