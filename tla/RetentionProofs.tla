-------------------------- MODULE RetentionProofs --------------------------
(***************************************************************************)
(* Garbage collection behind the consumers' backs: for any number of       *)
(* consumers, events and page sizes, in whatever order the events arrive,  *)
(* a consumer that was in the watermark tracker when a watermark began to  *)
(* be computed is sent every event before it can be collected, but for     *)
(* those stored behind its position, and finds all it needs whenever it    *)
(* comes back.                                                             *)
(***************************************************************************)
EXTENDS Retention, FiniteSetTheorems, TLAPS

-----------------------------------------------------------------------------
(* Reading a page *)

(* The number of keys before a key, among those of K. *)
Rank(K) == [k \in K |-> Cardinality({j \in K : j[1] < k[1]})]

(* Ranks grow with the keys, so different keys have different ranks. *)
LEMMA RankGrows ==
    ASSUME NEW K \in SUBSET {<<l, 0>> : l \in Nat}, IsFiniteSet(K)
    PROVE  /\ Rank(K) \in [K -> Nat]
           /\ \A j, k \in K : j[1] < k[1] => Rank(K)[j] < Rank(K)[k]
           /\ \A j, k \in K : Rank(K)[j] = Rank(K)[k] => j = k
<1> DEFINE below(k) == {j \in K : j[1] < k[1]}
<1>1. \A k \in K : k[1] \in Nat /\ k = <<k[1], 0>>
  OBVIOUS
<1>2. ASSUME NEW k \in K
      PROVE  IsFiniteSet(below(k)) /\ Cardinality(below(k)) \in Nat
  <2>1. below(k) \in SUBSET K
    OBVIOUS
  <2>2. IsFiniteSet(below(k))
    BY <2>1, FS_Subset
  <2> QED  BY <2>2, FS_CardinalityType
<1>3. Rank(K) \in [K -> Nat] /\ \A k \in K : Rank(K)[k] = Cardinality(below(k))
  BY <1>2 DEF Rank
<1>4. ASSUME NEW j \in K, NEW k \in K, j[1] < k[1]
      PROVE  Cardinality(below(j)) < Cardinality(below(k))
  <2>1. j \notin below(j) /\ below(j) \cup {j} \in SUBSET below(k)
    BY <1>1, <1>4
  <2>2. IsFiniteSet(below(j) \cup {j})
        /\ Cardinality(below(j) \cup {j}) = Cardinality(below(j)) + 1
    BY <1>2, <2>1, FS_AddElement, Zenon
  <2>3. Cardinality(below(j) \cup {j}) <= Cardinality(below(k))
    BY <1>2, <2>1, FS_Subset
  <2> QED  BY <1>2, <2>2, <2>3
<1>5. \A j, k \in K : j[1] < k[1] => Rank(K)[j] < Rank(K)[k]
  BY <1>3, <1>4, Zenon
<1>6. ASSUME NEW j \in K, NEW k \in K, Rank(K)[j] = Rank(K)[k]
      PROVE  j = k
  <2>1. Rank(K)[j] \in Nat /\ Rank(K)[k] \in Nat
    BY <1>3
  <2>2. ~(j[1] < k[1]) /\ ~(k[1] < j[1])
    BY <1>5, <1>6, <2>1
  <2>3. j[1] = k[1]
    BY <1>1, <2>2
  <2> QED  BY <1>1, <2>3
<1> QED  BY <1>3, <1>5, <1>6

(* The keys of rank below n have the ranks 0, 1, 2, ..., each one once. *)
LEMMA RanksAreDense ==
    ASSUME NEW K \in SUBSET {<<l, 0>> : l \in Nat}, IsFiniteSet(K), NEW n \in Nat,
           NEW page, page = {k \in K : Rank(K)[k] < n}
    PROVE  /\ Cardinality(page) \in Nat
           /\ \A k \in page : Rank(K)[k] \in 0 .. Cardinality(page) - 1
           /\ \A i \in 0 .. Cardinality(page) - 1 : \E k \in page : Rank(K)[k] = i
<1> DEFINE size == Cardinality(page)
           rank == [k \in page |-> Rank(K)[k]]
<1>1. page \in SUBSET K /\ \A k \in page : k \in K /\ k[1] \in Nat
  OBVIOUS
<1>2. IsFiniteSet(page) /\ size \in Nat
  BY <1>1, FS_Subset, FS_CardinalityType
<1>3. ASSUME NEW k \in page PROVE Rank(K)[k] \in 0 .. size - 1
  <2> DEFINE below == {j \in K : j[1] < k[1]}
  <2>1. below \in SUBSET K /\ k \notin below
    BY <1>1
  <2>2. IsFiniteSet(below) /\ Cardinality(below) \in Nat
    BY <2>1, FS_Subset, FS_CardinalityType
  <2>3. Rank(K)[k] = Cardinality(below)
    BY <1>1 DEF Rank
  <2>4. ASSUME NEW j \in below PROVE j \in page
    <3>1. Rank(K)[j] < Rank(K)[k] /\ Rank(K)[k] < n
      BY <1>1, RankGrows
    <3>2. Rank(K)[j] \in Nat /\ Rank(K)[k] \in Nat
      BY <1>1, RankGrows
    <3>3. Rank(K)[j] < n
      BY <3>1, <3>2
    <3> QED  BY <3>3
  <2>5. below \cup {k} \in SUBSET page
    BY <2>4
  <2>6. Cardinality(below \cup {k}) = Cardinality(below) + 1
    BY <2>1, <2>2, FS_AddElement, Zenon
  <2>7. Cardinality(below \cup {k}) <= size
    BY <1>2, <2>5, FS_Subset
  <2> QED  BY <1>2, <2>2, <2>3, <2>6, <2>7
<1>4. rank \in Injection(page, 0 .. size - 1)
  <2>1. rank \in [page -> 0 .. size - 1]
    BY <1>3
  <2>2. \A j, k \in page : Rank(K)[j] = Rank(K)[k] => j = k
    BY <1>1, RankGrows
  <2>3. IsInjective(rank)
    BY <2>2 DEF IsInjective
  <2> QED  BY <2>1, <2>3 DEF Injection
<1>5. IsFiniteSet(0 .. size - 1) /\ Cardinality(0 .. size - 1) = size
  <2> HIDE DEF size
  <2>1. 0 \in Int /\ size - 1 \in Int
    BY <1>2
  <2>2. /\ IsFiniteSet(0 .. size - 1)
        /\ Cardinality(0 .. size - 1) = IF 0 > size - 1 THEN 0 ELSE (size - 1) - 0 + 1
    BY <2>1, FS_Interval
  <2> QED  BY <1>2, <2>2
<1>6. rank \in Surjection(page, 0 .. size - 1)
  BY <1>4, <1>5, FS_Injection
<1>7. \A i \in 0 .. size - 1 : \E k \in page : Rank(K)[k] = i
  BY <1>6, Zenon DEF Surjection
<1> QED  BY <1>2, <1>3, <1>7

(* The store counts with the same Cardinality. *)
LEMMA StoreCardinality == \A T : S!Cardinality(T) = Cardinality(T)
BY DEF S!Cardinality, Cardinality, S!IsFiniteSet, IsFiniteSet

(* What the column family holds: at the key of an LSN the event with that  *)
(* LSN.                                                                    *)
StoreOK == \A k \in DOMAIN store : store[k] = k[1]

Keys == {<<l, 0>> : l \in Written}

(* The events and their keys. *)
LEMMA EventFacts ==
    ASSUME arrived \in 0 .. Len(Arrivals)
    PROVE  /\ Written \subseteq Events /\ Events \subseteq 1 .. LsnMax - 1
           /\ \A e \in Events : S!MakeKey(e) = <<e, 0>>
           /\ {S!MakeKey(e) : e \in Written} = Keys
           /\ IsFiniteSet(Keys) /\ Keys \subseteq {<<l, 0>> : l \in Nat}
<1>1. Len(Arrivals) \in Nat /\ DOMAIN Arrivals = 1 .. Len(Arrivals)
      /\ \A i \in 1 .. Len(Arrivals) : Arrivals[i] \in 1 .. LsnMax - 1
  BY RetentionAssumption
<1>2. Written \subseteq Events /\ Events \subseteq 1 .. LsnMax - 1
  BY <1>1 DEF Written, Events
<1>3. \A e \in Events : S!MakeKey(e) = <<e, 0>>
  BY DEF S!MakeKey
<1>4. {S!MakeKey(e) : e \in Written} = Keys
  BY <1>2, <1>3 DEF Keys
<1>5. Written \in SUBSET Nat /\ LsnMax \in Nat /\ \A l \in Written : l <= LsnMax
  BY <1>2, RetentionAssumption
<1>6. IsFiniteSet(Written)
  BY <1>5, FS_BoundedSetOfNaturals
<1>7. IsFiniteSet(Keys)
  <2> DEFINE f == [l \in Written |-> <<l, 0>>]
  <2>1. f \in Surjection(Written, Keys)
    BY Zenon DEF Surjection, Keys
  <2> QED  BY <1>6, <2>1, FS_Surjection
<1>8. Keys \subseteq {<<l, 0>> : l \in Nat}
  BY <1>5 DEF Keys
<1> QED  BY <1>2, <1>3, <1>4, <1>7, <1>8

(* A page holds events of the store from the LSN asked for, and all there  *)
(* are between that and the page's last, the largest.                      *)
LEMMA PageFacts ==
    ASSUME arrived \in 0 .. Len(Arrivals), DOMAIN store \subseteq Keys, StoreOK,
           NEW lsn \in Nat, NEW page, page = S!ReadFrom(store, lsn, PageSize),
           page # <<>>
    PROVE  /\ page \in Seq(Written) /\ Len(page) \in DOMAIN page
           /\ \A i \in DOMAIN page : page[i] \in Written /\ page[i] >= lsn
           /\ \A l \in Written : (<<l, 0>> \in DOMAIN store /\ l >= lsn /\ l <= page[Len(page)])
                                   => \E i \in DOMAIN page : page[i] = l
<1> DEFINE K == {k \in DOMAIN store : k[1] >= lsn}
           before(k) == S!Cardinality({j \in K : S!KeyLess(j, k)})
           P == {k \in K : before(k) = 0 \/ before(k) < PageSize}
           size == Cardinality(P)
           at(i) == CHOOSE k \in P : before(k) = i - 1
<1>1. page = [i \in 1 .. S!Cardinality(P) |-> store[at(i)]]
  BY DEF S!ReadFrom
<1>2. K \in SUBSET {<<l, 0>> : l \in Nat} /\ IsFiniteSet(K)
      /\ \A k \in K : k \in DOMAIN store /\ k[1] >= lsn /\ k[1] \in Written /\ k = <<k[1], 0>>
  <2>1. K \in SUBSET Keys
    OBVIOUS
  <2>2. IsFiniteSet(K)
    BY <2>1, EventFacts, FS_Subset
  <2> QED  BY <2>1, <2>2, EventFacts DEF Keys
<1>3. ASSUME NEW k \in K PROVE before(k) = Rank(K)[k]
  <2>1. \A j \in K : S!KeyLess(j, k) <=> j[1] < k[1]
    BY <1>2 DEF S!KeyLess
  <2>2. {j \in K : S!KeyLess(j, k)} = {j \in K : j[1] < k[1]}
    BY <2>1
  <2>3. before(k) = S!Cardinality({j \in K : j[1] < k[1]})
    BY <2>2, Zenon
  <2>4. Rank(K)[k] = Cardinality({j \in K : j[1] < k[1]})
    BY DEF Rank
  <2> HIDE DEF K, before
  <2> QED  BY <2>3, <2>4, StoreCardinality
<1>4. Rank(K) \in [K -> Nat] /\ PageSize \in Nat \ {0}
  BY <1>2, RankGrows, RetentionAssumption, Zenon
<1>5. P = {k \in K : Rank(K)[k] < PageSize}
  <2> HIDE DEF before, K
  <2>1. \A k \in K : (before(k) = 0 \/ before(k) < PageSize) <=> Rank(K)[k] < PageSize
    BY <1>3, <1>4
  <2> QED  BY <2>1
<1>6. /\ size \in Nat
      /\ \A k \in P : Rank(K)[k] \in 0 .. size - 1
      /\ \A i \in 0 .. size - 1 : \E k \in P : Rank(K)[k] = i
  <2> HIDE DEF K, P
  <2> QED  BY <1>2, <1>4, <1>5, RanksAreDense
<1>7. ASSUME NEW i \in 1 .. size
      PROVE  at(i) \in P /\ Rank(K)[at(i)] = i - 1
  <2>1. i - 1 \in 0 .. size - 1
    BY <1>6
  <2>2. \E k \in P : before(k) = i - 1
    BY <1>3, <1>6, <2>1, Zenon
  <2>3. at(i) \in P /\ before(at(i)) = i - 1
    BY <2>2, Zenon
  <2> QED  BY <1>3, <2>3, Zenon
<1>8. \A k \in P : k \in K
  OBVIOUS
<1>9. S!Cardinality(P) = size
  BY StoreCardinality
<1> HIDE DEF K, before, P, size, at
<1>10. page = [i \in 1 .. size |-> store[at(i)]]
  BY <1>1, <1>9
<1>11. ASSUME NEW i \in 1 .. size
       PROVE  page[i] = at(i)[1] /\ page[i] \in Written /\ page[i] >= lsn
  <2>1. at(i) \in K
    BY <1>7, <1>8
  <2> QED  BY <1>2, <1>10, <2>1 DEF StoreOK
<1>12. page \in Seq(Written) /\ Len(page) = size /\ DOMAIN page = 1 .. size
  BY <1>6, <1>10, <1>11
<1>13. size \in 1 .. size
  BY <1>6, <1>12
<1>14. ASSUME NEW l \in Written, <<l, 0>> \in DOMAIN store, l >= lsn, l <= page[size]
       PROVE  \E i \in 1 .. size : page[i] = l
  <2> DEFINE k == <<l, 0>>
             last == at(size)
  <2>1. k \in K
    BY <1>14 DEF K
  <2>2. last \in P /\ last \in K /\ last[1] = page[size] /\ Rank(K)[last] \in 0 .. size - 1
    BY <1>6, <1>7, <1>8, <1>11, <1>13
  <2>3. l \in Nat /\ last[1] \in Nat /\ last = <<last[1], 0>>
    BY <1>2, <2>1, <2>2
  <2>4. k \in P
    <3>1. CASE l = last[1]
      BY <2>2, <2>3, <3>1
    <3>2. CASE l < last[1]
      <4>1. Rank(K)[k] < Rank(K)[last] /\ Rank(K)[k] \in Nat
        BY <1>2, <2>1, <2>2, <3>2, RankGrows
      <4>2. Rank(K)[last] < PageSize
        BY <1>5, <2>2
      <4> QED  BY <1>4, <1>5, <2>1, <2>2, <4>1, <4>2
    <3> QED  BY <1>14, <2>2, <2>3, <3>1, <3>2
  <2>5. Rank(K)[k] \in 0 .. size - 1
    BY <1>6, <2>4
  <2>6. Rank(K)[k] + 1 \in 1 .. size
    BY <1>6, <2>5
  <2>7. Rank(K)[at(Rank(K)[k] + 1)] = Rank(K)[k] /\ at(Rank(K)[k] + 1) \in K
    BY <1>7, <1>8, <2>5, <2>6
  <2>8. at(Rank(K)[k] + 1) = k
    BY <1>2, <2>1, <2>7, RankGrows
  <2> QED  BY <1>11, <2>6, <2>8
<1> QED  BY <1>11, <1>12, <1>13, <1>14

(* One event is put. *)
LEMMA PutFacts ==
    ASSUME NEW e \in Events, NEW st, st = S!Put(store, <<e>>)
    PROVE  /\ DOMAIN st = DOMAIN store \cup {<<e, 0>>} /\ st[<<e, 0>>] = e
           /\ \A k \in DOMAIN store \ {<<e, 0>>} : st[k] = store[k]
<1> DEFINE es == <<e>>
           written == {S!MakeKey(es[i]) : i \in DOMAIN es}
           last(k) == CHOOSE i \in DOMAIN es :
                          /\ S!MakeKey(es[i]) = k
                          /\ \A j \in DOMAIN es : S!MakeKey(es[j]) = k => j <= i
<1>1. st = [k \in DOMAIN store \cup written |->
                IF k \in written THEN es[last(k)] ELSE store[k]]
  BY DEF S!Put
<1>2. DOMAIN es = {1} /\ es[1] = e /\ S!MakeKey(e) = <<e, 0>>
  BY DEF S!MakeKey
<1>3. written = {<<e, 0>>}
  BY <1>2
<1>4. last(<<e, 0>>) = 1
  BY <1>2
<1> HIDE DEF es, written, last
<1> QED  BY <1>1, <1>2, <1>3, <1>4

-----------------------------------------------------------------------------
(* Types *)

(* With every type goes that the store maps a key to its own event. *)
TypeInv == TypeOK /\ StoreOK

(* Storing an event keeps the types. *)
LEMMA ArriveTypes == ASSUME TypeInv, Arrive PROVE TypeInv'
<1>0. TypeOK /\ StoreOK
  BY DEF TypeInv
<1>1. arrived \in 0 .. Len(Arrivals) /\ Len(Arrivals) \in Nat
  BY <1>0, RetentionAssumption DEF TypeOK
<1>2. arrived' = arrived + 1 /\ arrived' \in 0 .. Len(Arrivals)
  BY <1>1 DEF Arrive
<1> DEFINE e == Arrivals[arrived + 1]
<1>3. e \in Events /\ store' = S!Put(store, <<e>>)
  BY <1>1, <1>2 DEF Arrive, Events
<1>4. Written' = Written \cup {e}
  BY <1>1, <1>2 DEF Written
<1> HIDE DEF e
<1>5. /\ DOMAIN store' = DOMAIN store \cup {<<e, 0>>} /\ store'[<<e, 0>>] = e
      /\ \A k \in DOMAIN store \ {<<e, 0>>} : store'[k] = store[k]
  BY <1>3, PutFacts
<1>6. StoreOK'
  BY <1>0, <1>5 DEF StoreOK
<1>7. S!MakeKey(e) = <<e, 0>>
  BY <1>1, <1>3, EventFacts
<1>8. DOMAIN store' \subseteq {S!MakeKey(x) : x \in Written'}
  BY <1>0, <1>4, <1>5, <1>7 DEF TypeOK
<1>9. got' \in [Consumers -> SUBSET Written'] /\ late' \in [Consumers -> SUBSET Written']
  <2>1. got' = got /\ late' = [c \in Consumers |-> IF e <= pos[c] THEN late[c] \cup {e} ELSE late[c]]
    BY DEF Arrive, consumerVars, e
  <2> QED  BY <1>0, <1>4, <2>1, Zenon DEF TypeOK
<1>10. TypeOK'
  BY <1>0, <1>2, <1>8, <1>9 DEF TypeOK, Arrive, consumerVars, gcVars
<1> QED  BY <1>6, <1>10 DEF TypeInv

(* So does what the consumers do. *)
LEMMA ConsumerTypes ==
    ASSUME TypeInv, NEW c \in Consumers,
           \/ Connect(c) \/ Send(c) \/ Update(c)
           \/ \E removed \in BOOLEAN : Disconnect(c, removed)
           \/ \E lsn \in got[c] : Commit(c, lsn)
    PROVE  TypeInv'
<1>0. TypeOK /\ StoreOK
  BY DEF TypeInv
<1>1. Written \subseteq Lsns /\ LsnMax \in Nat \ {0} /\ Lsns = 0 .. LsnMax
      /\ None \notin Nat /\ Written \subseteq Nat
  BY <1>0, EventFacts, RetentionAssumption DEF TypeOK, Lsns
<1>2. UNCHANGED <<store, arrived>> /\ Written' = Written /\ StoreOK'
  BY <1>0 DEF Connect, Send, Update, Disconnect, Commit, StoreOK, Written
<1>3. CASE Connect(c)
  <2>1. (IF ResumeLsn(c) = 0 THEN 0 ELSE ResumeLsn(c) - 1) \in Lsns
    BY <1>0, <1>1 DEF ResumeLsn, TypeOK
  <2>2. late' \in [Consumers -> SUBSET Written]
    BY <1>0, <1>3, Zenon DEF TypeOK, Connect, StartAfter
  <2>3. TypeOK'
    BY <1>0, <1>2, <1>3, <2>1, <2>2 DEF TypeOK, Connect, StartAfter, gcVars
  <2> QED  BY <1>2, <2>3 DEF TypeInv
<1>4. CASE Send(c)
  <2> DEFINE page == S!ReadFrom(store, pos[c] + 1, PageSize)
  <2>1. pos[c] + 1 \in Nat
    BY <1>0, <1>1 DEF TypeOK
  <2>2. DOMAIN store \subseteq Keys /\ arrived \in 0 .. Len(Arrivals)
    BY <1>0, EventFacts DEF TypeOK
  <2>3. Len(page) \in DOMAIN page /\ \A i \in DOMAIN page : page[i] \in Written
    BY <1>0, <1>4, <2>1, <2>2, PageFacts DEF Send
  <2>4. /\ pos' = [pos EXCEPT ![c] = page[Len(page)]]
        /\ got' = [got EXCEPT ![c] = @ \cup {page[i] : i \in DOMAIN page}]
    BY <1>4 DEF Send
  <2> HIDE DEF page
  <2>5. page[Len(page)] \in Lsns /\ {page[i] : i \in DOMAIN page} \subseteq Written
    BY <1>1, <2>3, Zenon
  <2>6. pos' \in [Consumers -> Lsns] /\ got' \in [Consumers -> SUBSET Written']
    BY <1>0, <1>2, <2>4, <2>5 DEF TypeOK
  <2>7. TypeOK'
    BY <1>0, <1>2, <1>4, <2>6 DEF TypeOK, Send, gcVars
  <2> QED  BY <1>2, <2>7 DEF TypeInv
<1>5. CASE Update(c)
  BY <1>0, <1>2, <1>5 DEF TypeOK, Update, gcVars, TypeInv
<1>6. ASSUME NEW removed \in BOOLEAN, Disconnect(c, removed) PROVE TypeInv'
  BY <1>0, <1>2, <1>6 DEF TypeOK, Disconnect, gcVars, TypeInv
<1>7. ASSUME NEW lsn \in got[c], Commit(c, lsn) PROVE TypeInv'
  <2>1. lsn \in Lsns
    BY <1>0, <1>1 DEF TypeOK
  <2> QED  BY <1>0, <1>2, <1>7, <2>1 DEF TypeOK, Commit, gcVars, TypeInv
<1> QED  BY <1>3, <1>4, <1>5, <1>6, <1>7

(* So do the scan of the tracker and the compaction. *)
LEMMA GcTypes ==
    ASSUME TypeInv,
           \/ WatermarkStart \/ MaybeGc \/ CompactEnd \/ UNCHANGED vars
           \/ \E c \in Consumers : WatermarkVisit(c)
           \/ \E k \in DOMAIN store : CompactKey(k)
    PROVE  TypeInv'
<1>0. TypeOK /\ StoreOK
  BY DEF TypeInv
<1>1. LsnMax \in Lsns /\ 0 \in Lsns /\ Lsns \subseteq Int
  BY RetentionAssumption, SMTT(30) DEF Lsns
<1>2. CASE WatermarkStart
  <2>1. since' \in [Consumers -> Lsns \cup {None}]
    BY <1>0, <1>2, Zenon DEF TypeOK, WatermarkStart
  <2> QED  BY <1>0, <1>1, <1>2, <2>1, Zenon
  DEF TypeInv, TypeOK, StoreOK, Written, WatermarkStart, Watermark!ScanStart, consumerVars
<1>3. ASSUME NEW c \in Consumers, WatermarkVisit(c) PROVE TypeInv'
  <2>1. scan' \in [on : BOOLEAN, todo : SUBSET Consumers, min : Lsns]
    BY <1>0, <1>3, Zenon DEF TypeOK, WatermarkVisit, Watermark!ScanVisit
  <2> QED  BY <1>0, <1>3, <2>1, Zenon DEF TypeInv, TypeOK, StoreOK, Written, WatermarkVisit, consumerVars
<1>4. CASE MaybeGc
  <2>1. scan' \in [on : BOOLEAN, todo : SUBSET Consumers, min : Lsns]
        /\ Watermark!ScanResult \in Lsns
    BY <1>0, <1>1, <1>4, Zenon
    DEF TypeOK, MaybeGc, Watermark!ScanEnd, Watermark!Idle, Watermark!ScanResult
  <2> QED  BY <1>0, <1>4, <2>1, Zenon DEF TypeInv, TypeOK, StoreOK, Written, MaybeGc, consumerVars
<1>5. CASE CompactEnd
  BY <1>0, <1>5 DEF TypeInv, TypeOK, StoreOK, Written, CompactEnd, consumerVars
<1>6. ASSUME NEW k \in DOMAIN store, CompactKey(k) PROVE TypeInv'
  <2>1. DOMAIN store' = DOMAIN store \ {k} /\ \A j \in DOMAIN store' : store'[j] = store[j]
    BY <1>6 DEF CompactKey
  <2>2. StoreOK' /\ Written' = Written
    BY <1>0, <1>6, <2>1 DEF StoreOK, Written, CompactKey
  <2>3. TypeOK'
    BY <1>0, <1>6, <2>1, <2>2 DEF TypeOK, CompactKey, consumerVars, gcVars
  <2> QED  BY <2>2, <2>3 DEF TypeInv
<1>7. CASE UNCHANGED vars
  BY <1>0, <1>7, Zenon DEF TypeInv, TypeOK, StoreOK, Written, vars, consumerVars, gcVars
<1> QED  BY <1>2, <1>3, <1>4, <1>5, <1>6, <1>7

(* Every step keeps the types, and the store's events at their own keys. *)
LEMMA TypeStep == TypeInv /\ [Next]_vars => TypeInv'
BY ArriveTypes, ConsumerTypes, GcTypes, Zenon DEF Next

LEMMA InitTypes == Init => TypeInv
<1> SUFFICES ASSUME Init PROVE TypeInv
  OBVIOUS
<1>1. DOMAIN store = {} /\ Len(Arrivals) \in Nat
  BY RetentionAssumption DEF Init, S!Empty
<1>2. LsnMax \in Lsns /\ 0 \in Lsns
  BY RetentionAssumption DEF Lsns
<1> QED  BY <1>1, <1>2, RetentionAssumption DEF Init, TypeInv, TypeOK, StoreOK, Watermark!Idle

(* Type correctness of the store, the consumers' sessions and offsets, and *)
(* the garbage collector, in whatever order events arrive, and whether or  *)
(* not a disconnect removes the consumer.                                  *)
THEOREM RetentionTypeCorrect == Spec => []TypeOK
<1>1. TypeInv => TypeOK
  BY DEF TypeInv
<1> QED  BY <1>1, InitTypes, TypeStep, PTL DEF Spec

-----------------------------------------------------------------------------
(* What garbage collection may rely on *)

(* What is gone was below the last watermark, and so is what the           *)
(* compaction under way removes.                                           *)
Expiring ==
    /\ filter # None => filter <= last_gc_watermark
    /\ \A l \in Written : ~S!Holds(store, l) => l < last_gc_watermark

(* The LSN from which on a consumer is to miss nothing. *)
Floor(c) == IF since[c] = None THEN last_gc_watermark ELSE since[c]

(* For a counted consumer the last watermark, as far as it has moved since *)
(* the consumer is counted, and the part of the scan that has passed it,   *)
(* the tracker's entry, the registry's offset and the stream's position    *)
(* stand in this order at all times, although each is copied from the next *)
(* at a time of its own.                                                   *)
Ordered(c) ==
    /\ offsets[c] = None => tracker[c] = None /\ told[c] = None
    /\ offsets[c] # None => offsets[c] <= pos[c] /\ offsets[c] \in got[c]
    /\ tracker[c] # None => tracker[c] <= offsets[c]
    /\ told[c] # None => told[c] = offsets[c]
    /\ since[c] # None =>
          /\ tracker[c] # None /\ since[c] <= last_gc_watermark
          /\ (scan.on /\ c \notin scan.todo) => scan.min <= tracker[c]
          /\ last_gc_watermark <= since[c] \/ last_gc_watermark <= tracker[c]
    /\ \A l \in Written : (Floor(c) <= l /\ l <= pos[c]) => l \in got[c] \cup late[c]

RetentionInv == TypeInv /\ Expiring /\ \A c \in Consumers : Ordered(c)

(* The numbers behind an Ordered consumer. *)
LEMMA OrderedTypes ==
    ASSUME TypeInv, NEW c \in Consumers
    PROVE  /\ Written \subseteq 1 .. LsnMax - 1 /\ LsnMax \in Nat \ {0} /\ None \notin Nat
           /\ pos[c] \in Nat /\ got[c] \subseteq Written /\ late[c] \subseteq Written
           /\ offsets[c] # None => offsets[c] \in Nat
           /\ tracker[c] # None => tracker[c] \in Nat
           /\ told[c] # None => told[c] \in Nat
           /\ since[c] # None => since[c] \in Nat
           /\ filter # None => filter \in Nat
           /\ last_gc_watermark \in Nat
           /\ scan.min \in Nat /\ scan.min <= LsnMax
BY EventFacts, RetentionAssumption DEF TypeInv, TypeOK, Lsns

(* Whether an event is held is a matter of its key. *)
LEMMA HeldByKey ==
    ASSUME NEW st, \A k \in DOMAIN st : st[k] = k[1], NEW l \in Events
    PROVE  S!Holds(st, l) <=> <<l, 0>> \in DOMAIN st
<1>1. S!MakeKey(l) = <<l, 0>>
  BY Zenon DEF S!MakeKey
<1> QED  BY <1>1 DEF S!Holds

(* What a counted consumer may still ask for is there. *)
LEMMA AheadIsHeld ==
    ASSUME TypeInv, Expiring, NEW c \in Consumers, Ordered(c),
           NEW l \in Written, Floor(c) <= l,
           since[c] # None => l > offsets[c]
    PROVE  S!Holds(store, l)
<1> SUFFICES ASSUME l < last_gc_watermark PROVE FALSE
  BY DEF Expiring
<1>1. l \in Nat /\ last_gc_watermark \in Nat
  BY OrderedTypes
<1>2. since[c] # None
  BY <1>1 DEF Floor
<1>3. /\ tracker[c] # None /\ tracker[c] <= offsets[c]
      /\ last_gc_watermark <= since[c] \/ last_gc_watermark <= tracker[c]
  BY <1>2, Zenon DEF Ordered
<1>4. tracker[c] \in Nat /\ since[c] \in Nat /\ offsets[c] \in Nat
  BY <1>2, <1>3, OrderedTypes, Zenon DEF Ordered
<1>5. since[c] <= l /\ l > offsets[c]
  BY <1>2 DEF Floor
<1> QED  BY <1>1, <1>3, <1>4, <1>5

(* An event arrives: it is missed by those whose position has passed it. *)
LEMMA ArriveOrdered ==
    ASSUME TypeInv, TypeInv', Arrive, Expiring
    PROVE  Expiring' /\ \A c \in Consumers : Ordered(c) => Ordered(c)'
<1> DEFINE e == Arrivals[arrived + 1]
<1>1. arrived \in Nat /\ arrived + 1 \in 1 .. Len(Arrivals) /\ Len(Arrivals) \in Nat
  BY RetentionAssumption DEF TypeInv, TypeOK, Arrive
<1>2. e \in Events /\ store' = S!Put(store, <<e>>) /\ Written' = Written \cup {e}
  BY <1>1 DEF Arrive, Events, Written
<1>3. late' = [c \in Consumers |-> IF e <= pos[c] THEN late[c] \cup {e} ELSE late[c]]
  BY DEF Arrive
<1> HIDE DEF e
<1>4. /\ DOMAIN store' = DOMAIN store \cup {<<e, 0>>} /\ store'[<<e, 0>>] = e
      /\ \A k \in DOMAIN store \ {<<e, 0>>} : store'[k] = store[k]
  BY <1>2, PutFacts, SMTT(30)
<1>5. UNCHANGED <<tracker, offsets, told, pos, got, scan, filter, since, last_gc_watermark>>
  BY DEF Arrive, consumerVars, gcVars
<1>6. ASSUME NEW l \in Written', ~S!Holds(store', l) PROVE l < last_gc_watermark
  <2>1. l \in Events
    BY <1>2, EventFacts, Zenon DEF TypeInv, TypeOK
  <2>2. <<l, 0>> \notin DOMAIN store'
    BY <1>6, <2>1, HeldByKey, Zenon DEF TypeInv, StoreOK
  <2>3. l \in Written /\ <<l, 0>> \notin DOMAIN store
    BY <1>2, <1>4, <2>2, Zenon
  <2> QED  BY <2>1, <2>3, HeldByKey DEF Expiring, TypeInv, StoreOK
<1>7. Expiring'
  BY <1>5, <1>6 DEF Expiring
<1>8. ASSUME NEW c \in Consumers, Ordered(c) PROVE Ordered(c)'
  <2>1. ASSUME NEW l \in Written', Floor(c) <= l, l <= pos[c]
        PROVE  l \in got[c] \cup late'[c]
    BY <1>2, <1>3, <1>8, <2>1, Zenon DEF Ordered
  <2>2. Floor(c)' = Floor(c)
    BY <1>5, Zenon DEF Floor
  <2> QED  BY <1>5, <1>8, <2>1, <2>2, Zenon DEF Ordered
<1> QED  BY <1>7, <1>8

(* A consumer's steps change only its own entries, ... *)
LEMMA OthersOrdered ==
    ASSUME TypeInv, NEW c \in Consumers, Ordered(c), NEW d \in Consumers, c # d,
           \/ Connect(d) \/ Send(d) \/ Update(d)
           \/ \E removed \in BOOLEAN : Disconnect(d, removed)
           \/ \E lsn \in got[d] : Commit(d, lsn)
    PROVE  Ordered(c)'
<1>1. UNCHANGED <<arrived, scan, last_gc_watermark>> /\ Written' = Written
  BY Zenon DEF Connect, Send, Update, Disconnect, Commit, gcVars, Written
<1>2. tracker'[c] = tracker[c] /\ since'[c] = since[c]
  BY ZenonT(60) DEF TypeInv, TypeOK, Connect, Send, Update, Disconnect, Commit
<1>3. offsets'[c] = offsets[c] /\ told'[c] = told[c] /\ got'[c] = got[c]
  BY ZenonT(60) DEF TypeInv, TypeOK, Connect, Send, Update, Disconnect, Commit
<1>4. pos'[c] = pos[c] /\ late'[c] = late[c]
  BY ZenonT(60) DEF TypeInv, TypeOK, Connect, StartAfter, Send, Update, Disconnect, Commit
<1>5. Floor(c)' = Floor(c)
  BY <1>1, <1>2, Zenon DEF Floor
<1> QED  BY <1>1, <1>2, <1>3, <1>4, <1>5, Zenon DEF Ordered

(* ... and the next page is sent without a gap: what lies after the        *)
(* position has not been collected.                                        *)
LEMMA SendOrdered ==
    ASSUME TypeInv, Expiring, NEW c \in Consumers, Ordered(c), Send(c)
    PROVE  Ordered(c)'
<1> DEFINE page == S!ReadFrom(store, pos[c] + 1, PageSize)
<1>1. UNCHANGED <<store, arrived, scan, last_gc_watermark, tracker, offsets, told, since, late>>
      /\ Written' = Written /\ Floor(c)' = Floor(c)
  BY Zenon DEF Send, gcVars, Written, Floor
<1>2. pos[c] \in Nat /\ pos[c] + 1 \in Nat
  BY OrderedTypes
<1>3. arrived \in 0 .. Len(Arrivals) /\ DOMAIN store \subseteq Keys /\ StoreOK
  BY EventFacts, SMTT(30) DEF TypeInv, TypeOK
<1>4. /\ Len(page) \in DOMAIN page
      /\ \A i \in DOMAIN page : page[i] \in Written /\ page[i] >= pos[c] + 1
      /\ \A l \in Written :
            (<<l, 0>> \in DOMAIN store /\ l >= pos[c] + 1 /\ l <= page[Len(page)])
                => \E i \in DOMAIN page : page[i] = l
  BY <1>2, <1>3, PageFacts, ZenonT(60) DEF Send
<1>5. pos'[c] = page[Len(page)] /\ got'[c] = got[c] \cup {page[i] : i \in DOMAIN page}
  BY Zenon DEF Send, TypeInv, TypeOK
<1> HIDE DEF page
<1>6. pos'[c] \in Nat /\ pos'[c] > pos[c] /\ Written \subseteq Nat
  BY <1>2, <1>4, <1>5, OrderedTypes
<1>7. offsets[c] # None => offsets[c] \in Nat /\ offsets[c] <= pos[c]
  BY OrderedTypes, Zenon DEF Ordered
<1>8. ASSUME NEW l \in Written, Floor(c) <= l, l <= pos'[c] PROVE l \in got'[c] \cup late[c]
  <2>1. CASE l <= pos[c]
    BY <1>5, <1>8, <2>1, Zenon DEF Ordered
  <2>2. CASE l > pos[c]
    <3>1. since[c] # None => l > offsets[c]
      <4>1. since[c] # None => offsets[c] # None
        BY Zenon DEF Ordered
      <4> QED  BY <1>2, <1>6, <1>7, <2>2, <4>1
    <3>2. S!Holds(store, l)
      BY <1>8, <3>1, AheadIsHeld
    <3>3. <<l, 0>> \in DOMAIN store
      BY <1>3, <3>2, HeldByKey, EventFacts DEF StoreOK
    <3>4. l >= pos[c] + 1
      BY <1>2, <1>6, <2>2
    <3> QED  BY <1>4, <1>5, <1>8, <3>3, <3>4
  <2> QED  BY <1>2, <1>6, <2>1, <2>2
<1>9. offsets[c] # None => offsets[c] <= pos'[c]
  BY <1>2, <1>6, <1>7
<1> QED  BY <1>1, <1>5, <1>8, <1>9, ZenonT(60) DEF Ordered

(* What a consumer does keeps its own order: the tracker is told only what *)
(* the registry has accepted, and a stream resumes at the registry's       *)
(* offset.                                                                 *)
LEMMA ConsumerOrdered ==
    ASSUME TypeInv, Expiring, NEW c \in Consumers, Ordered(c), NEW d \in Consumers,
           \/ Connect(d) \/ Send(d) \/ Update(d)
           \/ \E removed \in BOOLEAN : Disconnect(d, removed)
           \/ \E lsn \in got[d] : Commit(d, lsn)
    PROVE  Ordered(c)'
<1>1. CASE c # d
  BY <1>1, OthersOrdered
<1>2. CASE c = d /\ Send(c)
  BY <1>2, SendOrdered
<1>3. CASE c = d /\ Connect(c)
  <2>1. UNCHANGED <<arrived, scan, last_gc_watermark, tracker, offsets, told, got, since>>
        /\ Written' = Written /\ Floor(c)' = Floor(c)
    BY <1>3, Zenon DEF Connect, gcVars, Written, Floor
  <2>2. /\ pos'[c] = IF offsets[c] = None THEN 0 ELSE offsets[c]
        /\ late'[c] = {l \in late[c] : l <= pos'[c]}
    <3>1. offsets[c] # None => offsets[c] \in 1 .. LsnMax - 1
      BY OrderedTypes, Zenon DEF Ordered
    <3>2. ResumeLsn(c) = IF offsets[c] = None THEN 0 ELSE offsets[c] + 1
      BY <3>1, RetentionAssumption DEF ResumeLsn
    <3>3. (IF ResumeLsn(c) = 0 THEN 0 ELSE ResumeLsn(c) - 1)
              = IF offsets[c] = None THEN 0 ELSE offsets[c]
      BY <3>1, <3>2, RetentionAssumption
    <3>4. StartAfter(c, IF offsets[c] = None THEN 0 ELSE offsets[c])
      BY <1>3, <3>3, Zenon DEF Connect
    <3> QED  BY <3>4, Zenon DEF StartAfter, TypeInv, TypeOK
  <2>3. pos'[c] \in Nat /\ pos'[c] <= pos[c]
    BY <2>2, OrderedTypes DEF Ordered
  <2>4. ASSUME NEW l \in Written, Floor(c) <= l, l <= pos'[c]
        PROVE  l \in got[c] \cup late'[c]
    <3>1. l <= pos[c]
      BY <2>3, <2>4, OrderedTypes
    <3> QED  BY <2>2, <2>4, <3>1, Zenon DEF Ordered
  <2>5. offsets[c] # None => offsets[c] <= pos'[c]
    BY <2>2, <2>3
  <2> QED  BY <2>1, <2>4, <2>5, Zenon DEF Ordered
<1>4. CASE c = d /\ Update(c)
  <2>1. UNCHANGED <<arrived, scan, last_gc_watermark, offsets, pos, got, since, late>>
        /\ Written' = Written /\ Floor(c)' = Floor(c)
    BY <1>4, Zenon DEF Update, gcVars, Written, Floor
  <2>2. told'[c] = None /\ tracker'[c] = offsets[c] /\ offsets[c] # None
    BY <1>4, Zenon DEF Update, Ordered, TypeInv, TypeOK
  <2>3. offsets[c] \in Nat /\ (tracker[c] # None => tracker[c] \in Nat /\ tracker[c] <= offsets[c])
    BY <2>2, OrderedTypes, Zenon DEF Ordered
  <2>4. since[c] # None =>
          /\ (scan.on /\ c \notin scan.todo) => scan.min <= offsets[c]
          /\ last_gc_watermark <= since[c] \/ last_gc_watermark <= offsets[c]
    <3>1. since[c] # None =>
            /\ tracker[c] # None
            /\ (scan.on /\ c \notin scan.todo) => scan.min <= tracker[c]
            /\ last_gc_watermark <= since[c] \/ last_gc_watermark <= tracker[c]
      BY Zenon DEF Ordered
    <3>2. scan.min \in Nat /\ last_gc_watermark \in Nat
      BY OrderedTypes
    <3> QED  BY <2>3, <3>1, <3>2
  <2>5. offsets[c] <= offsets[c]
    BY <2>3
  <2> QED  BY <2>1, <2>2, <2>4, <2>5, Zenon DEF Ordered
<1>5. ASSUME c = d, NEW removed \in BOOLEAN, Disconnect(c, removed) PROVE Ordered(c)'
  <2>1. UNCHANGED <<arrived, scan, last_gc_watermark, offsets, told, pos, got, late>>
        /\ Written' = Written
    BY <1>5, Zenon DEF Disconnect, gcVars, Written
  <2>2. CASE removed
    <3>1. tracker'[c] = None /\ since'[c] = None
      BY <1>5, <2>2, Zenon DEF Disconnect, TypeInv, TypeOK
    <3>2. ASSUME NEW l \in Written, last_gc_watermark <= l PROVE Floor(c) <= l
      <4>1. l \in Nat /\ last_gc_watermark \in Nat /\ (since[c] # None => since[c] \in Nat)
        BY OrderedTypes
      <4>2. since[c] # None => since[c] <= last_gc_watermark
        BY Zenon DEF Ordered
      <4> QED  BY <3>2, <4>1, <4>2 DEF Floor
    <3>3. Floor(c)' = last_gc_watermark
      BY <2>1, <3>1, Zenon DEF Floor
    <3> QED  BY <2>1, <3>1, <3>2, <3>3, Zenon DEF Ordered
  <2>3. CASE ~removed
    <3>1. UNCHANGED <<tracker, since>>
      BY <1>5, <2>3, Zenon DEF Disconnect
    <3> QED  BY <2>1, <3>1, Zenon DEF Ordered, Floor
  <2> QED  BY <2>2, <2>3
<1>6. ASSUME c = d, NEW lsn \in got[c], Commit(c, lsn) PROVE Ordered(c)'
  <2>1. UNCHANGED <<arrived, scan, last_gc_watermark, tracker, pos, got, since, late>>
        /\ Written' = Written /\ Floor(c)' = Floor(c)
    BY <1>6, Zenon DEF Commit, gcVars, Written, Floor
  <2>2. offsets'[c] = lsn /\ told'[c] = lsn /\ lsn <= pos[c] /\ lsn \in Nat /\ lsn # None
    BY <1>6, OrderedTypes DEF Commit, TypeInv, TypeOK
  <2>3. tracker[c] # None => tracker[c] <= lsn
    <3>1. offsets[c] # None => offsets[c] <= lsn
      BY <1>6, <2>2, OrderedTypes DEF Commit
    <3>2. tracker[c] # None => offsets[c] # None /\ tracker[c] <= offsets[c]
      BY Zenon DEF Ordered
    <3> QED  BY <2>2, <3>1, <3>2, OrderedTypes
  <2> QED  BY <1>6, <2>1, <2>2, <2>3, Zenon DEF Ordered
<1> QED  BY <1>1, <1>2, <1>3, <1>4, <1>5, <1>6, Zenon

(* Nor does it remove anything. *)
LEMMA ConsumerExpiring ==
    ASSUME TypeInv, Expiring, NEW d \in Consumers,
           \/ Connect(d) \/ Send(d) \/ Update(d)
           \/ \E removed \in BOOLEAN : Disconnect(d, removed)
           \/ \E lsn \in got[d] : Commit(d, lsn)
    PROVE  Expiring'
<1>1. UNCHANGED <<store, arrived, filter, last_gc_watermark>> /\ Written' = Written
  BY Zenon DEF Connect, Send, Update, Disconnect, Commit, gcVars, Written
<1> QED  BY <1>1, Zenon DEF Expiring

(* Garbage collection stays behind every counted consumer: the scan's      *)
(* minimum is at most what it read there, which has only grown since.      *)
LEMMA GcOrdered ==
    ASSUME TypeInv, NEW c \in Consumers, Ordered(c),
           \/ WatermarkStart \/ MaybeGc \/ CompactEnd \/ UNCHANGED vars
           \/ \E d \in Consumers : WatermarkVisit(d)
           \/ \E k \in DOMAIN store : CompactKey(k)
    PROVE  Ordered(c)'
<1>1. CASE WatermarkStart
  <2>1. /\ UNCHANGED <<arrived, tracker, offsets, told, pos, got, last_gc_watermark, late>>
        /\ Written' = Written /\ scan'.todo = Consumers
        /\ since'[c] = IF tracker[c] # None /\ since[c] = None THEN last_gc_watermark
                       ELSE since[c]
    BY <1>1, Zenon DEF WatermarkStart, Watermark!ScanStart, Written, consumerVars
  <2>2. Floor(c)' = Floor(c)
    BY <2>1, OrderedTypes, SMTT(30) DEF Floor
  <2>3. since'[c] # None =>
          /\ tracker[c] # None /\ since'[c] <= last_gc_watermark
          /\ last_gc_watermark <= since'[c] \/ last_gc_watermark <= tracker[c]
    <3>1. last_gc_watermark <= last_gc_watermark
      BY OrderedTypes
    <3>2. CASE tracker[c] # None /\ since[c] = None
      BY <2>1, <3>1, <3>2
    <3>3. CASE ~(tracker[c] # None /\ since[c] = None)
      <4>1. since'[c] = since[c]
        BY <2>1, <3>3
      <4> QED  BY <4>1, Zenon DEF Ordered
    <3> QED  BY <3>2, <3>3
  <2> QED  BY <2>1, <2>2, <2>3, Zenon DEF Ordered
<1>2. ASSUME NEW d \in Consumers, WatermarkVisit(d) PROVE Ordered(c)'
  <2>1. /\ scan' = [scan EXCEPT !.todo = @ \ {d},
                        !.min = IF tracker[d] # None /\ tracker[d] < @
                                THEN tracker[d] ELSE @]
        /\ scan.on
        /\ UNCHANGED <<arrived, tracker, offsets, told, pos, got, last_gc_watermark, since, late>>
    BY <1>2, Zenon DEF WatermarkVisit, Watermark!ScanVisit, consumerVars
  <2>2. /\ scan'.todo = scan.todo \ {d} /\ scan'.on = scan.on
        /\ scan'.min = IF tracker[d] # None /\ tracker[d] < scan.min THEN tracker[d]
                       ELSE scan.min
    BY <2>1, Zenon DEF TypeInv, TypeOK
  <2>3. ASSUME since[c] # None, c \notin scan'.todo PROVE scan'.min <= tracker[c]
    <3>1. tracker[c] # None
      BY <2>3, Zenon DEF Ordered
    <3>2. scan.min \in Nat /\ tracker[c] \in Nat /\ (tracker[d] # None => tracker[d] \in Nat)
      BY <3>1, OrderedTypes, Zenon
    <3>3. c # d => scan.min <= tracker[c]
      BY <2>1, <2>2, <2>3, Zenon DEF Ordered
    <3> QED  BY <2>2, <3>1, <3>2, <3>3
  <2>4. Written' = Written /\ Floor(c)' = Floor(c)
    BY <2>1, Zenon DEF Written, Floor
  <2> QED  BY <2>1, <2>3, <2>4, Zenon DEF Ordered
<1>3. CASE MaybeGc
  <2>1. /\ scan.on /\ scan.todo = {} /\ ~scan'.on
        /\ UNCHANGED <<arrived, tracker, offsets, told, pos, got, since, late>>
        /\ last_gc_watermark' = IF Watermark!ScanResult > last_gc_watermark
                                THEN Watermark!ScanResult ELSE last_gc_watermark
    BY <1>3, Zenon DEF MaybeGc, Watermark!ScanEnd, Watermark!Idle, consumerVars
  <2>2. /\ scan.min \in Nat /\ last_gc_watermark \in Nat
        /\ since[c] # None => since[c] \in Nat
        /\ tracker[c] # None => tracker[c] \in Nat
    BY OrderedTypes
  <2>3. Watermark!ScanResult \in Nat /\ Watermark!ScanResult <= scan.min
    BY <2>2 DEF Watermark!ScanResult
  <2>4. last_gc_watermark' \in Nat /\ last_gc_watermark <= last_gc_watermark'
    BY <2>1, <2>2, <2>3
  <2>5. since[c] # None =>
          /\ tracker[c] # None /\ since[c] <= last_gc_watermark'
          /\ last_gc_watermark' <= since[c] \/ last_gc_watermark' <= tracker[c]
    <3>1. since[c] # None =>
            /\ tracker[c] # None /\ since[c] <= last_gc_watermark /\ scan.min <= tracker[c]
            /\ last_gc_watermark <= since[c] \/ last_gc_watermark <= tracker[c]
      BY <2>1, Zenon DEF Ordered
    <3> QED  BY <2>1, <2>2, <2>3, <3>1
  <2>6. ASSUME NEW l \in Written, Floor(c)' <= l PROVE Floor(c) <= l
    <3>1. l \in Nat
      BY OrderedTypes
    <3> QED  BY <2>1, <2>2, <2>4, <2>6, <3>1 DEF Floor
  <2>7. Written' = Written
    BY <2>1 DEF Written
  <2> QED  BY <2>1, <2>5, <2>6, <2>7, Zenon DEF Ordered
<1>4. CASE CompactEnd
  BY <1>4, Zenon DEF CompactEnd, Ordered, Floor, Written, consumerVars
<1>5. ASSUME NEW k \in DOMAIN store, CompactKey(k) PROVE Ordered(c)'
  BY <1>5, Zenon DEF CompactKey, Ordered, Floor, Written, consumerVars, gcVars
<1>6. CASE UNCHANGED vars
  BY <1>6, Zenon DEF vars, Ordered, Floor, Written, consumerVars, gcVars
<1> QED  BY <1>1, <1>2, <1>3, <1>4, <1>5, <1>6, Zenon

(* The compaction removes what is below its watermark, which is never      *)
(* above the last.                                                         *)
LEMMA GcExpiring ==
    ASSUME TypeInv, Expiring,
           \/ WatermarkStart \/ MaybeGc \/ CompactEnd \/ UNCHANGED vars
           \/ \E d \in Consumers : WatermarkVisit(d)
           \/ \E k \in DOMAIN store : CompactKey(k)
    PROVE  Expiring'
<1>0. /\ Written \subseteq Nat /\ Written \subseteq Events /\ last_gc_watermark \in Nat
      /\ filter # None => filter \in Nat
      /\ scan.min \in Nat
  BY EventFacts, RetentionAssumption DEF TypeInv, TypeOK, Lsns
<1>1. CASE WatermarkStart \/ CompactEnd \/ UNCHANGED vars \/ \E d \in Consumers : WatermarkVisit(d)
  <2>1. UNCHANGED <<store, arrived, last_gc_watermark>> /\ filter' \in {None, filter}
        /\ Written' = Written
    BY <1>1, Zenon
    DEF WatermarkStart, CompactEnd, WatermarkVisit, vars, consumerVars, gcVars, Written
  <2> QED  BY <2>1, Zenon DEF Expiring
<1>2. CASE MaybeGc
  <2>1. /\ UNCHANGED <<store, arrived>> /\ Written' = Written
        /\ IF Watermark!ScanResult > last_gc_watermark
           THEN last_gc_watermark' = Watermark!ScanResult /\ filter' = Watermark!ScanResult
           ELSE UNCHANGED <<last_gc_watermark, filter>>
    BY <1>2, Zenon DEF MaybeGc, Written
  <2>2. Watermark!ScanResult \in Nat
    BY <1>0 DEF Watermark!ScanResult
  <2>3. /\ last_gc_watermark' \in Nat /\ last_gc_watermark <= last_gc_watermark'
        /\ filter' # None => filter' <= last_gc_watermark'
    BY <1>0, <2>1, <2>2 DEF Expiring
  <2>4. ASSUME NEW l \in Written, l < last_gc_watermark PROVE l < last_gc_watermark'
    BY <1>0, <2>3, <2>4
  <2> QED  BY <2>1, <2>3, <2>4, Zenon DEF Expiring
<1>3. ASSUME NEW k \in DOMAIN store, CompactKey(k) PROVE Expiring'
  <2>1. /\ DOMAIN store' = DOMAIN store \ {k} /\ k[1] < filter /\ filter # None
        /\ \A j \in DOMAIN store' : store'[j] = store[j]
        /\ UNCHANGED <<arrived, filter, last_gc_watermark>> /\ Written' = Written
    BY <1>3, SMTT(30) DEF CompactKey, Expired, consumerVars, gcVars, Written
  <2>2. \A j \in DOMAIN store' : store'[j] = j[1]
    BY <2>1 DEF TypeInv, StoreOK
  <2>3. ASSUME NEW l \in Written, ~S!Holds(store', l) PROVE l < last_gc_watermark
    <3>1. <<l, 0>> \notin DOMAIN store'
      BY <1>0, <2>2, <2>3, HeldByKey
    <3>2. CASE <<l, 0>> = k
      <4>1. l < filter /\ filter <= last_gc_watermark
        BY <2>1, <3>2, Zenon DEF Expiring
      <4> QED  BY <1>0, <2>1, <4>1
    <3>3. CASE <<l, 0>> # k
      <4>1. ~S!Holds(store, l)
        BY <1>0, <2>1, <3>1, <3>3, HeldByKey, SMTT(30) DEF TypeInv, StoreOK
      <4> QED  BY <4>1, Zenon DEF Expiring
    <3> QED  BY <3>2, <3>3
  <2> QED  BY <2>1, <2>3, Zenon DEF Expiring
<1> QED  BY <1>1, <1>2, <1>3, Zenon

(* The order holds of all consumers at all times. *)
LEMMA RetentionInvariant == Spec => []RetentionInv
<1>1. Init => RetentionInv
  <2> SUFFICES ASSUME Init PROVE Expiring /\ \A c \in Consumers : Ordered(c)
    BY InitTypes DEF RetentionInv
  <2>1. Written = {}
    BY RetentionAssumption DEF Init, Written
  <2>2. ASSUME NEW c \in Consumers
        PROVE  tracker[c] = None /\ offsets[c] = None /\ told[c] = None /\ since[c] = None
    BY DEF Init
  <2>3. filter = None
    BY DEF Init
  <2> QED  BY <2>1, <2>2, <2>3, Zenon DEF Ordered, Expiring
<1>2. RetentionInv /\ [Next]_vars => RetentionInv'
  <2> SUFFICES ASSUME RetentionInv, [Next]_vars PROVE RetentionInv'
    OBVIOUS
  <2>1. TypeInv /\ TypeInv' /\ Expiring
    BY TypeStep, SMTT(30) DEF RetentionInv
  <2>2. Expiring'
    BY <2>1, ArriveOrdered, ConsumerExpiring, GcExpiring, Zenon DEF Next
  <2>3. ASSUME NEW c \in Consumers PROVE Ordered(c)'
    <3>1. Ordered(c)
      BY DEF RetentionInv
    <3> QED  BY <2>1, <3>1, ArriveOrdered, ConsumerOrdered, GcOrdered, Zenon DEF Next
  <2> QED  BY <2>1, <2>2, <2>3 DEF RetentionInv
<1> QED  BY <1>1, <1>2, PTL DEF Spec

-----------------------------------------------------------------------------
(* The properties *)

(* A counted consumer misses nothing up to its position, however it        *)
(* disconnects, resumes from its committed offset and races the garbage    *)
(* collector, but for the events stored behind its position.               *)
THEOREM MissedOnlyLateHolds == Spec => []MissedOnlyLate
<1>1. RetentionInv => MissedOnlyLate
  BY Zenon DEF RetentionInv, MissedOnlyLate, Counted, Ordered, Floor
<1> QED  BY <1>1, RetentionInvariant, PTL

(* Compaction removes only what every counted consumer was sent: the       *)
(* watermark of a scan that races commits, arrivals and departures is      *)
(* below the offsets of them all.                                          *)
THEOREM CollectedWasSentHolds == Spec => []CollectedWasSent
<1>1. RetentionInv => CollectedWasSent
  <2> SUFFICES ASSUME RetentionInv, NEW c \in Consumers, since[c] # None,
                      NEW l \in Written, ~S!Holds(store, l), l >= since[c]
               PROVE  l \in got[c] \cup late[c]
    BY Zenon DEF CollectedWasSent, Collected, Counted
  <2>1. TypeInv /\ Ordered(c) /\ Expiring
    BY Zenon DEF RetentionInv
  <2>2. Floor(c) = since[c] /\ offsets[c] # None /\ offsets[c] <= pos[c]
    BY <2>1, Zenon DEF Ordered, Floor
  <2>3. /\ l \in Nat /\ offsets[c] \in Nat /\ since[c] \in Nat /\ pos[c] \in Nat
    BY <2>1, <2>2, OrderedTypes
  <2>4. Floor(c) <= l
    BY <2>2, <2>3
  <2>5. ~(l > offsets[c])
    BY <2>1, <2>4, AheadIsHeld
  <2>6. l <= pos[c]
    BY <2>2, <2>3, <2>5
  <2> QED  BY <2>1, <2>4, <2>6, Zenon DEF Ordered
<1> QED  BY <1>1, RetentionInvariant, PTL

(* Wherever a counted consumer would resume now, the store holds all that  *)
(* was written from there on and had not expired when it was first         *)
(* counted.                                                                *)
THEOREM ResumeIsServedHolds == Spec => []ResumeIsServed
<1>1. RetentionInv => ResumeIsServed
  <2> SUFFICES ASSUME RetentionInv, NEW c \in Consumers, since[c] # None,
                      NEW l \in Written, l >= ResumeLsn(c), l >= since[c]
               PROVE  S!Holds(store, l)
    BY DEF ResumeIsServed, Counted
  <2>1. TypeInv /\ Ordered(c) /\ Expiring
    BY Zenon DEF RetentionInv
  <2>2. Floor(c) = since[c] /\ offsets[c] # None /\ offsets[c] \in got[c]
    BY <2>1, Zenon DEF Ordered, Floor
  <2>3. l \in Nat /\ offsets[c] \in 1 .. LsnMax - 1 /\ since[c] \in Nat
    BY <2>1, <2>2, OrderedTypes
  <2>4. ResumeLsn(c) = offsets[c] + 1
    BY <2>2, <2>3, RetentionAssumption DEF ResumeLsn
  <2>5. l > offsets[c] /\ Floor(c) <= l
    BY <2>2, <2>3, <2>4
  <2> QED  BY <2>1, <2>5, AheadIsHeld
<1> QED  BY <1>1, RetentionInvariant, PTL
=============================================================================
