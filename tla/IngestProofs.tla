---------------------------- MODULE IngestProofs ----------------------------
(***************************************************************************)
(* The pipeline alone, for every set of events, capacity, threshold and    *)
(* number of pushes: it is type correct, loses and reorders nothing, keeps *)
(* its accounting straight, and implements EventLog.                       *)
(*                                                                         *)
(* The whole way in, for every set of transactions, every size of the ring *)
(* and of the batches and any number of crashes and reconnects: what       *)
(* PostgreSQL may forget is in the store, and no change is lost on the     *)
(* way.                                                                    *)
(***************************************************************************)
EXTENDS Ingest, SequenceTheorems, WellFoundedInduction, TLAPS

-----------------------------------------------------------------------------
(* The pipeline.                                                           *)

(* A new batch has the type of a batch. *)
LEMMA NewBatchType ==
    NewBatch \in WriteBatch
  BY PipelineAssumption, EmptySeq DEF NewBatch, WriteBatch

(* WriteBatch::push keeps the type of a batch. *)
LEMMA BatchPushType ==
    ASSUME NEW e \in Events,
           NEW b \in WriteBatch
    PROVE  BatchPush(b, e) \in WriteBatch
<1>1. LsnOf[e] \in 0 .. LsnMax /\ SizeOf[e] \in Nat
  BY PipelineAssumption
<1>2. Append(b.events, e) \in Seq(Events)
  BY AppendProperties DEF WriteBatch
<1>3. b.total_bytes + SizeOf[e] \in Nat
  BY <1>1 DEF WriteBatch
<1> QED
  BY <1>1, <1>2, <1>3 DEF BatchPush, WriteBatch

(* The types are right at the start. *)
LEMMA TypeInit == Init => TypeOK
BY NewBatchType, PipelineAssumption, EmptySeq DEF Init, TypeOK

(* Every step keeps the types. *)
LEMMA TypeStep == TypeOK /\ [Next]_vars => TypeOK'
<1> SUFFICES ASSUME TypeOK, [Next]_vars PROVE TypeOK'
  OBVIOUS
<1> USE PipelineAssumption
<1>1. ASSUME NEW e \in Events, TryPush(e) PROVE TypeOK'
  <2>1. CASE Len(ring) < Capacity
    <3>1. /\ Append(ring, e) \in Seq(Events)
          /\ Len(Append(ring, e)) = Len(ring) + 1
          /\ Append(accepted, e) \in Seq(Events)
      BY AppendProperties DEF TypeOK
    <3>2. Len(Append(ring, e)) <= Capacity
      BY <3>1, <2>1 DEF TypeOK
    <3> QED
      BY <1>1, <2>1, <3>1, <3>2, Zenon DEF TryPush, TypeOK, policyVars
  <2>2. CASE ~(Len(ring) < Capacity)
    BY <1>1, <2>2 DEF TryPush, TypeOK, vars, policyVars
  <2> QED
    BY <2>1, <2>2
<1>2. CASE DrainStart
  BY <1>2 DEF DrainStart, TypeOK, policyVars
<1>3. CASE DrainPop
  <2>1. /\ Head(ring) \in Events
        /\ Tail(ring) \in Seq(Events)
        /\ Len(Tail(ring)) <= Capacity
    BY <1>3, HeadTailProperties DEF DrainPop, TypeOK
  <2>2. current_bytes' \in Nat
    BY <1>3, <2>1, SMTT(30) DEF DrainPop, TypeOK
  <2>3. current_batch' \in WriteBatch
    BY <1>3, <2>1, BatchPushType, Zenon DEF DrainPop, TypeOK
  <2> QED
    BY <1>3, <2>1, <2>2, <2>3 DEF DrainPop, TypeOK
<1>4. CASE DrainDone
  BY <1>4 DEF DrainDone, TypeOK, policyVars
<1>5. ASSUME HandOver PROVE TypeOK'
  <2>1. delivered' \in Seq(Events)
    BY <1>5, ConcatProperties DEF HandOver, TypeOK, WriteBatch
  <2>2. current_batch' \in WriteBatch
    BY <1>5, NewBatchType DEF HandOver
  <2> QED
    BY <1>5, <2>1, <2>2 DEF HandOver, MarkFlushed, TypeOK
<1>6. CASE MaybeFlush
  BY <1>5, <1>6 DEF MaybeFlush, TypeOK, vars, policyVars
<1>7. CASE ForceFlush
  BY <1>5, <1>7, SMTT(30) DEF ForceFlush, TypeOK, vars, policyVars
<1>8. CASE Tick
  BY <1>8 DEF Tick, TypeOK
<1>9. CASE UNCHANGED vars
  BY <1>9 DEF TypeOK, vars, policyVars
<1> QED
  BY <1>1, <1>2, <1>3, <1>4, <1>6, <1>7, <1>8, <1>9 DEF Next

(* Type correctness of the pipeline, the ring's capacity included: try_push *)
(* is the only operation that makes the ring longer, and it checks first.   *)
THEOREM TypeCorrect == Spec => []TypeOK
<1> QED
  BY TypeInit, TypeStep, PTL DEF Spec

-----------------------------------------------------------------------------
(* Appending to a concatenation appends to its second part. *)
LEMMA AppendOfConcat ==
    ASSUME NEW s \in Seq(Events), NEW t \in Seq(Events), NEW e \in Events
    PROVE  Append(s \o t, e) = s \o Append(t, e)
<1>1. <<e>> \in Seq(Events)
  OBVIOUS
<1>2. Append(s \o t, e) = (s \o t) \o <<e>>
  BY AppendIsConcat, ConcatProperties
<1>3. Append(t, e) = t \o <<e>>
  BY AppendIsConcat
<1> QED
  BY <1>1, <1>2, <1>3, ConcatAssociative, SMTT(30)

(* Moving the head of the second part of a concatenation to the end of the *)
(* first part changes nothing.                                             *)
LEMMA MoveHead ==
    ASSUME NEW s \in Seq(Events), NEW t \in Seq(Events), t # <<>>
    PROVE  Append(s, Head(t)) \o Tail(t) = s \o t
<1>1. Head(t) \in Events /\ Tail(t) \in Seq(Events) /\ <<Head(t)>> \in Seq(Events)
  BY HeadTailProperties
<1>2. t = <<Head(t)>> \o Tail(t)
  <2> DEFINE u == <<Head(t)>> \o Tail(t)
  <2>1. /\ u \in Seq(Events) /\ Len(u) = Len(t)
        /\ \A i \in 1 .. Len(t) : u[i] = t[i]
    BY <1>1, HeadTailProperties, ConcatProperties
  <2> QED
    BY <2>1, SeqEqual
<1>3. Append(s, Head(t)) = s \o <<Head(t)>>
  BY <1>1, AppendIsConcat
<1> QED
  BY <1>1, <1>2, <1>3, ConcatAssociative, SMTT(30)

(* No accepted event is lost, duplicated or reordered, whatever pushes fall *)
(* between the iterations of drain_ring.                                    *)
THEOREM NothingLost == Spec => []NoLossInOrder
<1>1. Init => NoLossInOrder
  BY DEF Init, NoLossInOrder, NewBatch
<1>2. TypeOK /\ NoLossInOrder /\ [Next]_vars => NoLossInOrder'
  <2> SUFFICES ASSUME TypeOK, NoLossInOrder, [Next]_vars
               PROVE  NoLossInOrder'
    OBVIOUS
  <2> DEFINE es == current_batch.events
  <2>0. /\ ring \in Seq(Events) /\ accepted \in Seq(Events)
        /\ delivered \in Seq(Events) /\ es \in Seq(Events)
        /\ delivered \o es \in Seq(Events)
    BY ConcatProperties DEF TypeOK, WriteBatch
  <2>1. ASSUME NEW e \in Events, TryPush(e) PROVE NoLossInOrder'
    <3>1. CASE Len(ring) < Capacity
      <4>1. accepted' = (delivered \o es) \o Append(ring, e)
        BY <2>0, <2>1, <3>1, AppendOfConcat, ZenonT(60) DEF TryPush, NoLossInOrder
      <4> QED
        BY <2>1, <3>1, <4>1, Zenon DEF TryPush, NoLossInOrder
    <3>2. CASE ~(Len(ring) < Capacity)
      BY <2>1, <3>2 DEF TryPush, NoLossInOrder, vars
    <3> QED
      BY <3>1, <3>2
  <2>2. CASE DrainStart
    BY <2>2 DEF DrainStart, NoLossInOrder
  <2>3. CASE DrainPop
    <3>1. Head(ring) \in Events
      BY <2>0, <2>3, HeadTailProperties DEF DrainPop
    <3>2. current_batch'.events = Append(es, Head(ring))
      BY <2>3 DEF DrainPop, BatchPush
    <3>3. delivered \o Append(es, Head(ring)) = Append(delivered \o es, Head(ring))
      BY <2>0, <3>1, AppendOfConcat, ZenonT(60)
    <3>4. Append(delivered \o es, Head(ring)) \o Tail(ring) = (delivered \o es) \o ring
      BY <2>0, <2>3, MoveHead, Zenon DEF DrainPop
    <3> QED
      BY <2>3, <3>2, <3>3, <3>4, Zenon DEF DrainPop, NoLossInOrder
  <2>4. CASE DrainDone
    BY <2>4, Zenon DEF DrainDone, NoLossInOrder
  <2>5. ASSUME HandOver PROVE NoLossInOrder'
    <3>1. current_batch'.events = <<>>
      BY <2>5 DEF HandOver, NewBatch
    <3>2. (delivered \o es) \o <<>> = delivered \o es
      BY <2>0, ConcatEmptySeq
    <3> QED
      BY <2>5, <3>1, <3>2 DEF HandOver, NoLossInOrder
  <2>6. CASE MaybeFlush
    BY <2>5, <2>6, Zenon DEF MaybeFlush, NoLossInOrder, vars
  <2>7. CASE ForceFlush
    BY <2>5, <2>7, Zenon DEF ForceFlush, NoLossInOrder, vars
  <2>8. CASE Tick
    BY <2>8 DEF Tick, NoLossInOrder
  <2>9. CASE UNCHANGED vars
    BY <2>9 DEF NoLossInOrder, vars
  <2> QED
    BY <2>1, <2>2, <2>3, <2>4, <2>6, <2>7, <2>8, <2>9 DEF Next
<1> QED
  BY <1>1, <1>2, TypeCorrect, PTL DEF Spec

-----------------------------------------------------------------------------
(* Every step keeps the summary true of the batch. *)
LEMMA SummaryStep == TypeOK /\ BatchSummary /\ [Next]_vars => BatchSummary'
<1> SUFFICES ASSUME TypeOK, BatchSummary, [Next]_vars
             PROVE  BatchSummary'
  OBVIOUS
<1>1. ASSUME UNCHANGED <<current_batch, current_bytes>> PROVE BatchSummary'
  BY <1>1 DEF BatchSummary
<1>2. CASE DrainPop
  <2> DEFINE b == current_batch
             h == Head(ring)
  <2>1. /\ h \in Events /\ LsnOf[h] \in 0 .. LsnMax /\ SizeOf[h] \in Nat \ {0}
    BY <1>2, HeadTailProperties, PipelineAssumption DEF DrainPop, TypeOK
  <2>2. /\ b.events \in Seq(Events) /\ b.total_bytes \in Nat
        /\ b.min_lsn \in 0 .. LsnMax /\ b.max_lsn \in 0 .. LsnMax
        /\ current_bytes \in Nat /\ LsnMax \in Nat
    BY PipelineAssumption DEF TypeOK, WriteBatch
  <2>3. b' = BatchPush(b, h) /\ current_bytes' = current_bytes + SizeOf[h]
    BY <1>2 DEF DrainPop
  <2> DEFINE es == b.events
             n == Len(es)
             fs == Append(es, h)
  <2>4. /\ n \in Nat /\ Len(fs) = n + 1 /\ fs # <<>>
        /\ \A i \in 1 .. n : fs[i] = es[i]
        /\ fs[n + 1] = h
    BY <2>1, <2>2, AppendProperties, LenProperties, SMTT(30)
  <2>5. /\ b'.events = fs
        /\ b'.min_lsn = IF LsnOf[h] < b.min_lsn THEN LsnOf[h] ELSE b.min_lsn
        /\ b'.max_lsn = IF LsnOf[h] > b.max_lsn THEN LsnOf[h] ELSE b.max_lsn
        /\ b'.total_bytes = b.total_bytes + SizeOf[h]
    BY <2>3 DEF BatchPush
  <2>6. \A i \in 1 .. n : /\ LsnOf[es[i]] \in Int
                          /\ b.min_lsn <= LsnOf[es[i]] /\ LsnOf[es[i]] <= b.max_lsn
    BY <2>2, ElementOfSeq, PipelineAssumption DEF BatchSummary
  <2>7. \A i \in 1 .. n + 1 :
            b'.min_lsn <= LsnOf[fs[i]] /\ LsnOf[fs[i]] <= b'.max_lsn
    <3> SUFFICES ASSUME NEW i \in 1 .. n + 1
                 PROVE  b'.min_lsn <= LsnOf[fs[i]] /\ LsnOf[fs[i]] <= b'.max_lsn
      OBVIOUS
    <3>1. CASE i = n + 1
      BY <3>1, <2>1, <2>2, <2>4, <2>5, SMTT(30)
    <3>2. CASE i \in 1 .. n
      <4>1. fs[i] = es[i]
        BY <3>2, <2>4
      <4>2. /\ LsnOf[es[i]] \in Int
            /\ b.min_lsn <= LsnOf[es[i]] /\ LsnOf[es[i]] <= b.max_lsn
        BY <3>2, <2>6
      <4>3. b'.min_lsn <= b.min_lsn /\ b.max_lsn <= b'.max_lsn
        BY <2>1, <2>2, <2>5, SMTT(30)
      <4>4. b'.min_lsn \in Int /\ b'.max_lsn \in Int /\ b.min_lsn \in Int /\ b.max_lsn \in Int
        BY <2>1, <2>2, <2>5
      <4> QED
        BY <4>1, <4>2, <4>3, <4>4, SMTT(30)
    <3> QED
      BY <3>1, <3>2, <2>4
  <2>8. \/ n = 0 /\ b.min_lsn = LsnMax /\ b.max_lsn = 0
        \/ /\ \E i \in 1 .. n : LsnOf[es[i]] = b.min_lsn
           /\ \E i \in 1 .. n : LsnOf[es[i]] = b.max_lsn
    BY <2>2, <2>4, EmptySeq DEF BatchSummary, NewBatch
  <2>9. \E i \in 1 .. n + 1 : LsnOf[fs[i]] = b'.min_lsn
    <3>1. CASE LsnOf[h] = b'.min_lsn
      BY <3>1, <2>4
    <3>2. CASE LsnOf[h] # b'.min_lsn
      <4>1. b'.min_lsn = b.min_lsn /\ LsnOf[h] # b.min_lsn /\ ~(LsnOf[h] < b.min_lsn)
        BY <3>2, <2>5
      <4>2. PICK i \in 1 .. n : LsnOf[es[i]] = b.min_lsn
        BY <4>1, <2>1, <2>2, <2>8, SMTT(30)
      <4> QED
        BY <4>1, <4>2, <2>4
    <3> QED
      BY <3>1, <3>2
  <2>10. \E i \in 1 .. n + 1 : LsnOf[fs[i]] = b'.max_lsn
    <3>1. CASE LsnOf[h] = b'.max_lsn
      BY <3>1, <2>4
    <3>2. CASE LsnOf[h] # b'.max_lsn
      <4>1. b'.max_lsn = b.max_lsn /\ LsnOf[h] # b.max_lsn /\ ~(LsnOf[h] > b.max_lsn)
        BY <3>2, <2>5
      <4>2. PICK i \in 1 .. n : LsnOf[es[i]] = b.max_lsn
        BY <4>1, <2>1, <2>2, <2>8, SMTT(30)
      <4> QED
        BY <4>1, <4>2, <2>4, SMTT(30)
    <3> QED
      BY <3>1, <3>2
  <2>11. current_bytes' = b'.total_bytes /\ current_bytes' > 0
    BY <2>1, <2>2, <2>3, <2>5 DEF BatchSummary
  <2> QED
    BY <2>4, <2>5, <2>7, <2>9, <2>10, <2>11, Zenon DEF BatchSummary
<1>3. ASSUME HandOver PROVE BatchSummary'
  BY <1>3, EmptySeq DEF HandOver, MarkFlushed, BatchSummary, NewBatch
<1> QED
  BY <1>1, <1>2, <1>3
  DEF Next, TryPush, DrainStart, DrainDone, MaybeFlush, ForceFlush, Tick,
      vars, policyVars

(* The batch's bounds and byte counts are those of its events, and the     *)
(* policy's counter never drifts from the batch's.                         *)
THEOREM BatchSummaryHolds == Spec => []BatchSummary
<1>1. Init => BatchSummary
  BY EmptySeq DEF Init, BatchSummary, NewBatch
<1> QED
  BY <1>1, SummaryStep, TypeCorrect, PTL DEF Spec

(* The coordinator's and the policy's counters agree with each other and   *)
(* with the events that moved.                                             *)
THEOREM CountersAgreeHolds == Spec => []CountersAgree
<1>1. Init => CountersAgree
  BY EmptySeq DEF Init, CountersAgree, NewBatch
<1>2. TypeOK /\ CountersAgree /\ [Next]_vars => CountersAgree'
  <2> SUFFICES ASSUME TypeOK, CountersAgree, [Next]_vars
               PROVE  CountersAgree'
    OBVIOUS
  <2>0. /\ delivered \in Seq(Events) /\ current_batch.events \in Seq(Events)
        /\ Len(delivered) \in Nat /\ Len(current_batch.events) \in Nat
        /\ events_processed \in Nat /\ count \in Nat
        /\ flush_count \in Nat /\ batches_flushed \in Nat
    BY LenProperties DEF TypeOK, WriteBatch
  <2>1. ASSUME UNCHANGED <<events_processed, count, delivered, current_batch,
                           batches_flushed, flush_count>>
        PROVE  CountersAgree'
    BY <2>1 DEF CountersAgree
  <2>2. CASE DrainStart
    BY <2>0, <2>2 DEF DrainStart, CountersAgree, TypeOK, policyVars
  <2>3. CASE DrainPop
    <3>1. Len(current_batch'.events) = Len(current_batch.events) + 1
      BY <2>0, <2>3, HeadTailProperties, AppendProperties
      DEF DrainPop, BatchPush, TypeOK
    <3> QED
      BY <2>0, <2>3, <3>1, SMTT(30) DEF DrainPop, CountersAgree
  <2>4. CASE DrainDone
    BY <2>0, <2>4 DEF DrainDone, CountersAgree, policyVars
  <2>5. ASSUME HandOver, current_batch.events # <<>> PROVE CountersAgree'
    <3>1. Len(delivered') = Len(delivered) + Len(current_batch.events)
      BY <2>0, <2>5, ConcatProperties DEF HandOver
    <3>2. Len(current_batch.events) >= 1
      BY <2>0, <2>5, EmptySeq
    <3>3. Len(current_batch'.events) = 0
      BY <2>5, EmptySeq DEF HandOver, NewBatch
    <3> QED
      BY <2>0, <2>5, <3>1, <3>2, <3>3 DEF HandOver, MarkFlushed, CountersAgree
  <2> QED
    BY <2>1, <2>2, <2>3, <2>4, <2>5
    DEF Next, TryPush, MaybeFlush, ForceFlush, Tick, vars, policyVars
<1> QED
  BY <1>1, <1>2, TypeCorrect, PTL DEF Spec

-----------------------------------------------------------------------------
(* The pipeline implements EventLog: a push is an Accept, a flush delivers *)
(* a longer prefix of the accepted events, and every other step stutters.  *)
THEOREM PipelineImplementsEventLog == Spec => ImplementsEventLog
<1>1. Init => Log!Init
  BY DEF Init, Log!Init
<1>2. TypeOK /\ NoLossInOrder /\ [Next]_vars => [Log!Next]_(Log!vars)
  <2> SUFFICES ASSUME TypeOK, NoLossInOrder, [Next]_vars
               PROVE  [Log!Next]_(Log!vars)
    OBVIOUS
  <2>1. ASSUME UNCHANGED <<accepted, delivered>> PROVE [Log!Next]_(Log!vars)
    BY <2>1 DEF Log!vars
  <2>2. ASSUME NEW e \in Events, TryPush(e) PROVE [Log!Next]_(Log!vars)
    BY <2>1, <2>2 DEF TryPush, Log!Next, Log!Accept, vars
  <2>3. ASSUME HandOver, current_batch.events # <<>> PROVE [Log!Next]_(Log!vars)
    <3> DEFINE es == current_batch.events
               d == delivered \o es
               n == Len(d)
    <3>1. /\ ring \in Seq(Events) /\ accepted \in Seq(Events)
          /\ delivered \in Seq(Events) /\ es \in Seq(Events)
      BY DEF TypeOK, WriteBatch
    <3>2. /\ d \in Seq(Events) /\ n = Len(delivered) + Len(es) /\ n \in Nat
          /\ Len(d \o ring) = n + Len(ring) /\ Len(ring) \in Nat
      BY <3>1, ConcatProperties, LenProperties
    <3>3. Len(es) \in Nat \ {0} /\ Len(delivered) \in Nat
      BY <2>3, <3>1, EmptySeq, LenProperties
    <3>4. accepted = d \o ring
      BY DEF NoLossInOrder
    <3>5. SubSeq(d \o ring, 1, n) = SubSeq(d, 1, n)
      <4>1. 1 \in 1 .. n /\ n \in 1 .. n
        BY <3>2, <3>3
      <4> QED
        BY <3>1, <3>2, <4>1, SubSeqOfConcat1
    <3>6. SubSeq(d, 1, n) = d
      BY <3>2, SubSeqFull
    <3>7. n \in Len(delivered) + 1 .. Len(accepted)
      BY <3>2, <3>3, <3>4
    <3>8. delivered' = SubSeq(accepted, 1, n) /\ UNCHANGED accepted
      BY <2>3, <3>4, <3>5, <3>6 DEF HandOver
    <3> QED
      BY <3>7, <3>8 DEF Log!Next, Log!Deliver
  <2> QED
    BY <2>1, <2>2, <2>3
    DEF Next, DrainStart, DrainPop, DrainDone, MaybeFlush, ForceFlush, Tick, vars
<1> QED
  BY <1>1, <1>2, TypeCorrect, NothingLost, PTL DEF Spec, ImplementsEventLog, Log!Spec

-----------------------------------------------------------------------------
(* From PostgreSQL to the store.                                           *)

(* The events between PostgreSQL and the store, the oldest first. *)
Waiting == IF pending.written THEN <<>> ELSE pending.batch.events

Line == Waiting \o (current_batch.events \o ring)

(* Behind a change in line, and behind the cursor, no change of an earlier *)
(* transaction is missing.                                                 *)
Fifo(line, st) ==
    \A n \in 1 .. Len(line) : \A c \in Changes :
        c[1] < line[n][1] => Kept(st, c) \/ \E i \in 1 .. n - 1 : line[i] = c

Behind(c, cur) == c[1] < cur.txn \/ (c[1] = cur.txn /\ c[2] < cur.msg)

Reached(line, st, cur) ==
    \A c \in Changes :
        Behind(c, cur) => Kept(st, c) \/ \E i \in 1 .. Len(line) : line[i] = c

(* A batch is stored, and so is every transaction before it. *)
Settled(es, st) ==
    \A n \in 1 .. Len(es) :
        Kept(st, es[n]) /\ \A c \in Changes : c[1] < es[n][1] => Kept(st, c)

(* Every transaction that commits up to a position is stored. *)
Passed(lsn, st) == \A c \in Changes : Txns[c[1]].commit <= lsn => Kept(st, c)

-----------------------------------------------------------------------------
(* A set of natural numbers has a least element. *)
LEMMA Least ==
    ASSUME NEW T \in SUBSET Nat, T # {}
    PROVE  \E m \in T : \A k \in T : m <= k
<1> DEFINE R == {ss \in Nat \X Nat : ss[1] < ss[2]}
<1>1. IsWellFoundedOn(R, Nat)
  BY NatLessThanWellFounded, Zenon DEF OpToRel
<1>2. PICK m \in T : \A k \in T : ~(<<k, m>> \in R)
  <2> HIDE DEF R
  <2> QED  BY <1>1, WFMin, Zenon
<1>3. \A k \in Nat : k < m => <<k, m>> \in R
  OBVIOUS
<1>4. \A k \in T : ~(k < m)
  <2> HIDE DEF R
  <2> QED  BY <1>2, <1>3, Zenon
<1> QED  BY <1>4

(* A bounded one has a greatest. *)
LEMMA Greatest ==
    ASSUME NEW n \in Nat, NEW T \in SUBSET (0 .. n), T # {}
    PROVE  \E m \in T : \A k \in T : k <= m
<1> DEFINE D == {n - k : k \in T}
<1>1. D \in SUBSET Nat /\ D # {}
  <2>1. \A k \in T : n - k \in Nat
    OBVIOUS
  <2>2. PICK k \in T : TRUE
    BY Zenon
  <2>3. n - k \in D
    OBVIOUS
  <2> QED  BY <2>1, <2>3
<1>2. PICK d \in D : \A k \in D : d <= k
  <2> HIDE DEF D
  <2> QED  BY <1>1, Least
<1>3. PICK m \in T : d = n - m
  OBVIOUS
<1>4. \A k \in T : n - m <= n - k
  BY <1>2, <1>3, Zenon
<1> QED  BY <1>4

(* A change is a transaction and a place in it. *)
LEMMA ChangeFacts ==
    ASSUME NEW c \in Changes
    PROVE  /\ c[1] \in DOMAIN Txns /\ c[2] \in DOMAIN Txns[c[1]].changes
           /\ c[1] \in Nat \ {0} /\ c[2] \in Nat \ {0} /\ c[1] <= Len(Txns)
           /\ c[2] <= Len(Txns[c[1]].changes)
           /\ c = <<c[1], c[2]>> /\ c \in Events
<1>1. PICK t \in DOMAIN Txns : c \in {<<t, i>> : i \in DOMAIN Txns[t].changes}
  BY DEF Changes
<1>2. PICK i \in DOMAIN Txns[t].changes : c = <<t, i>>
  BY <1>1
<1>3. c[1] = t /\ c[2] = i
  BY <1>2
<1>4. t \in 1 .. Len(Txns) /\ i \in 1 .. Len(Txns[t].changes)
  BY IngestAssumption
<1> QED  BY <1>2, <1>3, <1>4, IngestAssumption

(* The sizes of the stream that the other lemmas need. *)
LEMMA HistoryFacts ==
    /\ Len(Txns) \in Nat /\ DOMAIN Txns = 1 .. Len(Txns)
    /\ LsnMax \in Nat /\ MaxRestarts \in Nat
    /\ \A t \in DOMAIN Txns : Txns[t].commit \in 0 .. LsnMax
BY IngestAssumption, PipelineAssumption

(* The change under the cursor is a change of the stream. *)
LEMMA ChangeInStream ==
    ASSUME NEW t \in DOMAIN Txns, NEW m \in DOMAIN Txns[t].changes
    PROVE  <<t, m>> \in Changes /\ <<t, m>> \in Events
<1>1. <<t, m>> \in Changes
  BY DEF Changes
<1> QED  BY <1>1, ChangeFacts

(* write_batch leaves under the key of every event of the batch, and under *)
(* every key that was taken, a change of that key.                         *)
LEMMA PutStores ==
    ASSUME NEW st, NEW es \in Seq(Events), NEW c \in Changes,
           Kept(st, c) \/ \E i \in 1 .. Len(es) : es[i] = c
    PROVE  Kept(S!Put(st, es), c)
<1> DEFINE key == S!MakeKey(c)
           written == {S!MakeKey(es[i]) : i \in DOMAIN es}
           T == {i \in DOMAIN es : S!MakeKey(es[i]) = key}
           Last(i) == /\ S!MakeKey(es[i]) = key
                      /\ \A j \in DOMAIN es : S!MakeKey(es[j]) = key => j <= i
           i0 == CHOOSE i \in DOMAIN es : Last(i)
<1>1. DOMAIN es = 1 .. Len(es) /\ Len(es) \in Nat /\ \A i \in DOMAIN es : es[i] \in Changes
  BY IngestAssumption, LenProperties, ElementOfSeq
<1>2. CASE key \in written
  <2>1. T # {} /\ T \in SUBSET (0 .. Len(es))
    BY <1>1, <1>2
  <2>2. PICK m \in T : \A k \in T : k <= m
    <3> HIDE DEF T
    <3> QED  BY <1>1, <2>1, Greatest, Zenon
  <2>3. m \in DOMAIN es /\ Last(m)
    BY <2>2
  <2>4. i0 \in DOMAIN es /\ Last(i0)
    <3> HIDE DEF Last
    <3> QED  BY <2>3
  <2>5. es[i0] \in Changes /\ S!MakeKey(es[i0]) = key
    BY <1>1, <2>4
  <2>6. S!Put(st, es)[key] = es[i0] /\ key \in DOMAIN S!Put(st, es)
    BY <1>2 DEF S!Put
  <2> QED  BY <2>5, <2>6 DEF S!Holds, Kept
<1>3. CASE key \notin written
  <2>1. PICK d \in Changes : S!MakeKey(d) = key /\ S!Holds(st, d)
    BY <1>1, <1>3 DEF Kept
  <2>2. key \in DOMAIN st /\ st[key] = d
    BY <2>1 DEF S!Holds
  <2>3. S!Put(st, es)[key] = st[key] /\ key \in DOMAIN S!Put(st, es)
    BY <1>3, <2>2 DEF S!Put
  <2> QED  BY <2>1, <2>2, <2>3 DEF S!Holds, Kept
<1> QED  BY <1>2, <1>3

-----------------------------------------------------------------------------
(* A change that PostgreSQL sends next takes its place in line. *)
LEMMA AppendInLine ==
    ASSUME NEW line \in Seq(Events), NEW st, NEW cur,
           NEW e \in Changes, e[1] = cur.txn, e[2] = cur.msg,
           Fifo(line, st), Reached(line, st, cur)
    PROVE  /\ Fifo(Append(line, e), st)
           /\ \A next : next.txn = cur.txn /\ next.msg = cur.msg + 1
                            => Reached(Append(line, e), st, next)
<1> DEFINE more == Append(line, e)
           n0 == Len(line)
<1>1. /\ n0 \in Nat /\ Len(more) = n0 + 1
      /\ \A i \in 1 .. n0 : more[i] = line[i]
      /\ more[n0 + 1] = e
  BY AppendProperties, ChangeFacts, LenProperties
<1> HIDE DEF more, n0
<1>2. Fifo(more, st)
  <2> SUFFICES ASSUME NEW n \in 1 .. Len(more), NEW c \in Changes, c[1] < more[n][1]
               PROVE  Kept(st, c) \/ \E i \in 1 .. n - 1 : more[i] = c
    BY DEF Fifo
  <2>1. CASE n = n0 + 1
    <3>1. Behind(c, cur)
      BY <1>1, <2>1 DEF Behind
    <3>2. Kept(st, c) \/ \E i \in 1 .. n0 : line[i] = c
      BY <3>1 DEF Reached, n0
    <3> QED  BY <1>1, <2>1, <3>2
  <2>2. CASE n # n0 + 1
    <3>1. n \in 1 .. n0 /\ more[n] = line[n]
      BY <1>1, <2>2
    <3>2. Kept(st, c) \/ \E i \in 1 .. n - 1 : line[i] = c
      BY <3>1 DEF Fifo, n0
    <3> QED  BY <1>1, <3>1, <3>2
  <2> QED  BY <2>1, <2>2
<1>3. ASSUME NEW next, next.txn = cur.txn, next.msg = cur.msg + 1,
             NEW c \in Changes, Behind(c, next)
      PROVE  Kept(st, c) \/ \E i \in 1 .. Len(more) : more[i] = c
  <2>1. CASE Behind(c, cur)
    <3>1. Kept(st, c) \/ \E i \in 1 .. n0 : line[i] = c
      BY <2>1 DEF Reached, n0
    <3> QED  BY <1>1, <3>1
  <2>2. CASE ~Behind(c, cur)
    <3>1. c[1] = e[1] /\ c[2] = e[2]
      BY <1>3, <2>2, ChangeFacts DEF Behind
    <3>2. c = e
      BY <3>1, ChangeFacts
    <3> QED  BY <1>1, <3>2
  <2> QED  BY <2>1, <2>2
<1>4. ASSUME NEW next, next.txn = cur.txn, next.msg = cur.msg + 1
      PROVE  Reached(more, st, next)
  BY <1>3, <1>4 DEF Reached
<1> QED  BY <1>2, <1>4 DEF more

(* The Commit of a transaction whose changes have all been sent. *)
LEMMA CommitInLine ==
    ASSUME NEW line, NEW st, NEW cur, NEW next, Reached(line, st, cur),
           cur.txn \in DOMAIN Txns, cur.msg \in Nat \ {0},
           cur.msg \notin DOMAIN Txns[cur.txn].changes,
           next.txn = cur.txn + 1, next.msg = 1
    PROVE  Reached(line, st, next)
<1>1. ASSUME NEW c \in Changes, Behind(c, next) PROVE Behind(c, cur)
  <2>1. c[1] \in Nat /\ c[2] \in Nat \ {0} /\ c[2] <= Len(Txns[c[1]].changes)
    BY ChangeFacts
  <2>2. cur.txn \in Nat /\ cur.msg > Len(Txns[cur.txn].changes) /\ Len(Txns[cur.txn].changes) \in Nat
    BY IngestAssumption
  <2> QED  BY <1>1, <2>1, <2>2, SMTT(30) DEF Behind
<1> QED  BY <1>1 DEF Reached

(* START_REPLICATION skips nothing but what the slot has passed. *)
LEMMA StartInLine ==
    ASSUME NEW line, NEW st, NEW lsn \in Nat, Passed(lsn, st)
    PROVE  /\ Reached(line, st, StartCursor(lsn))
           /\ StartCursor(lsn) \in [txn : 1 .. Len(Txns) + 1, msg : Nat \ {0}]
<1> DEFINE rest == {t \in DOMAIN Txns : Txns[t].commit > lsn}
           First(t) == \A u \in rest : t <= u
           cur == StartCursor(lsn)
<1>1. rest \in SUBSET Nat
  BY IngestAssumption
<1>2. cur = [txn |-> IF rest = {} THEN Len(Txns) + 1 ELSE CHOOSE t \in rest : First(t), msg |-> 1]
  BY DEF StartCursor
<1>3. /\ cur.msg = 1 /\ cur.txn \in 1 .. Len(Txns) + 1
      /\ \A u \in rest : cur.txn <= u
      /\ cur = [txn |-> cur.txn, msg |-> cur.msg]
  <2>1. CASE rest = {}
    <3> HIDE DEF rest, cur
    <3> QED  BY <1>2, <2>1, IngestAssumption
  <2>2. CASE rest # {}
    <3>1. PICK m \in rest : First(m)
      <4> HIDE DEF rest
      <4> QED  BY <1>1, <2>2, Least
    <3> DEFINE t0 == CHOOSE t \in rest : First(t)
    <3>2. t0 \in rest /\ First(t0)
      <4> HIDE DEF rest, First
      <4> QED  BY <3>1
    <3>3. t0 \in 1 .. Len(Txns) + 1
      BY <3>2, IngestAssumption
    <3>4. cur = [txn |-> t0, msg |-> 1]
      <4> HIDE DEF rest, First, cur
      <4> QED  BY <1>2, <2>2, Zenon
    <3> HIDE DEF rest, cur, t0
    <3> QED  BY <3>2, <3>3, <3>4
  <2> QED  BY <2>1, <2>2
<1>4. ASSUME NEW c \in Changes, Behind(c, cur) PROVE Kept(st, c)
  <2>1. c[1] \in DOMAIN Txns /\ c[1] \in Nat /\ c[2] \in Nat \ {0}
    BY ChangeFacts
  <2>2. c[1] < cur.txn
    <3> HIDE DEF rest, cur
    <3> QED  BY <1>3, <1>4, <2>1 DEF Behind
  <2>3. c[1] \notin rest
    <3> HIDE DEF rest, cur
    <3> QED  BY <1>3, <2>1, <2>2, IngestAssumption
  <2>4. Txns[c[1]].commit <= lsn
    BY <2>1, <2>3, IngestAssumption
  <2> QED  BY <2>4 DEF Passed
<1> HIDE DEF cur
<1>5. Reached(line, st, cur)
  BY <1>4 DEF Reached
<1>6. cur \in [txn : 1 .. Len(Txns) + 1, msg : Nat \ {0}]
  BY <1>3
<1> QED  BY <1>5, <1>6 DEF cur

(* write_batch takes the head of the line into the store. *)
LEMMA WriteInLine ==
    ASSUME NEW es \in Seq(Events), NEW rest \in Seq(Events), NEW st, NEW cur,
           Fifo(es \o rest, st), Reached(es \o rest, st, cur)
    PROVE  /\ Settled(es, S!Put(st, es))
           /\ Fifo(rest, S!Put(st, es)) /\ Reached(rest, S!Put(st, es), cur)
<1> DEFINE line == es \o rest
           m == Len(es)
           k == Len(rest)
           new == S!Put(st, es)
<1>1. /\ m \in Nat /\ k \in Nat /\ Len(line) = m + k
      /\ \A i \in 1 .. m : line[i] = es[i]
      /\ \A i \in 1 .. k : line[i + m] = rest[i]
      /\ \A i \in m + 1 .. m + k : line[i] = rest[i - m] /\ i - m \in 1 .. k
  BY ConcatProperties, LenProperties
<1>2. \A c \in Changes : Kept(st, c) \/ (\E i \in 1 .. m : es[i] = c) => Kept(new, c)
  BY PutStores
<1>3. \A i \in 1 .. m : es[i] \in Changes
  BY IngestAssumption, ElementOfSeq
<1>f. Fifo(line, st) /\ Reached(line, st, cur)
  OBVIOUS
<1> HIDE DEF line, m, k, new
<1>4. Settled(es, new)
  <2> SUFFICES ASSUME NEW n \in 1 .. m
               PROVE  Kept(new, es[n]) /\ \A c \in Changes : c[1] < es[n][1] => Kept(new, c)
    BY DEF Settled, m
  <2>1. n \in 1 .. Len(line) /\ line[n] = es[n]
    BY <1>1
  <2>2. ASSUME NEW c \in Changes, c[1] < es[n][1] PROVE Kept(new, c)
    <3>1. Kept(st, c) \/ \E i \in 1 .. n - 1 : line[i] = c
      BY <1>f, <2>1, <2>2, Zenon DEF Fifo
    <3>2. \A i \in 1 .. n - 1 : i \in 1 .. m /\ line[i] = es[i]
      BY <1>1
    <3> QED  BY <1>2, <3>1, <3>2
  <2> QED  BY <1>2, <1>3, <2>2
<1>5. Fifo(rest, new)
  <2> SUFFICES ASSUME NEW n \in 1 .. k, NEW c \in Changes, c[1] < rest[n][1]
               PROVE  Kept(new, c) \/ \E i \in 1 .. n - 1 : rest[i] = c
    BY DEF Fifo, k
  <2>1. n + m \in 1 .. Len(line) /\ line[n + m] = rest[n]
    BY <1>1
  <2>2. Kept(st, c) \/ \E i \in 1 .. (n + m) - 1 : line[i] = c
    BY <1>f, <2>1 DEF Fifo
  <2>3. ASSUME NEW i \in 1 .. (n + m) - 1, line[i] = c
        PROVE  Kept(new, c) \/ \E j \in 1 .. n - 1 : rest[j] = c
    <3>1. CASE i <= m
      <4>1. i \in 1 .. m /\ es[i] = c
        BY <1>1, <2>3, <3>1
      <4> QED  BY <1>2, <4>1
    <3>2. CASE i > m
      <4>1. i \in m + 1 .. m + k /\ i - m \in 1 .. n - 1
        BY <1>1, <3>2
      <4> QED  BY <1>1, <2>3, <4>1
    <3>3. i <= m \/ i > m
      BY <1>1
    <3> QED  BY <3>1, <3>2, <3>3, Zenon
  <2> QED  BY <1>2, <2>2, <2>3, Zenon
<1>6. Reached(rest, new, cur)
  <2> SUFFICES ASSUME NEW c \in Changes, Behind(c, cur)
               PROVE  Kept(new, c) \/ \E i \in 1 .. k : rest[i] = c
    BY DEF Reached, k
  <2>1. Kept(st, c) \/ \E i \in 1 .. Len(line) : line[i] = c
    BY <1>f DEF Reached
  <2>2. ASSUME NEW i \in 1 .. Len(line), line[i] = c
        PROVE  Kept(new, c) \/ \E j \in 1 .. k : rest[j] = c
    <3>1. CASE i <= m
      BY <1>1, <1>2, <2>2, <3>1
    <3>2. CASE i > m
      <4>1. i \in m + 1 .. m + k
        BY <1>1, <3>2
      <4> QED  BY <1>1, <2>2, <4>1, Zenon
    <3>3. i <= m \/ i > m
      BY <1>1
    <3> QED  BY <3>1, <3>2, <3>3, Zenon
  <2> QED  BY <1>2, <2>1, <2>2, Zenon
<1> QED  BY <1>4, <1>5, <1>6 DEF new

(* The largest LSN of a settled batch may be confirmed: the change that    *)
(* has it precedes its own transaction's commit, so a transaction that     *)
(* commits up to it is an earlier one.                                     *)
LEMMA ConfirmPassed ==
    ASSUME NEW es \in Seq(Events), NEW st, Settled(es, st), NEW n \in 1 .. Len(es)
    PROVE  Passed(LsnOf[es[n]], st)
<1>1. es[n] \in Changes
  BY IngestAssumption, ElementOfSeq
<1> SUFFICES ASSUME NEW c \in Changes, Txns[c[1]].commit <= LsnOf[es[n]]
             PROVE  Kept(st, c)
  BY DEF Passed
<1> DEFINE t == c[1]
           u == es[n][1]
<1>2. t \in DOMAIN Txns /\ t \in Nat /\ u \in DOMAIN Txns /\ u \in Nat
  BY <1>1, ChangeFacts
<1>3. LsnOf[es[n]] < Txns[u].commit /\ LsnOf[es[n]] \in Nat /\ Txns[u].commit \in Nat /\ Txns[t].commit \in Nat
  <2>1. LsnOf[es[n]] < Txns[u].commit
    BY <1>1, IngestAssumption, Zenon
  <2>2. LsnOf[es[n]] \in 0 .. LsnMax /\ LsnMax \in Nat
    BY <1>1, ChangeFacts, PipelineAssumption, Zenon
  <2>3. Txns[u].commit \in 1 .. LsnMax /\ Txns[t].commit \in 1 .. LsnMax
    BY <1>2, IngestAssumption, Zenon
  <2> QED  BY <2>1, <2>2, <2>3, SMTT(30)
<1>4. Txns[t].commit < Txns[u].commit
  BY <1>3
<1>5. t < u
  <2> HIDE DEF t, u
  <2>1. u < t => Txns[u].commit < Txns[t].commit
    BY <1>2, IngestAssumption, Zenon
  <2>2. u # t
    BY <1>3, <1>4
  <2> QED  BY <1>2, <1>3, <1>4, <2>1, <2>2, SMTT(30)
<1> QED  BY <1>5 DEF Settled

-----------------------------------------------------------------------------
(* Nothing in the pipeline is ahead of the received position. *)
Bounds ==
    /\ \A i \in 1 .. Len(ring) : LsnOf[ring[i]] <= received
    /\ current_batch.max_lsn <= received /\ pending.batch.max_lsn <= received
    /\ confirmed <= received

(* The batch the task holds: its max_lsn is the LSN of one of its events,  *)
(* and once written it is settled.                                         *)
Held ==
    LET es == pending.batch.events IN
    /\ es = <<>> => pending = NoBatch
    /\ es # <<>> => \E i \in 1 .. Len(es) : LsnOf[es[i]] = pending.batch.max_lsn
    /\ pending.written => Settled(es, store)

Flow == Fifo(Line, store) /\ Reached(Line, store, cursor)

Safe == Passed(confirmed, store) /\ Passed(slot, store)

(* The position acknowledged is safe because of the order of the line: the *)
(* inductive invariant.                                                    *)
IngestInv == IngestTypeOK /\ BatchSummary /\ Bounds /\ Held /\ Flow /\ Safe

(* The types the steps need. *)
LEMMA IngestTypes ==
    ASSUME IngestTypeOK
    PROVE  /\ TypeOK /\ ring \in Seq(Events) /\ Len(ring) \in Nat
           /\ current_batch \in WriteBatch /\ current_batch.events \in Seq(Events)
           /\ pending \in [batch : WriteBatch, written : BOOLEAN]
           /\ pending.batch \in WriteBatch /\ pending.batch.events \in Seq(Events)
           /\ current_batch.max_lsn \in 0 .. LsnMax /\ pending.batch.max_lsn \in 0 .. LsnMax
           /\ Waiting \in Seq(Events) /\ Line \in Seq(Events)
           /\ received \in Nat /\ confirmed \in Nat /\ slot \in Nat /\ LsnMax \in Nat
           /\ \A e \in Events : LsnOf[e] \in 0 .. LsnMax
<1>1. /\ TypeOK /\ ring \in Seq(Events) /\ current_batch \in WriteBatch
      /\ pending \in [batch : WriteBatch, written : BOOLEAN]
  BY DEF IngestTypeOK, TypeOK
<1>2. /\ current_batch.events \in Seq(Events) /\ current_batch.max_lsn \in 0 .. LsnMax
      /\ pending.batch.events \in Seq(Events) /\ pending.batch.max_lsn \in 0 .. LsnMax
      /\ pending.batch \in WriteBatch
  BY <1>1 DEF WriteBatch
<1>3. Waiting \in Seq(Events)
  BY <1>2, EmptySeq DEF Waiting
<1>4. Line \in Seq(Events)
  BY <1>1, <1>2, <1>3, ConcatProperties DEF Line
<1>5. received \in Nat /\ confirmed \in Nat /\ slot \in Nat /\ LsnMax \in Nat
  BY PipelineAssumption DEF IngestTypeOK
<1> QED  BY <1>1, <1>2, <1>3, <1>4, <1>5, LenProperties, PipelineAssumption, SMTT(30)

(* While the task holds no batch the line is the batch and the ring. *)
LEMMA LineWithoutBatch ==
    ASSUME IngestTypeOK, pending = NoBatch
    PROVE  Line = current_batch.events \o ring
<1>1. Waiting = <<>>
  BY DEF Waiting, NoBatch, NewBatch
<1>2. current_batch.events \o ring \in Seq(Events)
  BY IngestTypes, ConcatProperties
<1> QED  BY <1>1, <1>2, ConcatEmptySeq DEF Line

(* AckManager's positions only grow. *)
LEMMA ReceivedGrows ==
    ASSUME IngestTypeOK, NEW lsn \in 0 .. LsnMax, AdvanceReceived(lsn)
    PROVE  /\ received' \in 0 .. LsnMax /\ dirty' \in BOOLEAN
           /\ received <= received' /\ lsn <= received'
<1>1. received \in 0 .. LsnMax /\ dirty \in BOOLEAN /\ LsnMax \in Nat
  BY IngestTypes DEF IngestTypeOK
<1>2. CASE lsn > received
  BY <1>1, <1>2 DEF AdvanceReceived
<1>3. CASE ~(lsn > received)
  BY <1>1, <1>3 DEF AdvanceReceived
<1> QED  BY <1>2, <1>3

-----------------------------------------------------------------------------
(* A change is received: it joins the line behind all that precedes it. *)
LEMMA ReceiveChangeStep == ASSUME IngestInv, ReceiveChange PROVE IngestInv'
<1> DEFINE e == <<cursor.txn, cursor.msg>>
<1>0. IngestTypeOK /\ BatchSummary /\ Bounds /\ Held /\ Flow /\ Safe
  BY SMTT(30) DEF IngestInv
<1>1. e \in Changes /\ e \in Events /\ e[1] = cursor.txn /\ e[2] = cursor.msg
  BY ChangeInStream, Zenon DEF ReceiveChange
<1>2. TryPush(e) /\ AdvanceReceived(LsnOf[e])
  BY DEF ReceiveChange
<1>3. ring' = Append(ring, e) /\ current_batch' = current_batch
  BY <1>2 DEF TryPush, ReceiveChange
<1>4. UNCHANGED <<confirmed, slot, pending, store, restarts>> /\ cursor' = [cursor EXCEPT !.msg = @ + 1]
  BY DEF ReceiveChange
<1>5. LsnOf[e] \in 0 .. LsnMax
  BY <1>1, PipelineAssumption
<1> HIDE DEF e
<1>6. TypeOK' /\ BatchSummary'
  BY <1>0, <1>1, <1>2, TypeStep, SummaryStep, IngestTypes DEF Next
<1>7. /\ received' \in 0 .. LsnMax /\ dirty' \in BOOLEAN
      /\ received <= received' /\ LsnOf[e] <= received'
  BY <1>0, <1>2, <1>5, ReceivedGrows
<1>8. /\ cursor' \in [txn : 1 .. Len(Txns) + 1, msg : Nat \ {0}]
      /\ cursor'.txn = cursor.txn /\ cursor'.msg = cursor.msg + 1
  BY <1>0, <1>4 DEF IngestTypeOK
<1>9. IngestTypeOK'
  BY <1>0, <1>4, <1>6, <1>7, <1>8 DEF IngestTypeOK
<1>10. Line' = Append(Line, e)
  <2>1. Waiting' = Waiting
    BY <1>4 DEF Waiting
  <2>2. current_batch.events \o Append(ring, e) = Append(current_batch.events \o ring, e)
    BY <1>0, <1>1, IngestTypes, AppendOfConcat, Zenon
  <2>3. current_batch.events \o ring \in Seq(Events)
    BY <1>0, IngestTypes, ConcatProperties
  <2>4. Waiting \o Append(current_batch.events \o ring, e) = Append(Waiting \o (current_batch.events \o ring), e)
    BY <1>0, <1>1, <2>3, IngestTypes, AppendOfConcat, Zenon
  <2> QED  BY <1>3, <2>1, <2>2, <2>4 DEF Line
<1>11. Flow'
  <2>1. Line \in Seq(Events) /\ Fifo(Line, store) /\ Reached(Line, store, cursor)
    BY <1>0, IngestTypes DEF Flow
  <2>2. Fifo(Append(Line, e), store) /\ Reached(Append(Line, e), store, cursor')
    BY <1>1, <1>8, <2>1, AppendInLine, Zenon
  <2> QED  BY <1>4, <1>10, <2>2 DEF Flow
<1>12. Bounds'
  <2>1. \A i \in 1 .. Len(ring') : ring'[i] \in Events /\ LsnOf[ring'[i]] \in Nat /\ LsnOf[ring'[i]] <= received'
    <3>1. /\ Len(ring') = Len(ring) + 1 /\ \A i \in 1 .. Len(ring) : ring'[i] = ring[i]
          /\ ring'[Len(ring) + 1] = e /\ Len(ring) \in Nat
      BY <1>0, <1>1, <1>3, AppendProperties, IngestTypes, SMTT(30)
    <3>2. \A i \in 1 .. Len(ring) : ring[i] \in Events /\ LsnOf[ring[i]] \in Nat /\ LsnOf[ring[i]] <= received
      BY <1>0, IngestTypes, ElementOfSeq, SMTT(30) DEF Bounds
    <3>3. received \in Nat /\ received' \in Nat
      BY <1>0, <1>7, IngestTypes
    <3>4. \A i \in 1 .. Len(ring) : LsnOf[ring'[i]] <= received'
      BY <1>7, <3>1, <3>2, <3>3
    <3> QED  BY <1>1, <1>5, <1>7, <3>1, <3>2, <3>4
  <2>2. /\ current_batch.max_lsn <= received' /\ pending.batch.max_lsn <= received'
        /\ confirmed <= received'
    BY <1>0, <1>7, IngestTypes, SMTT(30) DEF Bounds
  <2> QED  BY <1>3, <1>4, <2>1, <2>2 DEF Bounds
<1>13. Held' /\ Safe'
  BY <1>0, <1>4 DEF Held, Safe
<1> QED  BY <1>6, <1>9, <1>11, <1>12, <1>13 DEF IngestInv

(* A commit is received: the next transaction is due. *)
LEMMA ReceiveCommitStep == ASSUME IngestInv, ReceiveCommit PROVE IngestInv'
<1>0. IngestTypeOK /\ BatchSummary /\ Bounds /\ Held /\ Flow /\ Safe
  BY DEF IngestInv
<1>1. UNCHANGED <<vars, confirmed, slot, pending, store, restarts>>
  BY DEF ReceiveCommit
<1>2. TypeOK' /\ BatchSummary'
  BY <1>0, <1>1, TypeStep, SummaryStep, IngestTypes
<1>3. ring' = ring /\ current_batch' = current_batch
  BY <1>1, SMTT(30) DEF vars
<1>4. Txns[cursor.txn].commit \in 0 .. LsnMax
  BY HistoryFacts, Zenon DEF ReceiveCommit
<1>5. received' \in 0 .. LsnMax /\ dirty' \in BOOLEAN /\ received <= received'
  BY <1>0, <1>4, ReceivedGrows, Zenon DEF ReceiveCommit
<1>6. cursor' \in [txn : 1 .. Len(Txns) + 1, msg : Nat \ {0}]
  <2>1. cursor.txn \in DOMAIN Txns /\ cursor' = [txn |-> cursor.txn + 1, msg |-> 1]
    BY Zenon DEF ReceiveCommit
  <2> QED  BY <2>1, HistoryFacts
<1>7. IngestTypeOK'
  BY <1>0, <1>1, <1>2, <1>5, <1>6 DEF IngestTypeOK
<1>8. Line' = Line
  BY <1>1, <1>3, SMTT(30) DEF Line, Waiting
<1>9. Reached(Line, store, cursor')
  <2>1. /\ cursor.txn \in DOMAIN Txns /\ cursor.msg \in Nat \ {0}
        /\ cursor.msg \notin DOMAIN Txns[cursor.txn].changes
        /\ cursor'.txn = cursor.txn + 1 /\ cursor'.msg = 1
    BY <1>0, Zenon DEF ReceiveCommit, IngestTypeOK
  <2> QED  BY <1>0, <2>1, CommitInLine, Zenon DEF Flow
<1>10. Flow'
  BY <1>0, <1>1, <1>8, <1>9 DEF Flow
<1>11. Bounds'
  <2>1. \A i \in 1 .. Len(ring) : LsnOf[ring[i]] \in Nat /\ LsnOf[ring[i]] <= received
    BY <1>0, IngestTypes, ElementOfSeq, SMTT(30) DEF Bounds
  <2>2. received \in Nat /\ received' \in Nat
    BY <1>0, <1>5, IngestTypes
  <2>3. \A i \in 1 .. Len(ring) : LsnOf[ring[i]] <= received'
    BY <1>5, <2>1, <2>2
  <2>4. /\ current_batch.max_lsn <= received' /\ pending.batch.max_lsn <= received'
        /\ confirmed <= received'
    BY <1>0, <1>5, IngestTypes, SMTT(30) DEF Bounds
  <2> QED  BY <1>1, <1>3, <2>3, <2>4, SMTT(30) DEF Bounds
<1>12. Held' /\ Safe'
  BY <1>0, <1>1, Zenon DEF Held, Safe
<1> QED  BY <1>2, <1>7, <1>10, <1>11, <1>12 DEF IngestInv

(* drain_ring moves the head of the ring to the end of the batch: the line *)
(* is what it was.                                                         *)
LEMMA DrainStep == ASSUME IngestInv, Drain PROVE IngestInv'
<1>0. IngestTypeOK /\ BatchSummary /\ Bounds /\ Held /\ Flow /\ Safe
  BY DEF IngestInv
<1>1. pending = NoBatch /\ (DrainStart \/ DrainPop \/ DrainDone)
  BY DEF Drain
<1>2. UNCHANGED <<cursor, received, confirmed, dirty, slot, pending, store, restarts>>
  BY DEF Drain, restVars, ackVars
<1>3. TypeOK' /\ BatchSummary'
  BY <1>0, <1>1, TypeStep, SummaryStep, IngestTypes DEF Next
<1>4. IngestTypeOK'
  BY <1>0, <1>2, <1>3, SMTT(30) DEF IngestTypeOK
<1>5. Held' /\ Safe'
  BY <1>0, <1>2, Zenon DEF Held, Safe
<1>6. CASE DrainPop
  <2>1. /\ ring \in Seq(Events) /\ ring # <<>> /\ ring' = Tail(ring)
        /\ current_batch' = BatchPush(current_batch, Head(ring))
    BY <1>0, <1>6, IngestTypes DEF DrainPop
  <2>2. current_batch'.events = Append(current_batch.events, Head(ring))
    BY <2>1 DEF BatchPush
  <2>3. Line' = Line
    <3>1. Line' = current_batch'.events \o ring'
      <4>1. Waiting' = <<>>
        BY <1>1, <1>2 DEF Waiting, NoBatch, NewBatch
      <4>2. current_batch'.events \in Seq(Events) /\ ring' \in Seq(Events)
        BY <1>3 DEF TypeOK, WriteBatch
      <4>3. current_batch'.events \o ring' \in Seq(Events)
        BY <4>2, ConcatProperties
      <4> QED  BY <4>1, <4>3, ConcatEmptySeq DEF Line
    <3>2. Line = current_batch.events \o ring
      BY <1>0, <1>1, LineWithoutBatch
    <3> QED  BY <1>0, <2>1, <2>2, <3>1, <3>2, IngestTypes, MoveHead, ZenonT(60)
  <2>4. /\ Head(ring) = ring[1] /\ 1 \in 1 .. Len(ring) /\ Len(ring') = Len(ring) - 1 /\ Len(ring) \in Nat
        /\ \A i \in 1 .. Len(ring') : ring'[i] = ring[i + 1]
    BY <2>1, HeadTailProperties, LenProperties
  <2>5. \A i \in 1 .. Len(ring') : LsnOf[ring'[i]] <= received
    BY <1>0, <2>4 DEF Bounds
  <2>6. LsnOf[Head(ring)] <= received
    BY <1>0, <2>4, SMTT(30) DEF Bounds
  <2>7. current_batch'.max_lsn <= received
    BY <1>0, <2>1, <2>6, Zenon DEF Bounds, BatchPush
  <2>8. Bounds' /\ Flow'
    BY <1>0, <1>2, <2>3, <2>5, <2>7, Zenon DEF Bounds, Flow
  <2> QED  BY <1>3, <1>4, <1>5, <2>8 DEF IngestInv
<1>7. CASE DrainStart \/ DrainDone
  <2>1. ring' = ring /\ current_batch' = current_batch
    BY <1>7 DEF DrainStart, DrainDone
  <2>2. Line' = Line
    BY <1>2, <2>1 DEF Line, Waiting
  <2>3. Bounds' /\ Flow'
    BY <1>0, <1>2, <2>1, <2>2, Zenon DEF Bounds, Flow
  <2> QED  BY <1>3, <1>4, <1>5, <2>3 DEF IngestInv
<1> QED  BY <1>1, <1>6, <1>7

(* A flush hands the batch to the task: the line is what it was. *)
LEMMA FlushStep == ASSUME IngestInv, FlushIfDue \/ FlushForced PROVE IngestInv'
<1>0. IngestTypeOK /\ BatchSummary /\ Bounds /\ Held /\ Flow /\ Safe
  BY DEF IngestInv
<1>1. /\ pending = NoBatch /\ delivered' # delivered
      /\ pending' = [batch |-> current_batch, written |-> FALSE]
      /\ UNCHANGED <<cursor, received, confirmed, dirty, slot, store, restarts>>
  BY Zenon DEF FlushIfDue, FlushForced, TakeBatch, ackVars
<1>2. HandOver /\ current_batch.events # <<>>
  BY <1>1 DEF FlushIfDue, FlushForced, MaybeFlush, ForceFlush, vars
<1>3. TypeOK' /\ BatchSummary'
  BY <1>0, TypeStep, SummaryStep, IngestTypes DEF Next, FlushIfDue, FlushForced
<1>4. ring' = ring /\ current_batch' = NewBatch
  BY <1>2 DEF HandOver
<1>5. pending' \in [batch : WriteBatch, written : BOOLEAN]
  BY <1>0, <1>1, IngestTypes
<1>6. IngestTypeOK'
  BY <1>0, <1>1, <1>3, <1>5, Zenon DEF IngestTypeOK
<1>7. Line' = Line
  <2>1. Waiting' = current_batch.events /\ current_batch'.events = <<>>
    BY <1>1, <1>4, Zenon DEF Waiting, NewBatch
  <2>2. <<>> \o ring = ring
    BY <1>0, IngestTypes, ConcatEmptySeq
  <2>3. Line' = current_batch.events \o ring
    BY <1>4, <2>1, <2>2, SMTT(30) DEF Line
  <2> QED  BY <1>0, <1>1, <2>3, LineWithoutBatch, SMTT(30)
<1>8. Bounds'
  <2>1. NewBatch.max_lsn <= received
    BY <1>0, IngestTypes, SMTT(30) DEF NewBatch
  <2> QED  BY <1>0, <1>1, <1>4, <2>1, Zenon DEF Bounds
<1>9. Held'
  <2>1. \E i \in 1 .. Len(current_batch.events) : LsnOf[current_batch.events[i]] = current_batch.max_lsn
    BY <1>0, <1>2, Zenon DEF BatchSummary
  <2> QED  BY <1>1, <1>2, <2>1, Zenon DEF Held
<1>10. Flow' /\ Safe'
  BY <1>0, <1>1, <1>7 DEF Flow, Safe
<1> QED  BY <1>3, <1>6, <1>8, <1>9, <1>10 DEF IngestInv

(* write_batch: what is stored stays stored, and the batch is settled. *)
LEMMA WriteStep == ASSUME IngestInv, WriteBatchToStore PROVE IngestInv'
<1>0. IngestTypeOK /\ BatchSummary /\ Bounds /\ Held /\ Flow /\ Safe
  BY DEF IngestInv
<1> DEFINE es == pending.batch.events
           rest == current_batch.events \o ring
<1>1. /\ ~pending.written /\ pending # NoBatch /\ store' = S!Put(store, es)
      /\ pending' = [pending EXCEPT !.written = TRUE]
      /\ UNCHANGED <<vars, cursor, received, confirmed, dirty, slot, restarts>>
  BY DEF WriteBatchToStore, ackVars
<1>2. es \in Seq(Events) /\ rest \in Seq(Events)
  BY <1>0, IngestTypes, ConcatProperties
<1>3. TypeOK' /\ BatchSummary'
  BY <1>0, <1>1, TypeStep, SummaryStep, IngestTypes
<1>4. ring' = ring /\ current_batch' = current_batch
  BY <1>1 DEF vars
<1>5. /\ pending' \in [batch : WriteBatch, written : BOOLEAN]
      /\ pending'.batch = pending.batch /\ pending'.written = TRUE
  BY <1>0, <1>1, IngestTypes, Zenon
<1>6. DOMAIN store' \subseteq {S!MakeKey(e) : e \in Events}
  <2>1. \A i \in DOMAIN es : es[i] \in Events
    BY <1>2, ElementOfSeq, LenProperties
  <2>2. DOMAIN store' = DOMAIN store \cup {S!MakeKey(es[i]) : i \in DOMAIN es}
    BY <1>1 DEF S!Put
  <2> HIDE DEF es
  <2> QED  BY <1>0, <2>1, <2>2, Zenon DEF IngestTypeOK
<1>7. IngestTypeOK'
  BY <1>0, <1>1, <1>3, <1>5, <1>6, SMTT(30) DEF IngestTypeOK
<1>8. Line = es \o rest
  BY <1>1, Zenon DEF Line, Waiting
<1>9. Line' = rest
  <2>1. Waiting' = <<>>
    BY <1>5 DEF Waiting
  <2> QED  BY <1>2, <1>4, <2>1, ConcatEmptySeq DEF Line
<1>10. Settled(es, store') /\ Fifo(rest, store') /\ Reached(rest, store', cursor)
  <2> HIDE DEF es, rest
  <2> QED  BY <1>0, <1>1, <1>2, <1>8, WriteInLine DEF Flow
<1>11. \A c \in Changes : Kept(store, c) => Kept(store', c)
  BY <1>1, <1>2, PutStores
<1>12. Safe'
  BY <1>0, <1>1, <1>11, SMTT(30) DEF Safe, Passed
<1>13. Held'
  <2>1. es # <<>>
    BY <1>0, <1>1 DEF Held
  <2> QED  BY <1>0, <1>5, <1>10, <2>1, Zenon DEF Held
<1>14. Bounds'
  BY <1>0, <1>1, <1>4, <1>5 DEF Bounds
<1>15. Flow'
  BY <1>1, <1>9, <1>10 DEF Flow
<1> QED  BY <1>3, <1>7, <1>12, <1>13, <1>14, <1>15 DEF IngestInv

(* A written batch is confirmed by its largest LSN. *)
LEMMA ConfirmStep == ASSUME IngestInv, ConfirmBatch PROVE IngestInv'
<1>0. IngestTypeOK /\ BatchSummary /\ Bounds /\ Held /\ Flow /\ Safe
  BY DEF IngestInv
<1> DEFINE es == pending.batch.events
           top == pending.batch.max_lsn
<1>1. /\ pending.written /\ pending # NoBatch /\ pending' = NoBatch
      /\ AdvanceConfirmed(top)
      /\ UNCHANGED <<vars, cursor, received, slot, store, restarts>>
  BY DEF ConfirmBatch
<1>2. TypeOK' /\ BatchSummary'
  BY <1>0, <1>1, TypeStep, SummaryStep, IngestTypes
<1>3. ring' = ring /\ current_batch' = current_batch
  BY <1>1 DEF vars
<1>4. /\ confirmed' \in 0 .. LsnMax /\ dirty' \in BOOLEAN
      /\ confirmed' = confirmed \/ confirmed' = top
  <2>1. CASE top > confirmed
    BY <1>0, <1>1, <2>1, IngestTypes, ZenonT(60) DEF AdvanceConfirmed
  <2>2. CASE ~(top > confirmed)
    BY <1>0, <1>1, <2>2 DEF AdvanceConfirmed, IngestTypeOK
  <2> QED  BY <2>1, <2>2
<1>5. pending' \in [batch : WriteBatch, written : BOOLEAN]
  BY <1>1, NewBatchType DEF NoBatch
<1>6. IngestTypeOK'
  BY <1>0, <1>1, <1>2, <1>4, <1>5 DEF IngestTypeOK
<1>7. Line' = Line
  <2>1. Waiting = <<>> /\ Waiting' = <<>>
    BY <1>1, Zenon DEF Waiting, NoBatch, NewBatch
  <2> QED  BY <1>3, <2>1 DEF Line
<1>8. Passed(top, store)
  <2>1. es \in Seq(Events) /\ Settled(es, store) /\ es # <<>>
    BY <1>0, <1>1, IngestTypes, SMTT(30) DEF Held
  <2>2. PICK n \in 1 .. Len(es) : LsnOf[es[n]] = top
    BY <1>0, <2>1 DEF Held
  <2>3. Passed(LsnOf[es[n]], store)
    <3> HIDE DEF es
    <3> QED  BY <2>1, ConfirmPassed
  <2> QED  BY <2>2, <2>3
<1>9. Safe'
  <2>1. Passed(confirmed', store)
    BY <1>0, <1>4, <1>8, SMTT(30) DEF Safe
  <2> QED  BY <1>0, <1>1, <2>1 DEF Safe
<1>10. Bounds'
  <2>1. confirmed' <= received
    BY <1>0, <1>4 DEF Bounds
  <2>2. NewBatch.max_lsn <= received
    BY <1>0, IngestTypes, SMTT(30) DEF NewBatch
  <2> QED  BY <1>0, <1>1, <1>3, <2>1, <2>2, Zenon DEF Bounds, NoBatch
<1>11. Held' /\ Flow'
  BY <1>0, <1>1, <1>7, Zenon DEF Held, Flow, NoBatch, NewBatch
<1> QED  BY <1>2, <1>6, <1>9, <1>10, <1>11 DEF IngestInv

(* A status update, a tick, a lost connection and a stuttering step leave  *)
(* the pipeline and the store alone.                                       *)
LEMMA OutsideStep ==
    ASSUME IngestInv, SendStatus \/ PassTime \/ Reconnect \/ UNCHANGED ivars
    PROVE  IngestInv'
<1>0. IngestTypeOK /\ BatchSummary /\ Bounds /\ Held /\ Flow /\ Safe
  BY Zenon DEF IngestInv
<1>1. /\ ring' = ring /\ current_batch' = current_batch /\ [Next]_vars
      /\ UNCHANGED <<received, confirmed, pending, store>>
  BY Zenon DEF SendStatus, PassTime, Tick, Reconnect, ivars, vars, restVars, ackVars, Next
<1>2. TypeOK' /\ BatchSummary'
  BY <1>0, <1>1, TypeStep, SummaryStep, IngestTypes
<1>3. Line' = Line
  BY <1>1, SMTT(30) DEF Line, Waiting
<1>4. Bounds' /\ Held'
  BY <1>0, <1>1, Zenon DEF Bounds, Held
<1>5. CASE SendStatus
  <2>1. slot' = slot \/ slot' = confirmed
    BY <1>5 DEF SendStatus
  <2>2. dirty' = FALSE /\ UNCHANGED <<cursor, restarts>>
    BY <1>5 DEF SendStatus
  <2>3. IngestTypeOK'
    BY <1>0, <1>1, <1>2, <2>1, <2>2, ZenonT(60) DEF IngestTypeOK
  <2>4. Safe' /\ Flow'
    BY <1>0, <1>1, <1>3, <2>1, <2>2, SMTT(30) DEF Safe, Flow
  <2> QED  BY <1>2, <1>4, <2>3, <2>4 DEF IngestInv
<1>6. CASE Reconnect
  <2>1. /\ cursor' = StartCursor(slot) /\ UNCHANGED <<dirty, slot>>
        /\ restarts' = restarts + 1 /\ restarts < MaxRestarts
    BY <1>6 DEF Reconnect, ackVars
  <2>2. /\ Reached(Line, store, StartCursor(slot))
        /\ StartCursor(slot) \in [txn : 1 .. Len(Txns) + 1, msg : Nat \ {0}]
    BY <1>0, IngestTypes, StartInLine, Zenon DEF Safe
  <2>3. restarts' \in 0 .. MaxRestarts
    BY <1>0, <2>1, HistoryFacts, SMTT(30) DEF IngestTypeOK
  <2>4. IngestTypeOK'
    BY <1>0, <1>1, <1>2, <2>1, <2>2, <2>3, Zenon DEF IngestTypeOK
  <2>5. Safe' /\ Flow'
    BY <1>0, <1>1, <1>3, <2>1, <2>2 DEF Safe, Flow
  <2> QED  BY <1>2, <1>4, <2>4, <2>5 DEF IngestInv
<1>7. CASE PassTime \/ UNCHANGED ivars
  <2>1. UNCHANGED <<cursor, dirty, slot, restarts>>
    BY <1>7 DEF PassTime, ivars, restVars, ackVars
  <2>2. IngestTypeOK' /\ Safe' /\ Flow'
    BY <1>0, <1>1, <1>2, <1>3, <2>1, Zenon DEF IngestTypeOK, Safe, Flow
  <2> QED  BY <1>2, <1>4, <2>2 DEF IngestInv
<1> QED  BY <1>5, <1>6, <1>7

(* An empty pipeline, at the start and after a crash: only the store and   *)
(* the slot remain.                                                        *)
Fresh ==
    /\ Init
    /\ cursor = StartCursor(slot) /\ received = 0 /\ confirmed = 0 /\ dirty = FALSE
    /\ pending = NoBatch /\ slot \in 0 .. LsnMax /\ restarts \in 0 .. MaxRestarts
    /\ DOMAIN store \subseteq {S!MakeKey(e) : e \in Events} /\ Passed(slot, store)

(* It satisfies the invariant. *)
LEMMA FreshStart == Fresh => IngestInv
<1> SUFFICES ASSUME Fresh PROVE IngestInv
  OBVIOUS
<1> USE DEF Fresh
<1>0. ring = <<>> /\ current_batch = NewBatch /\ current_bytes = 0
  BY DEF Init
<1>1. TypeOK
  BY TypeInit
<1>2. BatchSummary
  BY <1>0, EmptySeq DEF BatchSummary, NewBatch
<1>3. slot \in Nat /\ 0 \in 0 .. LsnMax
  BY PipelineAssumption
<1>4. /\ Reached(<<>>, store, cursor)
      /\ cursor \in [txn : 1 .. Len(Txns) + 1, msg : Nat \ {0}]
  BY <1>3, StartInLine
<1>5. pending \in [batch : WriteBatch, written : BOOLEAN]
  BY NewBatchType DEF NoBatch
<1>6. IngestTypeOK
  BY <1>1, <1>3, <1>4, <1>5, ZenonT(60) DEF IngestTypeOK
<1>7. Line = <<>>
  <2>1. Waiting = <<>> /\ current_batch.events = <<>>
    BY <1>0, Zenon DEF Waiting, NoBatch, NewBatch
  <2>2. <<>> \in Seq(Events) /\ <<>> \o <<>> = <<>>
    BY EmptySeq, ConcatEmptySeq
  <2> QED  BY <1>0, <2>1, <2>2 DEF Line
<1>8. Flow
  BY <1>4, <1>7, EmptySeq, SMTT(30) DEF Flow, Fifo
<1>9. Safe
  <2>1. \A c \in Changes : ~(Txns[c[1]].commit <= 0)
    BY ChangeFacts, IngestAssumption, SMTT(30)
  <2> QED  BY <2>1, Zenon DEF Safe, Passed
<1>10. Held
  BY Zenon DEF Held, NoBatch, NewBatch
<1>11. Bounds
  BY <1>0, EmptySeq DEF Bounds, NoBatch, NewBatch
<1> QED  BY <1>2, <1>6, <1>8, <1>9, <1>10, <1>11 DEF IngestInv

(* The invariant holds from the start. *)
LEMMA IngestStart == IngestInit => IngestInv
<1> SUFFICES ASSUME IngestInit PROVE IngestInv
  OBVIOUS
<1>1. \A c \in Changes : ~(Txns[c[1]].commit <= 0)
  BY ChangeFacts, IngestAssumption, SMTT(30)
<1>2. Passed(slot, store) /\ slot \in 0 .. LsnMax /\ restarts \in 0 .. MaxRestarts
  <2>1. slot = 0 /\ restarts = 0
    BY Zenon DEF IngestInit
  <2> QED  BY <1>1, <2>1, HistoryFacts DEF Passed
<1>3. DOMAIN store = {}
  BY DEF IngestInit, S!Empty
<1> QED  BY <1>2, <1>3, FreshStart DEF IngestInit, Fresh

(* A crash leaves the store and PostgreSQL's slot. *)
LEMMA CrashStep == ASSUME IngestInv, Crash PROVE IngestInv'
<1>0. IngestTypeOK /\ Safe
  BY SMTT(30) DEF IngestInv
<1>1. slot' \in 0 .. LsnMax /\ restarts' \in 0 .. MaxRestarts
  <2>1. slot' = slot /\ restarts < MaxRestarts /\ restarts' = restarts + 1
    BY DEF Crash
  <2>2. slot \in 0 .. LsnMax /\ restarts \in 0 .. MaxRestarts
    BY <1>0 DEF IngestTypeOK
  <2>3. MaxRestarts \in Nat
    BY IngestAssumption, Zenon
  <2> QED  BY <2>1, <2>2, <2>3
<1>2. DOMAIN store' \subseteq {S!MakeKey(e) : e \in Events} /\ Passed(slot', store')
  BY <1>0 DEF IngestTypeOK, Safe, Crash
<1>3. /\ Init' /\ cursor' = StartCursor(slot') /\ received' = 0 /\ confirmed' = 0
      /\ dirty' = FALSE /\ pending' = NoBatch
  BY DEF Crash, Init
<1>4. Fresh'
  BY <1>1, <1>2, <1>3 DEF Fresh
<1> QED  BY <1>4, FreshStart, PTL

(* Every step keeps the invariant. *)
LEMMA IngestStep == IngestInv /\ [IngestNext]_ivars => IngestInv'
BY ReceiveChangeStep, ReceiveCommitStep, DrainStep, FlushStep, WriteStep, ConfirmStep,
   OutsideStep, CrashStep DEF IngestNext

-----------------------------------------------------------------------------
(* Through crashes and reconnects the positions, the batch in hand and the *)
(* store keep their types.                                                 *)
THEOREM IngestTypeCorrect == IngestSpec => []IngestTypeOK
<1>1. IngestInv => IngestTypeOK
  BY SMTT(30) DEF IngestInv
<1> QED  BY <1>1, IngestStart, IngestStep, PTL DEF IngestSpec

(* What the slot has passed, and PostgreSQL may discard, is in the store:  *)
(* confirming the largest LSN of a batch is safe although LSNs do not      *)
(* arrive in order.                                                        *)
THEOREM AckedIsStoredHolds == IngestSpec => []AckedIsStored
<1>1. IngestInv => AckedIsStored
  <2> SUFFICES ASSUME IngestInv, NEW t \in DOMAIN Txns, Txns[t].commit <= slot,
                      NEW i \in DOMAIN Txns[t].changes
               PROVE  Stored(<<t, i>>)
    BY Zenon DEF AckedIsStored
  <2>1. <<t, i>> \in Changes /\ <<t, i>>[1] = t
    BY DEF Changes
  <2>2. \A c \in Changes : c[1] = t => Kept(store, c)
    BY DEF IngestInv, Safe, Passed
  <2> QED  BY <2>1, <2>2, Zenon DEF Stored
<1> QED  BY <1>1, IngestStart, IngestStep, PTL DEF IngestSpec

(* No change falls between PostgreSQL, the pipeline and the store. *)
THEOREM NoGapHolds == IngestSpec => []NoGap
<1>1. IngestInv => NoGap
  <2> SUFFICES ASSUME IngestInv, NEW c \in Changes, ~Stored(c), ~StillToCome(c)
               PROVE  InFlight(c)
    BY DEF NoGap
  <2>1. IngestTypeOK /\ Reached(Line, store, cursor)
    BY DEF IngestInv, Flow
  <2>2. Behind(c, cursor)
    <3>1. c[1] \in Nat /\ c[2] \in Nat /\ cursor.txn \in Nat /\ cursor.msg \in Nat
      BY <2>1, ChangeFacts, HistoryFacts DEF IngestTypeOK
    <3> QED  BY <3>1, SMTT(30) DEF StillToCome, Behind
  <2>3. PICK n \in 1 .. Len(Line) : Line[n] = c
    BY <2>1, <2>2, SMTT(30) DEF Reached, Stored
  <2> DEFINE cur == current_batch.events
             tail == cur \o ring
  <2>4. Waiting \in Seq(Events) /\ cur \in Seq(Events) /\ ring \in Seq(Events) /\ tail \in Seq(Events)
    BY <2>1, IngestTypes, ConcatProperties, Zenon
  <2>5. /\ Len(Waiting) \in Nat /\ Len(cur) \in Nat /\ Len(ring) \in Nat
        /\ DOMAIN Waiting = 1 .. Len(Waiting) /\ DOMAIN cur = 1 .. Len(cur)
        /\ DOMAIN ring = 1 .. Len(ring) /\ Len(tail) = Len(cur) + Len(ring)
    BY <2>4, LenProperties, ConcatProperties, Zenon
  <2>6. /\ n \in 1 .. Len(Waiting) + Len(tail)
        /\ Line[n] = IF n <= Len(Waiting) THEN Waiting[n] ELSE tail[n - Len(Waiting)]
    BY <2>4, ConcatProperties, ZenonT(60) DEF Line
  <2>7. CASE n <= Len(Waiting)
    <3>1. n \in DOMAIN Waiting /\ Waiting[n] = c
      BY <2>3, <2>5, <2>6, <2>7
    <3>2. Waiting = pending.batch.events
      BY <2>5, <3>1 DEF Waiting
    <3> QED  BY <3>1, <3>2, Zenon DEF InFlight
  <2>8. CASE ~(n <= Len(Waiting))
    <3> DEFINE m == n - Len(Waiting)
    <3>1. m \in 1 .. Len(cur) + Len(ring) /\ tail[m] = c
      <4> HIDE DEF cur, tail
      <4> QED  BY <2>3, <2>5, <2>6, <2>8, SMTT(30)
    <3>2. tail[m] = IF m <= Len(cur) THEN cur[m] ELSE ring[m - Len(cur)]
      <4> HIDE DEF m, cur
      <4> QED  BY <2>4, <3>1, ConcatProperties, Zenon
    <3>3. \/ m \in DOMAIN cur /\ cur[m] = c
          \/ m - Len(cur) \in DOMAIN ring /\ ring[m - Len(cur)] = c
      <4> HIDE DEF m, cur, tail
      <4> QED  BY <2>5, <3>1, <3>2, SMTT(30)
    <3> QED  BY <3>3, Zenon DEF InFlight
  <2> QED  BY <2>7, <2>8
<1> QED  BY <1>1, IngestStart, IngestStep, PTL DEF IngestSpec

(* A status update never claims more flushed than received. *)
THEOREM FlushBehindWriteHolds == IngestSpec => []FlushBehindWrite
<1>1. IngestInv => FlushBehindWrite
  BY DEF IngestInv, Bounds, FlushBehindWrite
<1> QED  BY <1>1, IngestStart, IngestStep, PTL DEF IngestSpec
=============================================================================
