--------------------------- MODULE ConsumerProofs ---------------------------
(***************************************************************************)
(* The consumers' side.  Offsets: with one committer per consumer - and    *)
(* any number of consumers, threads and LSNs - the check-then-insert of    *)
(* OffsetRegistry::commit does protect against regression, and a           *)
(* min_offset scan racing the commits is safe.                             *)
(*                                                                         *)
(* Flow control for every window, channel, pending limit and number of     *)
(* threads, events and reconnections: CreditThrottle alone, the stream to  *)
(* a consumer built on it, and the gate in front of the ring buffer.       *)
(***************************************************************************)
EXTENDS Backpressure, Offsets, FiniteSetTheorems, SequenceTheorems, TLAPS

-----------------------------------------------------------------------------
(* The offset registry *)

(* Type correctness of the registry, its callers and the scan. *)
THEOREM OffsetsTypeCorrect == OffsetsSpec => []OffsetsTypeOK
<1> USE OffsetsAssumption DEF Lsns, Calls
<1>1. OffsetsInit => OffsetsTypeOK
  BY DEF OffsetsInit, OffsetsTypeOK, MinOffset!Idle
<1>2. OffsetsTypeOK /\ [OffsetsNext]_offsetsVars => OffsetsTypeOK'
  <2> SUFFICES ASSUME OffsetsTypeOK, [OffsetsNext]_offsetsVars PROVE OffsetsTypeOK'
    OBVIOUS
  <2> USE DEF OffsetsTypeOK
  <2>1. ASSUME NEW t \in Workers, NEW c \in Consumers, NEW lsn \in Lsns,
               CommitCheck(t, c, lsn)
        PROVE  OffsetsTypeOK'
    BY <2>1 DEF CommitCheck
  <2>2. ASSUME NEW t \in Workers, CommitInsert(t) PROVE OffsetsTypeOK'
    <3>1. committing[t].id \in Consumers /\ committing[t].lsn \in Lsns
      BY <2>2 DEF CommitInsert
    <3> QED
      BY <2>2, <3>1 DEF CommitInsert
  <2>3. ASSUME NEW c \in Consumers, Unregister(c) PROVE OffsetsTypeOK'
    BY <2>3 DEF Unregister
  <2>4. CASE WatermarkStart
    BY <2>4 DEF WatermarkStart, MinOffset!ScanStart
  <2>5. ASSUME NEW c \in Consumers, WatermarkVisit(c) PROVE OffsetsTypeOK'
    BY <2>5, Zenon DEF WatermarkVisit, MinOffset!ScanVisit
  <2>6. CASE WatermarkReturn
    BY <2>6 DEF WatermarkReturn, MinOffset!ScanEnd, MinOffset!ScanResult,
                MinOffset!Idle
  <2>7. CASE UNCHANGED offsetsVars
    BY <2>7 DEF offsetsVars
  <2> QED
    BY <2>1, <2>2, <2>3, <2>4, <2>5, <2>6, <2>7 DEF OffsetsNext
<1> QED
  BY <1>1, <1>2, PTL DEF OffsetsSpec

-----------------------------------------------------------------------------
(* What a commit knows between its check and its insert, and what a scan   *)
(* knows of the consumers it has passed: their offsets only grew since.    *)
CommitsCurrent ==
    \A t \in Workers : committing[t] # Nothing =>
        /\ committing[t].id \in Owner[t]
        /\ offsets[committing[t].id] # Nothing => offsets[committing[t].id] <= committing[t].lsn

ScanCurrent ==
    /\ \A c \in kept : offsets[c] # Nothing
    /\ scan.on => \A c \in kept \ scan.todo : scan.min <= offsets[c]
    /\ WatermarkSafe

(* Between check and insert no other thread touches the consumer's entry. *)
LEMMA CommitsStayCurrent ==
    ASSUME OneCommitter
    PROVE  OffsetsTypeOK /\ CommitsCurrent /\ [OffsetsNext]_offsetsVars => CommitsCurrent'
<1> SUFFICES ASSUME OffsetsTypeOK, CommitsCurrent, [OffsetsNext]_offsetsVars,
                    NEW t \in Workers, committing'[t] # Nothing
             PROVE  /\ committing'[t].id \in Owner[t]
                    /\ offsets'[committing'[t].id] # Nothing =>
                           offsets'[committing'[t].id] <= committing'[t].lsn
  BY DEF CommitsCurrent
<1> USE OffsetsAssumption DEF OffsetsTypeOK, Lsns, Calls, CommitsCurrent
<1>1. ASSUME NEW u \in Workers, NEW c \in Consumers, NEW lsn \in Lsns,
             CommitCheck(u, c, lsn)
      PROVE  /\ committing'[t].id \in Owner[t]
             /\ offsets'[committing'[t].id] # Nothing =>
                    offsets'[committing'[t].id] <= committing'[t].lsn
  <2>1. CASE t = u
    BY <1>1, <2>1 DEF CommitCheck
  <2>2. CASE t # u
    BY <1>1, <2>2 DEF CommitCheck
  <2> QED
    BY <2>1, <2>2
<1>2. ASSUME NEW u \in Workers, CommitInsert(u)
      PROVE  /\ committing'[t].id \in Owner[t]
             /\ offsets'[committing'[t].id] # Nothing =>
                    offsets'[committing'[t].id] <= committing'[t].lsn
  <2>1. t # u /\ committing'[t] = committing[t]
    BY <1>2 DEF CommitInsert
  <2>2. committing[t].id \in Owner[t] /\ committing[u].id \in Owner[u]
    BY <1>2, <2>1 DEF CommitInsert
  <2>3. committing[t].id # committing[u].id
    BY <2>1, <2>2 DEF OneCommitter
  <2>4. offsets'[committing[t].id] = offsets[committing[t].id]
    BY <1>2, <2>1, <2>3 DEF CommitInsert
  <2> QED
    BY <2>1, <2>4
<1>3. ASSUME NEW c \in Consumers, Unregister(c)
      PROVE  /\ committing'[t].id \in Owner[t]
             /\ offsets'[committing'[t].id] # Nothing =>
                    offsets'[committing'[t].id] <= committing'[t].lsn
  BY <1>3 DEF Unregister
<1>4. CASE UNCHANGED <<offsets, committing>>
  BY <1>4
<1> QED
  BY <1>1, <1>2, <1>3, <1>4
  DEF OffsetsNext, WatermarkStart, WatermarkVisit, WatermarkReturn, offsetsVars

(* A step moves no registered consumer's offset backwards. *)
LEMMA StepNeverRegresses ==
    ASSUME OffsetsTypeOK, CommitsCurrent, [OffsetsNext]_offsetsVars, NEW c \in Consumers,
           offsets[c] # Nothing, offsets'[c] # Nothing
    PROVE  offsets[c] <= offsets'[c]
<1> USE OffsetsAssumption DEF OffsetsTypeOK, Lsns, Calls
<1>1. ASSUME NEW t \in Workers, CommitInsert(t)
      PROVE  offsets[c] <= offsets'[c]
  BY <1>1 DEF CommitInsert, CommitsCurrent
<1>2. ASSUME NEW d \in Consumers, Unregister(d)
      PROVE  offsets[c] <= offsets'[c]
  BY <1>2 DEF Unregister
<1>3. ASSUME UNCHANGED offsets PROVE offsets[c] <= offsets'[c]
  BY <1>3
<1> QED
  BY <1>1, <1>2, <1>3
  DEF OffsetsNext, CommitCheck, WatermarkStart, WatermarkVisit, WatermarkReturn, offsetsVars

(* The commits under way stay current in every behaviour. *)
LEMMA CommitsAlwaysCurrent ==
    ASSUME OneCommitter
    PROVE  OffsetsSpec => []CommitsCurrent
<1>1. OffsetsInit => CommitsCurrent
  BY DEF OffsetsInit, CommitsCurrent
<1> QED
  BY <1>1, CommitsStayCurrent, OffsetsTypeCorrect, PTL DEF OffsetsSpec

(* Regression protection: with one committer per consumer, an offset and   *)
(* the position a stream resumes from never move backwards.                *)
THEOREM NoRegression ==
    ASSUME OneCommitter
    PROVE  OffsetsSpec => NeverRegresses
<1>1. OffsetsTypeOK /\ OffsetsTypeOK' /\ CommitsCurrent /\ [OffsetsNext]_offsetsVars =>
          [\A c \in Consumers :
             (offsets[c] # Nothing /\ offsets'[c] # Nothing) =>
                 offsets[c] <= offsets'[c] /\ ResumeLsn(c) <= ResumeLsn(c)']_offsetsVars
  <2> SUFFICES ASSUME OffsetsTypeOK, OffsetsTypeOK', CommitsCurrent, [OffsetsNext]_offsetsVars,
                      NEW c \in Consumers, offsets[c] # Nothing, offsets'[c] # Nothing
               PROVE  offsets[c] <= offsets'[c] /\ ResumeLsn(c) <= ResumeLsn(c)'
    OBVIOUS
  <2>1. offsets[c] <= offsets'[c]
    BY StepNeverRegresses
  <2>2. offsets[c] \in Lsns /\ offsets'[c] \in Lsns
    BY DEF OffsetsTypeOK
  <2> QED
    BY <2>1, <2>2, OffsetsAssumption DEF ResumeLsn, Lsns
<1> QED
  BY <1>1, OffsetsTypeCorrect, CommitsAlwaysCurrent, PTL DEF OffsetsSpec, NeverRegresses

(* The watermark a racing scan returns is safe for every consumer that     *)
(* stayed registered since the scan began.                                 *)
THEOREM WatermarkIsSafe ==
    ASSUME OneCommitter
    PROVE  OffsetsSpec => []WatermarkSafe
<1> USE OffsetsAssumption
<1>1. OffsetsInit => ScanCurrent
  BY DEF OffsetsInit, ScanCurrent, WatermarkSafe, MinOffset!Idle
<1>2. OffsetsTypeOK /\ CommitsCurrent /\ ScanCurrent /\ [OffsetsNext]_offsetsVars => ScanCurrent'
  <2> SUFFICES ASSUME OffsetsTypeOK, CommitsCurrent, ScanCurrent, [OffsetsNext]_offsetsVars
               PROVE  ScanCurrent'
    OBVIOUS
  <2> USE DEF OffsetsTypeOK, ScanCurrent, WatermarkSafe, Lsns, Calls
  <2>1. ASSUME NEW t \in Workers, CommitInsert(t) PROVE ScanCurrent'
    <3>1. \A c \in kept : offsets[c] \in Lsns /\ offsets'[c] \in Lsns /\ offsets'[c] # Nothing
      BY <2>1 DEF CommitInsert
    <3>2. \A c \in kept : offsets[c] <= offsets'[c]
      BY <3>1, StepNeverRegresses
    <3> QED
      BY <2>1, <3>1, <3>2 DEF CommitInsert
  <2>2. ASSUME NEW c \in Consumers, Unregister(c) PROVE ScanCurrent'
    BY <2>2 DEF Unregister
  <2>3. CASE WatermarkStart
    BY <2>3 DEF WatermarkStart, MinOffset!ScanStart
  <2>4. ASSUME NEW c \in Consumers, WatermarkVisit(c) PROVE ScanCurrent'
    <3>1. /\ scan' = [scan EXCEPT !.todo = @ \ {c},
                          !.min = IF offsets[c] # Nothing /\ offsets[c] < @
                                  THEN offsets[c] ELSE @]
          /\ scan.on /\ UNCHANGED <<offsets, kept, watermark>>
      BY <2>4 DEF WatermarkVisit, MinOffset!ScanVisit
    <3>2. scan'.on /\ scan'.todo = scan.todo \ {c} /\ scan'.min <= scan.min
          /\ scan'.min \in Int
      BY <3>1
    <3>3. offsets[c] # Nothing => scan'.min <= offsets[c]
      BY <3>1
    <3>4. \A d \in kept \ scan'.todo : scan'.min <= offsets[d]
      <4> SUFFICES ASSUME NEW d \in kept \ scan'.todo
                   PROVE  scan'.min <= offsets[d]
        OBVIOUS
      <4>1. CASE d = c
        BY <3>3, <4>1
      <4>2. CASE d # c
        <5>1. scan.min <= offsets[d] /\ offsets[d] \in Int /\ scan.min \in Int
          BY <3>1, <3>2, <4>2
        <5> QED
          BY <5>1, <3>2
      <4> QED
        BY <4>1, <4>2
    <3> QED
      BY <3>1, <3>2, <3>4
  <2>5. CASE WatermarkReturn
    BY <2>5 DEF WatermarkReturn, MinOffset!ScanEnd, MinOffset!ScanResult,
                MinOffset!Idle
  <2>6. ASSUME UNCHANGED <<offsets, scan, watermark, kept>> PROVE ScanCurrent'
    BY <2>6
  <2> QED
    BY <2>1, <2>2, <2>3, <2>4, <2>5, <2>6 DEF OffsetsNext, CommitCheck, offsetsVars
<1> QED
  BY <1>1, <1>2, OffsetsTypeCorrect, CommitsAlwaysCurrent, PTL DEF OffsetsSpec, ScanCurrent

-----------------------------------------------------------------------------
(* CreditThrottle *)

(* The two properties are inductive together: an exchange succeeds only    *)
(* while the counter is what the thread loaded, which is not zero.         *)
CreditInv == TypeOK /\ CreditsConserved

(* Every step of the throttle keeps the invariant. *)
LEMMA CreditStep == CreditInv /\ [Next]_vars => CreditInv'
<1> SUFFICES ASSUME CreditInv, [Next]_vars PROVE CreditInv'
  OBVIOUS
<1> USE CreditAssumption DEF CreditInv, TypeOK, CreditsConserved
<1>1. ASSUME NEW t \in Threads, Load(t) PROVE CreditInv'
  <2>1. credits \in 1 .. window
    BY <1>1 DEF Load
  <2> QED  BY <1>1, <2>1 DEF Load
<1>2. ASSUME NEW t \in Threads, Exchange(t) PROVE CreditInv'
  <2>1. loaded[t] \in 1 .. window /\ loaded[t] = credits
    BY <1>2 DEF Exchange
  <2>2. credits' = credits - 1 /\ outstanding' = outstanding + 1
    BY <1>2, <2>1 DEF Exchange
  <2>3. loaded' \in [Threads -> (1 .. window) \cup {None}]
    BY <1>2 DEF Exchange
  <2> QED  BY <2>1, <2>2, <2>3
<1>3. ASSUME NEW t \in Threads, Retry(t) PROVE CreditInv'
  BY <1>3 DEF Retry
<1>4. ASSUME NEW amount \in 1 .. window, Replenish(amount) PROVE CreditInv'
  <2>1. credits' = credits + amount /\ outstanding' = outstanding - amount
    BY <1>4 DEF Replenish
  <2>2. amount <= outstanding
    BY <1>4 DEF Replenish
  <2> QED  BY <1>4, <2>1, <2>2 DEF Replenish
<1>5. CASE Reset
  BY <1>5 DEF Reset
<1>6. CASE UNCHANGED vars
  BY <1>6 DEF vars
<1> QED  BY <1>1, <1>2, <1>3, <1>4, <1>5, <1>6 DEF Next

(* try_consume, replenish and reset keep the counter between zero and the  *)
(* window.                                                                 *)
THEOREM CreditTypeCorrect == Spec => []TypeOK
<1>1. Init => CreditInv
  BY CreditAssumption DEF Init, CreditInv, TypeOK, CreditsConserved
<1>2. CreditInv => TypeOK
  BY DEF CreditInv
<1> QED  BY <1>1, <1>2, CreditStep, PTL DEF Spec

(* Credits and outstanding events make up the window at all times, however *)
(* the threads' loads and exchanges, commits and resets interleave.        *)
THEOREM CreditsConservedHolds == Spec => []CreditsConserved
<1>1. Init => CreditInv
  BY CreditAssumption DEF Init, CreditInv, TypeOK, CreditsConserved
<1>2. CreditInv => CreditsConserved
  BY DEF CreditInv
<1> QED  BY <1>1, <1>2, CreditStep, PTL DEF Spec

-----------------------------------------------------------------------------
(* The stream to a consumer *)

(* Between a credit taken and its event sent a thread loads no other; the  *)
(* counts of the two layers differ only by credits that were dropped with  *)
(* a stream, and pending counts at least what was sent on this stream and  *)
(* not acknowledged and what is being sent, so that on_ack's subtraction   *)
(* never saturates.                                                        *)
Sending == IF sender = None THEN 0 ELSE 1

StreamInv ==
    /\ IsFiniteSet(holding)
    /\ \A t \in Threads : loaded[t] # None => t \notin holding
    /\ sender # None => next <= MaxEvents
    /\ ~connected => channel = <<>>
    /\ base <= acked /\ acked <= got /\ got <= next - 1 /\ acking <= acked
    /\ events_sent - (acked - base) + Sending <= pending
    /\ Cardinality(holding) + pending + acking <= outstanding

EgressInv == CreditInv /\ EgressTypeOK /\ StreamInv /\ LayersAgree /\ SentInOrder

(* The events after a, n of them. *)
Span(a, n) == [i \in 1 .. n |-> a + i]

LEMMA SpanFacts ==
    ASSUME NEW a \in Nat, NEW n \in Nat
    PROVE  /\ Len(Span(a, n)) = n
           /\ Span(a, 0) = <<>>
           /\ Append(Span(a, n), a + n + 1) = Span(a, n + 1)
           /\ n # 0 => Head(Span(a, n)) = a + 1 /\ Tail(Span(a, n)) = Span(a + 1, n - 1)
<1>1. Span(a, n) \in Seq(Nat) /\ Len(Span(a, n)) = n
  BY DEF Span
<1>2. Span(a, 0) = <<>>
  BY DEF Span
<1>3. Append(Span(a, n), a + n + 1) = Span(a, n + 1)
  BY <1>1 DEF Span
<1>4. ASSUME n # 0
      PROVE  Head(Span(a, n)) = a + 1 /\ Tail(Span(a, n)) = Span(a + 1, n - 1)
  <2> DEFINE s == Span(a, n)
  <2>0. s \in Seq(Nat) /\ Len(s) = n
    BY <1>1
  <2>1. s[1] = a + 1 /\ \A i \in 1 .. n - 1 : s[i + 1] = a + 1 + i
    BY <1>4 DEF Span
  <2> HIDE DEF s
  <2>2. /\ Head(s) = s[1] /\ Tail(s) \in Seq(Nat) /\ Len(Tail(s)) = n - 1
        /\ \A i \in 1 .. n - 1 : Tail(s)[i] = s[i + 1]
    BY <2>0, <1>4, EmptySeq, HeadTailProperties
  <2>3. /\ Span(a + 1, n - 1) \in Seq(Nat) /\ Len(Span(a + 1, n - 1)) = n - 1
        /\ \A i \in 1 .. n - 1 : Span(a + 1, n - 1)[i] = a + 1 + i
    BY <1>4 DEF Span
  <2>4. Tail(s) = Span(a + 1, n - 1)
    <3> DEFINE u == Tail(s)
               v == Span(a + 1, n - 1)
    <3>1. u \in Seq(Nat) /\ v \in Seq(Nat) /\ Len(u) = Len(v)
      BY <2>2, <2>3
    <3>2. \A i \in 1 .. Len(u) : u[i] = v[i]
      BY <2>1, <2>2, <2>3
    <3> HIDE DEF u, v
    <3>3. u = v
      BY <3>1, <3>2, SeqEqual
    <3> QED  BY <3>3 DEF u, v
  <2> QED  BY <2>1, <2>2, <2>4 DEF s
<1> QED  BY <1>1, <1>2, <1>3, <1>4

(* The numbers of a stream. *)
Numbers ==
    /\ window \in Nat /\ credits \in 0 .. window /\ outstanding \in 0 .. window
    /\ credits + outstanding = window
    /\ last_sent_lsn \in Nat /\ events_sent \in Nat /\ acking \in Nat /\ got \in Nat
    /\ acked \in Nat /\ base \in Nat /\ pending \in Nat /\ next \in Nat \ {0}
    /\ pending <= max_pending /\ next <= MaxEvents + 1 /\ MaxEvents \in Nat
    /\ max_pending \in Nat \ {0} /\ buffer_size \in Nat \ {0}
    /\ IsFiniteSet(holding) /\ Cardinality(holding) \in Nat
    /\ base <= acked /\ acked <= got /\ got <= next - 1 /\ acking <= acked
    /\ events_sent - (acked - base) + Sending <= pending
    /\ Cardinality(holding) + pending + acking <= outstanding
    /\ Sending \in {0, 1} /\ (sender # None => next <= MaxEvents)

LEMMA EgressTypes == ASSUME EgressInv PROVE Numbers
<1>1. credits \in 0 .. window /\ outstanding \in Nat /\ credits + outstanding = window
  BY DEF EgressInv, CreditInv, TypeOK, CreditsConserved
<1>2. IsFiniteSet(holding) /\ Cardinality(holding) \in Nat
  BY FS_CardinalityType DEF EgressInv, StreamInv
<1>3. /\ base <= acked /\ acked <= got /\ got <= next - 1 /\ acking <= acked
      /\ events_sent - (acked - base) + Sending <= pending
      /\ Cardinality(holding) + pending + acking <= outstanding
  BY DEF EgressInv, StreamInv
<1>4. /\ {last_sent_lsn, events_sent, acking, got, acked, base} \subseteq Nat
      /\ pending \in 0 .. max_pending /\ next \in 1 .. MaxEvents + 1
      /\ MaxEvents \in Nat /\ max_pending \in Nat \ {0} /\ buffer_size \in Nat \ {0}
  BY EgressAssumption DEF EgressInv, EgressTypeOK
<1>5. Sending \in {0, 1} /\ (sender # None => next <= MaxEvents)
  BY DEF EgressInv, StreamInv, Sending
<1> QED  BY <1>1, <1>2, <1>3, <1>4, <1>5, CreditAssumption DEF Numbers

(* A thread's steps on the credit counter. *)
LEMMA TryConsumeStep ==
    ASSUME EgressInv, NEW t \in Threads, LoadCredit(t) \/ TakeCredit(t) \/ LoseExchange(t)
    PROVE  EgressInv'
<1>0. Numbers
  BY EgressTypes
<1>1. CreditInv'
  BY CreditStep DEF EgressInv, LoadCredit, TakeCredit, LoseExchange, Next
<1>2. UNCHANGED <<streamVars, channel, pending, sender, acking, got, acked>>
      /\ Sending' = Sending
  BY DEF LoadCredit, TakeCredit, LoseExchange, Sending
<1>3. SentInOrder'
  BY <1>2 DEF EgressInv, SentInOrder, streamVars
<1>4. loaded \in [Threads -> (1 .. window) \cup {None}]
  BY DEF EgressInv, CreditInv, TypeOK
<1>5. CASE LoadCredit(t) \/ LoseExchange(t)
  <2>1. /\ UNCHANGED <<outstanding, holding>> /\ (t \in holding => loaded'[t] = None)
        /\ \A u \in Threads \ {t} : loaded'[u] = loaded[u]
    BY <1>4, <1>5 DEF LoadCredit, LoseExchange, Load, Retry
  <2>2. EgressTypeOK' /\ LayersAgree'
    BY <1>2, <2>1 DEF EgressInv, EgressTypeOK, LayersAgree, streamVars
  <2>3. StreamInv'
    BY <1>2, <2>1 DEF EgressInv, StreamInv, streamVars
  <2> QED  BY <1>1, <1>3, <2>2, <2>3 DEF EgressInv
<1>6. CASE TakeCredit(t)
  <2>1. /\ outstanding' = outstanding + 1 /\ holding' = holding \cup {t}
        /\ loaded' = [loaded EXCEPT ![t] = None] /\ loaded[t] # None
    BY <1>6 DEF TakeCredit, Exchange
  <2>2. t \notin holding
    BY <2>1 DEF EgressInv, StreamInv
  <2>3. IsFiniteSet(holding') /\ Cardinality(holding') = Cardinality(holding) + 1
    BY <2>1, <2>2, <1>0, FS_AddElement DEF Numbers
  <2>4. EgressTypeOK'
    BY <1>2, <2>1 DEF EgressInv, EgressTypeOK, streamVars
  <2>5. LayersAgree'
    <3>1. connected' = connected /\ pending' = pending /\ acking' = acking
      BY <1>2 DEF streamVars
    <3>2. connected => outstanding = Cardinality(holding) + pending + acking
      BY DEF EgressInv, LayersAgree
    <3>3. connected => outstanding' = Cardinality(holding') + pending + acking
      BY <2>1, <2>3, <3>2, <1>0 DEF Numbers
    <3> QED  BY <3>1, <3>3 DEF LayersAgree
  <2>6. Cardinality(holding') + pending' + acking' <= outstanding'
    BY <1>2, <2>1, <2>3, <1>0 DEF Numbers, EgressInv, StreamInv
  <2>7. \A u \in Threads : loaded'[u] # None => u \notin holding'
    BY <1>4, <2>1 DEF EgressInv, StreamInv
  <2>8. StreamInv'
    BY <1>2, <2>3, <2>6, <2>7 DEF EgressInv, StreamInv, streamVars
  <2> QED  BY <1>1, <1>3, <2>4, <2>5, <2>8 DEF EgressInv
<1> QED  BY <1>5, <1>6

(* on_send: the event is pending instead of held. *)
LEMMA AnnounceStep == ASSUME EgressInv, NEW t \in Threads, Announce(t) PROVE EgressInv'
<1>0. Numbers
  BY EgressTypes
<1>1. /\ t \in holding /\ sender = None /\ sender' = t /\ next <= MaxEvents
      /\ pending' = pending + 1 /\ holding' = holding \ {t}
      /\ UNCHANGED <<vars, streamVars, channel, acking, got, acked>>
  BY DEF Announce, OnSend
<1>2. CreditInv'
  BY <1>1, CreditStep DEF EgressInv
<1>3. /\ IsFiniteSet(holding') /\ Cardinality(holding') = Cardinality(holding) - 1
      /\ Cardinality(holding) \in Nat
  BY <1>1, <1>0, FS_RemoveElement DEF Numbers
<1>4. pending < max_pending
  BY <1>0 DEF Numbers, Announce, ShouldPause
<1>5. SentInOrder'
  BY <1>1 DEF EgressInv, SentInOrder, streamVars
<1>6. EgressTypeOK'
  <2>1. pending' \in 0 .. max_pending
    BY <1>0, <1>1, <1>4 DEF Numbers
  <2> QED  BY <1>1, <2>1 DEF EgressInv, EgressTypeOK, streamVars
<1>7. Cardinality(holding') + pending' + acking' = Cardinality(holding) + pending + acking
  BY <1>0, <1>1, <1>3 DEF Numbers
<1>8. LayersAgree'
  BY <1>1, <1>7 DEF EgressInv, LayersAgree, streamVars, vars
<1>9. StreamInv'
  <2>1. Sending = 0 /\ Sending' = 1
    BY <1>1, EgressAssumption DEF Sending
  <2>2. events_sent' - (acked' - base') + Sending' <= pending'
    BY <1>0, <1>1, <2>1 DEF Numbers, streamVars
  <2> QED  BY <1>1, <1>3, <1>7, <2>2 DEF EgressInv, StreamInv, streamVars, vars
<1> QED  BY <1>2, <1>5, <1>6, <1>8, <1>9 DEF EgressInv

(* The next event goes into the channel. *)
LEMMA SendStep == ASSUME EgressInv, NEW t \in Threads, Send(t) PROVE EgressInv'
<1>0. Numbers
  BY EgressTypes
<1>1. /\ sender = t /\ sender' = None /\ next <= MaxEvents
      /\ Len(channel) < buffer_size /\ channel' = Append(channel, next)
      /\ last_sent_lsn' = next /\ events_sent' = events_sent + 1 /\ next' = next + 1
      /\ UNCHANGED <<vars, base, streams, pending, holding, acking, got, acked>>
  BY EgressAssumption DEF Send, EgressInv, StreamInv
<1>c. connected /\ connected'
  BY DEF Send
<1>2. CreditInv'
  BY <1>1, CreditStep DEF EgressInv
<1>3. Sending = 1 /\ Sending' = 0
  BY <1>1, EgressAssumption DEF Sending
<1>4. /\ next = base + events_sent + 1 /\ got <= next - 1
      /\ channel = Span(got, next - 1 - got)
  BY <1>c DEF EgressInv, SentInOrder, StreamInv, Span
<1>5. channel' = Span(got, next - got) /\ next - 1 - got \in Nat
  <2>1. next - 1 - got \in Nat /\ got + (next - 1 - got) + 1 = next
        /\ (next - 1 - got) + 1 = next - got
    BY <1>4, <1>0 DEF Numbers
  <2> DEFINE n == next - 1 - got
  <2>2. n \in Nat /\ got \in Nat /\ channel' = Append(Span(got, n), got + n + 1)
    BY <1>0, <1>1, <1>4, <2>1 DEF Numbers
  <2>3. next - got = n + 1
    BY <2>1
  <2> HIDE DEF n
  <2>4. channel' = Span(got, next - got)
    BY <2>2, <2>3, SpanFacts, Zenon
  <2> QED  BY <2>1, <2>4
<1>6. SentInOrder'
  <2>1. next' = base' + events_sent' + 1 /\ events_sent' # 0 /\ last_sent_lsn' = next' - 1
        /\ next' - 1 - got' = next - got
    BY <1>1, <1>4, <1>0 DEF Numbers
  <2>2. channel' = [i \in 1 .. next' - 1 - got' |-> got' + i]
    BY <1>1, <1>5, <2>1 DEF Span
  <2> QED  BY <2>1, <2>2 DEF SentInOrder
<1>7. LayersAgree'
  BY <1>1, <1>c DEF EgressInv, LayersAgree, vars
<1>8. EgressTypeOK'
  <2>1. channel' \in Seq(1 .. MaxEvents) /\ Len(channel') <= buffer_size
    <3>1. channel \in Seq(1 .. MaxEvents) /\ next \in 1 .. MaxEvents
      BY <1>1, <1>0 DEF Numbers, EgressInv, EgressTypeOK
    <3>2. channel' \in Seq(1 .. MaxEvents) /\ Len(channel') = Len(channel) + 1
          /\ Len(channel) \in Nat
      BY <1>1, <3>1
    <3> QED  BY <1>1, <3>2, <1>0 DEF Numbers
  <2>2. last_sent_lsn' \in 0 .. MaxEvents /\ events_sent' \in 0 .. MaxEvents
        /\ next' \in 1 .. MaxEvents + 1
    BY <1>1, <1>4, <1>0 DEF Numbers
  <2> QED  BY <1>1, <1>c, <2>1, <2>2 DEF EgressInv, EgressTypeOK
<1>9. StreamInv'
  <2>1. /\ base' <= acked' /\ acked' <= got' /\ got' <= next' - 1 /\ acking' <= acked'
        /\ events_sent' - (acked' - base') + Sending' <= pending'
    BY <1>1, <1>3, <1>0 DEF Numbers
  <2> QED  BY <1>1, <1>c, <2>1 DEF EgressInv, StreamInv, vars
<1> QED  BY <1>2, <1>6, <1>7, <1>8, <1>9 DEF EgressInv

(* The stream is gone: a thread's credit is forgotten with it. *)
LEMMA StreamGoneStep ==
    ASSUME EgressInv, NEW t \in Threads, SendFails(t) \/ GiveUp(t) PROVE EgressInv'
<1>0. Numbers
  BY EgressTypes
<1>1. /\ ~connected /\ UNCHANGED <<vars, streamVars, channel, pending, acking, got, acked>>
      /\ holding' \subseteq holding /\ sender' \in {sender, None}
  BY DEF SendFails, GiveUp
<1>2. CreditInv'
  BY <1>1, CreditStep DEF EgressInv
<1>3. /\ IsFiniteSet(holding') /\ Cardinality(holding') <= Cardinality(holding)
      /\ Cardinality(holding) \in Nat /\ Cardinality(holding') \in Nat
  BY <1>1, <1>0, FS_Subset, FS_CardinalityType DEF Numbers
<1>4. SentInOrder' /\ EgressTypeOK' /\ LayersAgree'
  BY <1>1 DEF EgressInv, SentInOrder, EgressTypeOK, LayersAgree, streamVars
<1>5. Cardinality(holding') + pending' + acking' <= outstanding'
  BY <1>1, <1>3, <1>0 DEF Numbers, EgressInv, StreamInv, vars
<1>6. Sending' \in {0, 1} /\ Sending' <= Sending
  BY <1>1 DEF Sending
<1>7. events_sent' - (acked' - base') + Sending' <= pending'
  <2>1. /\ events_sent' = events_sent /\ acked' = acked /\ base' = base
        /\ pending' = pending
    BY <1>1 DEF streamVars
  <2>2. /\ events_sent \in Nat /\ acked \in Nat /\ base \in Nat /\ pending \in Nat
        /\ events_sent - (acked - base) + Sending <= pending
    BY <1>0 DEF Numbers
  <2>3. CASE Sending' = Sending
    BY <2>1, <2>2, <2>3
  <2>4. CASE Sending' = 0 /\ Sending = 1
    BY <2>1, <2>2, <2>4
  <2> QED  BY <1>0, <1>6, <2>3, <2>4 DEF Numbers
<1>8. StreamInv'
  BY <1>1, <1>3, <1>5, <1>7 DEF EgressInv, StreamInv, streamVars, vars
<1> QED  BY <1>2, <1>4, <1>8 DEF EgressInv

(* The consumer takes the next event from the channel. *)
LEMMA ReceiveStep == ASSUME EgressInv, Receive PROVE EgressInv'
<1>0. Numbers
  BY EgressTypes
<1>1. /\ connected /\ channel # <<>> /\ got' = Head(channel) /\ channel' = Tail(channel)
      /\ UNCHANGED <<vars, streamVars, pending, holding, sender, acking, acked>>
      /\ Sending' = Sending
  BY DEF Receive, Sending
<1>2. CreditInv'
  BY <1>1, CreditStep DEF EgressInv
<1> DEFINE n == next - 1 - got
<1>3. channel = Span(got, n) /\ n \in Nat
  BY <1>1, <1>0 DEF Numbers, EgressInv, SentInOrder, StreamInv, Span
<1>4. n # 0
  BY <1>1, <1>3, <1>0, SpanFacts DEF Numbers
<1>5. got' = got + 1 /\ channel' = Span(got + 1, n - 1) /\ got + 1 <= next - 1
  <2>1. got + 1 <= next - 1
    BY <1>3, <1>4, <1>0 DEF Numbers
  <2> HIDE DEF n
  <2> QED  BY <1>1, <1>3, <1>4, <2>1, <1>0, SpanFacts, Zenon DEF Numbers
<1>6. SentInOrder'
  <2>1. next' - 1 - got' = n - 1
    BY <1>1, <1>5, <1>0 DEF Numbers, streamVars
  <2>2. channel' = [i \in 1 .. next' - 1 - got' |-> got' + i]
    BY <1>5, <2>1 DEF Span
  <2> QED  BY <1>1, <2>2, Zenon DEF EgressInv, SentInOrder, streamVars
<1>7. LayersAgree'
  BY <1>1 DEF EgressInv, LayersAgree, streamVars, vars
<1>8. EgressTypeOK'
  <2>1. channel \in Seq(1 .. MaxEvents) /\ Len(channel) <= buffer_size
    BY DEF EgressInv, EgressTypeOK
  <2>2. channel' \in Seq(1 .. MaxEvents) /\ Len(channel') <= buffer_size
    BY <1>1, <2>1, <1>0 DEF Numbers
  <2>3. got' \in 0 .. MaxEvents
    BY <1>5, <1>0 DEF Numbers
  <2> QED  BY <1>1, <2>2, <2>3 DEF EgressInv, EgressTypeOK, streamVars
<1>9. StreamInv'
  BY <1>1, <1>5, <1>0 DEF Numbers, EgressInv, StreamInv, streamVars, vars
<1> QED  BY <1>2, <1>6, <1>7, <1>8, <1>9 DEF EgressInv

(* on_ack takes from pending exactly what is acknowledged: those events    *)
(* were sent on this stream and are still counted.                         *)
LEMMA OnAckStep == ASSUME EgressInv, NEW n \in 1 .. MaxEvents, OnAck(n) PROVE EgressInv'
<1>0. Numbers
  BY EgressTypes
<1>1. /\ n \in 1 .. got - acked /\ acked' = acked + n /\ acking' = acking + n
      /\ pending' = IF n < pending THEN pending - n ELSE 0
      /\ UNCHANGED <<vars, streamVars, channel, holding, sender, got>>
      /\ Sending' = Sending
  BY DEF OnAck, Sending
<1>2. CreditInv'
  BY <1>1, CreditStep DEF EgressInv
<1>3. next = base + events_sent + 1
  BY DEF EgressInv, SentInOrder
<1>4. n <= pending /\ pending' = pending - n /\ n \in Nat
  BY <1>0, <1>1, <1>3 DEF Numbers
<1>5. SentInOrder'
  BY <1>1 DEF EgressInv, SentInOrder, streamVars
<1>6. LayersAgree'
  <2>1. Cardinality(holding') + pending' + acking' = Cardinality(holding) + pending + acking
    BY <1>0, <1>1, <1>4 DEF Numbers
  <2> QED  BY <1>1, <2>1 DEF EgressInv, LayersAgree, streamVars, vars
<1>7. EgressTypeOK'
  <2>1. pending' \in 0 .. max_pending /\ acked' \in 0 .. MaxEvents /\ acking' \in 0 .. MaxEvents
    BY <1>0, <1>1, <1>4 DEF Numbers
  <2> QED  BY <1>1, <2>1 DEF EgressInv, EgressTypeOK, streamVars
<1>8. StreamInv'
  <2>1. /\ base' <= acked' /\ acked' <= got' /\ got' <= next' - 1 /\ acking' <= acked'
        /\ events_sent' - (acked' - base') + Sending' <= pending'
        /\ Cardinality(holding') + pending' + acking' <= outstanding'
    BY <1>0, <1>1, <1>4 DEF Numbers, streamVars, vars
  <2> QED  BY <1>1, <2>1 DEF EgressInv, StreamInv, streamVars, vars
<1> QED  BY <1>2, <1>5, <1>6, <1>7, <1>8 DEF EgressInv

(* What is on its way back is outstanding, so that no credit is lost to    *)
(* replenish's limit.                                                      *)
LEMMA GiveBackStep == ASSUME EgressInv, GiveBack PROVE EgressInv'
<1>0. Numbers
  BY EgressTypes
<1>1. /\ Replenish(acking) /\ acking' = 0 /\ acking \in 1 .. outstanding
      /\ outstanding' = outstanding - acking /\ loaded' = loaded
      /\ UNCHANGED <<streamVars, channel, pending, holding, sender, got, acked>>
      /\ Sending' = Sending
  BY DEF GiveBack, Replenish, Sending
<1>2. CreditInv'
  <2>1. acking \in 1 .. window
    BY <1>0, <1>1 DEF Numbers
  <2> QED  BY <1>1, <2>1, CreditStep DEF EgressInv, Next
<1>3. SentInOrder' /\ EgressTypeOK'
  <2>1. 0 \in 0 .. MaxEvents
    BY <1>0 DEF Numbers
  <2> QED  BY <1>1, <2>1 DEF EgressInv, SentInOrder, EgressTypeOK, streamVars
<1>4. LayersAgree'
  <2>1. outstanding = Cardinality(holding) + pending + acking
        => outstanding' = Cardinality(holding') + pending' + acking'
    BY <1>0, <1>1 DEF Numbers
  <2> QED  BY <1>1, <2>1 DEF EgressInv, LayersAgree, streamVars
<1>5. StreamInv'
  <2>1. /\ base' <= acked' /\ acked' <= got' /\ got' <= next' - 1 /\ acking' <= acked'
        /\ events_sent' - (acked' - base') + Sending' <= pending'
        /\ Cardinality(holding') + pending' + acking' <= outstanding'
    BY <1>0, <1>1 DEF Numbers, streamVars
  <2> QED  BY <1>1, <2>1 DEF EgressInv, StreamInv, streamVars
<1> QED  BY <1>2, <1>3, <1>4, <1>5 DEF EgressInv

(* The receiver goes; what it had not taken is lost with the channel. *)
LEMMA DisconnectStep == ASSUME EgressInv, Disconnect PROVE EgressInv'
<1>1. /\ streams < MaxStreams /\ streams' = streams + 1 /\ channel' = <<>>
      /\ UNCHANGED <<vars, last_sent_lsn, events_sent, next, base, pending, holding, sender,
                     acking, got, acked>>
      /\ Sending' = Sending
  BY DEF Disconnect, Sending
<1>2. connected' = FALSE
  BY DEF Disconnect
<1>3. CreditInv'
  BY <1>1, CreditStep DEF EgressInv
<1>4. streams' \in 0 .. MaxStreams
  BY <1>1, EgressAssumption DEF EgressInv, EgressTypeOK
<1>5. channel' \in Seq(1 .. MaxEvents) /\ Len(channel') <= buffer_size
  BY <1>1, EgressAssumption
<1>6. EgressTypeOK'
  BY <1>1, <1>2, <1>4, <1>5, Zenon DEF EgressInv, EgressTypeOK
<1>7. SentInOrder' /\ LayersAgree'
  BY <1>1, <1>2 DEF EgressInv, SentInOrder, LayersAgree
<1>8. StreamInv'
  BY <1>1, <1>2 DEF EgressInv, StreamInv, vars
<1> QED  BY <1>3, <1>6, <1>7, <1>8 DEF EgressInv

(* A new stream, after the last acknowledged event. *)
LEMMA ConnectStep == ASSUME EgressInv, Connect PROVE EgressInv'
<1>0. Numbers
  BY EgressTypes
<1>1. /\ holding' = {} /\ sender' = None /\ Sending' = 0 /\ acking' = 0 /\ outstanding' = 0 /\ loaded' = loaded
      /\ last_sent_lsn' = 0 /\ events_sent' = 0 /\ pending' = 0
      /\ next' = acked + 1 /\ got' = acked /\ base' = acked /\ acked' = acked
      /\ streams' = streams /\ channel' = channel
  BY DEF Connect, Reset, Sending
<1>2. ~connected /\ connected' = TRUE
  BY DEF Connect
<1>3. CreditInv'
  BY CreditStep DEF EgressInv, Connect, Next
<1>4. channel' = <<>>
  BY <1>1, <1>2 DEF EgressInv, StreamInv
<1>5. IsFiniteSet(holding') /\ Cardinality(holding') = 0
  BY <1>1, FS_EmptySet
<1>6. SentInOrder'
  <2>1. /\ next' = base' + events_sent' + 1 /\ last_sent_lsn' = 0 /\ events_sent' = 0
        /\ next' - 1 - got' = 0
    BY <1>0, <1>1 DEF Numbers
  <2>2. channel' = [i \in 1 .. next' - 1 - got' |-> got' + i]
    BY <1>4, <2>1
  <2> QED  BY <2>1, <2>2 DEF SentInOrder
<1>7. LayersAgree'
  BY <1>1, <1>5 DEF LayersAgree
<1>8. EgressTypeOK'
  <2>1. acked \in 0 .. MaxEvents /\ acked + 1 \in 1 .. MaxEvents + 1 /\ 0 \in 0 .. MaxEvents
        /\ 0 \in 0 .. max_pending
    BY <1>0 DEF Numbers
  <2> QED  BY <1>1, <1>2, <2>1 DEF EgressInv, EgressTypeOK
<1>9. StreamInv'
  <2>1. /\ base' <= acked' /\ acked' <= got' /\ got' <= next' - 1 /\ acking' <= acked'
        /\ events_sent' - (acked' - base') + Sending' <= pending'
        /\ Cardinality(holding') + pending' + acking' <= outstanding'
    BY <1>0, <1>1, <1>5 DEF Numbers
  <2> QED  BY <1>1, <1>2, <1>5, <2>1 DEF StreamInv
<1> QED  BY <1>3, <1>6, <1>7, <1>8, <1>9 DEF EgressInv

LEMMA EgressStep == EgressInv /\ [EgressNext]_egressVars => EgressInv'
<1> SUFFICES ASSUME EgressInv, [EgressNext]_egressVars PROVE EgressInv'
  OBVIOUS
<1>1. CASE UNCHANGED egressVars
  <2>1. CreditInv'
    BY <1>1, CreditStep DEF EgressInv, egressVars
  <2>2. EgressTypeOK' /\ LayersAgree' /\ SentInOrder' /\ StreamInv'
    BY <1>1 DEF EgressInv, EgressTypeOK, LayersAgree, SentInOrder, StreamInv, Sending,
                egressVars, streamVars, vars
  <2> QED  BY <2>1, <2>2 DEF EgressInv
<1>2. ASSUME NEW t \in Threads,
             \/ LoadCredit(t) \/ TakeCredit(t) \/ LoseExchange(t)
             \/ Announce(t) \/ Send(t) \/ SendFails(t) \/ GiveUp(t)
      PROVE  EgressInv'
  BY <1>2, TryConsumeStep, AnnounceStep, SendStep, StreamGoneStep
<1>3. ASSUME NEW n \in 1 .. MaxEvents, OnAck(n) PROVE EgressInv'
  BY <1>3, OnAckStep
<1>4. CASE Receive \/ GiveBack \/ Disconnect \/ Connect
  BY <1>4, ReceiveStep, GiveBackStep, DisconnectStep, ConnectStep
<1> QED  BY <1>1, <1>2, <1>3, <1>4 DEF EgressNext

LEMMA EgressStarts == EgressInit => EgressInv
<1> SUFFICES ASSUME EgressInit PROVE EgressInv
  OBVIOUS
<1>1. /\ channel = <<>> /\ last_sent_lsn = 0 /\ events_sent = 0 /\ pending = 0
      /\ holding = {} /\ sender = None /\ Sending = 0 /\ acking = 0 /\ next = 1 /\ got = 0 /\ acked = 0 /\ base = 0
      /\ streams = 0 /\ outstanding = 0 /\ loaded = [t \in Threads |-> None]
  BY DEF EgressInit, Init, Sending
<1>2. CreditInv /\ connected = TRUE
  BY CreditAssumption DEF EgressInit, Init, CreditInv, TypeOK, CreditsConserved
<1>3. IsFiniteSet(holding) /\ Cardinality(holding) = 0
  BY <1>1, FS_EmptySet
<1>4. EgressTypeOK
  <2>1. channel \in Seq(1 .. MaxEvents) /\ Len(channel) <= buffer_size
    BY <1>1, EgressAssumption
  <2>2. /\ 0 \in 0 .. MaxEvents /\ 1 \in 1 .. MaxEvents + 1 /\ 0 \in 0 .. max_pending
        /\ 0 \in 0 .. MaxStreams
    BY EgressAssumption
  <2> QED  BY <1>1, <1>2, <2>1, <2>2 DEF EgressTypeOK
<1>5. LayersAgree
  BY <1>1, <1>3 DEF LayersAgree
<1>6. SentInOrder
  <2>1. next = base + events_sent + 1 /\ next - 1 - got = 0
    BY <1>1
  <2>2. channel = [i \in 1 .. next - 1 - got |-> got + i]
    BY <1>1, <2>1
  <2> QED  BY <1>1, <2>1, <2>2 DEF SentInOrder
<1>7. StreamInv
  <2>1. /\ base <= acked /\ acked <= got /\ got <= next - 1 /\ acking <= acked
        /\ events_sent - (acked - base) + Sending <= pending
        /\ Cardinality(holding) + pending + acking <= outstanding
    BY <1>1, <1>3
  <2> QED  BY <1>1, <1>2, <1>3, <2>1 DEF StreamInv
<1> QED  BY <1>2, <1>4, <1>5, <1>6, <1>7 DEF EgressInv

-----------------------------------------------------------------------------
(* The gate *)

(* A call that runs alone is the only one under way, and the flag is the   *)
(* one it has set.                                                         *)
GateInv ==
    /\ GateTypeOK
    /\ ~overlapped =>
          /\ \A p, q \in Callers : call[p] # Idle /\ call[q] # Idle => p = q
          /\ \A p \in Callers : call[p] # Idle => (open <=> call[p].step = "clear")
    /\ ReasonSettles

GateCalls == {Idle} \cup [step : {"count", "reason"}, why : Reasons]
                \cup [step : {"clear"}, why : {NoReason}]

(* A call begins with the flag. *)
LEMMA BeginStep ==
    ASSUME GateInv, NEW p \in Callers, NEW x \in GateCalls \ {Idle}, Begin(p, x.step, x.why),
           open' \in BOOLEAN, open' <=> x.step = "clear",
           close_count' \in Nat, closings' \in 0 .. MaxClosings, reason' = reason
    PROVE  GateInv'
<1>1. call \in [Callers -> GateCalls] /\ reason \in Reasons \cup {NoReason}
  BY DEF GateInv, GateTypeOK, GateCalls
<1>2. x = [step |-> x.step, why |-> x.why]
  BY DEF GateCalls
<1>3. /\ call' = [call EXCEPT ![p] = x] /\ call[p] = Idle
      /\ overlapped' = ~Quiet
  BY <1>2 DEF Begin, Go
<1>4. /\ call' \in [Callers -> GateCalls] /\ call'[p] = x /\ x # Idle
      /\ \A q \in Callers \ {p} : call'[q] = call[q]
  BY <1>1, <1>3
<1>5. GateTypeOK'
  <2>1. overlapped' \in BOOLEAN
    BY <1>3
  <2> QED  BY <1>1, <1>4, <2>1, Zenon DEF GateTypeOK, GateCalls
<1>6. ~Quiet'
  BY <1>4 DEF Quiet
<1>7. ASSUME ~overlapped'
      PROVE  /\ \A r, q \in Callers : call'[r] # Idle /\ call'[q] # Idle => r = q
             /\ \A q \in Callers : call'[q] # Idle => (open' <=> call'[q].step = "clear")
  <2>1. \A q \in Callers \ {p} : call'[q] = Idle
    BY <1>3, <1>4, <1>7 DEF Quiet
  <2> QED  BY <1>4, <2>1, Zenon
<1> QED  BY <1>5, <1>6, <1>7, Zenon DEF GateInv, ReasonSettles

(* A call ends with the reason. *)
LEMMA EndStep ==
    ASSUME GateInv, NEW p \in Callers, CloseReason(p) \/ OpenClear(p)
    PROVE  GateInv'
<1>1. call \in [Callers -> GateCalls]
  BY DEF GateInv, GateTypeOK, GateCalls
<1>2. /\ call[p] # Idle /\ call' = [call EXCEPT ![p] = Idle]
      /\ UNCHANGED <<open, close_count, closings, overlapped>>
      /\ reason' \in Reasons \cup {NoReason}
      /\ reason' = NoReason <=> call[p].step = "clear"
  BY <1>1, GateAssumption DEF CloseReason, OpenClear, Return, At, GateCalls
<1>3. call'[p] = Idle /\ \A q \in Callers \ {p} : call'[q] = call[q]
  BY <1>1, <1>2
<1>4. GateTypeOK'
  <2>1. call' \in [Callers -> GateCalls]
    BY <1>1, <1>2 DEF GateCalls
  <2> QED  BY <1>2, <2>1 DEF GateInv, GateTypeOK, GateCalls
<1>5. ~overlapped' => (reason' = NoReason <=> open')
  BY <1>2 DEF GateInv
<1> QED  BY <1>2, <1>3, <1>4, <1>5 DEF GateInv, ReasonSettles

LEMMA GateStep == GateInv /\ [GateNext]_gateVars => GateInv'
<1> SUFFICES ASSUME GateInv, [GateNext]_gateVars PROVE GateInv'
  OBVIOUS
<1>1. CASE UNCHANGED gateVars
  BY <1>1 DEF GateInv, GateTypeOK, ReasonSettles, Quiet, gateVars
<1>2. SUFFICES ASSUME NEW p \in Callers,
                      \/ \E why \in Reasons : CloseStore(p, why)
                      \/ CloseCount(p) \/ CloseReason(p) \/ OpenStore(p) \/ OpenClear(p)
               PROVE  GateInv'
  BY <1>1 DEF GateNext
<1>3. /\ call \in [Callers -> GateCalls] /\ closings \in 0 .. MaxClosings /\ MaxClosings \in Nat
      /\ close_count \in Nat
  BY GateAssumption DEF GateInv, GateTypeOK, GateCalls
<1>4. ASSUME NEW why \in Reasons, CloseStore(p, why) PROVE GateInv'
  <2> DEFINE x == [step |-> "count", why |-> why]
  <2>1. x \in GateCalls \ {Idle} /\ x.step = "count" /\ x.why = why
    BY GateAssumption DEF GateCalls
  <2>2. /\ Begin(p, "count", why) /\ closings < MaxClosings /\ closings' = closings + 1
        /\ UNCHANGED <<reason, close_count>>
    BY <1>4 DEF CloseStore
  <2>3. open' = FALSE
    BY <1>4 DEF CloseStore
  <2>4. close_count' \in Nat /\ closings' \in 0 .. MaxClosings
    BY <1>3, <2>2
  <2> HIDE DEF x
  <2> QED  BY <2>1, <2>2, <2>3, <2>4, BeginStep
<1>5. CASE CloseCount(p)
  <2>1. /\ At(p, "count") /\ close_count' = close_count + 1
        /\ call' = [call EXCEPT ![p] = [step |-> "reason", why |-> call[p].why]]
        /\ UNCHANGED <<open, reason, closings, overlapped>>
    BY <1>5 DEF CloseCount, Go
  <2>2. call[p] # Idle /\ call[p].step = "count" /\ call[p].why \in Reasons
    BY <1>3, <2>1 DEF At, GateCalls
  <2> DEFINE x == [step |-> "reason", why |-> call[p].why]
  <2>3. x \in GateCalls /\ x # Idle /\ x.step = "reason"
    BY <2>2, GateAssumption DEF GateCalls
  <2>4. /\ call' \in [Callers -> GateCalls] /\ call'[p] = x
        /\ \A q \in Callers \ {p} : call'[q] = call[q]
    BY <1>3, <2>1, <2>3
  <2> HIDE DEF x
  <2>5. GateTypeOK'
    <3>1. close_count' \in Nat
      BY <2>1 DEF GateInv, GateTypeOK
    <3> QED  BY <2>1, <2>4, <3>1 DEF GateInv, GateTypeOK, GateCalls
  <2>6. ~Quiet'
    BY <2>3, <2>4 DEF Quiet
  <2> QED  BY <2>1, <2>2, <2>3, <2>4, <2>5, <2>6 DEF GateInv, ReasonSettles
<1>6. CASE CloseReason(p) \/ OpenClear(p)
  BY <1>6, EndStep
<1>7. CASE OpenStore(p)
  <2> DEFINE x == [step |-> "clear", why |-> NoReason]
  <2>1. x \in GateCalls \ {Idle} /\ x.step = "clear" /\ x.why = NoReason
    BY GateAssumption DEF GateCalls
  <2>2. Begin(p, "clear", NoReason) /\ UNCHANGED <<reason, close_count, closings>>
    BY <1>7 DEF OpenStore
  <2>3. open' = TRUE
    BY <1>7 DEF OpenStore
  <2> HIDE DEF x
  <2> QED  BY <1>3, <2>1, <2>2, <2>3, BeginStep
<1> QED  BY <1>2, <1>4, <1>5, <1>6, <1>7

LEMMA GateStarts == GateInit => GateInv
<1> SUFFICES ASSUME GateInit PROVE GateInv
  OBVIOUS
<1>1. close_count \in Nat /\ closings \in 0 .. MaxClosings
  BY GateAssumption DEF GateInit
<1> QED  BY <1>1 DEF GateInit, GateInv, GateTypeOK, ReasonSettles

-----------------------------------------------------------------------------
(* Both ends *)

BackpressureInv == EgressInv /\ GateInv

LEMMA BackpressureInvariant == BackpressureSpec => []BackpressureInv
<1>1. BackpressureInit => BackpressureInv
  BY EgressStarts, GateStarts DEF BackpressureInit, BackpressureInv
<1>2. BackpressureInv /\ [BackpressureNext]_<<egressVars, gateVars>> => BackpressureInv'
  BY EgressStep, GateStep DEF BackpressureInv, BackpressureNext
<1> QED  BY <1>1, <1>2, PTL DEF BackpressureSpec

(* send, on_ack, replenish and close keep every variable's type: no more   *)
(* than max_pending events are unacknowledged and no more than buffer_size *)
(* in the channel, and credits stay between zero and the window.           *)
THEOREM BackpressureTypeCorrect == BackpressureSpec => []BackpressureTypeOK
<1>1. BackpressureInv => BackpressureTypeOK
  BY DEF BackpressureInv, EgressInv, CreditInv, GateInv, BackpressureTypeOK
<1> QED  BY <1>1, BackpressureInvariant, PTL

(* The throttle's outstanding credits are GrpcBackpressure's pending       *)
(* events, those in a sender's hand and those on their way back.           *)
THEOREM LayersAgreeHolds == BackpressureSpec => []LayersAgree
<1>1. BackpressureInv => LayersAgree
  BY DEF BackpressureInv, EgressInv
<1> QED  BY <1>1, BackpressureInvariant, PTL

(* Each stream starts after the last acknowledged event, and the channel   *)
(* holds what was sent and not received, in order and without gap.         *)
THEOREM SentInOrderHolds == BackpressureSpec => []SentInOrder
<1>1. BackpressureInv => SentInOrder
  BY DEF BackpressureInv, EgressInv
<1> QED  BY <1>1, BackpressureInvariant, PTL

(* The flag and the reason agree once a call of close or open_gate has     *)
(* run alone, whatever overlapping calls left behind.                      *)
THEOREM ReasonSettlesHolds == BackpressureSpec => []ReasonSettles
<1>1. BackpressureInv => ReasonSettles
  BY DEF BackpressureInv, GateInv
<1> QED  BY <1>1, BackpressureInvariant, PTL
=============================================================================
