------------------------------ MODULE Pipeline ------------------------------
(***************************************************************************)
(* The ingestion pipeline of the core crate: the ring buffer, the write    *)
(* batch, the flush policy and the coordinator that joins them.            *)
(*                                                                         *)
(* Producers push decoded events into the ring from other threads; the     *)
(* coordinator's task pops them into the current batch (drain_ring) and    *)
(* hands the batch to its caller when the policy fires (maybe_flush) or    *)
(* when told to (force_flush).  A push may fall between any two iterations *)
(* of the drain loop, so the loop is one step per iteration.  push and pop *)
(* of the queue under the ring (crossbeam's ArrayQueue) are linearizable,  *)
(* and each is one step.                                                   *)
(*                                                                         *)
(*   ring              the queue's contents, oldest first                  *)
(*   current_batch     PipelineCoordinator.current_batch                   *)
(*   current_bytes,                                                        *)
(*   age, flush_count  FlushPolicy; age is the time since last_flush, and  *)
(*                     stops at MaxAge, the only value it is compared with *)
(*   events_processed,                                                     *)
(*   batches_flushed   PipelineCoordinator's counters                      *)
(*   pc, count         where the coordinator is, and drain_ring's local    *)
(*   accepted          history: the events whose try_push returned Ok      *)
(*   delivered         history: the events of the batches handed over      *)
(***************************************************************************)
EXTENDS Integers, Sequences

CONSTANTS
    Events,     \* what can be pushed
    LsnOf,      \* ChangeEvent::lsn
    SizeOf,     \* ChangeEvent::estimated_size, never 0
    LsnMax,     \* Lsn::MAX
    Capacity,   \* RingBuffer.capacity
    MaxBytes,   \* FlushPolicy.max_bytes
    MaxAge,     \* FlushPolicy.max_age_us
    MaxPushes   \* bound: how many pushes may succeed

ASSUME PipelineAssumption ==
    /\ LsnMax \in Nat
    /\ LsnOf \in [Events -> 0 .. LsnMax]
    /\ SizeOf \in [Events -> Nat \ {0}]
    /\ Capacity \in Nat \ {0}
    /\ MaxBytes \in Nat
    /\ MaxAge \in Nat
    /\ MaxPushes \in Nat

VARIABLES ring, current_batch, current_bytes, age, flush_count,
          events_processed, batches_flushed, pc, count, accepted, delivered

policyVars == <<current_bytes, age, flush_count>>
vars == <<ring, current_batch, policyVars, events_processed, batches_flushed,
          pc, count, accepted, delivered>>

-----------------------------------------------------------------------------
(* WriteBatch *)

WriteBatch ==
    [events : Seq(Events), min_lsn : 0 .. LsnMax, max_lsn : 0 .. LsnMax,
     total_bytes : Nat]

NewBatch ==
    [events |-> <<>>, min_lsn |-> LsnMax, max_lsn |-> 0, total_bytes |-> 0]

\* Fault: the event is put in front of the ones already batched.
BatchPush_Reorders(b, e) ==
    [events      |-> <<e>> \o b.events,
     min_lsn     |-> IF LsnOf[e] < b.min_lsn THEN LsnOf[e] ELSE b.min_lsn,
     max_lsn     |-> IF LsnOf[e] > b.max_lsn THEN LsnOf[e] ELSE b.max_lsn,
     total_bytes |-> b.total_bytes + SizeOf[e]]

BatchPush(b, e) ==
    [events      |-> Append(b.events, e),
     min_lsn     |-> IF LsnOf[e] < b.min_lsn THEN LsnOf[e] ELSE b.min_lsn,
     max_lsn     |-> IF LsnOf[e] > b.max_lsn THEN LsnOf[e] ELSE b.max_lsn,
     total_bytes |-> b.total_bytes + SizeOf[e]]

(* FlushPolicy *)

\* Fault: only the size threshold is tested.
ShouldFlush_NoAge ==
    current_bytes >= MaxBytes

ShouldFlush ==
    \/ current_bytes >= MaxBytes
    \/ age >= MaxAge /\ current_bytes > 0

\* Fault: the byte counter is not reset.
MarkFlushed_KeepsBytes ==
    /\ UNCHANGED current_bytes
    /\ age' = 0
    /\ flush_count' = flush_count + 1

MarkFlushed ==
    /\ current_bytes' = 0
    /\ age' = 0
    /\ flush_count' = flush_count + 1

-----------------------------------------------------------------------------

Init ==
    /\ ring = <<>>
    /\ current_batch = NewBatch
    /\ current_bytes = 0 /\ age = 0 /\ flush_count = 0
    /\ events_processed = 0 /\ batches_flushed = 0
    /\ pc = "idle" /\ count = 0
    /\ accepted = <<>> /\ delivered = <<>>

(* A producer's try_push.  When the ring is full the event goes back to    *)
(* the producer and nothing changes.                                       *)
TryPush(e) ==
    IF Len(ring) < Capacity
    THEN /\ Len(accepted) < MaxPushes
         /\ ring' = Append(ring, e)
         /\ accepted' = Append(accepted, e)
         /\ UNCHANGED <<current_batch, policyVars, events_processed,
                        batches_flushed, pc, count, delivered>>
    ELSE UNCHANGED vars

(* drain_ring: entry, one iteration, and the exit on an empty ring. *)
DrainStart ==
    /\ pc = "idle"
    /\ pc' = "draining"
    /\ count' = 0
    /\ UNCHANGED <<ring, current_batch, policyVars, events_processed,
                   batches_flushed, accepted, delivered>>

DrainPop ==
    /\ pc = "draining"
    /\ ring # <<>>
    /\ ring' = Tail(ring)
    /\ current_batch' = BatchPush(current_batch, Head(ring))
    /\ current_bytes' = current_bytes + SizeOf[Head(ring)]
    /\ count' = count + 1
    /\ UNCHANGED <<age, flush_count, events_processed, batches_flushed, pc,
                   accepted, delivered>>

DrainDone ==
    /\ pc = "draining"
    /\ ring = <<>>
    /\ pc' = "idle"
    /\ events_processed' = events_processed + count
    /\ count' = 0
    /\ UNCHANGED <<ring, current_batch, policyVars, batches_flushed,
                   accepted, delivered>>

\* Fault: the batch is handed over as a copy and stays current.
HandOver_Copies ==
    /\ UNCHANGED current_batch
    /\ MarkFlushed
    /\ batches_flushed' = batches_flushed + 1
    /\ delivered' = delivered \o current_batch.events
    /\ UNCHANGED <<ring, events_processed, pc, count, accepted>>

(* The batch is replaced by a new one and returned to the caller. *)
HandOver ==
    /\ current_batch' = NewBatch
    /\ MarkFlushed
    /\ batches_flushed' = batches_flushed + 1
    /\ delivered' = delivered \o current_batch.events
    /\ UNCHANGED <<ring, events_processed, pc, count, accepted>>

MaybeFlush ==
    /\ pc = "idle"
    /\ IF ShouldFlush /\ current_batch.events # <<>>
       THEN HandOver
       ELSE UNCHANGED vars

ForceFlush ==
    /\ pc = "idle"
    /\ IF current_batch.events # <<>>
       THEN HandOver
       ELSE UNCHANGED vars

Tick ==
    /\ age < MaxAge
    /\ age' = age + 1
    /\ UNCHANGED <<ring, current_batch, current_bytes, flush_count,
                   events_processed, batches_flushed, pc, count, accepted,
                   delivered>>

Next ==
    \/ \E e \in Events : TryPush(e)
    \/ DrainStart
    \/ DrainPop
    \/ DrainDone
    \/ MaybeFlush
    \/ ForceFlush
    \/ Tick

Spec == Init /\ [][Next]_vars

(* The coordinator "runs in a dedicated task": it keeps calling drain_ring *)
(* and maybe_flush, and time passes.  Nobody has to call force_flush, and  *)
(* no producer has to push.  drain_ring and maybe_flush are called in turn *)
(* by the one task, so maybe_flush is called again and again although pc   *)
(* leaves "idle" in between: that is strong fairness.                      *)
Fairness ==
    /\ WF_vars(DrainStart \/ DrainPop \/ DrainDone)
    /\ SF_vars(MaybeFlush)
    /\ WF_vars(Tick)

FairSpec == Spec /\ Fairness
-----------------------------------------------------------------------------
(* Properties *)

(* Every variable has its type; count is live only inside drain_ring, and  *)
(* the ring never holds more than RingBuffer.capacity events.              *)
TypeOK ==
    /\ ring \in Seq(Events) /\ Len(ring) <= Capacity
    /\ current_batch \in WriteBatch
    /\ current_bytes \in Nat /\ age \in 0 .. MaxAge /\ flush_count \in Nat
    /\ events_processed \in Nat /\ batches_flushed \in Nat
    /\ pc \in {"idle", "draining"} /\ count \in Nat
    /\ pc = "idle" => count = 0
    /\ accepted \in Seq(Events) /\ delivered \in Seq(Events)

(* Whatever pushes fall between the iterations of drain_ring, and whenever *)
(* a flush is called, each accepted event is in exactly one place - handed *)
(* over, in the current batch or in the ring - and the three, read in that *)
(* order, are the order of acceptance (ring.rs try_push/try_pop,           *)
(* coordinator.rs drain_ring, maybe_flush, force_flush).                   *)
NoLossInOrder ==
    accepted = delivered \o current_batch.events \o ring

(* What the batch says of itself is true of its events, and the policy's   *)
(* own byte counter, kept beside the batch's, never drifts from it: in     *)
(* particular the age trigger's test current_bytes > 0 is the batch's      *)
(* !is_empty (batch.rs push, flush.rs accumulate, should_flush).           *)
BatchSummary ==
    LET es == current_batch.events IN
    /\ \A i \in 1 .. Len(es) :
           current_batch.min_lsn <= LsnOf[es[i]] /\ LsnOf[es[i]] <= current_batch.max_lsn
    /\ es # <<>> => /\ \E i \in 1 .. Len(es) : LsnOf[es[i]] = current_batch.min_lsn
                    /\ \E i \in 1 .. Len(es) : LsnOf[es[i]] = current_batch.max_lsn
    /\ es = <<>> => current_batch = NewBatch
    /\ current_bytes = current_batch.total_bytes
    /\ current_bytes > 0 <=> es # <<>>

(* The counters the coordinator and the policy keep apart tell one story:  *)
(* every event taken from the ring is counted once, both count the same    *)
(* flushes, and no flush hands over an empty batch (coordinator.rs         *)
(* events_processed, batches_flushed; flush.rs flush_count).               *)
CountersAgree ==
    /\ events_processed + count = Len(delivered) + Len(current_batch.events)
    /\ batches_flushed = flush_count
    /\ batches_flushed <= Len(delivered)

Log == INSTANCE EventLog

(* The pipeline implements EventLog: batches come out as a growing prefix  *)
(* of the log of accepted events (coordinator.rs, batch.rs, ring.rs).      *)
ImplementsEventLog == Log!Spec

(* An accepted event is handed over by maybe_flush alone, however few      *)
(* bytes wait behind it: the age threshold fires for it (flush.rs          *)
(* should_flush), even if nobody calls force_flush.                        *)
EventuallyDelivered ==
    \A n \in 1 .. MaxPushes : Len(accepted) >= n ~> Len(delivered) >= n
=============================================================================
