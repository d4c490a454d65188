------------------------------- MODULE Ingest -------------------------------
(***************************************************************************)
(* From PostgreSQL to RocksDB and back: the replication stream feeds the   *)
(* pipeline, the pipeline's batches are written to the tenant's store, and *)
(* the AckManager tells PostgreSQL how far it may forget.  The process may *)
(* crash and the connection may drop at any moment.                        *)
(*                                                                         *)
(* External, modelled from how the code uses it:                           *)
(*  - PostgreSQL.  It sends whole transactions in commit order; a change   *)
(*    carries the LSN of its own WAL record, so the LSNs of transactions   *)
(*    that ran side by side arrive out of order, and the rows of one COPY  *)
(*    record share an LSN.  After a reconnect it sends every transaction   *)
(*    that commits after the slot's confirmed_flush_lsn, which only grows. *)
(*  - The task that joins the parts, which main.rs does not have yet: it   *)
(*    pushes each decoded event, retrying while the ring is full; it       *)
(*    writes a flushed batch before it drains again ("The caller is        *)
(*    responsible for writing the batch to storage"); and it confirms the  *)
(*    batch's max_lsn once write_batch has returned Ok.                    *)
(*                                                                         *)
(*   cursor    the next message PostgreSQL sends: a transaction and a      *)
(*             change in it, the one after the last being its Commit       *)
(*   received, confirmed, dirty   AckManager                               *)
(*   slot      the slot's confirmed_flush_lsn in PostgreSQL                *)
(*   pending   the batch maybe_flush returned, until it is confirmed       *)
(*   store     the column family.  It survives a crash of the process; the *)
(*             loss of unsynced writes with the machine is not modelled    *)
(*   restarts  bound: crashes and reconnects so far                        *)
(***************************************************************************)
EXTENDS Pipeline

CONSTANTS
    Txns,         \* the transactions in commit order: change LSNs and commit LSN
    XidOf,        \* ChangeEvent.xid, which the decoder sets to 0
    MaxRestarts   \* bound

VARIABLES cursor, received, confirmed, dirty, slot, pending, store, restarts

ackVars == <<received, confirmed, dirty>>
restVars == <<cursor, ackVars, slot, pending, store, restarts>>
ivars == <<vars, restVars>>

S == INSTANCE Store

Changes == UNION {{<<t, i>> : i \in DOMAIN Txns[t].changes} : t \in DOMAIN Txns}

(* A change's record precedes its transaction's commit record, and commits *)
(* have the order of their records.  Changes may share a record, and then  *)
(* they share the key that make_key gives them.                            *)
ASSUME IngestAssumption ==
    /\ Len(Txns) \in Nat /\ DOMAIN Txns = 1 .. Len(Txns) /\ MaxRestarts \in Nat
    /\ \A t \in DOMAIN Txns : /\ Txns[t].commit \in 1 .. LsnMax
                             /\ Len(Txns[t].changes) \in Nat
                             /\ DOMAIN Txns[t].changes = 1 .. Len(Txns[t].changes)
    /\ Events = Changes
    /\ LsnOf = [e \in Changes |-> Txns[e[1]].changes[e[2]]]
    /\ \A e \in Changes : LsnOf[e] < Txns[e[1]].commit
    /\ \A t, u \in DOMAIN Txns : t < u => Txns[t].commit < Txns[u].commit

(* START_REPLICATION: the first transaction past the slot's position. *)
StartCursor(lsn) ==
    LET rest == {t \in DOMAIN Txns : Txns[t].commit > lsn}
    IN  [txn |-> IF rest = {} THEN Len(Txns) + 1
                 ELSE CHOOSE t \in rest : \A u \in rest : t <= u,
         msg |-> 1]

NoBatch == [batch |-> NewBatch, written |-> FALSE]

IngestInit ==
    /\ Init
    /\ cursor = StartCursor(0)
    /\ received = 0 /\ confirmed = 0 /\ dirty = FALSE
    /\ slot = 0
    /\ pending = NoBatch
    /\ store = S!Empty
    /\ restarts = 0

-----------------------------------------------------------------------------
(* AckManager *)

AdvanceReceived(lsn) ==
    IF lsn > received THEN received' = lsn /\ dirty' = TRUE
    ELSE UNCHANGED <<received, dirty>>

AdvanceConfirmed(lsn) ==
    IF lsn > confirmed THEN confirmed' = lsn /\ dirty' = TRUE
    ELSE UNCHANGED <<confirmed, dirty>>

\* Fault: the received position is reported as flushed.
SendStatus_Received ==
    /\ slot' = IF received > slot THEN received ELSE slot
    /\ dirty' = FALSE
    /\ UNCHANGED <<vars, cursor, received, confirmed, pending, store, restarts>>

(* should_ack and build_status_update.  max_interval may have elapsed at   *)
(* any moment, so an update may always go out.  The flush position it      *)
(* carries is what PostgreSQL stores; a position behind the slot's is      *)
(* ignored there.                                                          *)
SendStatus ==
    /\ slot' = IF confirmed > slot THEN confirmed ELSE slot
    /\ dirty' = FALSE
    /\ UNCHANGED <<vars, cursor, received, confirmed, pending, store, restarts>>

(* ReplicationStream::process_message and what follows it: the decoder     *)
(* turns a change into an event; on a Commit it only logs, and the reader  *)
(* advances the position received.                                         *)
ReceiveChange ==
    /\ cursor.txn \in DOMAIN Txns
    /\ cursor.msg \in DOMAIN Txns[cursor.txn].changes
    /\ Len(ring) < Capacity
    /\ LET e == <<cursor.txn, cursor.msg>>
       IN  TryPush(e) /\ AdvanceReceived(LsnOf[e])
    /\ cursor' = [cursor EXCEPT !.msg = @ + 1]
    /\ UNCHANGED <<confirmed, slot, pending, store, restarts>>

ReceiveCommit ==
    /\ cursor.txn \in DOMAIN Txns
    /\ cursor.msg \notin DOMAIN Txns[cursor.txn].changes
    /\ AdvanceReceived(Txns[cursor.txn].commit)
    /\ cursor' = [txn |-> cursor.txn + 1, msg |-> 1]
    /\ UNCHANGED <<vars, confirmed, slot, pending, store, restarts>>

Drain ==
    /\ pending = NoBatch
    /\ DrainStart \/ DrainPop \/ DrainDone
    /\ UNCHANGED restVars

(* A flush that returns Some batch leaves it with the task. *)
TakeBatch ==
    /\ pending = NoBatch
    /\ delivered' # delivered
    /\ pending' = [batch |-> current_batch, written |-> FALSE]
    /\ UNCHANGED <<cursor, ackVars, slot, store, restarts>>

FlushIfDue == MaybeFlush /\ TakeBatch

FlushForced == ForceFlush /\ TakeBatch

WriteBatchToStore ==
    /\ pending # NoBatch
    /\ ~pending.written
    /\ store' = S!Put(store, pending.batch.events)
    /\ pending' = [pending EXCEPT !.written = TRUE]
    /\ UNCHANGED <<vars, cursor, ackVars, slot, restarts>>

\* Fault: the batch is confirmed without waiting for write_batch.
ConfirmBatch_Unwritten ==
    /\ pending # NoBatch
    /\ AdvanceConfirmed(pending.batch.max_lsn)
    /\ pending' = NoBatch
    /\ UNCHANGED <<vars, cursor, received, slot, store, restarts>>

ConfirmBatch ==
    /\ pending # NoBatch
    /\ pending.written
    /\ AdvanceConfirmed(pending.batch.max_lsn)
    /\ pending' = NoBatch
    /\ UNCHANGED <<vars, cursor, received, slot, store, restarts>>

PassTime == Tick /\ UNCHANGED restVars

(* A lost connection: PostgreSQL starts over from the slot's position,     *)
(* while what was received stays in the pipeline.                          *)
Reconnect ==
    /\ restarts < MaxRestarts
    /\ restarts' = restarts + 1
    /\ cursor' = StartCursor(slot)
    /\ UNCHANGED <<vars, ackVars, slot, pending, store>>

(* The process dies and starts again: all but the store is new. *)
Crash ==
    /\ restarts < MaxRestarts
    /\ restarts' = restarts + 1
    /\ ring' = <<>> /\ current_batch' = NewBatch
    /\ current_bytes' = 0 /\ age' = 0 /\ flush_count' = 0
    /\ events_processed' = 0 /\ batches_flushed' = 0
    /\ pc' = "idle" /\ count' = 0
    /\ accepted' = <<>> /\ delivered' = <<>>
    /\ cursor' = StartCursor(slot)
    /\ received' = 0 /\ confirmed' = 0 /\ dirty' = FALSE
    /\ pending' = NoBatch
    /\ UNCHANGED <<slot, store>>

IngestNext ==
    \/ ReceiveChange
    \/ ReceiveCommit
    \/ Drain
    \/ FlushIfDue
    \/ FlushForced
    \/ WriteBatchToStore
    \/ ConfirmBatch
    \/ SendStatus
    \/ PassTime
    \/ Reconnect
    \/ Crash

IngestSpec == IngestInit /\ [][IngestNext]_ivars

(* The reader and the coordinator's task keep running; nothing obliges the *)
(* connection to drop, the process to crash, a status to be sent or a      *)
(* flush to be forced.  The task calls drain_ring and maybe_flush in turn, *)
(* so a flush that falls due again and again happens: strong fairness.     *)
IngestFairness ==
    /\ WF_ivars(ReceiveChange) /\ WF_ivars(ReceiveCommit)
    /\ WF_ivars(Drain) /\ SF_ivars(FlushIfDue)
    /\ WF_ivars(WriteBatchToStore) /\ WF_ivars(ConfirmBatch)
    /\ WF_ivars(PassTime)

IngestFairSpec == IngestSpec /\ IngestFairness

-----------------------------------------------------------------------------
(* Properties *)

IngestTypeOK ==
    /\ TypeOK
    /\ cursor \in [txn : 1 .. Len(Txns) + 1, msg : Nat \ {0}]
    /\ received \in 0 .. LsnMax /\ confirmed \in 0 .. LsnMax /\ slot \in 0 .. LsnMax
    /\ dirty \in BOOLEAN
    /\ pending \in [batch : WriteBatch, written : BOOLEAN]
    /\ DOMAIN store \subseteq {S!MakeKey(e) : e \in Events}
    /\ restarts \in 0 .. MaxRestarts

(* The key of e is in the store, with e there or a change of the same key  *)
(* that overwrote it.                                                      *)
Kept(st, e) ==
    \E d \in Changes : S!MakeKey(d) = S!MakeKey(e) /\ S!Holds(st, d)

Stored(e) == Kept(store, e)

InFlight(e) ==
    \/ \E i \in DOMAIN ring : ring[i] = e
    \/ \E i \in DOMAIN current_batch.events : current_batch.events[i] = e
    \/ \E i \in DOMAIN pending.batch.events : pending.batch.events[i] = e

StillToCome(e) ==
    \/ e[1] > cursor.txn
    \/ e[1] = cursor.txn /\ e[2] >= cursor.msg

(* PostgreSQL may discard what the slot confirms, so a transaction the     *)
(* slot has passed must be in the store, every change of it - though the   *)
(* position confirmed is the largest LSN of a batch, and change LSNs do    *)
(* not arrive in order ("The highest LSN we have confirmed durable",       *)
(* ack.rs; batch.rs max_lsn; coordinator.rs).  Of changes with one key     *)
(* make_key lets a single one survive, so a change counts as stored when   *)
(* its key holds one of them; one that has its key to itself is there.     *)
AckedIsStored ==
    \A t \in DOMAIN Txns : Txns[t].commit <= slot =>
        \A i \in DOMAIN Txns[t].changes : Stored(<<t, i>>)

(* Across crashes and reconnects no change falls between the chairs: it is *)
(* stored, on its way through the pipeline, or PostgreSQL will (re)send it *)
(* (stream.rs, coordinator.rs, tenant.rs write_batch, ack.rs).             *)
NoGap ==
    \A e \in Changes : Stored(e) \/ InFlight(e) \/ StillToCome(e)

(* The status update never claims to have flushed what it has not yet      *)
(* reported as written (ack.rs build_status_update), although the reader   *)
(* and the coordinator advance the two positions independently.            *)
FlushBehindWrite == confirmed <= received

(* Every committed change reaches the store, if crashes and reconnects     *)
(* stop (they are bounded by MaxRestarts).                                 *)
EventuallyStored == <>[](\A e \in Changes : Stored(e))

(* Not kept: no change is overwritten by another.  The key that            *)
(* tenant.rs:16 promises ends in a table_hash, make_key's has only the LSN *)
(* and the xid, and even the promised one does not tell the rows of one    *)
(* COPY apart.                                                             *)
EachChangeIsKept ==
    \A t \in DOMAIN Txns : Txns[t].commit <= slot =>
        \A i \in DOMAIN Txns[t].changes : S!Holds(store, <<t, i>>)
=============================================================================
