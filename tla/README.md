# Nendi in TLA+

Nendi is a change-data-capture daemon. It reads PostgreSQL's logical
replication stream, stores the changes in RocksDB, and serves them to gRPC
consumers and webhooks. This directory holds TLA+ models of its components,
the TLC configurations that check them on small instances, and TLAPS proofs of
their main safety properties for every instance. All paths below are relative to
`src/` of the repository; abbreviations are

    core/  = core/src/        http/ = http/src/
    pgsql/ = services/pgsql/src/    shared/ = shared/src/

Contents: [the system](#the-system) - [the modules](#the-modules) -
[runs](#runs) - [bounds](#bounds) - [fairness](#fairness) -
[proofs](#proofs) - [statements the code does not keep](#statements-the-code-does-not-keep) -
[not modelled](#not-modelled) - [what is next](#what-is-next) - [running it](#running-it).

## The system

    PostgreSQL --messages--> ReplicationStream + PgOutputDecoder --events--> RingBuffer
        ^                          |  received LSN                             |
        |                          v                                           v
        +---- status update -- AckManager <-- confirmed LSN -- TenantStore <-- PipelineCoordinator
                                                                 |  ^          (WriteBatch, FlushPolicy)
                            consumers: ReplayManager, Credit <---+  |
                            webhooks: batcher, breaker, DLQ         |
                            OffsetRegistry, WatermarkTracker --> GcScheduler --> EventGcFilter

`cmd/nendi/src/main.rs` starts and stops the daemon but does not connect these
parts yet. Where a model needs the code that joins two of them, that code is
marked *external* in the module's header, and says which comment or signature of
the source it follows: the caller "is responsible for writing the batch to
storage" (`core/pipeline/coordinator.rs`), for instance.

### Inventory

| Part | State | Operations | What makes it hard |
|---|---|---|---|
| Pipeline: `shared/queue/ring.rs`, `core/pipeline/{batch,flush,coordinator}.rs` | bounded queue, current batch and its summary, byte count, age, counters | try_push, drain_ring, maybe_flush, force_flush | producers push between the iterations of the drain; two byte counts must not drift; a few bytes must still leave |
| Offsets: `core/offset/{registry,manager}.rs` | consumer -> LSN in a concurrent map | commit, unregister, resume_lsn, min_offset | check and insert are two steps; the minimum is read entry by entry |
| Tenant store: `core/storage/rocks/tenant.rs` | key -> event | write_batch, read_from | the key is the change's LSN and xid, not the arrival order |
| Acknowledgement: `pgsql/replication/{ack,stream}.rs` | received and confirmed LSN, dirty flag | advance_received, advance_confirmed, build_status_update | crash or reconnect between storing, confirming and reporting; LSNs arrive out of order |
| Retention: `core/storage/gc/*.rs`, `core/storage/rocks/compaction.rs`, `http/egress/grpc/replay.rs` | tracker map, last watermark, running compaction, consumers' positions | update, remove, watermark, maybe_gc, filter, replay | the watermark is stale by the time keys are dropped; two maps are told of a commit in turn; consumers come and go during a scan |
| Webhooks: `http/egress/webhook/*.rs` | batch buffer, breaker, retries, dead-letter queue | push, drain, allow_request, on_success, on_failure, should_retry, drain_all | late answers of concurrent requests; a breaker that must not stay shut; a full queue |
| WAL: `core/storage/wal/batch.rs` | segment files, current segment and its bytes | append, rotate, sync, gc_segments | three writes per record and a rotation, each of which may fail half way |
| Decoder: `pgsql/decoding/pgoutput.rs` | cache of relations | decode of each message | changes are decoded with metadata from an earlier message, across ALTER TABLE and reconnects |
| Ingestion filter: `core/pipeline/ingestion.rs` | rules per table | from_config with its parser, add_rule, accept | reads columns by the names the decoder's cache gave them; symbols that contain one another |
| Event encoding: `shared/serialize/proto.rs` | none | encode_event, decode_event | every field is found from the lengths before it; NULL, empty and missing |
| DDL capture: `pgsql/trigger/ddl/*.rs`, `pgsql/schema/buffer.rs` | buffer of DDL changes | handle_ddl_message, drain_up_to, set_monitored_tables | filled in the order of arrival and drained by LSN; the list of tables is replaced while changes wait |
| Replication throttle: `pgsql/replication/throttle.rs` | tokens, last_refill | try_acquire, backoff_duration | fractions of tokens over many short calls; a wait that is rounded |
| Snapshot: `pgsql/snapshot/*.rs`, `pgsql/replication/slot.rs` | slot position, export transaction, events gathered | ensure_slot, drop_slot, begin_export, snapshot_table, commit_export | rows change between any two of these; one table of several fails; a restart half way |
| Schema registry: `pgsql/schema/{registry,fingerprint}.rs` | table -> columns, key, fingerprint | load_publication_schemas, upsert, get, validate_fingerprint | two queries per table, each of its own moment, each of which may fail |
| Daemon: `cmd/nendi/src/main.rs`, `core/daemon/lifecycle.rs`, `http/health/endpoint.rs` | lifecycle state, readiness, signal handlers | run_daemon step by step | signals and health probes between any two steps |
| Lag policy: `pgsql/slot/{policy,manager}.rs` | paused or not | evaluate, should_pause, can_resume, check_lag | pausing the reader stops what would end the pause |
| Credit throttle: `core/backpressure/throttle.rs` | an atomic counter | try_consume, replenish, reset | racing compare-exchange loops with spurious failures |
| gRPC stream: `http/egress/grpc/{stream,backpressure}.rs` | channel, last_sent_lsn, events_sent, pending | send, on_send, on_ack, should_pause | three limits on one sender, each freed by another task; a send and its count are two steps |
| Gate: `core/backpressure/gate.rs` | flag, reason, counter | close, open_gate | three separate stores, two callers |

`PROJECT.json` lists these components and the ones not modelled, and the hazards
of the code, each at the line where it bites and with the properties that would
catch it going wrong.

## The modules

| Module | Models | Notes |
|---|---|---|
| `EventLog` | what the pipeline promises | abstract: a log of accepted events and a growing delivered prefix |
| `Pipeline` | ring, batch, flush policy, coordinator | implements `EventLog` under the identity mapping on `accepted`, `delivered` |
| `MinScan` | an entry-by-entry minimum over a concurrent map | shared by `Offsets` (`min_offset`) and `Retention` (`WatermarkTracker::watermark`) |
| `Offsets` | OffsetRegistry and OffsetManager | commit in two steps, by any number of threads; proofs in `ConsumerProofs` |
| `Store` | TenantStore's keys, writes and range reads | operators, instantiated by `Ingest`, `Retention`, `Snapshot` |
| `Ingest`, `IngestProofs` | stream, pipeline, store and AckManager together | EXTENDS `Pipeline`; PostgreSQL's slot, crashes and reconnects. The proofs begin with the pipeline's own |
| `Retention`, `RetentionProofs` | consumers, offsets, tracker, GC scheduler, compaction, replay | composes `MinScan` and `Store` |
| `Webhook`, `WebhookProofs` | batcher, breaker, retry policy, dead-letter queue | several delivering tasks |
| `Wal` | WalWriter | file system failures at every call; proofs in `FormatProofs` |
| `Values` | the constants that `Decoder`, `FilterRule`, `Wire` and `Admission` share | |
| `Decoder` | PgOutputDecoder behind ReplicationStream | PostgreSQL's side of the protocol external |
| `FilterRule` | the parser of filter expressions | operators, used by `Admission`; proofs in `FormatProofs` |
| `Wire` | encode_event, decode_event | operators, used by `Admission`; proofs in `FormatProofs` |
| `Admission`, `AdmissionProofs` | IngestionFilter on the decoder's events, and what the store reads back | EXTENDS `Decoder`, `FilterRule`, `Wire` |
| `Ddl` | DDL handler, parser and buffer | the caller external: any call at any time |
| `ReplicationThrottle` | the token bucket | |
| `ReplicationStream`, `StreamProofs` | `Decoder`, `Ddl` and `ReplicationThrottle` side by side | they share no state; `MCDecoder` adds `Admission` |
| `Snapshot` | slot creation and removal, exporter, builder | concurrent clients, restarts |
| `Registry` | schema registry, its loader, fingerprints | concurrent ALTERs |
| `Daemon` | run_daemon, Lifecycle, HealthEndpoint | signals external |
| `Startup`, `StartupProofs` | `Snapshot`, `Registry` and `Daemon` side by side | they share no state |
| `LagPause` | LagPolicy and SlotLifecycleManager::check_lag | |
| `Credit` | CreditThrottle | |
| `Egress` | ConsumerStream, GrpcBackpressure | EXTENDS `Credit`: the two layers of flow control to a consumer |
| `Gate` | BackpressureGate | |
| `Backpressure` | `Egress` and `Gate` side by side | they share no state |
| `ConsumerProofs` | theorems about `Offsets` and `Backpressure` | the consumers' side |
| `FormatProofs` | theorems about `FilterRule`, `Wal` and `Wire` | what is read is what was written |
| `MC*` | instances for TLC | |

### How state and actions correspond to the code

The header of each module names, variable by variable, the field it stands
for; `map` in `PROJECT.json` gives the lines of every definition. An action is as
atomic as the code: a method taking `&mut self`, or holding a lock, is one action;
a method that reads and writes shared memory in separate operations has one
action per operation. The choices that matter:

* **Pipeline.** `drain_ring` is three actions (entry, one pop, exit) because the ring
  is shared with producers. `maybe_flush` and `force_flush` touch only the
  coordinator's own fields and are one action each. The clock is an age that
  saturates at `MaxAge`, the only value `should_flush` compares it with. An event
  is a member of `Events` with an LSN and a size; a size is positive, as an
  event's size includes its fixed fields.
* **Offsets.** `commit` is `CommitCheck` and `CommitInsert`: the code drops the
  guard of `get` before `insert`. The scan visits the entries in any order while
  commits go on; an entry inserted behind it is not seen.
* **Ingest.** A transaction's changes carry their own LSNs, which need not be
  above those of a transaction that committed earlier. PostgreSQL sends whole
  transactions in commit order and, after a reconnect, all that commit after
  the slot's position. Changes of one WAL record (a COPY) share their LSN, and so
  the key of the store. `Drain` is a step of `drain_ring`, one of `Pipeline`'s
  `DrainStart`, `DrainPop` and `DrainDone`: the reader pushes and the process
  crashes in between as well. A crash keeps only the store and the slot.
* **Retention.** A session sends pages of `PageSize` events from `read_from`. A
  commit goes to the registry, and then, a step later, to the tracker. The
  watermark is scanned entry by entry, `maybe_gc` compares it with the last one,
  and compaction meets the keys one at a time. Only a commit puts a consumer into
  the tracker, and each disconnect removes it from there or does not, as the source
  leaves that open. `since` records from when on the collector counts a consumer,
  and with which watermark behind it; `late` has the events stored behind its
  position. The properties are about counted consumers; the others are not protected
  (`ConsumedByAll`, below).
* **Webhook.** A task drains a batch and keeps it over its attempts. The answer of
  a request arrives at any later time; the breaker cannot tell whose it is, and
  neither can the model. `opened` abstracts the breaker's timer to "recent" and
  "elapsed".
* **Wal.** A record is written by three `write_all` calls; if one fails the segment
  ends with `Torn`, and the counters keep their old values; a reader, which finds a
  record by the lengths before it, can frame nothing behind that (`Framed`). `rotate` may fail
  after it has counted the new segment. A file has its records and the bytes of
  the whole ones, which is what `segment_bytes` counts. `gc_segments` returns at the first file it cannot
  remove, in the directory's order, so any subset of the old segments may go.
* **Decoder.** A table's version `v` has columns `1 .. v`. A tuple is a sequence of
  texts, NULLs and unchanged markers, and decodes to names and values the way
  `decode_tuple_data` does: the last two become the same value. Malformed
  messages are not modelled.
* **Admission.** `Accept` is a function of the last event, so the filter adds no
  state. The comparisons of texts are relations (`Compare`); the property compares
  `Accept`, under the rules as `ParseFilterExpr` read them, with the rules as they
  were meant and the row PostgreSQL wrote. In `Wire` a number of fixed width is one
  unit of the buffer and a text as many as it is long; lengths are taken modulo
  their width. In `FilterRule` blanks are trimmed already.
* **Ddl.** Nothing in the source calls the handler, so messages, drains and new lists
  of tables come in any order with any LSNs. The properties compare the buffer with
  the histories of these calls. That a message of the stream gets here is not modelled:
  `decode` drops it, as the table below says.
* **ReplicationThrottle.** A token is `Unit` units and a tick of the clock is worth
  `rate` of them, so that every sum is an integer; the wait is rounded to ticks as
  `Duration::from_secs_f64` rounds to nanoseconds. `Watch` lets an observer start
  counting at any moment.
* **Snapshot.** Each change is one WAL record; the export transaction sees the
  slot's point if it was given a snapshot name, and otherwise the point of its
  first query. A table's rows come in any order. `try_get::<String>(i).ok()` makes NULL
  of a column whose type does not convert to a String: `AsRead` is a row so
  read, through a constant function `TryGet`. The slot's LSN goes through its text
  form. `EnsureSlot` and `BeginExport` have PostgreSQL's answer as a parameter: the slot's
  point is a `pg_lsn`, which read as a `&str` panics, and the view that
  `begin_export` queries has no column `snapshot_name`; the models go on where the
  code would with an answer of the type it asks for, and end where it would not. A
  start that finds a slot gets no LSN from `ensure_slot` and goes on
  without a snapshot, as `SlotLifecycleManager::init` does.
* **Registry.** The two queries of a table are two actions, as clients may alter
  the table in between. A failed columns query ends the load with what it has
  registered in place; a failed key query counts as an empty key. A column has a name, a type
  and whether it may be NULL; the fingerprint is `Hash`, any function, of what `compute` feeds to it.
  One task loads;
  two at once could put an older definition over a newer one.
* **Daemon.** One action per statement of `run_daemon` that changes state. A signal
  before `wait_for_shutdown` has installed its handlers kills the process.
* **Credit, Egress.** A failed weak exchange needs no reason. A consumer
  acknowledges only what it received. A thread calls on_send and, a step later, send, and the
  acknowledgement reaches `pending` first and the credits a step later. Which of on_send and
  send comes first is the caller's choice, and external: in the other order an
  acknowledgement between the two is lost to on_ack's saturating subtraction. `Reset` comes with a new
  stream, when the old
  one's tasks have ended.
* **Gate.** `overlapped` records whether calls ran side by side since the gate was last
  quiet, which is what decides whether flag and reason fit.

## Runs

Numbers of distinct states are TLC's. "violation" runs check a sentence of the
repository that the code does not keep; `findings` in `PROJECT.json` quotes it.

| Run | Instance | Shows | States |
|---|---|---|---|
| `pipeline` | three events, ring of two, four pushes | `NoLossInOrder`: an accepted event is handed over, batched or in the ring, in order of acceptance. `BatchSummary`: the batch's LSN range and both byte counts are those of its events. `ImplementsEventLog`. `EventuallyDelivered`: the age test gets out what the byte test does not | 20 076 |
| `offsets_exclusive` | two consumers, each with its own thread | `NeverRegresses`: committed offset and resume position never go back. `WatermarkSafe`: a scan racing commits and removals never passes a consumer that stayed registered | 35 374 |
| `offsets_shared` | two threads commit for one consumer | **violation** of `NeverRegresses`: both pass the test, the lower inserts last | |
| `ingest` | two overlapping transactions, one with two changes of one LSN, a ring of one, two crashes or reconnects | `AckedIsStored`: of whatever PostgreSQL may discard the keys are stored. `NoGap`: a change's key is stored, or it is in flight, or it will be sent again. `EventuallyStored` | 500 362 |
| `retention` | two consumers, three events, one stored behind a later LSN | From when a consumer is counted, `CollectedWasSent`: what is collected it was sent, or came behind its position. `MissedOnlyLate`: up to its position it misses nothing else. `ResumeIsServed`: all from its resume position on is still there | 1.9 million |
| `retention_out_of_order` | the same | **violation** of `StreamHasNoGap`: a reader past that LSN never gets the event | |
| `webhook` | two tasks, four events, batches of two, queue of two | `ExactlyOnePlace`: no event is lost unseen, none both delivered and dead-lettered. `ClosedBelowThreshold`. `ProbeUnderWay`: HalfOpen never waits for nothing. `AllSettled` | 24 067 |
| `wal` | records of one or two bytes, segments of two, six appends | `ReplayInOrder`: whatever fails, what can be framed of the segments, read in order, is in the order it was appended. `SegmentsBounded`: a segment exceeds the limit by less than a record, or is a single record | 191 266 |
| `decoder` | two tables, altered once each, under each of a set of filter configurations; DDL messages, drains and lists of tables in any order; nine ticks of the throttle's clock | `EventDescribesChange`: every decoded change names the columns, values and fingerprint of the definition it was made under. `StoredIfRowPasses`: the rules as parsed store exactly the rows that the rules as meant pass. `ReadAsWritten`: the store reads back the event that was decoded. `DdlTakenOnce`: DDL of a table that was monitored when it came is returned by the first drain that reaches it, by no other, and waits until then. `DdlInOrder`: if DDL arrives in the order of LSNs, no later one is returned by an earlier drain. `RateLimited`: from any moment on, no more than the burst and what the rate gave. `BackoffIsEnough`: a caller that waits as told is let through | 476 908 |
| `snapshot` | two tables, three rows, three changes, one restart; a registry of two tables with three definitions and two loads; one life of the daemon | `SnapshotThenStreamConverges`: the events `snapshot_all` returned and then the stream after their LSN give the database's rows, whichever view the snapshot had and whatever starts came before; rows unchanged since are as the snapshot reads them. `LoadedIsRecent`: a load that returns Ok leaves no column set older than its start. `ValidatedIsRecent`: after it no fingerprint validates but those of column sets since its start. `ReadyWhileRunning`: a probe is answered "ready" only between the start and Stopped. `ShutdownCompletes` | 260 876 |
| `backpressure` | two threads, window of three, pending limit of two, channel of one, one reconnect; two callers of the gate | `CreditsConserved`: credits and outstanding events make up the window. `LayersAgree`: each credit taken is a sender's, a pending event's or on its way back. `SentInOrder`: the consumer sees no gap. `AllReceived`: credits, channel and pending limit never wait for each other for good. `ReasonSettles`: when the calls are over and none overlapped, the gate has a reason exactly if it is closed, whatever earlier calls left | 367 504 |
| `lag_pause_ends` | cap of four, WAL of nine | **violation** of `PauseEnds`: a paused reader with all confirmed cannot bring the lag below half the cap | |

Every property of a passing run has a mutant: an operator beside the definition
it alters, marked `\* Fault:`, which makes a plausible mistake in that code (a
test off by one, a counter not reset, a plain store for a compare-exchange). With
the mutant in place TLC finds the run violated.

`decoder` and `snapshot` each hold three models that share no state. The initial
state picks one of them (`part`), so that their states add up and do not multiply.

The type invariants of `Pipeline`, `Offsets`, `Ingest` and `Webhook`, `CountersAgree`
and `FlushBehindWrite` are proved (below) and in no run; the other modules' type
invariants are checked and proved, composed as `StreamTypeOK`, `StartupTypeOK` and
`BackpressureTypeOK`.

Deadlock is checked in every run; where a bounded input ends (`Webhook`, `Wal`,
`Snapshot`, `Registry`, for instance) the model has an explicit final step that only that end enables.

## Bounds

* **Events and pushes** (`pipeline`: 3 and 4). The fourth push repeats an event, so
  equal LSNs occur. The ring holds 2, so it fills, wraps and refuses. One event
  alone reaches `MaxBytes`, another needs company, and the third waits for age.
* **Transactions** (`ingest`: 2, with 4 changes). The second ran around the first,
  so that LSNs arrive out of order, within and across batches, and two changes of
  the first share an LSN. Two restarts
  allow a crash during recovery from another. `MaxPushes` is high enough that
  no resend is cut off by it.
* **Consumers** (2). A watermark is a minimum, so the interesting races are between the
  consumer that determines it and one other; either may come or leave during a scan. `PageSize` 2 of
  three events makes
  a session end inside and at the end of a page.
* **Webhook tasks** (2) and attempts: enough for an answer that is late with respect to
  another task's probe; `MaxFailures` bounds the endpoint's failures, without
  which delivery could retry for ever between successes.
* **WAL appends** (6): segments are numbered from 1, so that segments older than
  `current - 2` exist, with failed rotations among them.
* **Table versions** (2) and **WAL changes** (3, `snapshot`): before, between and after the
  slot, the export transaction and each of the two tables. A row holds one of two
  texts, or one of them and a number, which the snapshot reads as the text alone.
  One restart falls between any two steps of the start, or after its end. `Half` is 2, so that LSNs
  lie on both sides of
  the boundary between the two numbers of their text form.
* **Lengths** (`U16`, `U32` = 4): every text and row of the instance is shorter, as PostgreSQL's
  limits on names, columns and values keep the code's lengths within 16 and 32 bits.
* **DDL calls** (4 messages and drains, LSNs 1 to 3): messages in and out of the order of LSNs, before and
  after drains that reach them; malformed ones, and a table that one of the two lists leaves out.
* **Throttle** (`Unit` 7, `rate` 3, `burst` 2): the rate divides neither a token nor the
  bucket, so that fractions remain; nine ticks empty and refill it.
* **Registry** (2 tables, 3 definitions, 2 loads): an ALTER between the two queries of a table, a
  failed load before a good one, and definitions that differ in what is not hashed only.
* **Threads** (2, `backpressure`): one makes the other's loaded value stale. The window exceeds
  the pending limit, so that each of the three limits is the one that binds in some state,
  and four events exceed the window, so that credits must come back.
* **LSNs** are small integers. `Lsn::MAX` is the largest (`LsnMax`), where the code's
  saturating increment stops.

## Fairness

* `Pipeline!FairSpec`: the coordinator "runs in a dedicated task" and keeps
  calling drain_ring and maybe_flush; the clock advances. Strong fairness on
  `MaybeFlush`, because the task calls the two in turn although a drain makes the
  flush momentarily unavailable. None on producers or `force_flush`.
* `Ingest!IngestFairSpec`: the same, and the reader, the write and the confirmation go on.
  None on crashes, reconnects, statuses or forced flushes.
* `Webhook!FairSpec`: tasks go on, time passes, and every request is answered
  (`http/egress/webhook/dispatcher.rs:17` sets a timeout). Strong fairness on a waiting task's
  request: it asks again after each backoff. Nobody has to drain the dead-letter queue.
* `Egress!EgressFairness`: the sending threads and the gRPC task go on, a weak exchange
  does not fail for ever, and the consumer reads, acknowledges and comes back. None on disconnecting.
* `Startup!StartupFairness`: `run_daemon`'s own steps are taken; nothing is assumed of signals and
  probes, so `ShutdownCompletes` starts from a signal.
* `LagPause!FairSpec`: reader, pipeline and the periodic check go on; the
  counterexample is a violation *under* this fairness.

## Proofs

TLAPS checks these for every value of the constants that satisfies the module's
assumption: 48 theorems in eight modules. With them every safety property of a passing
run is proved. The assumptions are types of the
constants, a positive size and a non-empty capacity, and what is named below.

* **`IngestProofs`, the pipeline.** `TypeCorrect` is inductive as it stands, given what
  `BatchPush` returns (`BatchPushType`). `NothingLost` (`NoLossInOrder`) is an
  equation between sequences: a push appends to the last of three
  (`AppendOfConcat`), a pop moves the head of the third to the end of the second
  (`MoveHead`), a flush merges the first two. It needs only the types.
  `BatchSummaryHolds` treats the batch's extremes push by push; the conjunct that an
  empty batch is `NewBatch` is what makes it inductive, as the first push
  compares with `Lsn::MAX` and `ZERO`. `CountersAgreeHolds` uses `BatchSummary`:
  a flush counts only because a batch with bytes has events.
  `PipelineImplementsEventLog` shows each step to be `Accept`, `Deliver` or a stutter;
  that a delivery is a longer *prefix* is `NoLossInOrder`.
* **`IngestProofs`, the whole way in.** `AckedIsStoredHolds` and `NoGapHolds`, for any transactions,
  ring, batch sizes and number of crashes and reconnects. Neither is
  inductive: what makes a confirmed LSN safe although LSNs come out of order is
  that everything between PostgreSQL and the store is one queue (`Line`: the batch
  handed over, the current batch, the ring). `IngestInv` says that behind any event in
  it no change of an earlier transaction is missing (`Fifo`), that the reader's
  cursor has left nothing behind (`Reached`), and that all transactions that commit up to the
  confirmed and the slot's position are stored (`Passed`). It uses `BatchSummary`,
  as the LSN confirmed is the batch's `max_lsn`. `IngestAssumption` has
  PostgreSQL's part: commits are ordered and a change's LSN is below its own commit's.
  Changes may share a key; a write never removes a key, so the key of a change,
  once stored, stays (`Kept`), whichever of them it holds.
* **`ConsumerProofs`, the offsets.** `NoRegression` and `WatermarkIsSafe` assume `OneCommitter`,
  that no two threads commit for one consumer; `offsets_shared` shows that the
  assumption is needed. `NeverRegresses` is not provable from types: between
  check and insert the invariant `CommitsCurrent` holds, that the LSN about to
  be inserted is still at or above the current offset. `WatermarkSafe` is
  strengthened to `ScanCurrent`: the running minimum is at or below the offset of each
  consumer the scan has passed and that stayed, which later commits only raise.
* **`RetentionProofs`.** `RetentionTypeCorrect`, `CollectedWasSentHolds`,
  `MissedOnlyLateHolds` and `ResumeIsServedHolds`, for any order of arrival and
  any number of consumers that come, go, are removed or stay. None of the last three
  is inductive. `Ordered` says of a counted consumer that the last watermark (unless it is
  from before the consumer was counted), the part of the scan that
  has passed it, the tracker's entry, the registry's offset and the stream's
  position stand in this order, although each is copied from the next at a time of
  its own. `Expiring` says that only events below the last watermark are gone and that a
  compaction uses no higher one.
* **`ConsumerProofs`, flow control.** `CreditsConservedHolds`, for any number of threads and any
  window; types and conservation are inductive together (`CreditInv`).
  `LayersAgreeHolds` and `SentInOrderHolds`: `StreamInv` adds that a thread that holds a credit loads no
  other and that `pending` is what was sent on this stream and not acknowledged, and the event
  in a sender's hand, so that the saturating subtraction of `on_ack` never saturates.
  `ReasonSettlesHolds`: without overlap one call at most is under way and the flag is what
  it set (`GateInv`), so its last step sets the reason that fits.
* **`StreamProofs`.** `EventDescribesChangeHolds`: what PostgreSQL takes the
  decoder to know the decoder knows (`Known`); the converse fails when a session ends and the map
  is kept. `DdlTakenOnceHolds` and `DdlInOrderHolds`, for every sequence of calls of the
  handler. `DdlInv`: messages and drains are numbered in the order they came (`Ordered`), and no drain since
  its arrival has reached a change that is pending (`Waiting`), so that the one that takes it is the
  first. `RateLimitedHolds`, for every rate, burst and resolution of
  the clock, adds to what was taken what could be taken at once (`Potential`).
  `BackoffIsEnoughHolds`: what the rate has given since the first refusal is still in the bucket
  and is less than a token (`BackoffInv`).
* **`StartupProofs`.** `SnapshotThenStreamConvergesHolds`, for any tables, any order of a query's
  rows, any changes and any number of restarts. `SnapshotInv` says that the events are those of the tables
  read so far at one moment (`Matches`) that is not before the slot's, and that the slot's is the LSN
  `ensure_slot` returned; `Converges` is the lemma that
  a snapshot of any such moment will do, because a row changed since the slot is in the stream.
  `LoadedIsRecentHolds` and `ValidatedIsRecentHolds`, for every publication,
  hash and history of definitions. `Progress` says of the part of a load that is done what
  `LoadedIsRecent` says of all; `Stamped` ties an entry's fingerprint to its columns.
  `ReadyWhileRunningHolds` from what each step of `run_daemon` has left behind (`DaemonInv`).
* **`WebhookProofs`.** `ProbeUnderWayHolds` and `ClosedBelowThresholdHolds`, for any
  number of tasks and any order of answers. `SentIsBusy` (a request under way belongs to
  a batch) is what they need besides the types. `ExactlyOnePlaceHolds`: `PlaceInv` says that the
  events are partitioned among the queues, the tasks and what became of them, that each
  sequence holds an event once, and that no two tasks share one.
* **`FormatProofs`, the write-ahead log.** `ReplayInOrderHolds` and `SegmentsBoundedHolds`, whatever
  fails. `WalInv`
  adds that what the files hold has been appended and, of a writer that need not rotate,
  that it is at the end of the last segment and that `segment_bytes` is that file's size; one
  that must rotate may find its file removed. The proof showed that with a
  `max_segment_bytes` of 0, which the code allows, every record is a segment of its
  own, hence "or is a single record".
* **`FormatProofs`, filter expressions.** `RuleParsed`: parse_filter_expr reads a rule as it was
  written. The symbols share characters and are looked for in a fixed order; the lemmas show for
  each that it is found at its own place (`TwoFound`, `OneFound`) and that no symbol ahead of it
  in the order is found at all (`TwoSplits`, `OneSplits`). That needs columns and values without
  any of the symbols' characters, as the code has no quoting: `a == x>=y` is split at `>=`.
  A column's name is two units here, its table and its number.
* **`FormatProofs`, the stored form.** `RoundTrip`: decode_event undoes encode_event on all events
  whose names and numbers of columns are below `U16` and whose values are below `U32` in length.
  The rows' columns are an induction: `ColumnsAt` says where in the buffer the n-th column
  begins, `ColumnsRead` that after n columns the reader stands there with the first n
  columns. `Induction` is a statement about subsets of Nat, derived from the
  well-foundedness of `<`, so that it has no operator as a parameter; the two
  recursions are recursive functions.
* **`AdmissionProofs`.** `ReadAsWrittenHolds`: all the decoder's events fit these widths
  (`EventsFit`), which follows from the decoder's types. `LoadedAsMeant` is `RuleParsed` for each
  table of a configuration, and add_rule. `StoredIfRowPassesHolds` combines it with
  `EventDescribesChange`: an event has the columns of the definition in force, hence the column
  that a predicate names is found and holds the row's value (`TextOfColumn`), or is missing in both.
  `AdmissionAssumption` has what is asked of texts and rules, and of PostgreSQL's limits.

Only model-checked: every liveness property (`EventuallyDelivered`, `EventuallyStored`,
`AllSettled`, `AllReceived`, `ShutdownCompletes`), as fairness and ENABLED are out of this
prover's reach. The three violations need no proof: each is a behaviour.

## Statements the code does not keep

Three are runs and `findings`: `NeverRegresses` with two committers,
`StreamHasNoGap` with out-of-order LSNs, and `PauseEnds`. Others came up while
modelling. Where a property is named, it is in the module, commented as
unchecked, and TLC refutes it when it is added to the module's `.cfg`.

| Sentence | Code | Property |
|---|---|---|
| `pgsql/replication/ack.rs:15` "The highest LSN we have confirmed durable" | `core/storage/rocks/tenant.rs:74` writes without sync, so a power failure can lose an acknowledged batch | |
| `core/storage/gc/watermark.rs:5` "consumed by ALL subscribers" | `remove` ("on disconnect", :25) takes a consumer out of the minimum | `Retention!ConsumedByAll` |
| `core/offset/manager.rs:38` "Register a new consumer (starts from ZERO ...)" | `register_consumer` only logs, so the consumer holds nothing back | `Retention!ConsumedByAll` |
| `core/README.md:27` "restart-safety by persisting offsets" | `core/offset/registry.rs:17` keeps them in memory | |
| `http/egress/webhook/circuit.rs:11` "One probe request is allowed" | a late failure reopens the breaker with the probe in flight; a second probe follows | `Webhook!OneProbe` |
| `core/storage/wal/batch.rs:95` "fully durable (below watermark)" | `gc_segments` ignores the watermark | `Wal!GcBelowWatermark` |
| `core/storage/wal/batch.rs:65` "Sync the WAL to disk" | `rotate` drops the old file unsynced | `Wal!SyncCoversLog` |
| `core/storage/wal/batch.rs:10` "the WAL can be replayed" | an append that fails leaves part of a record, and the next writes behind it, so that the lengths of later records are read from the wrong place | `Wal!AppendedIsReadable` |
| the same |  after a restart `new` counts from segment 0 and appends to old files | |
| `core/backpressure/gate.rs:16` "Reason code for the current state" | flag and reason are stored apart, so that calls that overlap may leave those of different calls | `Gate!ReasonMatchesState` |
| `core/storage/rocks/tenant.rs:16` a key of LSN, xid and table hash | `make_key` has the LSN and the xid, which the decoder leaves 0: of changes that share an LSN the last one written stays | `Ingest!EachChangeIsKept` |
| `shared/event/envelope.rs:15` "The transaction ID that produced this change" | the decoder leaves 0 and nothing fills it in | `Decoder!XidIsTransactions` |
| `pgsql/decoding/pgoutput.rs:292` "Emit one event per truncated table" | one event, for the first table | `Decoder!TruncateReported` |
| `pgsql/decoding/pgoutput.rs:388` "marked as unchanged" | the same value as NULL | `Decoder!UnchangedIsMarked` |
| `core/pipeline/ingestion.rs:77` "Returns `true` if the event passes the filter (should be stored)" | an update that leaves the predicate's column unchanged may have no value for it and is rejected, though its row passes | excepted in `StoredIfRowPasses` |
| `pgsql/schema/registry.rs:5-9` "stores fingerprints so that consumers can detect schema drift" | the registry hashes type names (FNV), the decoder type OIDs (SipHash), so an event's fingerprint does not match the one loaded for the same columns | |
| `pgsql/snapshot/builder.rs:7` "resume exactly where the snapshot left off" | without a named snapshot the view is later than the slot's LSN | `Snapshot!SnapshotIsExact` |
| `pgsql/snapshot/builder.rs:5` "the full current state before streaming" | a start that fails or crashes after it made the slot leaves a slot that later ones go on with | `Snapshot!SnapshotBeforeStream` |
| `pgsql/replication/slot.rs:22` "Returns the consistent point LSN if a new slot was created" | the point is a `pg_lsn`, and `row.get` (:47) panics when it is asked for it as a `&str` | the answer `"pg_lsn"` of `Snapshot!EnsureSlot` |
| `pgsql/snapshot/exporter.rs:25` "binds to the replication slot's snapshot" | the query asks `pg_replication_slots` for a column it does not have | the answer `"error"` of `Snapshot!BeginExport` |
| `pgsql/snapshot/builder.rs:74` "Extract as text representation" | a value whose type does not convert to a String (a number, a timestamp) becomes NULL (`try_get(i).ok()`, :75) | `Snapshot!SnapshotIsText` |
| `pgsql/snapshot/builder.rs:21` "fed into the same pipeline" | all rows have one LSN and xid 0, hence one key in the store | `Snapshot!SnapshotIsStored` |
| `pgsql/schema/registry.rs:5-9` again: "detect schema drift" | `compute` leaves out the key and whether a column may be NULL, so that a consumer with another definition passes | `Registry!DriftDetected` |
| `pgsql/schema/registry.rs:5-9` again: the registry keeps each table's primary key | a failed key query reads as no key (`unwrap_or_default`, :140), the query is of a later moment than the columns', and the fingerprint leaves the key out | `Registry!KeyIsTheTables` |
| `core/daemon/lifecycle.rs` "graceful shutdown" | a signal between `set_ready` and the installation of the handlers kills the process | `Daemon!GracefulOnceReady` |
| `http/health/endpoint.rs:8` "ready" when connected, RocksDB opened and the stream started | `run_daemon` does none of the three before `set_ready` | |
| `sql/pgsql/function/capture.sql` "Format: DDL_TYPE\|schema.table\|statement" | it sends the tag `ALTER TABLE` where `pgsql/trigger/ddl/parser.rs:24` knows `ALTER_TABLE`, and puts the schema before an `object_identity` that has it already, a name no monitored table has | |
| `pgsql/trigger/ddl/handler.rs:6-9` "The replication stream picks up this message and routes it here" | `decode` drops it (`pgsql/decoding/pgoutput.rs:110`), and nothing calls the handler | |
| `sql/pgsql/trigger/drop.sql` "Fires when tables are dropped" | `install_triggers` (`pgsql/trigger/event/handler.rs`) gives the trigger `nendi_capture_ddl`, not `nendi_capture_drop` | |

## Not modelled

* RocksDB, PostgreSQL, the file system and the HTTP endpoint, except as the
  environment of the models.
* Loss of power, as opposed to a crash of the process.
* Byte-level formats of pgoutput, rkyv (no caller) and JSON; `Wire` has the
  fields, flags and lengths of the proto form, not its bytes.
* The lengths of backoffs and timeouts; only their having elapsed. The throttle's sums of floats
  are exact in the model.
* Configuration, metrics, logging, the I/O probe, the webhook's connection pool, the
  gRPC server's address: input and output without a protocol.
* The event triggers' SQL, and the way of its messages to the DDL handler.
* Code without a caller and without a protocol of its own: the store's `ReadFilter`, the
  memory budget (only read, by `main.rs`), `set_not_live`,
  `ReplicationThrottle::unlimited`, `WriteBatch::clear`.
* Two loads of the schema registry at once, of which the older may overwrite the newer.

Corners that the models leave out by an assumption or a bound:

* `core/memory/budget.rs` wraps below zero if more is released than was reserved.
* `http/egress/webhook/retry.rs` multiplies a Duration before it caps it.
* `drain_ring` has no limit under sustained pushes.
* With a cap below 2, `can_resume` in `pgsql/slot/policy.rs` is never true.
* With a rate of 0, `backoff_duration` in `pgsql/replication/throttle.rs` divides by it
  and `Duration::from_secs_f64` panics; `ThrottleAssumption` has a positive rate.
* `replenish` after `reset` in `core/backpressure/throttle.rs` adds credits to a full
  window; in `Egress` a new stream begins when the old one's tasks have ended.
* `SlotLifecycleManager::init` discards the LSN that `ensure_slot` returns.

## What is next

When `main.rs` connects the parts, the definitions marked external are
to be compared with it, the caller of the DDL handler, the order of on_send and send, and
the start with a slot that exists first.

## Running it

    tlc -workers 2 -config MCPipeline.cfg MCPipeline
    tlapm FormatProofs.tla

and likewise for the runs and theorems in `PROJECT.json`. Each run ends within
a minute or two on two workers, and each proof module within some ten minutes.
