----------------------------- MODULE Retention -----------------------------
(***************************************************************************)
(* Who may still need an event, and when it is garbage collected: consumer *)
(* sessions that read the store from their committed offset, the offset    *)
(* registry and the watermark tracker their commits feed, the GC scheduler *)
(* and RocksDB's compaction with EventGcFilter.                            *)
(*                                                                         *)
(* External: RocksDB, and the server code that joins these parts (a commit *)
(* is recorded in the registry and then, if accepted, in the tracker, a    *)
(* second step; a consumer that disconnects may be removed from the        *)
(* tracker or not; the watermark maybe_gc returns is given to a            *)
(* compaction).  Nothing but a commit puts a consumer into the tracker.    *)
(* One session per consumer, and one commit of it at a time, so the        *)
(* registry's own commit needs no finer steps here (Offsets has those).    *)
(*                                                                         *)
(*   store      the column family, and arrived how much of Arrivals it got *)
(*   session    consumers with a stream open                               *)
(*   offsets    OffsetRegistry.offsets                                     *)
(*   told       per consumer: the accepted commit the tracker has yet to   *)
(*              be told of, or None                                        *)
(*   tracker    WatermarkTracker.consumers; scan is watermark() running    *)
(*   pos, got   per consumer: the last LSN sent, and all it was ever sent  *)
(*   last_gc_watermark   GcScheduler                                       *)
(*   filter     the watermark of the compaction under way, or None         *)
(*   since      per consumer: None until a computation of the watermark    *)
(*              starts with the consumer in the tracker, then the          *)
(*              watermark of the GC before it, until the consumer is       *)
(*              removed (history)                                          *)
(*   late       per consumer: the events stored behind its position, and   *)
(*              not sent since (history)                                   *)
(***************************************************************************)
EXTENDS Integers, Sequences

CONSTANTS
    Consumers,
    Arrivals,    \* the LSNs of the events, in the order they are stored
    PageSize,    \* ReplayManager.batch_size
    LsnMax, None

ASSUME RetentionAssumption ==
    /\ LsnMax \in Nat \ {0}
    /\ Arrivals \in Seq(1 .. LsnMax - 1)
    /\ \A i, j \in DOMAIN Arrivals : i # j => Arrivals[i] # Arrivals[j]
    /\ PageSize \in Nat \ {0}
    /\ None \notin Nat

VARIABLES store, arrived, session, offsets, told, tracker, scan, pos, got,
          last_gc_watermark, filter, since, late

consumerVars == <<session, offsets, told, pos, got>>
gcVars == <<scan, last_gc_watermark, filter>>
vars == <<store, arrived, consumerVars, tracker, gcVars, since, late>>

Lsns == 0 .. LsnMax
Events == {Arrivals[i] : i \in DOMAIN Arrivals}

S == INSTANCE Store WITH LsnOf <- [e \in Events |-> e], XidOf <- [e \in Events |-> 0]
Watermark == INSTANCE MinScan WITH map <- tracker

Written == {Arrivals[i] : i \in 1 .. arrived}
Collected == {l \in Written : ~S!Holds(store, l)}

Init ==
    /\ store = S!Empty /\ arrived = 0
    /\ session = {}
    /\ offsets = [c \in Consumers |-> None]
    /\ told = [c \in Consumers |-> None]
    /\ tracker = [c \in Consumers |-> None]
    /\ scan = Watermark!Idle
    /\ pos = [c \in Consumers |-> 0]
    /\ got = [c \in Consumers |-> {}]
    /\ last_gc_watermark = 0
    /\ filter = None
    /\ since = [c \in Consumers |-> None]
    /\ late = [c \in Consumers |-> {}]

(* PostgreSQL sends transactions in commit order, so the LSNs of changes   *)
(* need not arrive in order.                                               *)
Arrive ==
    /\ arrived < Len(Arrivals)
    /\ arrived' = arrived + 1
    /\ LET l == Arrivals[arrived + 1]
       IN  /\ store' = S!Put(store, <<l>>)
           /\ late' = [c \in Consumers |-> IF l <= pos[c] THEN late[c] \cup {l} ELSE late[c]]
    /\ UNCHANGED <<consumerVars, tracker, gcVars, since>>

-----------------------------------------------------------------------------
(* Consumers *)

(* resume_lsn and replay_range's start: one past the committed offset. *)
ResumeLsn(c) ==
    IF offsets[c] = None THEN 0
    ELSE IF offsets[c] = LsnMax THEN LsnMax ELSE offsets[c] + 1

StartAfter(c, p) ==
    /\ pos' = [pos EXCEPT ![c] = p]
    /\ late' = [late EXCEPT ![c] = {l \in late[c] : l <= p}]

\* Fault: the stream starts after resume_lsn instead of at it.
Connect_AfterResume(c) ==
    /\ c \notin session
    /\ session' = session \cup {c}
    /\ StartAfter(c, ResumeLsn(c))
    /\ UNCHANGED <<store, arrived, offsets, told, tracker, got, gcVars, since>>

\* Fault: ZERO, "no offset", is not a case of its own.
Connect_NoZero(c) ==
    /\ c \notin session
    /\ session' = session \cup {c}
    /\ StartAfter(c, ResumeLsn(c) - 1)
    /\ UNCHANGED <<store, arrived, offsets, told, tracker, got, gcVars, since>>

(* A consumer connects: register_consumer, which leaves the registry and   *)
(* the tracker as they are, and a stream that starts at resume_lsn.        *)
Connect(c) ==
    /\ c \notin session
    /\ session' = session \cup {c}
    /\ StartAfter(c, IF ResumeLsn(c) = 0 THEN 0 ELSE ResumeLsn(c) - 1)
    /\ UNCHANGED <<store, arrived, offsets, told, tracker, got, gcVars, since>>

(* The next page of the stream. *)
Send(c) ==
    LET page == S!ReadFrom(store, pos[c] + 1, PageSize) IN
    /\ c \in session
    /\ page # <<>>
    /\ pos' = [pos EXCEPT ![c] = page[Len(page)]]
    /\ got' = [got EXCEPT ![c] = @ \cup {page[i] : i \in DOMAIN page}]
    /\ UNCHANGED <<store, arrived, session, offsets, told, tracker, gcVars, since, late>>

\* Fault: the tracker is told what was sent, not what was committed.
Commit_TracksSent(c, lsn) ==
    /\ c \in session /\ told[c] = None
    /\ lsn \in got[c] /\ lsn <= pos[c]
    /\ ~(offsets[c] # None /\ offsets[c] > lsn)
    /\ offsets' = [offsets EXCEPT ![c] = lsn]
    /\ told' = [told EXCEPT ![c] = pos[c]]
    /\ UNCHANGED <<store, arrived, session, tracker, pos, got, gcVars, since, late>>

(* CommitOffset: OffsetManager::commit, which refuses a commit behind the  *)
(* registry's offset, ...                                                  *)
Commit(c, lsn) ==
    /\ c \in session /\ told[c] = None
    /\ lsn \in got[c] /\ lsn <= pos[c]
    /\ ~(offsets[c] # None /\ offsets[c] > lsn)
    /\ offsets' = [offsets EXCEPT ![c] = lsn]
    /\ told' = [told EXCEPT ![c] = lsn]
    /\ UNCHANGED <<store, arrived, session, tracker, pos, got, gcVars, since, late>>

(* ... and then WatermarkTracker::update, which tests nothing. *)
Update(c) ==
    /\ told[c] # None
    /\ tracker' = [tracker EXCEPT ![c] = told[c]]
    /\ told' = [told EXCEPT ![c] = None]
    /\ UNCHANGED <<store, arrived, session, offsets, pos, got, gcVars, since, late>>

(* WatermarkTracker::remove "e.g. on disconnect". *)
Disconnect(c, removed) ==
    /\ c \in session
    /\ session' = session \ {c}
    /\ IF removed THEN /\ tracker' = [tracker EXCEPT ![c] = None]
                       /\ since' = [since EXCEPT ![c] = None]
       ELSE UNCHANGED <<tracker, since>>
    /\ UNCHANGED <<store, arrived, offsets, told, pos, got, gcVars, late>>

-----------------------------------------------------------------------------
(* Garbage collection *)

(* maybe_gc computes the watermark entry by entry ... *)
WatermarkStart ==
    /\ Watermark!ScanStart
    /\ since' = [c \in Consumers |-> IF tracker[c] # None /\ since[c] = None
                                     THEN last_gc_watermark ELSE since[c]]
    /\ UNCHANGED <<store, arrived, consumerVars, tracker, last_gc_watermark, filter, late>>

WatermarkVisit(c) ==
    /\ Watermark!ScanVisit(c)
    /\ UNCHANGED <<store, arrived, consumerVars, tracker, last_gc_watermark, filter, since,
                   late>>

(* ... and starts a compaction with it only if it has advanced. *)
MaybeGc ==
    /\ filter = None
    /\ Watermark!ScanEnd
    /\ IF Watermark!ScanResult > last_gc_watermark
       THEN /\ last_gc_watermark' = Watermark!ScanResult
            /\ filter' = Watermark!ScanResult
       ELSE UNCHANGED <<last_gc_watermark, filter>>
    /\ UNCHANGED <<store, arrived, consumerVars, tracker, since, late>>

(* EventGcFilter::filter on one key. *)
Expired(k) == k[1] < filter

(* The compaction meets the keys one by one, in no order we rely on, ... *)
CompactKey(k) ==
    /\ filter # None
    /\ Expired(k)
    /\ store' = [j \in DOMAIN store \ {k} |-> store[j]]
    /\ UNCHANGED <<arrived, consumerVars, tracker, gcVars, since, late>>

(* ... and need not reach all of them. *)
CompactEnd ==
    /\ filter # None
    /\ filter' = None
    /\ UNCHANGED <<store, arrived, consumerVars, tracker, scan, last_gc_watermark, since,
                   late>>

Next ==
    \/ Arrive
    \/ \E c \in Consumers : Connect(c) \/ Send(c) \/ Update(c)
    \/ \E c \in Consumers : \E removed \in BOOLEAN : Disconnect(c, removed)
    \/ \E c \in Consumers : \E lsn \in got[c] : Commit(c, lsn)
    \/ WatermarkStart
    \/ \E c \in Consumers : WatermarkVisit(c)
    \/ MaybeGc
    \/ \E k \in DOMAIN store : CompactKey(k)
    \/ CompactEnd

Spec == Init /\ [][Next]_vars

-----------------------------------------------------------------------------
(* Properties *)

TypeOK ==
    /\ arrived \in 0 .. Len(Arrivals)
    /\ DOMAIN store \subseteq {S!MakeKey(e) : e \in Written}
    /\ session \subseteq Consumers
    /\ offsets \in [Consumers -> Lsns \cup {None}]
    /\ told \in [Consumers -> Lsns \cup {None}]
    /\ tracker \in [Consumers -> Lsns \cup {None}]
    /\ scan \in [on : BOOLEAN, todo : SUBSET Consumers, min : Lsns]
    /\ pos \in [Consumers -> Lsns]
    /\ got \in [Consumers -> SUBSET Written]
    /\ last_gc_watermark \in Lsns
    /\ filter \in Lsns \cup {None}
    /\ since \in [Consumers -> Lsns \cup {None}]
    /\ late \in [Consumers -> SUBSET Written]

(* The consumers the GC counts.  A consumer that never committed, or was   *)
(* removed when it disconnected, is not among them, and loses events.      *)
Counted == {c \in Consumers : since[c] # None}

(* Once the watermark has begun to be computed with a consumer in the      *)
(* tracker, no event that had not expired by then is removed before the    *)
(* consumer was sent it, except one stored behind its position - although  *)
(* the watermark is read entry by entry, others come and leave meanwhile,  *)
(* and it is old when the compaction uses it (watermark.rs, scheduler.rs   *)
(* maybe_gc, compaction.rs filter).                                        *)
CollectedWasSent ==
    \A c \in Counted : \A l \in Collected : l >= since[c] => l \in got[c] \cup late[c]

(* A counted consumer misses nothing up to its position but what was       *)
(* stored behind it, however it disconnects, resumes from its committed    *)
(* offset and races the GC (manager.rs resume_lsn, replay.rs, tenant.rs    *)
(* read_from, scheduler.rs).                                               *)
MissedOnlyLate ==
    \A c \in Counted : \A l \in Written :
        (since[c] <= l /\ l <= pos[c]) => l \in got[c] \cup late[c]

(* "the application sees no gap" (docs/architecture/sdk.md), of the        *)
(* counted consumers: events stored behind a position make one.            *)
StreamHasNoGap ==
    \A c \in Counted : \A l \in Written :
        (since[c] <= l /\ l <= pos[c]) => l \in got[c]

(* Wherever a counted consumer would resume from if it lost its connection *)
(* now, the store still holds all that was written from there on and had   *)
(* not expired when it was first counted: GC reads the tracker and         *)
(* resuming reads the registry, two maps that are written one after the    *)
(* other (manager.rs resume_lsn, watermark.rs, compaction.rs).             *)
ResumeIsServed ==
    \A c \in Counted : \A l \in Written :
        (l >= ResumeLsn(c) /\ l >= since[c]) => S!Holds(store, l)

(* "Events below this LSN have been consumed by ALL subscribers"           *)
(* (watermark.rs), for every consumer with a stream open.  Not kept.       *)
ConsumedByAll ==
    \A c \in session : \A l \in Collected : l \in got[c] \cup late[c]
=============================================================================
