------------------------------ MODULE Offsets ------------------------------
(***************************************************************************)
(* The offset registry and the manager over it.  CommitOffset requests run *)
(* on server threads; OffsetRegistry::commit reads the consumer's entry,   *)
(* releases it, compares, and inserts: a check and an act with other       *)
(* threads in between.  min_offset scans the map meanwhile.                *)
(*                                                                         *)
(*   offsets    OffsetRegistry.offsets                                     *)
(*   committing per thread, the commit that passed its check               *)
(*   scan       a min_offset call in progress (MinScan)                    *)
(*   watermark  what the last finished min_offset returned                 *)
(*   kept       history: consumers with an entry ever since that scan began*)
(***************************************************************************)
EXTENDS Integers

CONSTANTS
    Consumers,
    Workers,    \* server threads
    Owner,      \* thread -> the consumers whose commits it may carry
    LsnMax,     \* Lsn::MAX
    Nothing     \* no entry; also: no commit under way

ASSUME OffsetsAssumption ==
    /\ Owner \in [Workers -> SUBSET Consumers]
    /\ LsnMax \in Nat
    /\ Nothing \notin Nat

VARIABLES offsets, committing, scan, watermark, kept

offsetsVars == <<offsets, committing, scan, watermark, kept>>

Lsns == 0 .. LsnMax
Calls == [id : Consumers, lsn : Lsns]

MinOffset == INSTANCE MinScan WITH map <- offsets, None <- Nothing

OffsetsInit ==
    /\ offsets = [c \in Consumers |-> Nothing]
    /\ committing = [t \in Workers |-> Nothing]
    /\ scan = MinOffset!Idle
    /\ watermark = 0
    /\ kept = {}

\* Fault: the regression check is missing.
CommitCheck_Unchecked(t, c, lsn) ==
    /\ committing[t] = Nothing
    /\ c \in Owner[t]
    /\ committing' = [committing EXCEPT ![t] = [id |-> c, lsn |-> lsn]]
    /\ UNCHANGED <<offsets, scan, watermark, kept>>

(* commit up to its comparison.  A commit behind the entry returns         *)
(* OffsetRegression and changes nothing.                                   *)
CommitCheck(t, c, lsn) ==
    /\ committing[t] = Nothing
    /\ c \in Owner[t]
    /\ ~(offsets[c] # Nothing /\ offsets[c] > lsn)
    /\ committing' = [committing EXCEPT ![t] = [id |-> c, lsn |-> lsn]]
    /\ UNCHANGED <<offsets, scan, watermark, kept>>

CommitInsert(t) ==
    /\ committing[t] # Nothing
    /\ offsets' = [offsets EXCEPT ![committing[t].id] = committing[t].lsn]
    /\ committing' = [committing EXCEPT ![t] = Nothing]
    /\ UNCHANGED <<scan, watermark, kept>>

(* unregister_consumer *)
Unregister(c) ==
    /\ offsets[c] # Nothing
    /\ offsets' = [offsets EXCEPT ![c] = Nothing]
    /\ kept' = kept \ {c}
    /\ UNCHANGED <<committing, scan, watermark>>

(* watermark / min_offset *)
WatermarkStart ==
    /\ MinOffset!ScanStart
    /\ kept' = {c \in Consumers : offsets[c] # Nothing}
    /\ UNCHANGED <<offsets, committing, watermark>>

WatermarkVisit(c) ==
    /\ MinOffset!ScanVisit(c)
    /\ UNCHANGED <<offsets, committing, watermark, kept>>

WatermarkReturn ==
    /\ MinOffset!ScanEnd
    /\ watermark' = MinOffset!ScanResult
    /\ UNCHANGED <<offsets, committing, kept>>

(* resume_lsn: where a consumer's stream restarts. *)
ResumeLsn(c) ==
    IF offsets[c] = Nothing THEN 0
    ELSE IF offsets[c] = LsnMax THEN LsnMax ELSE offsets[c] + 1

OffsetsNext ==
    \/ \E t \in Workers, c \in Consumers, lsn \in Lsns : CommitCheck(t, c, lsn)
    \/ \E t \in Workers : CommitInsert(t)
    \/ \E c \in Consumers : Unregister(c)
    \/ WatermarkStart
    \/ \E c \in Consumers : WatermarkVisit(c)
    \/ WatermarkReturn

OffsetsSpec == OffsetsInit /\ [][OffsetsNext]_offsetsVars

-----------------------------------------------------------------------------
(* Properties *)

OffsetsTypeOK ==
    /\ offsets \in [Consumers -> Lsns \cup {Nothing}]
    /\ committing \in [Workers -> Calls \cup {Nothing}]
    /\ scan \in [on : BOOLEAN, todo : SUBSET Consumers, min : Lsns]
    /\ watermark \in Lsns
    /\ kept \subseteq Consumers

(* At most one thread carries a consumer's commits. *)
OneCommitter ==
    \A t, u \in Workers : t # u => Owner[t] \cap Owner[u] = {}

(* Regression protection (registry.rs commit): while a consumer stays      *)
(* registered its committed offset, and with it the position its stream    *)
(* resumes from, never moves backwards.                                    *)
NeverRegresses ==
    [][\A c \in Consumers :
         (offsets[c] # Nothing /\ offsets'[c] # Nothing) =>
             offsets[c] <= offsets'[c] /\ ResumeLsn(c) <= ResumeLsn(c)']_offsetsVars

(* Although min_offset reads the entries at different moments, no consumer *)
(* that was registered when the scan began and still is stands behind the  *)
(* watermark it returned (registry.rs min_offset, manager.rs watermark).   *)
WatermarkSafe ==
    ~scan.on => \A c \in kept : watermark <= offsets[c]
=============================================================================
