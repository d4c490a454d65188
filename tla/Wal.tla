-------------------------------- MODULE Wal --------------------------------
(***************************************************************************)
(* WalWriter: a log of segment files.  append, sync and rotate take        *)
(* &mut self and gc_segments &self, so calls do not overlap; a call can    *)
(* fail half way where the file system does.  External: the file system.   *)
(* Nothing in the sources reads the log back; "replay" below is reading    *)
(* the segments in the order of their numbers, each from its start: where  *)
(* a record ends is known from its length only.                            *)
(*                                                                         *)
(*   files     the directory: segment number -> its records, the size of   *)
(*             the whole ones, and how many sync_all has forced to disk; a *)
(*             record is its LSN, or Torn where an append stopped half way *)
(*   open      the number of current_file, or NoFile                       *)
(*   segment, segment_bytes, last_lsn   the writer's fields                *)
(*   given     LSNs given to append so far (history), at most MaxAppends   *)
(*   synced    last_lsn at the last sync (history)                         *)
(*   mark      the watermark passed to the last gc_segments (history)      *)
(***************************************************************************)
EXTENDS Integers, Sequences, Functions

CONSTANTS
    max_segment_bytes,
    Sizes,            \* of a record: 12 and the length of its payload
    Torn, NoFile,
    MaxAppends        \* bound

ASSUME WalAssumption ==
    /\ max_segment_bytes \in Nat /\ MaxAppends \in Nat
    /\ Sizes \subseteq Nat \ {0} /\ Sizes # {}
    /\ {Torn, NoFile} \cap Nat = {}

VARIABLES files, open, segment, segment_bytes, last_lsn, given, synced, mark

walVars == <<files, open, segment, segment_bytes, last_lsn, given, synced, mark>>

WalInit ==
    /\ files = [f \in {} |-> f]
    /\ open = NoFile /\ segment = 0 /\ segment_bytes = 0 /\ last_lsn = 0
    /\ given = 0
    /\ synced = 0 /\ mark = 0

-----------------------------------------------------------------------------

\* Fault: a full segment is not noticed.
NeedsRotation_Never == open = NoFile

NeedsRotation == open = NoFile \/ segment_bytes >= max_segment_bytes

\* Fault: the number in the name wraps around.
SegmentFile_Wraps(n) == n % 4

(* The file name rotate makes of the segment's number. *)
SegmentFile(n) == n

\* Fault: the segment is counted again once its file is open.
Rotated_CountsTwice ==
    LET f == SegmentFile(segment + 1)
    IN  [segment |-> segment + 2, open |-> f, bytes |-> 0,
         files |-> IF f \in DOMAIN files THEN files
                   ELSE [g \in DOMAIN files \cup {f} |->
                            IF g = f THEN [recs |-> <<>>, bytes |-> 0, synced |-> 0] ELSE files[g]]]

(* rotate when the file can be opened: it is created if it is not there,   *)
(* and written at its end if it is.                                        *)
Rotated ==
    LET f == SegmentFile(segment + 1)
    IN  [segment |-> segment + 1, open |-> f, bytes |-> 0,
         files |-> IF f \in DOMAIN files THEN files
                   ELSE [g \in DOMAIN files \cup {f} |->
                            IF g = f THEN [recs |-> <<>>, bytes |-> 0, synced |-> 0] ELSE files[g]]]

AsIs == [segment |-> segment, open |-> open, bytes |-> segment_bytes, files |-> files]

Target == IF NeedsRotation THEN Rotated ELSE AsIs

Give ==
    /\ given < MaxAppends
    /\ given' = given + 1
    /\ UNCHANGED <<synced, mark>>

(* append returns Ok. *)
AppendOk(s) ==
    /\ Give
    /\ files' = [Target.files EXCEPT ![Target.open].recs = Append(@, given'),
                                     ![Target.open].bytes = @ + s]
    /\ open' = Target.open /\ segment' = Target.segment
    /\ segment_bytes' = Target.bytes + s
    /\ last_lsn' = given'

(* A write_all of append fails: part of the record is in the file, or      *)
(* nothing of it.  The next append goes on behind it.                      *)
AppendFails(partly) ==
    /\ Give
    /\ files' = IF partly THEN [Target.files EXCEPT ![Target.open].recs = Append(@, Torn)]
                ELSE Target.files
    /\ open' = Target.open /\ segment' = Target.segment
    /\ segment_bytes' = Target.bytes
    /\ UNCHANGED last_lsn

(* rotate cannot open the file: the number is used up, the old file stays. *)
RotateFails ==
    /\ Give
    /\ NeedsRotation
    /\ segment' = segment + 1
    /\ UNCHANGED <<files, open, segment_bytes, last_lsn>>

(* sync_all on the current file, if that is still in the directory. *)
Sync ==
    /\ open \in DOMAIN files
    /\ files' = [files EXCEPT ![open].synced = Len(files[open].recs)]
    /\ synced' = last_lsn
    /\ UNCHANGED <<open, segment, segment_bytes, last_lsn, given, mark>>

(* gc_segments(watermark): removes the segments three or more behind, in   *)
(* the order read_dir lists them, up to the first that cannot be removed.  *)
GcSegments(watermark, removed) ==
    /\ removed # {}
    /\ removed \subseteq {f \in DOMAIN files : f + 2 < segment}
    /\ files' = Restrict(files, DOMAIN files \ removed)
    /\ mark' = watermark
    /\ UNCHANGED <<open, segment, segment_bytes, last_lsn, given, synced>>

(* Nothing left to append within the bounds. *)
Done == given = MaxAppends /\ UNCHANGED walVars

WalNext ==
    \/ \E s \in Sizes : AppendOk(s)
    \/ \E partly \in BOOLEAN : AppendFails(partly)
    \/ RotateFails
    \/ Sync
    \/ \E w \in 0 .. last_lsn, removed \in SUBSET DOMAIN files : GcSegments(w, removed)
    \/ Done

WalSpec == WalInit /\ [][WalNext]_walVars

-----------------------------------------------------------------------------
(* Properties *)

WalTypeOK ==
    /\ DOMAIN files \subseteq 0 .. MaxAppends
    /\ \A f \in DOMAIN files :
          /\ files[f] \in [recs : Seq((1 .. MaxAppends) \cup {Torn}), bytes : Nat, synced : Nat]
          /\ files[f].synced <= Len(files[f].recs)
    /\ open \in (0 .. MaxAppends) \cup {NoFile}
    /\ segment_bytes \in Nat
    /\ given \in 0 .. MaxAppends
    /\ {segment, last_lsn, synced, mark} \subseteq 0 .. given

(* The records of a segment that a replay can tell apart: behind a torn    *)
(* one the lengths are read from the wrong place.                          *)
Framed(f) ==
    {i \in DOMAIN files[f].recs : \A j \in 1 .. i : files[f].recs[j] # Torn}

(* Within one run of the daemon a replay sees what it can read of the      *)
(* surviving segments in the order it was appended, whatever rotations,    *)
(* appends and removals fail (batch.rs append, rotate, gc_segments).       *)
ReplayInOrder ==
    \A f, g \in DOMAIN files : \A i \in Framed(f), j \in Framed(g) :
        (f < g \/ (f = g /\ i < j)) => files[f].recs[i] < files[g].recs[j]

(* A segment's whole records exceed max_segment_bytes by less than one     *)
(* record, or are a single one, although segment_bytes, not the file, is   *)
(* consulted (append).                                                     *)
SegmentsBounded ==
    \A f \in DOMAIN files : \E s \in Sizes :
        files[f].bytes <= s \/ files[f].bytes < max_segment_bytes + s

(* Statements of the source that its code does not keep.  No run checks    *)
(* them; TLC refutes each when it is named in the cfg.                     *)

(* "the WAL can be replayed to recover uncommitted events" (WalWriter):    *)
(* every record that append returned Ok for can be read back from its      *)
(* segment.                                                                *)
AppendedIsReadable ==
    \A f \in DOMAIN files : \A i \in DOMAIN files[f].recs :
        files[f].recs[i] # Torn => i \in Framed(f)

(* "Remove WAL segments that are fully durable (below watermark)"          *)
(* (gc_segments): what is removed lies below the watermark given.          *)
GcBelowWatermark ==
    [][\A f \in DOMAIN files \ DOMAIN files' :
          \A r \in Range(files[f].recs) \ {Torn} : r < mark']_walVars

(* "Sync the WAL to disk" (sync): once it has returned, every record       *)
(* appended before it is on disk, unless its segment has been removed.     *)
SyncCoversLog ==
    \A f \in DOMAIN files : \A i \in DOMAIN files[f].recs :
        (files[f].recs[i] # Torn /\ files[f].recs[i] <= synced) => i <= files[f].synced
=============================================================================
