------------------------------ MODULE MinScan ------------------------------
(***************************************************************************)
(* The minimum over a DashMap from consumer to LSN, the way both           *)
(* OffsetRegistry::min_offset and WatermarkTracker::watermark compute it:  *)
(* iter() locks one shard at a time, so every entry is read at a moment of *)
(* its own and other threads insert and remove between two reads.  With a  *)
(* shard per consumer, the finest case, one step reads one consumer; the   *)
(* order of the shards depends on the hashes and is left open.             *)
(***************************************************************************)
EXTENDS Integers

CONSTANTS Consumers, LsnMax, None

VARIABLES map,    \* consumer -> LSN, or None where it has no entry
          scan    \* the iteration: whether it runs, whom it has still to visit, its min

Idle == [on |-> FALSE, todo |-> {}, min |-> LsnMax]

ScanStart ==
    /\ ~scan.on
    /\ scan' = [on |-> TRUE, todo |-> Consumers, min |-> LsnMax]

\* Fault: the comparison is the wrong way round once a minimum is known.
ScanVisit_Last(c) ==
    /\ scan.on
    /\ c \in scan.todo
    /\ scan' = [scan EXCEPT !.todo = @ \ {c},
                            !.min = IF map[c] = None THEN @ ELSE map[c]]

ScanVisit(c) ==
    /\ scan.on
    /\ c \in scan.todo
    /\ scan' = [scan EXCEPT !.todo = @ \ {c},
                            !.min = IF map[c] # None /\ map[c] < @ THEN map[c] ELSE @]

(* MAX stands for "no entry seen" and comes back as ZERO. *)
ScanResult == IF scan.min = LsnMax THEN 0 ELSE scan.min

ScanEnd ==
    /\ scan.on
    /\ scan.todo = {}
    /\ scan' = Idle
=============================================================================
