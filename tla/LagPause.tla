------------------------------ MODULE LagPause ------------------------------
(***************************************************************************)
(* The WAL lag hard cap: LagPolicy decides on the lag that                 *)
(* SlotLifecycleManager::check_lag reads from PostgreSQL, the distance     *)
(* from the slot's confirmed_flush_lsn to the end of the WAL.              *)
(*                                                                         *)
(* External: PostgreSQL, which writes WAL; and the task that pauses        *)
(* replication when the lag is Critical and resumes it when can_resume.    *)
(* Pausing stops the reader.  What was received before still goes through  *)
(* the pipeline and is confirmed.                                          *)
(*                                                                         *)
(*   head      pg_current_wal_lsn, at most MaxHead                         *)
(*   received  how far the reader has read                                 *)
(*   slot      the slot's confirmed_flush_lsn                              *)
(*   paused    whether replication is paused                               *)
(***************************************************************************)
EXTENDS Integers

CONSTANTS
    hard_cap_bytes,
    MaxHead          \* bound

VARIABLES head, received, slot, paused

vars == <<head, received, slot, paused>>

Init == head = 0 /\ received = 0 /\ slot = 0 /\ paused = FALSE

(* wal_lag_bytes *)
Lag == head - slot

CanResume(lag) == lag < hard_cap_bytes \div 2

(* evaluate; its thresholds are compared in hundredths.  should_pause      *)
(* holds for exactly the lags that are Critical.                           *)
Evaluate(lag) ==
    IF lag > hard_cap_bytes THEN "Critical"
    ELSE IF 100 * lag > 85 * hard_cap_bytes THEN "Warning" ELSE "Ok"

WriteWal ==
    /\ head < MaxHead
    /\ head' = head + 1
    /\ UNCHANGED <<received, slot, paused>>

Read ==
    /\ ~paused
    /\ received < head
    /\ received' = received + 1
    /\ UNCHANGED <<head, slot, paused>>

Confirm ==
    /\ slot < received
    /\ slot' = slot + 1
    /\ UNCHANGED <<head, received, paused>>

CheckLag ==
    /\ paused' = IF paused THEN ~CanResume(Lag) ELSE Evaluate(Lag) = "Critical"
    /\ UNCHANGED <<head, received, slot>>

Next == WriteWal \/ Read \/ Confirm \/ CheckLag

Spec == Init /\ [][Next]_vars

(* The reader, the pipeline and the periodic check keep running. *)
FairSpec == Spec /\ WF_vars(Read) /\ WF_vars(Confirm) /\ WF_vars(CheckLag)

-----------------------------------------------------------------------------
(* Property *)

(* "When lag exceeds the cap, replication is paused until the pipeline     *)
(* catches up" (policy.rs): a pause ends.                                  *)
PauseEnds == paused ~> ~paused
=============================================================================
