-------------------------------- MODULE Gate --------------------------------
(***************************************************************************)
(* BackpressureGate: an atomic flag, a reason behind a mutex and a counter *)
(* that close and open_gate set one after the other.  Clones of the gate   *)
(* share them, so the steps of several callers interleave.                 *)
(*                                                                         *)
(*   open, reason, close_count   the gate                                  *)
(*   call      per caller: Idle, or what it does and its next step         *)
(*   closings  calls of close that have begun, at most MaxClosings         *)
(*   overlapped  whether calls overlapped since the gate was last quiet    *)
(***************************************************************************)
EXTENDS Integers

CONSTANTS Callers, Reasons, NoReason, Idle,
          MaxClosings   \* bound

ASSUME GateAssumption ==
    /\ MaxClosings \in Nat /\ NoReason \notin Reasons
    /\ Idle \notin [step : {"count", "reason", "clear"}, why : Reasons \cup {NoReason}]

VARIABLES open, reason, close_count, call, closings, overlapped

gateVars == <<open, reason, close_count, call, closings, overlapped>>

GateInit ==
    /\ open = TRUE /\ reason = NoReason /\ close_count = 0
    /\ call = [p \in Callers |-> Idle]
    /\ closings = 0 /\ overlapped = FALSE

Quiet == \A p \in Callers : call[p] = Idle

At(p, step) == call[p] # Idle /\ call[p].step = step

Go(p, step, why) == call' = [call EXCEPT ![p] = [step |-> step, why |-> why]]

(* A call begins: alone, or beside another one. *)
Begin(p, step, why) == call[p] = Idle /\ Go(p, step, why) /\ overlapped' = ~Quiet

Return(p) == call' = [call EXCEPT ![p] = Idle]

(* close(reason) *)
CloseStore(p, why) ==
    /\ Begin(p, "count", why)
    /\ closings < MaxClosings /\ closings' = closings + 1
    /\ open' = FALSE
    /\ UNCHANGED <<reason, close_count>>

CloseCount(p) ==
    /\ At(p, "count")
    /\ close_count' = close_count + 1
    /\ Go(p, "reason", call[p].why)
    /\ UNCHANGED <<open, reason, closings, overlapped>>

CloseReason(p) ==
    /\ At(p, "reason")
    /\ reason' = call[p].why
    /\ Return(p)
    /\ UNCHANGED <<open, close_count, closings, overlapped>>

(* open_gate() *)
OpenStore(p) ==
    /\ Begin(p, "clear", NoReason)
    /\ open' = TRUE
    /\ UNCHANGED <<reason, close_count, closings>>

\* Fault: the reason of the closing is left behind.
OpenClear_Keeps(p) ==
    /\ At(p, "clear")
    /\ Return(p)
    /\ UNCHANGED <<open, reason, close_count, closings, overlapped>>

OpenClear(p) ==
    /\ At(p, "clear")
    /\ reason' = NoReason
    /\ Return(p)
    /\ UNCHANGED <<open, close_count, closings, overlapped>>

GateNext == \E p \in Callers :
    \/ \E why \in Reasons : CloseStore(p, why)
    \/ CloseCount(p)
    \/ CloseReason(p)
    \/ OpenStore(p)
    \/ OpenClear(p)

-----------------------------------------------------------------------------
(* Properties *)

GateTypeOK ==
    /\ open \in BOOLEAN /\ overlapped \in BOOLEAN
    /\ reason \in Reasons \cup {NoReason}
    /\ close_count \in Nat /\ closings \in 0 .. MaxClosings
    /\ call \in [Callers -> {Idle}
                   \cup [step : {"count", "reason"}, why : Reasons]
                   \cup [step : {"clear"}, why : {NoReason}]]

(* "Reason code for the current state" (gate.rs:16): with no call under    *)
(* way the gate has a reason exactly when it is closed, if the calls since *)
(* the gate was last quiet did not overlap - whatever calls that did       *)
(* overlap left behind before, as the next call that runs alone, close or  *)
(* open_gate, sets both.                                                   *)
ReasonSettles == Quiet /\ ~overlapped => (reason = NoReason <=> open)

(* Not kept: the same of all calls.  close and open_gate set the flag and  *)
(* the reason apart, so of two that overlap one can set the flag last and  *)
(* the other the reason.                                                   *)
ReasonMatchesState == Quiet => (reason = NoReason <=> open)
=============================================================================
