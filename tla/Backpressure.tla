---------------------------- MODULE Backpressure ----------------------------
(***************************************************************************)
(* Flow control at both ends side by side: the gate in front of the ring   *)
(* buffer and the stream to a consumer.  They share no state, so each step *)
(* is a step of one of them.                                               *)
(***************************************************************************)
EXTENDS Egress, Gate

BackpressureInit == EgressInit /\ GateInit

BackpressureNext ==
    \/ EgressNext /\ UNCHANGED gateVars
    \/ GateNext /\ UNCHANGED egressVars

BackpressureSpec ==
    BackpressureInit /\ [][BackpressureNext]_<<egressVars, gateVars>> /\ EgressFairness

(* Every variable has its type; the channel and the pending count keep     *)
(* their limits, and the credits never exceed the window.                  *)
BackpressureTypeOK == TypeOK /\ EgressTypeOK /\ GateTypeOK
=============================================================================
