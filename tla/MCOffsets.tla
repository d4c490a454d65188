----------------------------- MODULE MCOffsets -----------------------------
(* Two consumers; in the shared instance two threads carry commits of the  *)
(* same consumer, in the exclusive one each consumer has its own thread.   *)
EXTENDS Offsets, TLC

CONSTANTS c1, c2, t1, t2

Exclusive == t1 :> {c1} @@ t2 :> {c2}
Shared == t1 :> {c1} @@ t2 :> {c1}
=============================================================================
