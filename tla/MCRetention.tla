---------------------------- MODULE MCRetention ----------------------------
(* Two consumers and three events, the last to arrive with a smaller LSN   *)
(* than the one before it.                                                 *)
EXTENDS Retention, TLC

OutOfOrder == <<1, 3, 2>>

Interchangeable == Permutations(Consumers)
=============================================================================
