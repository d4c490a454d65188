------------------------------ MODULE EventLog ------------------------------
(***************************************************************************)
(* What the ingestion pipeline promises its caller: events are handed over *)
(* in the order in which they were accepted, none lost, none twice.        *)
(* accepted is the log of the events the pipeline took; delivered is a     *)
(* prefix of it that only grows, one nonempty batch at a time.             *)
(***************************************************************************)
EXTENDS Integers, Sequences

CONSTANT Events

VARIABLES accepted, delivered

vars == <<accepted, delivered>>

Init ==
    /\ accepted = <<>>
    /\ delivered = <<>>

Accept(e) ==
    /\ accepted' = Append(accepted, e)
    /\ UNCHANGED delivered

Deliver ==
    /\ \E n \in Len(delivered) + 1 .. Len(accepted) :
           delivered' = SubSeq(accepted, 1, n)
    /\ UNCHANGED accepted

Next == Deliver \/ \E e \in Events : Accept(e)

Spec == Init /\ [][Next]_vars
=============================================================================
