------------------------------- MODULE MCWal -------------------------------
(* Small and large records, one or two of which fill a segment. *)
EXTENDS Wal
=============================================================================
