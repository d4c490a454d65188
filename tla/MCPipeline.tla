----------------------------- MODULE MCPipeline -----------------------------
(* Pipeline on a small instance: three events whose LSNs arrive in any     *)
(* order, one of them alone as large as MaxBytes, a ring of two slots.     *)
EXTENDS Pipeline

MCEvents == {"a", "b", "c"}
MCLsnOf == [a |-> 3, b |-> 1, c |-> 2]
MCSizeOf == [a |-> 1, b |-> 2, c |-> 4]
=============================================================================
