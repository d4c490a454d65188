------------------------- MODULE ReplicationStream -------------------------
(***************************************************************************)
(* Three parts of the replication stream: row changes for the decoder, DDL *)
(* messages for their handler (Ddl), and the throttle that paces both      *)
(* (ReplicationThrottle).  They share no state, so each behaviour moves    *)
(* one of them, chosen at the start; every behaviour of all together is an *)
(* interleaving of three of these.                                         *)
(***************************************************************************)
EXTENDS Decoder, Ddl, ReplicationThrottle

VARIABLE part

StreamInit ==
    /\ Init /\ DdlInit /\ ThrottleInit
    /\ part \in {"data", "messages", "pace"}

StreamNext ==
    \/ part = "data" /\ Next /\ UNCHANGED <<ddlVars, throttleVars, part>>
    \/ part = "messages" /\ DdlNext /\ UNCHANGED <<vars, throttleVars, part>>
    \/ part = "pace" /\ ThrottleNext /\ UNCHANGED <<vars, ddlVars, part>>

StreamSpec ==
    StreamInit /\ [][StreamNext]_<<vars, ddlVars, throttleVars, part>>

StreamTypeOK == TypeOK /\ DdlTypeOK /\ ThrottleTypeOK
=============================================================================
