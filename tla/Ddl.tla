-------------------------------- MODULE Ddl ---------------------------------
(***************************************************************************)
(* DdlHandler and its DdlBuffer: DDL of monitored tables waits in the      *)
(* buffer "so the schema registry can be updated in-order with the DML     *)
(* events".                                                                *)
(*                                                                         *)
(* External: the caller.  Nothing in the source calls the handler, so any  *)
(* message, any drain and any new list of tables may come at any time.     *)
(* That PostgreSQL's messages come here is not modelled: decode drops them *)
(* (pgoutput.rs), and capture.sql puts the schema before an                *)
(* identity that has it already, which names no table as monitored_tables  *)
(* does.                                                                   *)
(*                                                                         *)
(*   monitored_tables  DdlHandler                                          *)
(*   pending    DdlBuffer.pending, as the set of the numbers of the        *)
(*              messages whose changes it holds: push appends, and         *)
(*              partition keeps the order, so that they are in this order  *)
(*   messages   the calls of handle_ddl_message (history): the arguments,  *)
(*              the tables monitored then, and the drains before           *)
(*   drains     the calls of drain_up_to and what they returned (history)  *)
(***************************************************************************)
EXTENDS Integers, Sequences

CONSTANTS
    Lsns,           \* LSNs the caller passes
    Contents,       \* messages, split at the first two bars
    Publications,   \* lists of monitored tables
    MaxCalls        \* bound: messages and drains

ASSUME DdlAssumption == Lsns \subseteq Nat /\ MaxCalls \in Nat

VARIABLES monitored_tables, pending, messages, drains

ddlVars == <<monitored_tables, pending, messages, drains>>

DdlInit ==
    /\ monitored_tables \in Publications
    /\ pending = {} /\ messages = <<>> /\ drains = <<>>

MayCall == Len(messages) + Len(drains) < MaxCalls

(* parse_ddl_message: kind|table|statement, or an error.  What the kind    *)
(* and the statement say is left out.                                      *)
ParseDdlMessage(content) == IF Len(content) < 3 THEN <<>> ELSE <<content[2]>>

IsMonitored(parsed) == parsed # <<>> /\ parsed[1] \in monitored_tables

(* An error and a table that is not monitored both leave the buffer alone. *)
HandleDdlMessage(lsn, content) ==
    /\ MayCall
    /\ messages' = Append(messages, [lsn |-> lsn, content |-> content,
                                     monitored |-> monitored_tables, after |-> Len(drains)])
    /\ pending' = IF IsMonitored(ParseDdlMessage(content))
                  THEN pending \cup {Len(messages) + 1} ELSE pending
    /\ UNCHANGED <<monitored_tables, drains>>

(* drain_up_to partitions what is pending. *)

\* Fault: the last change that is ready, popped off the end.
Ready_Last(lsn) ==
    {i \in pending : /\ messages[i].lsn <= lsn
                     /\ \A j \in pending : messages[j].lsn <= lsn => j <= i}

Ready(lsn) == {i \in pending : messages[i].lsn <= lsn}

\* Fault: what is not ready is dropped.
Remaining_Dropped(lsn) == {}

Remaining(lsn) == pending \ Ready(lsn)

DrainUpTo(lsn) ==
    /\ MayCall
    /\ drains' = Append(drains, [lsn |-> lsn, returned |-> Ready(lsn)])
    /\ pending' = Remaining(lsn)
    /\ UNCHANGED <<monitored_tables, messages>>

(* "e.g. after publication reconcile": what is pending stays. *)
SetMonitoredTables(tables) ==
    /\ monitored_tables' = tables
    /\ UNCHANGED <<pending, messages, drains>>

DdlNext ==
    \/ \E lsn \in Lsns, content \in Contents : HandleDdlMessage(lsn, content)
    \/ \E lsn \in Lsns : DrainUpTo(lsn)
    \/ \E tables \in Publications : SetMonitoredTables(tables)

DdlSpec == DdlInit /\ [][DdlNext]_ddlVars

-----------------------------------------------------------------------------
(* Properties *)

Message == [lsn : Lsns, content : Contents, monitored : Publications, after : Nat]

DdlTypeOK ==
    /\ monitored_tables \in Publications
    /\ messages \in Seq(Message)
    /\ drains \in Seq([lsn : Lsns, returned : SUBSET (1 .. Len(messages))])
    /\ pending \subseteq 1 .. Len(messages)
    /\ Len(messages) + Len(drains) <= MaxCalls

(* The message is DDL of a table that was monitored when it came. *)
Due(i) ==
    ~(Len(messages[i].content) < 3) /\ messages[i].content[2] \in messages[i].monitored

(* Drain k is the first since message i came that reaches its LSN. *)
FirstReaching(i, k) ==
    /\ k > messages[i].after /\ drains[k].lsn >= messages[i].lsn
    /\ \A h \in messages[i].after + 1 .. k - 1 : drains[h].lsn < messages[i].lsn

(* "Drain all DDL changes at or before the given LSN" (buffer.rs): DDL of  *)
(* a table that is monitored when it arrives is returned once, by the      *)
(* first drain_up_to that reaches its LSN, and waits in the buffer until   *)
(* then, in whatever order messages and drains come and whatever tables    *)
(* are monitored by then; nothing else is ever returned.                   *)
DdlTakenOnce ==
    \A i \in DOMAIN messages :
        /\ \A k \in DOMAIN drains : i \in drains[k].returned <=> Due(i) /\ FirstReaching(i, k)
        /\ i \in pending <=> Due(i) /\ \A k \in DOMAIN drains : i \notin drains[k].returned

(* "the schema registry can be updated in-order with the DML events"       *)
(* (buffer.rs): of two DDL changes that arrive in the order of their LSNs  *)
(* the later is never taken before the earlier one, although others with   *)
(* lower LSNs arrive and are taken in between.                             *)
DdlInOrder ==
    \A i, j \in DOMAIN messages :
        (i < j /\ Due(i) /\ messages[i].lsn <= messages[j].lsn) =>
            \A k \in DOMAIN drains :
                j \in drains[k].returned => \E h \in 1 .. k : i \in drains[h].returned
=============================================================================
