------------------------------- MODULE Store -------------------------------
(***************************************************************************)
(* TenantStore: the RocksDB column family that holds a tenant's events, as *)
(* a function from keys to events.  Keys are make_key's [LSN][XID]; both   *)
(* parts are big-endian and of fixed width, so the byte order of the keys  *)
(* is the order of the pairs.  RocksDB itself (a batch is applied whole or *)
(* not at all, a put replaces, an iterator walks a consistent view in key  *)
(* order) is external.                                                     *)
(***************************************************************************)
EXTENDS Integers, Sequences, FiniteSets

CONSTANTS
    Events,   \* what can be stored
    LsnOf,    \* ChangeEvent.lsn
    XidOf     \* ChangeEvent.xid

Empty == [k \in {} |-> k]

MakeKey(e) == <<LsnOf[e], XidOf[e]>>

KeyLess(j, k) == j[1] < k[1] \/ (j[1] = k[1] /\ j[2] < k[2])

(* write_batch: the puts apply in the order of the batch. *)
Put(store, es) ==
    LET written == {MakeKey(es[i]) : i \in DOMAIN es}
        last(k) == CHOOSE i \in DOMAIN es :
                       /\ MakeKey(es[i]) = k
                       /\ \A j \in DOMAIN es : MakeKey(es[j]) = k => j <= i
    IN  [k \in DOMAIN store \cup written |->
            IF k \in written THEN es[last(k)] ELSE store[k]]

Holds(store, e) == MakeKey(e) \in DOMAIN store /\ store[MakeKey(e)] = e

(* read_from: the events at or after an LSN, in key order.  The limit is   *)
(* tested after a push, so at least one event is returned if there is one. *)
ReadFrom(store, lsn, limit) ==
    LET keys == {k \in DOMAIN store : k[1] >= lsn}
        before(k) == Cardinality({j \in keys : KeyLess(j, k)})
        page == {k \in keys : before(k) = 0 \/ before(k) < limit}
    IN  [i \in 1 .. Cardinality(page) |-> store[CHOOSE k \in page : before(k) = i - 1]]
=============================================================================
