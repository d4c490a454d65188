------------------------------ MODULE Registry ------------------------------
(***************************************************************************)
(* SchemaRegistry and load_publication_schemas: the definitions of the     *)
(* publication's tables are read with two queries per table while clients  *)
(* alter them, and consumers compare fingerprints with the registry's.     *)
(*                                                                         *)
(* External: PostgreSQL, where a table goes from one definition to the     *)
(* next; a query sees the definition of its own moment, or fails.  One     *)
(* task loads, at the start and again when it is told to.                  *)
(*                                                                         *)
(* The fingerprint is a hash of text, of which nothing is assumed.         *)
(*                                                                         *)
(*   version   PostgreSQL: the current definition of each table            *)
(*   registry  SchemaRegistry.tables                                       *)
(*   loading   "no", "columns" or "pk": the loader's next query            *)
(*   count     the tables loaded so far                                    *)
(*   rows      what the columns query of the next one returned             *)
(*   loadedAll whether the last load returned Ok (history)                 *)
(*   began     version when the last load began (history)                  *)
(*   held      what a consumer got from the registry, table by table       *)
(*   loads     bound: loads so far                                         *)
(***************************************************************************)
EXTENDS Integers, Sequences

CONSTANTS
    publication,    \* sequence of tables
    Definitions,    \* sequence of [columns, pk], with columns a sequence of
                    \* [name, type, nullable] and pk a set of names
    Hash(_),        \* FNV-1a of a fingerprint's text
    MaxLoads        \* bound

ASSUME RegistryAssumption ==
    /\ Len(publication) \in Nat /\ DOMAIN publication = 1 .. Len(publication)
    /\ Len(Definitions) \in Nat \ {0} /\ MaxLoads \in Nat

VARIABLES version, registry, loading, count, rows, loadedAll, began, held, loads

registryVars == <<version, registry, loading, count, rows, loadedAll, began, held, loads>>

Published == {publication[i] : i \in DOMAIN publication}

RegistryInit ==
    /\ version = [t \in Published |-> 1]
    /\ registry = <<>> /\ held = <<>>
    /\ loading = "no" /\ count = 0 /\ rows = <<>>
    /\ loadedAll = FALSE /\ began = version
    /\ loads = 0

AlterTable(t) ==
    /\ version[t] < Len(Definitions)
    /\ version' = [version EXCEPT ![t] = @ + 1]
    /\ UNCHANGED <<registry, loading, count, rows, loadedAll, began, held, loads>>

-----------------------------------------------------------------------------
(* load_publication_schemas *)

(* compute: of the table's name and the columns' names and types. *)
SchemaFingerprint(t, columns) ==
    Hash(<<t, [i \in DOMAIN columns |-> <<columns[i].name, columns[i].type>>]>>)

TableSchema(t, columns, pk) ==
    [columns |-> columns,
     pk |-> {columns[i].name : i \in DOMAIN columns} \cap pk,
     fingerprint |-> SchemaFingerprint(t, columns)]

\* Fault: an entry that is there stays.
Insert_KeepsOld(map, t, entry) ==
    [u \in DOMAIN map \cup {t} |-> IF u \in DOMAIN map THEN map[u] ELSE entry]

Insert(map, t, entry) ==
    [u \in DOMAIN map \cup {t} |-> IF u = t THEN entry ELSE map[u]]

BeginLoad ==
    /\ loading = "no" /\ loads < MaxLoads
    /\ loads' = loads + 1
    /\ count' = 0
    /\ loading' = "columns"
    /\ began' = version /\ loadedAll' = FALSE
    /\ UNCHANGED <<version, registry, rows, held>>

More == count < Len(publication)

Current == publication[count + 1]

QueryColumns ==
    /\ loading = "columns" /\ More
    /\ rows' = Definitions[version[Current]].columns
    /\ loading' = "pk"
    /\ UNCHANGED <<version, registry, count, loadedAll, began, held, loads>>

\* Fault: a failed query is read as a table without columns.
ColumnsFail_Empty ==
    /\ loading = "columns" /\ More
    /\ rows' = <<>>
    /\ loading' = "pk"
    /\ UNCHANGED <<version, registry, count, loadedAll, began, held, loads>>

(* The load ends with the error; what it has registered stays. *)
ColumnsFail ==
    /\ loading = "columns" /\ More
    /\ loading' = "no"
    /\ UNCHANGED <<version, registry, count, rows, loadedAll, began, held, loads>>

(* The primary key's columns, none if the query fails; upsert. *)
QueryPk(fails) ==
    /\ loading = "pk"
    /\ LET pk == IF fails THEN {} ELSE Definitions[version[Current]].pk
       IN  registry' = Insert(registry, Current, TableSchema(Current, rows, pk))
    /\ count' = count + 1
    /\ rows' = <<>>
    /\ loading' = "columns"
    /\ UNCHANGED <<version, loadedAll, began, held, loads>>

EndLoad ==
    /\ loading = "columns" /\ ~More
    /\ loading' = "no"
    /\ loadedAll' = TRUE
    /\ UNCHANGED <<version, registry, count, rows, began, held, loads>>

-----------------------------------------------------------------------------
(* Consumers *)

Get(t) ==
    /\ t \in DOMAIN registry
    /\ held' = Insert(held, t, registry[t])
    /\ UNCHANGED <<version, registry, loading, count, rows, loadedAll, began, loads>>

ValidateFingerprint(t, fp) == t \in DOMAIN registry /\ registry[t].fingerprint = fp

NoMoreLoads == loading = "no" /\ loads = MaxLoads /\ UNCHANGED registryVars

RegistryNext ==
    \/ \E t \in Published : AlterTable(t) \/ Get(t)
    \/ BeginLoad
    \/ QueryColumns
    \/ ColumnsFail
    \/ \E fails \in BOOLEAN : QueryPk(fails)
    \/ EndLoad
    \/ NoMoreLoads

RegistrySpec == RegistryInit /\ [][RegistryNext]_registryVars

-----------------------------------------------------------------------------
(* Properties *)

RegistryTypeOK ==
    /\ version \in [Published -> 1 .. Len(Definitions)]
    /\ began \in [Published -> 1 .. Len(Definitions)]
    /\ DOMAIN registry \subseteq Published /\ DOMAIN held \subseteq DOMAIN registry
    /\ loading \in {"no", "columns", "pk"} /\ count \in 0 .. Len(publication)
    /\ loading = "pk" => count < Len(publication)
    /\ loadedAll \in BOOLEAN /\ loads \in 0 .. MaxLoads

(* The registry has columns the table had at one moment since the load     *)
(* began.                                                                  *)
Recent(t) ==
    /\ t \in DOMAIN registry
    /\ \E v \in began[t] .. version[t] : registry[t].columns = Definitions[v].columns

(* When a load has returned Ok, the registry has every table of the        *)
(* publication with columns it had at one moment since the load began,     *)
(* however often tables are altered between the queries and whatever an    *)
(* earlier, failed load left there (registry.rs load_publication_schemas). *)
LoadedIsRecent == loadedAll => \A t \in Published : Recent(t)

(* What validate_fingerprint accepts after a load that returned Ok is the  *)
(* fingerprint of columns the table had at one moment since the load       *)
(* began, however long ago the consumer got it and whatever was loaded and *)
(* altered since (registry.rs upsert, validate_fingerprint).               *)
ValidatedIsRecent ==
    loadedAll => \A t \in DOMAIN held :
        ValidateFingerprint(t, held[t].fingerprint) =>
            \E v \in began[t] .. version[t] :
                held[t].fingerprint = SchemaFingerprint(t, Definitions[v].columns)

(* Statements of the source that its code does not keep.  No run checks    *)
(* them; TLC refutes each when it is named in the cfg.                     *)

(* The registry's key is the table's: the second query is of another       *)
(* moment, or failed.                                                      *)
KeyIsTheTables ==
    loadedAll => \A t \in Published : \E v \in began[t] .. version[t] :
        registry[t].columns = Definitions[v].columns /\ registry[t].pk = Definitions[v].pk

(* "consumers can detect schema drift" (registry.rs): a consumer whose     *)
(* fingerprint still validates has the registry's columns and key.         *)
(* compute leaves out whether a column is nullable and the key.            *)
DriftDetected ==
    \A t \in DOMAIN held :
        ValidateFingerprint(t, held[t].fingerprint) =>
            held[t].columns = registry[t].columns /\ held[t].pk = registry[t].pk
=============================================================================
