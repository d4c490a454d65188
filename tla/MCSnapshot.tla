----------------------------- MODULE MCSnapshot -----------------------------
(* For the snapshot, two tables, of two rows and of one, one restart, and  *)
(* LSNs on both sides of a half; a row holds one of two texts, or one of   *)
(* them and a number, which is not read as a String.  For the registry,    *)
(* two tables that get a column, which then becomes the key, and a hash    *)
(* without collisions.                                                     *)
EXTENDS Startup, TLC

CONSTANTS r1, r2, r3, a, b, numbered, orders, users

MCTables == <<{r1, r2}, {r3}>>

MCTryGet == a :> a @@ b :> b @@ numbered :> a

MCPublication == <<orders, users>>

Column(name, type, nullable) == [name |-> name, type |-> type, nullable |-> nullable]

MCDefinitions == <<
    [columns |-> <<Column("id", "int4", FALSE)>>, pk |-> {"id"}],
    [columns |-> <<Column("id", "int4", FALSE), Column("name", "text", TRUE)>>, pk |-> {"id"}],
    [columns |-> <<Column("id", "int4", FALSE), Column("name", "text", FALSE)>>, pk |-> {"name"}]>>

MCHash(text) == text
=============================================================================
