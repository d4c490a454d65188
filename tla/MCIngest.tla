------------------------------ MODULE MCIngest ------------------------------
(* Two transactions.  The first to commit ran inside the second: the       *)
(* second's first change has a smaller LSN than the first's, which are two *)
(* rows of one COPY and share their LSN.                                   *)
EXTENDS Ingest

MCTxns == << [changes |-> <<2, 2>>, commit |-> 3],
             [changes |-> <<1, 4>>, commit |-> 6] >>
MCEvents == UNION {{<<t, i>> : i \in DOMAIN MCTxns[t].changes} : t \in DOMAIN MCTxns}
MCLsnOf == [e \in MCEvents |-> MCTxns[e[1]].changes[e[2]]]
MCSizeOf == [e \in MCEvents |-> 1]
MCXidOf == [e \in MCEvents |-> 0]
=============================================================================
