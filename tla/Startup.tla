------------------------------ MODULE Startup ------------------------------
(***************************************************************************)
(* What the daemon does when it starts: the slot and the initial snapshot  *)
(* (Snapshot), the schemas of the publication's tables (Registry), and     *)
(* run_daemon itself (Daemon).  They share no state, so each behaviour     *)
(* moves one of them, chosen at the start; every behaviour of all together *)
(* is an interleaving of three of these.                                   *)
(***************************************************************************)
EXTENDS Snapshot, Registry, Daemon

VARIABLE part

startupVars == <<vars, registryVars, daemonVars, part>>

StartupInit ==
    /\ Init /\ RegistryInit /\ DaemonInit
    /\ part \in {"snapshot", "registry", "daemon"}

StartupNext ==
    \/ part = "snapshot" /\ Next /\ UNCHANGED <<registryVars, daemonVars, part>>
    \/ part = "registry" /\ RegistryNext /\ UNCHANGED <<vars, daemonVars, part>>
    \/ part = "daemon" /\ DaemonNext /\ UNCHANGED <<vars, registryVars, part>>

(* run_daemon goes on; nothing is assumed of the signals. *)
StartupFairness == WF_daemonVars(part = "daemon" /\ DaemonStep)

StartupSpec == StartupInit /\ [][StartupNext]_startupVars /\ StartupFairness

StartupTypeOK == TypeOK /\ RegistryTypeOK /\ DaemonTypeOK
=============================================================================
