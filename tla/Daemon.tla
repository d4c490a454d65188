------------------------------- MODULE Daemon -------------------------------
(***************************************************************************)
(* run_daemon with its Lifecycle, the HealthEndpoint that other threads    *)
(* read at any time, and the signals that end it.                          *)
(*                                                                         *)
(* External: the operating system.  A SIGINT or SIGTERM that comes before  *)
(* wait_for_shutdown has installed its handlers kills the process; tokio   *)
(* never removes them again.                                               *)
(*                                                                         *)
(*   at         run_daemon's next step, "ended", or "killed"               *)
(*   state      Lifecycle.state                                            *)
(*   ready      HealthEndpoint.ready                                       *)
(*   handlers   whether the signal handlers are installed                  *)
(*   signalled  whether a signal has been sent                             *)
(***************************************************************************)
VARIABLES at, state, ready, handlers, signalled

daemonVars == <<at, state, ready, handlers, signalled>>

DaemonInit ==
    /\ at = "init" /\ state = "Initializing" /\ ready = FALSE
    /\ handlers = FALSE /\ signalled = FALSE

Transition(new_state) == state' = new_state

(* Metrics, budget, gate, ring buffer, coordinator and offsets are made. *)
Initialize ==
    /\ at = "init" /\ at' = "run"
    /\ Transition("Initializing")
    /\ UNCHANGED <<ready, handlers, signalled>>

(* MetricsRegistry::new fails: main returns the error. *)
InitFails ==
    /\ at = "init" /\ at' = "ended"
    /\ UNCHANGED <<state, ready, handlers, signalled>>

Run ==
    /\ at = "run" /\ at' = "set_ready"
    /\ Transition("Running")
    /\ UNCHANGED <<ready, handlers, signalled>>

SetReady ==
    /\ at = "set_ready" /\ at' = "install"
    /\ ready' = TRUE
    /\ UNCHANGED <<state, handlers, signalled>>

(* wait_for_shutdown *)
InstallHandlers ==
    /\ at = "install" /\ at' = "wait"
    /\ handlers' = TRUE
    /\ UNCHANGED <<state, ready, signalled>>

ReceiveSignal ==
    /\ at = "wait" /\ signalled
    /\ at' = "set_not_ready"
    /\ Transition("ShuttingDown")
    /\ UNCHANGED <<ready, handlers, signalled>>

\* Fault: readiness is left as it is.
SetNotReady_Skipped ==
    /\ at = "set_not_ready" /\ at' = "stop"
    /\ UNCHANGED <<state, ready, handlers, signalled>>

\* Fault: run_daemon returns early.
SetNotReady_Returns ==
    /\ at = "set_not_ready" /\ at' = "ended"
    /\ ready' = FALSE
    /\ UNCHANGED <<state, handlers, signalled>>

SetNotReady ==
    /\ at = "set_not_ready" /\ at' = "stop"
    /\ ready' = FALSE
    /\ UNCHANGED <<state, handlers, signalled>>

Stop ==
    /\ at = "stop" /\ at' = "ended"
    /\ Transition("Stopped")
    /\ UNCHANGED <<ready, handlers, signalled>>

Signal ==
    /\ at \notin {"ended", "killed"}
    /\ signalled' = TRUE
    /\ at' = IF handlers THEN at ELSE "killed"
    /\ UNCHANGED <<state, ready, handlers>>

DaemonStep ==
    \/ Initialize \/ InitFails
    \/ Run \/ SetReady \/ InstallHandlers
    \/ ReceiveSignal \/ SetNotReady \/ Stop

Gone == at \in {"ended", "killed"} /\ UNCHANGED daemonVars

DaemonNext == DaemonStep \/ Signal \/ Gone

-----------------------------------------------------------------------------
(* Properties *)

DaemonTypeOK ==
    /\ at \in {"init", "run", "set_ready", "install", "wait", "set_not_ready", "stop",
               "ended", "killed"}
    /\ state \in {"Initializing", "Running", "ShuttingDown", "Stopped"}
    /\ {ready, handlers, signalled} \subseteq BOOLEAN

(* A health probe that is told ready comes after the start and before the  *)
(* end of the daemon, wherever it falls between run_daemon's steps         *)
(* (main.rs run_daemon, endpoint.rs is_ready).                             *)
ReadyWhileRunning == ready => state \in {"Running", "ShuttingDown"}

(* "graceful shutdown" (lifecycle.rs): a daemon that is waiting when the   *)
(* signal comes gets to Stopped and is not ready then.                     *)
ShutdownCompletes == (at = "wait" /\ signalled) ~> (state = "Stopped" /\ ~ready)

(* The same of every daemon that says it is ready: not kept, as a signal   *)
(* between set_ready and the handlers kills it.  No run checks it.         *)
GracefulOnceReady == at = "killed" => ~ready
=============================================================================
