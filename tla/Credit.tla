------------------------------- MODULE Credit -------------------------------
(***************************************************************************)
(* CreditThrottle: lock-free credits shared by the threads that send to a  *)
(* consumer and the one that handles its commits.                          *)
(*                                                                         *)
(* External: the consumer.  It commits events it was sent and has not      *)
(* committed yet; reset is called when its stream starts over, which       *)
(* forgets what was outstanding.                                           *)
(*                                                                         *)
(*   credits      the atomic counter, a u32                                *)
(*   loaded       per thread: the value try_consume has loaded, or None    *)
(*   outstanding  events sent and not committed                            *)
(***************************************************************************)
EXTENDS Integers

CONSTANTS Threads, window, None

ASSUME CreditAssumption == window \in Nat /\ None \notin Int

VARIABLES credits, loaded, outstanding

vars == <<credits, loaded, outstanding>>

Init ==
    /\ credits = window
    /\ loaded = [t \in Threads |-> None]
    /\ outstanding = 0

(* try_consume: load; at zero it returns false. *)
Load(t) ==
    /\ loaded[t] = None
    /\ credits # 0
    /\ loaded' = [loaded EXCEPT ![t] = credits]
    /\ UNCHANGED <<credits, outstanding>>

\* Fault: a plain store in place of the compare-exchange.
Exchange_Store(t) ==
    /\ loaded[t] # None
    /\ credits' = loaded[t] - 1
    /\ outstanding' = outstanding + 1
    /\ loaded' = [loaded EXCEPT ![t] = None]

(* compare_exchange_weak succeeds: one event is sent. *)
Exchange(t) ==
    /\ loaded[t] # None
    /\ loaded[t] = credits
    /\ credits' = loaded[t] - 1
    /\ outstanding' = outstanding + 1
    /\ loaded' = [loaded EXCEPT ![t] = None]

(* It fails, because the counter moved or for no reason: load again. *)
Retry(t) ==
    /\ loaded[t] # None
    /\ loaded' = [loaded EXCEPT ![t] = None]
    /\ UNCHANGED <<credits, outstanding>>

(* A commit of amount events. *)
Replenish(amount) ==
    /\ amount \in 1 .. outstanding
    /\ credits' = credits + (IF amount < window THEN amount ELSE window)
    /\ outstanding' = outstanding - amount
    /\ UNCHANGED loaded

Reset ==
    /\ credits' = window
    /\ outstanding' = 0
    /\ UNCHANGED loaded

Next ==
    \/ \E t \in Threads : Load(t) \/ Exchange(t) \/ Retry(t)
    \/ \E amount \in 1 .. window : Replenish(amount)
    \/ Reset

Spec == Init /\ [][Next]_vars

-----------------------------------------------------------------------------
(* Properties *)

TypeOK ==
    /\ credits \in 0 .. window
    /\ loaded \in [Threads -> (1 .. window) \cup {None}]
    /\ outstanding \in Nat

(* "prevents a slow consumer from unbounded memory growth" (throttle.rs):  *)
(* credits and outstanding events always make up the window, so no more    *)
(* than a window is ever outstanding, however the threads' loads and       *)
(* exchanges, the commits and a reset interleave.                          *)
CreditsConserved == credits + outstanding = window
=============================================================================
