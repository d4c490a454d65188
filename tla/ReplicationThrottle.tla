------------------------ MODULE ReplicationThrottle ------------------------
(***************************************************************************)
(* ReplicationThrottle: the token bucket that paces the replication        *)
(* stream.  Tokens are a float in the code; here a token is Unit units and *)
(* a tick of the clock, the resolution of a Duration, is worth rate units. *)
(* The rounding of the float's sums is left out, that of the wait to whole *)
(* ticks (Duration::from_secs_f64) is not.                                 *)
(*                                                                         *)
(* External: the stream's task.  When try_acquire returns false it sleeps  *)
(* for backoff_duration, or longer, and tries again.                       *)
(*                                                                         *)
(*   tokens, last_refill   ReplicationThrottle                             *)
(*   now          the clock, up to MaxTime                                 *)
(*   until        the end of the caller's sleep                            *)
(*   asked        when the caller was first refused, or -1 (history)       *)
(*   start, taken an observer's: any moment, and the tokens since then     *)
(***************************************************************************)
EXTENDS Integers

CONSTANTS Unit, rate, burst,
          MaxTime   \* bound

ASSUME ThrottleAssumption ==
    /\ {Unit, rate, burst} \subseteq Nat \ {0}
    /\ MaxTime \in Nat

VARIABLES tokens, last_refill, now, until, asked, start, taken

throttleVars == <<tokens, last_refill, now, until, asked, start, taken>>

ThrottleInit ==
    /\ tokens = burst * Unit /\ last_refill = 0
    /\ now = 0 /\ until = 0 /\ asked = -1
    /\ start = 0 /\ taken = 0

(* refill, which also sets last_refill. *)
Refilled ==
    LET sum == tokens + rate * (now - last_refill)
    IN  IF sum <= burst * Unit THEN sum ELSE burst * Unit

\* Fault: the wait is that for a full bucket.
BackoffDuration_Full(left) == (2 * (burst * Unit - left) + rate) \div (2 * rate)

(* To the nearest tick, for less than a token. *)
BackoffDuration(left) == (2 * (Unit - left) + rate) \div (2 * rate)

\* Fault: a refusal does not move last_refill.
Refuse_KeepsClock ==
    /\ now >= until /\ Refilled < Unit
    /\ tokens' = Refilled
    /\ until' = now + BackoffDuration(Refilled)
    /\ asked' = IF asked = -1 THEN now ELSE asked
    /\ UNCHANGED <<last_refill, now, start, taken>>

(* try_acquire returns false. *)
Refuse ==
    /\ now >= until /\ Refilled < Unit
    /\ tokens' = Refilled /\ last_refill' = now
    /\ until' = now + BackoffDuration(Refilled)
    /\ asked' = IF asked = -1 THEN now ELSE asked
    /\ UNCHANGED <<now, start, taken>>

(* try_acquire returns true. *)
Acquire ==
    /\ now >= until /\ Refilled >= Unit
    /\ tokens' = Refilled - Unit /\ last_refill' = now
    /\ asked' = -1
    /\ taken' = taken + 1
    /\ UNCHANGED <<now, until, start>>

Tick ==
    /\ now < MaxTime
    /\ now' = now + 1
    /\ UNCHANGED <<tokens, last_refill, until, asked, start, taken>>

Watch ==
    /\ start' = now /\ taken' = 0
    /\ UNCHANGED <<tokens, last_refill, now, until, asked>>

ThrottleNext == Refuse \/ Acquire \/ Tick \/ Watch

ThrottleSpec == ThrottleInit /\ [][ThrottleNext]_throttleVars

-----------------------------------------------------------------------------
(* Properties *)

ThrottleTypeOK ==
    /\ tokens \in 0 .. burst * Unit
    /\ {now, until, taken} \subseteq Nat
    /\ last_refill \in 0 .. now /\ start \in 0 .. now
    /\ asked \in -1 .. now

(* "up to burst messages immediately, then limited to rate messages per    *)
(* second" (throttle.rs): from any moment on, never more than the burst    *)
(* and what the rate gives for the time since.                             *)
RateLimited == taken * Unit <= burst * Unit + rate * (now - start)

(* The ticks in which the rate gives a token. *)
TokenTime == (Unit + rate - 1) \div rate

(* "How long the caller should wait before retrying" (backoff_duration):   *)
(* a caller that waits as long as it is told, which rounding makes too     *)
(* short at times, is not refused again nor told to wait once the rate     *)
(* has given it a token.                                                   *)
BackoffIsEnough ==
    asked # -1 => /\ last_refill < asked + TokenTime
                  /\ until <= asked + TokenTime
=============================================================================
