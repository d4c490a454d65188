------------------------------ MODULE Webhook ------------------------------
(***************************************************************************)
(* Delivery to a webhook endpoint: the micro-batcher, the circuit breaker, *)
(* the retry policy and the dead letter queue.                             *)
(*                                                                         *)
(* External: the endpoint, which acknowledges a request or fails it (a     *)
(* refusal and a timeout look alike); and the tasks that use these parts.  *)
(* Each task drains a batch, asks allow_request before each attempt, and   *)
(* waits while it is refused.  It reports the outcome and after the last   *)
(* attempt puts every event of the batch in the queue.  The methods take   *)
(* &mut self, so each is atomic; requests of several tasks may be under    *)
(* way at once.                                                            *)
(*                                                                         *)
(*   todo        events still to come (in the order they come)             *)
(*   buffer      WebhookBatcher.buffer                                     *)
(*   state, failure_count, opened   CircuitBreaker; opened is opened_at:   *)
(*               None, "recent", or "elapsed" once recovery_timeout passed *)
(*   task        per task: its batch (empty while it is idle), the attempt *)
(*               (0-indexed), whether a request is under way, and whether  *)
(*               that is the probe                                         *)
(*   dlq, total_entries             DeadLetterQueue                        *)
(*   taken       events the endpoint acknowledged                          *)
(*   evicted, drained   events that left the queue, by eviction and by     *)
(*               drain_all                                                 *)
(***************************************************************************)
EXTENDS Integers, Sequences, FiniteSets, Functions

CONSTANTS
    Tasks,
    Events,              \* the events, a sequence without repetition
    max_batch_size, failure_threshold, max_attempts, max_size,
    MaxFailures,         \* bound: failed requests the endpoint causes
    None

ASSUME WebhookAssumption ==
    /\ \A i, j \in DOMAIN Events : i # j => Events[i] # Events[j]
    /\ max_batch_size \in Nat \ {0}
    /\ {failure_threshold, max_attempts, max_size, MaxFailures} \subseteq Nat
    /\ Events \in Seq({Events[i] : i \in DOMAIN Events})

VARIABLES todo, buffer, state, failure_count, opened, task, dlq, total_entries,
          taken, evicted, drained, failures

circuitVars == <<state, failure_count, opened>>
dlqVars == <<dlq, total_entries, evicted, drained>>
vars == <<todo, buffer, circuitVars, task, dlqVars, taken, failures>>

Idle == [batch |-> <<>>, attempt |-> 0, sent |-> FALSE, probe |-> FALSE]

Busy(w) == task[w].batch # <<>>

AtLeastOne(n) == IF n = 0 THEN 1 ELSE n

Init ==
    /\ todo = Events
    /\ buffer = <<>>
    /\ state = "Closed" /\ failure_count = 0 /\ opened = None
    /\ task = [w \in Tasks |-> Idle]
    /\ dlq = <<>> /\ total_entries = 0
    /\ taken = {} /\ evicted = {} /\ drained = {}
    /\ failures = 0

-----------------------------------------------------------------------------
(* WebhookBatcher *)

Push ==
    /\ todo # <<>>
    /\ Len(buffer) < max_batch_size
    /\ buffer' = Append(buffer, Head(todo))
    /\ todo' = Tail(todo)
    /\ UNCHANGED <<circuitVars, task, dlqVars, taken, failures>>

\* Fault: drain leaves the events in the buffer.
Drain_Keeps(w) ==
    /\ ~Busy(w)
    /\ buffer # <<>>
    /\ task' = [task EXCEPT ![w] = [Idle EXCEPT !.batch = buffer]]
    /\ UNCHANGED <<todo, buffer, circuitVars, dlqVars, taken, failures>>

(* A task takes the batch, which is full or has lingered long enough. *)
Drain(w) ==
    /\ ~Busy(w)
    /\ buffer # <<>>
    /\ task' = [task EXCEPT ![w] = [Idle EXCEPT !.batch = buffer]]
    /\ buffer' = <<>>
    /\ UNCHANGED <<todo, circuitVars, dlqVars, taken, failures>>

-----------------------------------------------------------------------------
(* CircuitBreaker *)

(* recovery_timeout passes. *)
Elapse ==
    /\ opened = "recent"
    /\ opened' = "elapsed"
    /\ UNCHANGED <<todo, buffer, state, failure_count, task, dlqVars, taken, failures>>

(* What allow_request returns ... *)
AllowRequest == state = "Closed" \/ (state = "Open" /\ opened = "elapsed")

(* ... and the state it leaves behind. *)
AllowedState == IF state = "Open" THEN "HalfOpen" ELSE state

\* Fault: a successful probe only resets the count.
OnSuccess_StaysHalfOpen ==
    /\ failure_count' = 0
    /\ UNCHANGED <<state, opened>>

OnSuccess ==
    /\ failure_count' = 0
    /\ IF state = "HalfOpen" THEN state' = "Closed" /\ opened' = None
       ELSE UNCHANGED <<state, opened>>

\* Fault: the circuit opens one failure late.
OnFailure_Late ==
    /\ failure_count' = failure_count + 1
    /\ IF \/ state = "Closed" /\ failure_count' > failure_threshold
          \/ state = "HalfOpen"
       THEN state' = "Open" /\ opened' = "recent"
       ELSE UNCHANGED <<state, opened>>

\* Fault: a failed probe does not restart the recovery timer.
OnFailure_NoTimer ==
    /\ failure_count' = failure_count + 1
    /\ IF \/ state = "Closed" /\ failure_count' >= failure_threshold
          \/ state = "HalfOpen"
       THEN state' = "Open" /\ opened' = IF state = "Closed" THEN "recent" ELSE None
       ELSE UNCHANGED <<state, opened>>

OnFailure ==
    /\ failure_count' = failure_count + 1
    /\ IF \/ state = "Closed" /\ failure_count' >= failure_threshold
          \/ state = "HalfOpen"
       THEN state' = "Open" /\ opened' = "recent"
       ELSE UNCHANGED <<state, opened>>

-----------------------------------------------------------------------------
(* DeadLetterQueue and RetryPolicy *)

(* push makes room first, so a queue of max_size 0 still holds one. *)
DlqLimit == AtLeastOne(max_size)

(* push, for each event of a batch in turn: a full queue evicts its oldest. *)
PushAll(batch) ==
    LET all == dlq \o batch
        out == IF Len(all) > DlqLimit THEN Len(all) - DlqLimit ELSE 0
    IN
    /\ dlq' = SubSeq(all, out + 1, Len(all))
    /\ evicted' = evicted \cup Range(SubSeq(all, 1, out))
    /\ total_entries' = total_entries + Len(batch)
    /\ UNCHANGED drained

DrainAll ==
    /\ dlq # <<>>
    /\ drained' = drained \cup Range(dlq)
    /\ dlq' = <<>>
    /\ UNCHANGED <<todo, buffer, circuitVars, task, total_entries, evicted, taken, failures>>

ShouldRetry(attempt) == attempt + 1 < max_attempts

-----------------------------------------------------------------------------
(* The tasks *)

Request(w) ==
    /\ Busy(w) /\ ~task[w].sent
    /\ AllowRequest
    /\ state' = AllowedState
    /\ task' = [task EXCEPT ![w].sent = TRUE, ![w].probe = (state' = "HalfOpen")]
    /\ UNCHANGED <<todo, buffer, failure_count, opened, dlqVars, taken, failures>>

(* allow_request returns false; the task waits and asks again. *)
Refused(w) ==
    /\ Busy(w) /\ ~task[w].sent
    /\ ~AllowRequest
    /\ UNCHANGED vars

Succeed(w) ==
    /\ Busy(w) /\ task[w].sent
    /\ OnSuccess
    /\ taken' = taken \cup Range(task[w].batch)
    /\ task' = [task EXCEPT ![w] = Idle]
    /\ UNCHANGED <<todo, buffer, dlqVars, failures>>

Fail(w) ==
    /\ Busy(w) /\ task[w].sent
    /\ failures < MaxFailures /\ failures' = failures + 1
    /\ OnFailure
    /\ IF ShouldRetry(task[w].attempt)
       THEN /\ task' = [task EXCEPT ![w].attempt = @ + 1, ![w].sent = FALSE,
                                    ![w].probe = FALSE]
            /\ UNCHANGED dlqVars
       ELSE /\ task' = [task EXCEPT ![w] = Idle]
            /\ PushAll(task[w].batch)
    /\ UNCHANGED <<todo, buffer, taken>>

(* Everything has been dealt with. *)
Done ==
    /\ todo = <<>> /\ buffer = <<>> /\ dlq = <<>>
    /\ \A w \in Tasks : ~Busy(w)
    /\ UNCHANGED vars

Next ==
    \/ Push
    \/ \E w \in Tasks : Drain(w) \/ Request(w) \/ Refused(w) \/ Succeed(w) \/ Fail(w)
    \/ Elapse
    \/ DrainAll
    \/ Done

Spec == Init /\ [][Next]_vars

(* Tasks and time go on, and every request is answered: the HTTP client    *)
(* has a timeout.  Nobody is obliged to drain the queue.  A waiting task   *)
(* asks again after every backoff, hence strong fairness.                  *)
Fairness ==
    /\ WF_vars(Push) /\ WF_vars(Elapse)
    /\ \A w \in Tasks : /\ WF_vars(Drain(w)) /\ SF_vars(Request(w))
                        /\ WF_vars(Succeed(w) \/ Fail(w))

FairSpec == Spec /\ Fairness

-----------------------------------------------------------------------------
(* Properties *)

Jobs == {w \in Tasks : Busy(w)}

TypeOK ==
    /\ {todo, buffer, dlq} \subseteq Seq(Range(Events))
    /\ task \in [Tasks -> [batch : Seq(Range(Events)), attempt : 0 .. AtLeastOne(max_attempts) - 1,
                           sent : BOOLEAN, probe : BOOLEAN]]
    /\ Len(buffer) <= max_batch_size /\ Len(dlq) <= DlqLimit
    /\ state \in {"Closed", "Open", "HalfOpen"}
    /\ opened \in {None, "recent", "elapsed"}
    /\ failures \in 0 .. MaxFailures /\ failure_count \in 0 .. failures
    /\ total_entries \in Nat

(* Where an event can be. *)
Places(e) ==
    LET at(name, seq) == {<<name, i>> : i \in {i \in DOMAIN seq : seq[i] = e}}
        in(name, set) == IF e \in set THEN {<<name, 0>>} ELSE {}
    IN  at(<<"todo">>, todo) \cup at(<<"buffer">>, buffer) \cup at(<<"dlq">>, dlq)
        \cup (UNION {at(<<"task", w>>, task[w].batch) : w \in Jobs})
        \cup in(<<"taken">>, taken) \cup in(<<"evicted">>, evicted)
        \cup in(<<"drained">>, drained)

(* Through batching, retries, eviction and several tasks, each event is in *)
(* exactly one place: none is lost unseen and none is delivered and dead-  *)
(* lettered both (batcher.rs drain, retry.rs, dlq.rs push, drain_all), and *)
(* total_entries counts those that went through the queue.                 *)
ExactlyOnePlace ==
    /\ \A e \in Range(Events) : Cardinality(Places(e)) = 1
    /\ total_entries = Len(dlq) + Cardinality(evicted) + Cardinality(drained)

(* "On N consecutive failures, transitions to Open" (circuit.rs): requests *)
(* flow only while fewer than failure_threshold failures have followed     *)
(* each other, in whatever order the answers of several tasks come.        *)
ClosedBelowThreshold ==
    state = "Closed" => failure_count < AtLeastOne(failure_threshold)

(* HalfOpen refuses every request, so only an answer ends it: some request *)
(* that was let out as a probe, and has not been answered, always exists   *)
(* there, whichever late answers of other tasks came before (circuit.rs    *)
(* allow_request, on_success, on_failure).                                 *)
ProbeUnderWay ==
    state = "HalfOpen" => \E w \in Tasks : task[w].sent /\ task[w].probe

(* "HalfOpen: One probe request is allowed" (circuit.rs) would be the      *)
(* following.  It holds for one task; with two, the late failure of a      *)
(* request sent before the circuit opened reopens it while the probe is    *)
(* under way, and a second probe follows.  No run checks it.               *)
OneProbe == Cardinality({w \in Jobs : task[w].sent /\ task[w].probe}) <= 1

(* Every event is in the end acknowledged or dead-lettered; the circuit    *)
(* never stays shut for good (circuit.rs, retry.rs).                       *)
AllSettled == <>[](todo = <<>> /\ buffer = <<>> /\ Jobs = {})
=============================================================================
