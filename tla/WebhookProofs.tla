--------------------------- MODULE WebhookProofs ---------------------------
(***************************************************************************)
(* Any number of tasks that deliver any number of events: the circuit      *)
(* breaker between them counts consecutive failures and never waits for a  *)
(* probe that is not there, and no event is lost or doubled between the    *)
(* batcher, the tasks and the dead letter queue.                           *)
(***************************************************************************)
EXTENDS Webhook, FiniteSetTheorems, SequenceTheorems, TLAPS

E == Range(Events)

Attempts == 0 .. AtLeastOne(max_attempts) - 1

Task == [batch : Seq(E), attempt : Attempts, sent : BOOLEAN, probe : BOOLEAN]

(* A request under way is that of a task with a batch; without this a task *)
(* that takes one could forget the probe.                                  *)
SentIsBusy == \A w \in Tasks : task[w].sent => Busy(w)

WebhookInv == TypeOK /\ ClosedBelowThreshold /\ ProbeUnderWay /\ SentIsBusy

(* The limits are positive, and an idle task is a task. *)
LEMMA Limits ==
    /\ AtLeastOne(max_attempts) \in Nat \ {0} /\ DlqLimit \in Nat \ {0}
    /\ AtLeastOne(failure_threshold) \in Nat \ {0}
    /\ AtLeastOne(failure_threshold) >= failure_threshold
    /\ 0 \in Attempts /\ Idle \in Task
<1>1. \A n \in Nat : AtLeastOne(n) \in Nat \ {0} /\ AtLeastOne(n) >= n
  BY DEF AtLeastOne
<1>2. max_attempts \in Nat /\ max_size \in Nat /\ failure_threshold \in Nat
  BY WebhookAssumption
<1>3. 0 \in Attempts
  BY <1>1, <1>2 DEF Attempts
<1>4. <<>> \in Seq(E)
  OBVIOUS
<1> QED  BY <1>1, <1>2, <1>3, <1>4 DEF DlqLimit, Idle, Task

(* The types, with the sets by their names. *)
LEMMA Types ==
    ASSUME TypeOK
    PROVE  /\ todo \in Seq(E) /\ buffer \in Seq(E) /\ dlq \in Seq(E)
           /\ task \in [Tasks -> Task]
           /\ failure_count \in Nat /\ failures \in Nat /\ total_entries \in Nat
BY WebhookAssumption DEF TypeOK, E, Task, Attempts

(* Pushing a batch leaves no more in the dead letter queue than it holds. *)
LEMMA PushAllFacts ==
    ASSUME TypeOK, NEW batch \in Seq(E), PushAll(batch)
    PROVE  dlq' \in Seq(E) /\ Len(dlq') <= DlqLimit /\ total_entries' \in Nat
<1> DEFINE all == dlq \o batch
           n == Len(all)
           out == IF n > DlqLimit THEN n - DlqLimit ELSE 0
<1>1. all \in Seq(E) /\ n \in Nat
  BY Types
<1>2. dlq' = SubSeq(all, out + 1, n) /\ total_entries' = total_entries + Len(batch)
  BY DEF PushAll
<1>3. out \in 0 .. n /\ n - out <= DlqLimit
  BY <1>1, Limits
<1> HIDE DEF all, n, out
<1>4. \A i \in (out + 1) .. n : i \in 1 .. Len(all)
  BY <1>1, <1>3 DEF n
<1>5. /\ SubSeq(all, out + 1, n) \in Seq(E)
      /\ Len(SubSeq(all, out + 1, n)) = IF out + 1 <= n THEN n - (out + 1) + 1 ELSE 0
  BY <1>1, <1>3, <1>4, SubSeqProperties
<1>6. Len(dlq') <= DlqLimit
  BY <1>1, <1>2, <1>3, <1>5, Limits
<1> QED  BY <1>2, <1>5, <1>6, Types, SMTT(30)

(* The answers of the endpoint: what they do to the circuit. *)
LEMMA OnSuccessFacts ==
    ASSUME TypeOK, ClosedBelowThreshold, OnSuccess
    PROVE  /\ failure_count' = 0 /\ state' \in {"Closed", "Open"}
           /\ opened' \in {None, "recent", "elapsed"}
           /\ 0 < AtLeastOne(failure_threshold)
BY Limits DEF OnSuccess, TypeOK

LEMMA OnFailureFacts ==
    ASSUME TypeOK, ClosedBelowThreshold, OnFailure
    PROVE  /\ failure_count' = failure_count + 1 /\ state' \in {"Closed", "Open"}
           /\ opened' \in {None, "recent", "elapsed"}
           /\ state' = "Closed" => failure_count' < AtLeastOne(failure_threshold)
<1>1. failure_count' = failure_count + 1 /\ failure_count' \in Nat /\ failure_threshold \in Nat
  BY Types, WebhookAssumption, SMTT(30) DEF OnFailure
<1>2. CASE state = "Closed" /\ ~(failure_count' >= failure_threshold)
  BY <1>1, <1>2, Limits DEF OnFailure, TypeOK
<1>3. CASE ~(state = "Closed" /\ ~(failure_count' >= failure_threshold))
  BY <1>1, <1>3 DEF OnFailure, TypeOK
<1> QED  BY <1>2, <1>3

(* The batcher, the timer and whoever drains the queue leave the circuit   *)
(* and the requests alone.                                                 *)
LEMMA QuietStep ==
    ASSUME WebhookInv, Push \/ Elapse \/ DrainAll \/ UNCHANGED vars
    PROVE  WebhookInv'
<1>0. TypeOK /\ ClosedBelowThreshold /\ ProbeUnderWay /\ SentIsBusy
  BY DEF WebhookInv
<1>1. state' = state /\ failure_count' = failure_count /\ task' = task
  BY DEF Push, Elapse, DrainAll, vars, circuitVars
<1>2. ClosedBelowThreshold' /\ ProbeUnderWay' /\ SentIsBusy'
  BY <1>0, <1>1 DEF ClosedBelowThreshold, ProbeUnderWay, SentIsBusy, Busy
<1>3. CASE Push
  <2>1. Head(todo) \in E /\ Tail(todo) \in Seq(E)
    BY <1>0, <1>3, Types DEF Push
  <2>2. buffer' \in Seq(E) /\ Len(buffer') = Len(buffer) + 1 /\ Len(buffer) \in Nat
    BY <1>0, <1>3, <2>1, Types DEF Push
  <2>3. Len(buffer') <= max_batch_size
    BY <1>3, <2>2, WebhookAssumption DEF Push
  <2>4. TypeOK'
    BY <1>0, <1>3, <2>1, <2>2, <2>3 DEF TypeOK, Push, E, circuitVars, dlqVars, DlqLimit
  <2> QED  BY <1>2, <2>4 DEF WebhookInv
<1>4. CASE Elapse
  BY <1>0, <1>2, <1>4 DEF TypeOK, Elapse, dlqVars, WebhookInv, DlqLimit
<1>5. CASE DrainAll
  <2>1. <<>> \in Seq(E) /\ Len(<<>>) <= DlqLimit
    BY Limits
  <2>2. TypeOK'
    BY <1>0, <1>5, <2>1 DEF TypeOK, DrainAll, circuitVars, DlqLimit, E
  <2> QED  BY <1>2, <2>2 DEF WebhookInv
<1>6. CASE UNCHANGED vars
  BY <1>0, <1>2, <1>6 DEF TypeOK, vars, circuitVars, dlqVars, WebhookInv, DlqLimit
<1> QED  BY <1>3, <1>4, <1>5, <1>6

(* A task takes a batch: it had no request under way. *)
LEMMA DrainStep == ASSUME WebhookInv, NEW w \in Tasks, Drain(w) PROVE WebhookInv'
<1>0. TypeOK /\ ClosedBelowThreshold /\ ProbeUnderWay /\ SentIsBusy
  BY DEF WebhookInv
<1>1. task \in [Tasks -> Task] /\ buffer \in Seq(E)
  BY <1>0, Types
<1>2. PICK job \in Task : task' = [task EXCEPT ![w] = job] /\ job.sent = FALSE
  <2>1. [Idle EXCEPT !.batch = buffer] \in Task /\ [Idle EXCEPT !.batch = buffer].sent = FALSE
    BY <1>1, Limits, Zenon DEF Idle, Task
  <2> QED  BY <2>1, Zenon DEF Drain
<1>3. task' \in [Tasks -> Task]
  BY <1>1, <1>2
<1>4. <<>> \in Seq(E) /\ Len(<<>>) <= max_batch_size
  BY WebhookAssumption
<1>5. TypeOK'
  BY <1>0, <1>3, <1>4 DEF TypeOK, Drain, circuitVars, dlqVars, DlqLimit, E, Task, Attempts
<1>6. ~(task[w].sent /\ task[w].probe)
  BY <1>0 DEF Drain, SentIsBusy
<1>7. ProbeUnderWay'
  BY <1>0, <1>1, <1>2, <1>6 DEF ProbeUnderWay, Drain, circuitVars
<1>8. ClosedBelowThreshold'
  BY <1>0 DEF ClosedBelowThreshold, Drain, circuitVars
<1>9. SentIsBusy'
  BY <1>0, <1>1, <1>2 DEF SentIsBusy, Busy
<1> QED  BY <1>5, <1>7, <1>8, <1>9 DEF WebhookInv

(* allow_request lets a request out: the one that makes the circuit half-  *)
(* open is the probe.                                                      *)
LEMMA RequestStep == ASSUME WebhookInv, NEW w \in Tasks, Request(w) PROVE WebhookInv'
<1>0. TypeOK /\ ClosedBelowThreshold /\ ProbeUnderWay /\ SentIsBusy
  BY DEF WebhookInv
<1>1. task \in [Tasks -> Task]
  BY <1>0, Types
<1>2. PICK job \in Task : /\ task' = [task EXCEPT ![w] = job]
                          /\ job.sent = TRUE /\ job.probe = (state' = "HalfOpen")
                          /\ job.batch = task[w].batch
  <2>1. task[w] \in Task
    BY <1>1
  <2>2. [task[w] EXCEPT !.sent = TRUE, !.probe = (state' = "HalfOpen")] \in Task
    BY <2>1, Zenon DEF Task
  <2> QED  BY <1>1, <2>1, <2>2, Zenon DEF Request, Task
<1>3. task' \in [Tasks -> Task]
  BY <1>1, <1>2
<1>4. state' \in {"Closed", "HalfOpen"} /\ (state' = "Closed" => state = "Closed")
  BY DEF Request, AllowRequest, AllowedState
<1>5. TypeOK'
  BY <1>0, <1>3, <1>4 DEF TypeOK, Request, dlqVars, DlqLimit, Task, Attempts, E
<1>6. task'[w] = job
  BY <1>1, <1>2
<1>7. ProbeUnderWay'
  BY <1>2, <1>6, Zenon DEF ProbeUnderWay
<1>8. ClosedBelowThreshold'
  BY <1>0, <1>4 DEF ClosedBelowThreshold, Request
<1>9. SentIsBusy'
  BY <1>0, <1>1, <1>2 DEF SentIsBusy, Busy, Request
<1> QED  BY <1>5, <1>7, <1>8, <1>9 DEF WebhookInv

(* An answer never leaves the circuit half-open. *)
LEMMA SucceedStep == ASSUME WebhookInv, NEW w \in Tasks, Succeed(w) PROVE WebhookInv'
<1>0. TypeOK /\ ClosedBelowThreshold /\ SentIsBusy
  BY DEF WebhookInv
<1>1. /\ failure_count' = 0 /\ state' \in {"Closed", "Open"}
      /\ opened' \in {None, "recent", "elapsed"} /\ 0 < AtLeastOne(failure_threshold)
  BY <1>0, OnSuccessFacts DEF Succeed
<1>2. task' \in [Tasks -> Task]
  BY <1>0, Types, Limits DEF Succeed
<1>3. failure_count' \in 0 .. failures
  BY <1>0, <1>1, Types
<1>4. TypeOK'
  BY <1>0, <1>1, <1>2, <1>3 DEF TypeOK, Succeed, dlqVars, DlqLimit, Task, Attempts, E
<1>5. SentIsBusy'
  BY <1>0, Types DEF SentIsBusy, Busy, Succeed, Idle
<1> QED  BY <1>1, <1>4, <1>5 DEF WebhookInv, ClosedBelowThreshold, ProbeUnderWay

LEMMA FailStep == ASSUME WebhookInv, NEW w \in Tasks, Fail(w) PROVE WebhookInv'
<1>0. TypeOK /\ ClosedBelowThreshold /\ SentIsBusy
  BY DEF WebhookInv
<1>1. /\ failure_count' = failure_count + 1 /\ state' \in {"Closed", "Open"}
      /\ opened' \in {None, "recent", "elapsed"}
      /\ state' = "Closed" => failure_count' < AtLeastOne(failure_threshold)
  BY <1>0, OnFailureFacts DEF Fail
<1>2. task \in [Tasks -> Task] /\ task[w] \in Task
  BY <1>0, Types
<1>3. task' \in [Tasks -> Task]
  <2>1. CASE ShouldRetry(task[w].attempt)
    <3>1. task[w].attempt + 1 \in Attempts
      <4>1. task[w].attempt \in Attempts /\ max_attempts \in Nat
        BY <1>2, WebhookAssumption DEF Task
      <4> QED  BY <2>1, <4>1 DEF ShouldRetry, Attempts, AtLeastOne
    <3>2. [task[w] EXCEPT !.attempt = @ + 1, !.sent = FALSE, !.probe = FALSE] \in Task
      BY <1>2, <3>1, Zenon DEF Task
    <3> QED  BY <1>2, <2>1, <3>2, Zenon DEF Fail
  <2>2. CASE ~ShouldRetry(task[w].attempt)
    BY <1>2, <2>2, Limits DEF Fail
  <2> QED  BY <2>1, <2>2
<1>4. dlq' \in Seq(E) /\ Len(dlq') <= DlqLimit /\ total_entries' \in Nat
  <2>1. CASE ShouldRetry(task[w].attempt)
    BY <1>0, <2>1, Types DEF Fail, dlqVars, TypeOK
  <2>2. CASE ~ShouldRetry(task[w].attempt)
    <3>1. task[w].batch \in Seq(E) /\ PushAll(task[w].batch)
      BY <1>2, <2>2 DEF Fail, Task
    <3> QED  BY <1>0, <3>1, PushAllFacts
  <2> QED  BY <2>1, <2>2
<1>5. failures' \in 0 .. MaxFailures /\ failure_count' \in 0 .. failures'
  <2>1. failures < MaxFailures /\ failures' = failures + 1
    BY DEF Fail
  <2>2. failures \in 0 .. MaxFailures /\ failure_count \in 0 .. failures /\ MaxFailures \in Nat
    BY <1>0, WebhookAssumption DEF TypeOK
  <2>3. failure_count' = failure_count + 1
    BY DEF Fail, OnFailure
  <2> QED  BY <2>1, <2>2, <2>3
<1>6. TypeOK'
  BY <1>0, <1>1, <1>3, <1>4, <1>5, SMTT(30) DEF TypeOK, Fail, DlqLimit, Task, Attempts, E
<1>7. SentIsBusy'
  <2>1. PICK job : task' = [task EXCEPT ![w] = job] /\ job.sent = FALSE
    <3>1. CASE ShouldRetry(task[w].attempt)
      <4>1. [task[w] EXCEPT !.attempt = @ + 1, !.sent = FALSE, !.probe = FALSE].sent = FALSE
        BY <1>2 DEF Task
      <4> QED  BY <1>2, <3>1, <4>1, Zenon DEF Fail
    <3>2. CASE ~ShouldRetry(task[w].attempt)
      BY <3>2, Zenon DEF Fail, Idle
    <3> QED  BY <3>1, <3>2, Zenon
  <2> QED  BY <1>0, <1>2, <2>1 DEF SentIsBusy, Busy
<1> QED  BY <1>1, <1>6, <1>7 DEF WebhookInv, ClosedBelowThreshold, ProbeUnderWay

(* Every step keeps the invariant, and it holds from the start. *)
LEMMA WebhookStep == WebhookInv /\ [Next]_vars => WebhookInv'
<1> SUFFICES ASSUME WebhookInv, [Next]_vars PROVE WebhookInv'
  OBVIOUS
<1>1. CASE Push \/ Elapse \/ DrainAll \/ UNCHANGED vars
  BY <1>1, QuietStep
<1>2. ASSUME NEW w \in Tasks, Drain(w) \/ Request(w) \/ Refused(w) \/ Succeed(w) \/ Fail(w)
      PROVE  WebhookInv'
  BY <1>2, QuietStep, DrainStep, RequestStep, SucceedStep, FailStep DEF Refused
<1>3. CASE Done
  BY <1>3, QuietStep DEF Done
<1> QED  BY <1>1, <1>2, <1>3 DEF Next

LEMMA WebhookStart == Init => WebhookInv
<1> SUFFICES ASSUME Init PROVE WebhookInv
  OBVIOUS
<1>1. Events \in Seq(E) /\ <<>> \in Seq(E)
  BY WebhookAssumption DEF E, Range
<1>2. task \in [Tasks -> Task] /\ \A w \in Tasks : task[w] = Idle
  BY Limits DEF Init
<1>3. Len(<<>>) <= max_batch_size /\ Len(<<>>) <= DlqLimit /\ 0 \in 0 .. MaxFailures
  BY WebhookAssumption, Limits
<1>4. TypeOK
  BY <1>1, <1>2, <1>3 DEF Init, TypeOK, E, Task, Attempts
<1>5. ClosedBelowThreshold
  BY Limits DEF Init, ClosedBelowThreshold
<1> QED  BY <1>2, <1>4, <1>5 DEF Init, WebhookInv, ProbeUnderWay, SentIsBusy, Idle

-----------------------------------------------------------------------------
(* Where the events are *)

Distinct(s) == \A i, j \in DOMAIN s : s[i] = s[j] => i = j

(* A sequence of events without repetition, part by part. *)
LEMMA TailEvents ==
    ASSUME NEW s \in Seq(E), s # <<>>, Distinct(s)
    PROVE  /\ Distinct(Tail(s)) /\ Head(s) \in Range(s)
           /\ Range(Tail(s)) = Range(s) \ {Head(s)}
<1>1. /\ Len(s) \in Nat \ {0} /\ DOMAIN s = 1 .. Len(s) /\ Head(s) = s[1]
      /\ DOMAIN Tail(s) = 1 .. Len(s) - 1
      /\ \A i \in 1 .. Len(s) - 1 : Tail(s)[i] = s[i + 1]
  BY EmptySeq, HeadTailProperties
<1>2. ASSUME NEW e, e \in Range(s), e # Head(s) PROVE e \in Range(Tail(s))
  <2>1. PICK i \in DOMAIN s : s[i] = e
    BY <1>2 DEF Range
  <2>2. i - 1 \in 1 .. Len(s) - 1 /\ (i - 1) + 1 = i
    BY <1>1, <1>2, <2>1
  <2>3. Tail(s)[i - 1] = e
    BY <1>1, <2>1, <2>2
  <2> QED  BY <1>1, <2>2, <2>3 DEF Range
<1>3. ASSUME NEW e, e \in Range(Tail(s)) PROVE e \in Range(s) /\ e # Head(s)
  <2>1. PICK i \in 1 .. Len(s) - 1 : Tail(s)[i] = e
    BY <1>1, <1>3 DEF Range
  <2>2. i + 1 \in DOMAIN s /\ s[i + 1] = e /\ 1 \in DOMAIN s /\ i + 1 # 1
    BY <1>1, <2>1
  <2> QED  BY <1>1, <2>2 DEF Range, Distinct
<1>4. Distinct(Tail(s))
  <2> SUFFICES ASSUME NEW i \in 1 .. Len(s) - 1, NEW j \in 1 .. Len(s) - 1,
                      Tail(s)[i] = Tail(s)[j]
               PROVE  i = j
    BY <1>1 DEF Distinct
  <2>1. i + 1 \in DOMAIN s /\ j + 1 \in DOMAIN s /\ s[i + 1] = s[j + 1]
    BY <1>1
  <2>2. i + 1 = j + 1
    BY <2>1 DEF Distinct
  <2> QED  BY <2>2
<1>5. 1 \in DOMAIN s
  BY <1>1
<1> QED  BY <1>1, <1>2, <1>3, <1>4, <1>5 DEF Range

LEMMA JoinedEvents ==
    ASSUME NEW s \in Seq(E), NEW t \in Seq(E), Distinct(s), Distinct(t),
           Range(s) \cap Range(t) = {}
    PROVE  Distinct(s \o t) /\ Range(s \o t) = Range(s) \cup Range(t)
<1> DEFINE u == s \o t
           m == Len(s)
           n == Len(t)
<1>1. /\ m \in Nat /\ n \in Nat /\ DOMAIN s = 1 .. m /\ DOMAIN t = 1 .. n
      /\ DOMAIN u = 1 .. m + n
      /\ \A i \in 1 .. m : u[i] = s[i]
      /\ \A i \in 1 .. n : u[m + i] = t[i]
  OBVIOUS
<1> HIDE DEF u, m, n
<1>2. \A i \in 1 .. m : i \in 1 .. m + n
  BY <1>1
<1>3. \A i \in 1 .. n : m + i \in 1 .. m + n
  BY <1>1
<1>4. ASSUME NEW i \in 1 .. m + n
      PROVE  \/ i \in 1 .. m
             \/ i - m \in 1 .. n /\ m + (i - m) = i
  BY <1>1
<1>5. \A i \in 1 .. m + n : u[i] \in Range(s) \cup Range(t)
  BY <1>1, <1>4, ZenonT(60) DEF Range
<1>6. Range(u) = Range(s) \cup Range(t)
  <2>1. Range(u) \subseteq Range(s) \cup Range(t)
    BY <1>1, <1>5, Zenon DEF Range
  <2>2. Range(s) \subseteq Range(u)
    BY <1>1, <1>2 DEF Range
  <2>3. Range(t) \subseteq Range(u)
    BY <1>1, <1>3, Zenon DEF Range
  <2> QED  BY <2>1, <2>2, <2>3
<1>7. ASSUME NEW i \in 1 .. m + n, NEW j \in 1 .. m + n, u[i] = u[j] PROVE i = j
  <2>1. CASE i \in 1 .. m /\ j \in 1 .. m
    BY <1>1, <1>7, <2>1 DEF Distinct
  <2>2. CASE i - m \in 1 .. n /\ m + (i - m) = i /\ j - m \in 1 .. n /\ m + (j - m) = j
    <3>1. t[i - m] = t[j - m]
      BY <1>1, <1>7, <2>2
    <3>2. i - m = j - m
      BY <1>1, <2>2, <3>1, Zenon DEF Distinct
    <3> QED  BY <1>1, <3>2
  <2>3. CASE i \in 1 .. m /\ j - m \in 1 .. n /\ m + (j - m) = j
    BY <1>1, <1>7, <2>3, ZenonT(60) DEF Range
  <2>4. CASE j \in 1 .. m /\ i - m \in 1 .. n /\ m + (i - m) = i
    BY <1>1, <1>7, <2>4, ZenonT(60) DEF Range
  <2> QED  BY <1>4, <2>1, <2>2, <2>3, <2>4
<1> QED  BY <1>1, <1>6, <1>7 DEF Distinct, u

LEMMA SplitEvents ==
    ASSUME NEW s \in Seq(E), Distinct(s), NEW k \in 0 .. Len(s)
    PROVE  LET old == SubSeq(s, 1, k)
               new == SubSeq(s, k + 1, Len(s))
           IN  /\ old \in Seq(E) /\ Len(old) = k /\ Distinct(old)
               /\ new \in Seq(E) /\ Len(new) = Len(s) - k /\ Distinct(new)
               /\ Range(old) \cup Range(new) = Range(s) /\ Range(old) \cap Range(new) = {}
<1> DEFINE old == SubSeq(s, 1, k)
           new == SubSeq(s, k + 1, Len(s))
           n == Len(s)
<1>1. /\ n \in Nat /\ k \in Nat /\ k <= n /\ DOMAIN s = 1 .. n /\ n - k \in Nat
      /\ old \in Seq(E) /\ Len(old) = k /\ DOMAIN old = 1 .. k
      /\ new \in Seq(E) /\ Len(new) = n - k /\ DOMAIN new = 1 .. n - k
      /\ \A i \in 1 .. k : old[i] = s[i]
      /\ \A i \in 1 .. n - k : new[i] = s[k + i]
  OBVIOUS
<1> HIDE DEF old, new, n
<1>2. \A i \in 1 .. k : i \in DOMAIN s
  BY <1>1
<1>3. \A i \in 1 .. n - k : k + i \in DOMAIN s
  BY <1>1
<1>4. ASSUME NEW i \in DOMAIN s PROVE i \in 1 .. k \/ (i - k \in 1 .. n - k /\ k + (i - k) = i)
  BY <1>1
<1>5. Distinct(old)
  BY <1>1, <1>2 DEF Distinct
<1>6. Distinct(new)
  <2> SUFFICES ASSUME NEW i \in 1 .. n - k, NEW j \in 1 .. n - k, new[i] = new[j] PROVE i = j
    BY <1>1 DEF Distinct
  <2>1. s[k + i] = s[k + j] /\ k + i \in DOMAIN s /\ k + j \in DOMAIN s
    BY <1>1, <1>3
  <2>2. k + i = k + j
    BY <2>1, Zenon DEF Distinct
  <2> QED  BY <1>1, <2>2
<1>7. \A i \in 1 .. k : \A j \in 1 .. n - k : i # k + j
  BY <1>1
<1>8. Range(old) \cap Range(new) = {}
  <2> SUFFICES ASSUME NEW e, e \in Range(old), e \in Range(new) PROVE FALSE
    OBVIOUS
  <2>1. PICK i \in DOMAIN old : old[i] = e
    BY DEF Range
  <2>2. PICK j \in DOMAIN new : new[j] = e
    BY DEF Range
  <2>3. i \in 1 .. k /\ j \in 1 .. n - k
    BY <1>1
  <2>4. i \in DOMAIN s /\ k + j \in DOMAIN s /\ i # k + j
    BY <1>2, <1>3, <1>7, <2>3
  <2>5. s[i] = e /\ s[k + j] = e
    BY <1>1, <2>1, <2>2, <2>3
  <2> QED  BY <2>4, <2>5 DEF Distinct
<1>9. Range(old) \cup Range(new) = Range(s)
  <2>1. \A i \in 1 .. k : old[i] \in Range(s)
    BY <1>1, <1>2, Zenon DEF Range
  <2>2. \A i \in 1 .. n - k : new[i] \in Range(s)
    BY <1>1, <1>3, Zenon DEF Range
  <2>3. ASSUME NEW i \in DOMAIN s PROVE s[i] \in Range(old) \cup Range(new)
    <3>1. CASE i \in 1 .. k
      BY <1>1, <3>1, Zenon DEF Range
    <3>2. CASE i - k \in 1 .. n - k /\ k + (i - k) = i
      <4>1. new[i - k] = s[i]
        BY <1>1, <3>2
      <4> QED  BY <1>1, <3>2, <4>1, Zenon DEF Range
    <3> QED  BY <1>4, <3>1, <3>2
  <2>4. Range(old) \subseteq Range(s) /\ Range(new) \subseteq Range(s)
    <3>1. DOMAIN old = 1 .. k /\ DOMAIN new = 1 .. n - k
      BY <1>1
    <3>2. \A i \in DOMAIN old : old[i] \in Range(s)
      BY <2>1, <3>1
    <3>3. \A i \in DOMAIN new : new[i] \in Range(s)
      BY <2>2, <3>1
    <3> QED  BY <3>2, <3>3 DEF Range
  <2>5. Range(s) \subseteq Range(old) \cup Range(new)
    BY <2>3 DEF Range
  <2> QED  BY <2>4, <2>5
<1> QED  BY <1>1, <1>5, <1>6, <1>8, <1>9, Zenon DEF old, new, n

(* There are as many as the sequence is long. *)
LEMMA CountEvents ==
    ASSUME NEW s \in Seq(E), Distinct(s)
    PROVE  IsFiniteSet(Range(s)) /\ Cardinality(Range(s)) = Len(s)
<1>1. Len(s) \in Nat /\ DOMAIN s = 1 .. Len(s)
  OBVIOUS
<1>2. s \in Bijection(1 .. Len(s), Range(s))
  BY <1>1 DEF Distinct, Range, Bijection, Injection, Surjection, IsInjective
<1>3. ExistsBijection(1 .. Len(s), Range(s))
  BY <1>2 DEF ExistsBijection
<1> QED  BY <1>1, <1>3, FS_NatBijection, FS_CountingElements

InTasks == UNION {Range(task[w].batch) : w \in Tasks}

Partition(T, B, J, Q, K, V, D) ==
    /\ T \cup B \cup J \cup Q \cup K \cup V \cup D = E
    /\ T \cap (B \cup J \cup Q \cup K \cup V \cup D) = {}
    /\ B \cap (J \cup Q \cup K \cup V \cup D) = {}
    /\ J \cap (Q \cup K \cup V \cup D) = {}
    /\ Q \cap (K \cup V \cup D) = {}
    /\ K \cap (V \cup D) = {}
    /\ V \cap D = {}

Batches ==
    /\ \A w \in Tasks : Distinct(task[w].batch)
    /\ \A w, u \in Tasks : w # u => Range(task[w].batch) \cap Range(task[u].batch) = {}

Counted ==
    /\ IsFiniteSet(evicted) /\ IsFiniteSet(drained)
    /\ total_entries = Len(dlq) + Cardinality(evicted) + Cardinality(drained)

(* The events are shared out among the places, each sequence holds an      *)
(* event once, and no two tasks have the same.                             *)
PlaceInv ==
    /\ WebhookInv
    /\ Distinct(todo) /\ Distinct(buffer) /\ Distinct(dlq) /\ Batches
    /\ Partition(Range(todo), Range(buffer), InTasks, Range(dlq), taken, evicted, drained)
    /\ Counted

(* A task that takes, keeps or lays down a batch. *)
LEMMA TaskGiven ==
    ASSUME WebhookInv, Batches, NEW w \in Tasks, NEW job \in Task,
           task' = [task EXCEPT ![w] = job], Distinct(job.batch),
           Range(job.batch) \cap (InTasks \ Range(task[w].batch)) = {}
    PROVE  /\ Batches'
           /\ InTasks' = (InTasks \ Range(task[w].batch)) \cup Range(job.batch)
<1>1. task \in [Tasks -> Task]
  BY Types DEF WebhookInv
<1>2. task'[w] = job /\ \A u \in Tasks : u # w => task'[u] = task[u]
  BY <1>1
<1>3. \A u \in Tasks : u # w => Range(task[u].batch) \subseteq InTasks \ Range(task[w].batch)
  BY DEF InTasks, Batches
<1>4. Batches'
  <2>1. \A u \in Tasks : Distinct(task'[u].batch)
    BY <1>2 DEF Batches
  <2>2. \A u \in Tasks : u # w => Range(task'[u].batch) \cap Range(job.batch) = {}
    BY <1>2, <1>3
  <2>3. \A t, u \in Tasks : t # u => Range(task'[t].batch) \cap Range(task'[u].batch) = {}
    BY <1>2, <2>2 DEF Batches
  <2> QED  BY <2>1, <2>3 DEF Batches
<1>5. ASSUME NEW e
      PROVE  e \in InTasks' <=> e \in (InTasks \ Range(task[w].batch)) \cup Range(job.batch)
  <2>1. e \in InTasks' <=> \E u \in Tasks : e \in Range(task'[u].batch)
    BY DEF InTasks
  <2>2. e \in InTasks <=> \E u \in Tasks : e \in Range(task[u].batch)
    BY DEF InTasks
  <2>3. (\E u \in Tasks : e \in Range(task'[u].batch))
        <=> e \in Range(job.batch) \/ \E u \in Tasks : u # w /\ e \in Range(task[u].batch)
    BY <1>2
  <2>4. (\E u \in Tasks : u # w /\ e \in Range(task[u].batch))
        <=> e \in InTasks \ Range(task[w].batch)
    BY <1>3, <2>2
  <2> QED  BY <2>1, <2>3, <2>4
<1> QED  BY <1>4, <1>5

(* What the parts of the invariant say of the sequences. *)
LEMMA PlaceTypes ==
    ASSUME PlaceInv
    PROVE  /\ TypeOK /\ todo \in Seq(E) /\ buffer \in Seq(E) /\ dlq \in Seq(E)
           /\ task \in [Tasks -> Task] /\ Range(<<>>) = {} /\ Distinct(<<>>) /\ <<>> \in Seq(E)
           /\ \A w \in Tasks : task[w].batch \in Seq(E) /\ Range(task[w].batch) \subseteq InTasks
<1>1. /\ TypeOK /\ todo \in Seq(E) /\ buffer \in Seq(E) /\ dlq \in Seq(E)
      /\ task \in [Tasks -> Task]
  BY Types DEF PlaceInv, WebhookInv
<1>2. Range(<<>>) = {} /\ Distinct(<<>>) /\ <<>> \in Seq(E)
  BY DEF Range, Distinct
<1>3. \A w \in Tasks : task[w].batch \in Seq(E)
  BY <1>1 DEF Task
<1>4. \A w \in Tasks : Range(task[w].batch) \subseteq InTasks
  BY DEF InTasks
<1> QED  BY <1>1, <1>2, <1>3, <1>4

(* push moves the next event into the buffer. *)
LEMMA PushPlaces == ASSUME PlaceInv, WebhookInv', Push PROVE PlaceInv'
<1> DEFINE h == Head(todo)
<1>1. /\ buffer' = Append(buffer, h) /\ todo' = Tail(todo) /\ todo # <<>>
      /\ UNCHANGED <<task, dlq, total_entries, evicted, drained, taken>>
  BY DEF Push, dlqVars
<1>2. /\ Distinct(todo') /\ h \in Range(todo) /\ Range(todo') = Range(todo) \ {h} /\ h \in E
  BY <1>1, PlaceTypes, TailEvents DEF PlaceInv
<1> HIDE DEF h
<1>3. h \notin Range(buffer)
  BY <1>2 DEF PlaceInv, Partition
<1>4. /\ Append(buffer, h) = buffer \o <<h>> /\ <<h>> \in Seq(E)
      /\ Range(<<h>>) = {h} /\ Distinct(<<h>>)
  BY <1>2, PlaceTypes DEF Range, Distinct
<1>5. Distinct(buffer') /\ Range(buffer') = Range(buffer) \cup {h}
  <2>1. buffer \in Seq(E) /\ Distinct(buffer) /\ Range(buffer) \cap Range(<<h>>) = {}
    BY <1>3, <1>4, PlaceTypes DEF PlaceInv
  <2> QED  BY <1>1, <1>4, <2>1, JoinedEvents, ZenonT(60)
<1>6. InTasks' = InTasks /\ Batches' /\ Counted' /\ Distinct(dlq)'
  BY <1>1, Zenon DEF InTasks, Batches, Counted, PlaceInv
<1>7. Partition(Range(todo'), Range(buffer'), InTasks, Range(dlq), taken, evicted, drained)
  BY <1>2, <1>5 DEF PlaceInv, Partition
<1> QED  BY <1>1, <1>2, <1>5, <1>6, <1>7 DEF PlaceInv

(* A task takes the whole buffer. *)
LEMMA DrainPlaces ==
    ASSUME PlaceInv, WebhookInv', NEW w \in Tasks, Drain(w) PROVE PlaceInv'
<1> DEFINE job == [Idle EXCEPT !.batch = buffer]
<1>1. /\ task' = [task EXCEPT ![w] = job] /\ buffer' = <<>> /\ task[w].batch = <<>>
      /\ UNCHANGED <<todo, dlq, total_entries, evicted, drained, taken>>
  BY DEF Drain, Busy, dlqVars
<1>2. job \in Task /\ job.batch = buffer
  BY PlaceTypes, Limits, Zenon DEF Idle, Task
<1> HIDE DEF job
<1>3. Range(buffer) \cap InTasks = {}
  BY DEF PlaceInv, Partition
<1>4. Batches' /\ InTasks' = InTasks \cup Range(buffer)
  <2>1. Range(job.batch) \cap (InTasks \ Range(task[w].batch)) = {}
    BY <1>2, <1>3
  <2>2. InTasks \ Range(task[w].batch) = InTasks
    BY <1>1, PlaceTypes
  <2> QED  BY <1>1, <1>2, <2>1, <2>2, TaskGiven, Zenon DEF PlaceInv
<1>5. Partition(Range(todo), {}, InTasks', Range(dlq), taken, evicted, drained)
  BY <1>4 DEF PlaceInv, Partition
<1>6. Distinct(todo)' /\ Distinct(dlq)' /\ Counted'
  BY <1>1 DEF PlaceInv, Counted
<1> QED  BY <1>1, <1>4, <1>5, <1>6, PlaceTypes, Zenon DEF PlaceInv

(* A batch that is acknowledged leaves its task. *)
LEMMA SucceedPlaces ==
    ASSUME PlaceInv, WebhookInv', NEW w \in Tasks, Succeed(w) PROVE PlaceInv'
<1> DEFINE batch == task[w].batch
<1>1. /\ task' = [task EXCEPT ![w] = Idle] /\ taken' = taken \cup Range(batch)
      /\ UNCHANGED <<todo, buffer, dlq, total_entries, evicted, drained>>
  BY DEF Succeed, dlqVars
<1>2. Batches' /\ InTasks' = InTasks \ Range(batch)
  <2>1. Idle \in Task /\ Idle.batch = <<>>
    BY Limits DEF Idle
  <2>2. Range(Idle.batch) = {} /\ Distinct(Idle.batch)
    BY <2>1, PlaceTypes
  <2> QED  BY <1>1, <2>1, <2>2, TaskGiven, Zenon DEF PlaceInv
<1>3. Range(batch) \subseteq InTasks
  BY PlaceTypes
<1> HIDE DEF batch
<1>4. Partition(Range(todo), Range(buffer), InTasks', Range(dlq), taken', evicted, drained)
  BY <1>1, <1>2, <1>3 DEF PlaceInv, Partition
<1>5. Distinct(todo)' /\ Distinct(buffer)' /\ Distinct(dlq)' /\ Counted'
  BY <1>1 DEF PlaceInv, Counted
<1> QED  BY <1>1, <1>2, <1>4, <1>5 DEF PlaceInv

(* push adds a batch to the dead letter queue and evicts the oldest.       *)
LEMMA PushAllPlaces ==
    ASSUME PlaceInv, NEW batch \in Seq(E), Distinct(batch), Range(batch) \subseteq InTasks,
           PushAll(batch)
    PROVE  /\ Distinct(dlq)' /\ Counted' /\ drained' = drained
           /\ \E old : /\ evicted' = evicted \cup old /\ Range(dlq') \cap old = {}
                       /\ Range(dlq') \cup old = Range(dlq) \cup Range(batch)
<1> DEFINE all == dlq \o batch
           n == Len(all)
           out == IF n > DlqLimit THEN n - DlqLimit ELSE 0
           old == SubSeq(all, 1, out)
           new == SubSeq(all, out + 1, n)
<1>1. /\ dlq' = new /\ evicted' = evicted \cup Range(old)
      /\ total_entries' = total_entries + Len(batch) /\ drained' = drained
  BY DEF PushAll
<1>2. dlq \in Seq(E) /\ Distinct(dlq) /\ Range(dlq) \cap Range(batch) = {}
  BY PlaceTypes DEF PlaceInv, Partition
<1>3. Distinct(all) /\ Range(all) = Range(dlq) \cup Range(batch)
  BY <1>2, JoinedEvents
<1>4. /\ all \in Seq(E) /\ n = Len(dlq) + Len(batch)
      /\ n \in Nat /\ Len(dlq) \in Nat /\ Len(batch) \in Nat
  BY <1>2
<1>5. out \in 0 .. n
  BY <1>4, Limits
<1>6. /\ old \in Seq(E) /\ Len(old) = out /\ Distinct(old)
      /\ Len(new) = n - out /\ Distinct(new)
      /\ Range(old) \cup Range(new) = Range(all) /\ Range(old) \cap Range(new) = {}
  <2> HIDE DEF all, out
  <2> QED  BY <1>3, <1>4, <1>5, SplitEvents, Zenon
<1> HIDE DEF all, n, out, old, new
<1>7. evicted \cap Range(old) = {}
  BY <1>3, <1>6 DEF PlaceInv, Partition
<1>8. IsFiniteSet(Range(old)) /\ Cardinality(Range(old)) = out
  BY <1>6, CountEvents
<1>9. /\ IsFiniteSet(evicted) /\ IsFiniteSet(drained)
      /\ total_entries = Len(dlq) + Cardinality(evicted) + Cardinality(drained)
  BY DEF PlaceInv, Counted
<1>10. /\ IsFiniteSet(evicted') /\ Cardinality(evicted') = Cardinality(evicted) + out
       /\ Cardinality(evicted) \in Nat /\ Cardinality(drained) \in Nat
  <2>1. Cardinality(evicted \cap Range(old)) = 0
    BY <1>7, FS_EmptySet
  <2>2. Cardinality(evicted) \in Nat /\ Cardinality(drained) \in Nat
    BY <1>9, FS_CardinalityType
  <2>3. /\ IsFiniteSet(evicted')
        /\ Cardinality(evicted') = Cardinality(evicted) + out - Cardinality(evicted \cap Range(old))
    BY <1>1, <1>8, <1>9, FS_Union, SMTT(30)
  <2> QED  BY <1>4, <1>5, <2>1, <2>2, <2>3
<1>11. total_entries' = Len(dlq') + Cardinality(evicted') + Cardinality(drained')
  BY <1>1, <1>4, <1>5, <1>6, <1>9, <1>10, SMTT(30)
<1>12. Counted'
  BY <1>1, <1>9, <1>10, <1>11 DEF Counted
<1> QED  BY <1>1, <1>3, <1>6, <1>12, Zenon

(* A batch that failed stays with its task or goes to the queue. *)
LEMMA FailPlaces ==
    ASSUME PlaceInv, WebhookInv', NEW w \in Tasks, Fail(w) PROVE PlaceInv'
<1> DEFINE batch == task[w].batch
<1>1. UNCHANGED <<todo, buffer, taken>> /\ Distinct(todo)' /\ Distinct(buffer)'
  BY DEF Fail, PlaceInv
<1>2. batch \in Seq(E) /\ Range(batch) \subseteq InTasks /\ Distinct(batch) /\ task[w] \in Task
  BY PlaceTypes DEF PlaceInv, Batches
<1>3. CASE ShouldRetry(task[w].attempt)
  <2> DEFINE job == [task[w] EXCEPT !.attempt = @ + 1, !.sent = FALSE, !.probe = FALSE]
  <2>1. task' = [task EXCEPT ![w] = job] /\ UNCHANGED dlqVars
    BY <1>2, <1>3, PlaceTypes, Zenon DEF Fail
  <2>2. job.batch = batch
    BY <1>2 DEF Task
  <2>3. task' \in [Tasks -> Task] /\ task'[w] = job
    <3> HIDE DEF job
    <3>1. task' \in [Tasks -> Task]
      BY Types DEF WebhookInv, TypeOK, Task, Attempts, E
    <3> QED  BY <2>1, <3>1, PlaceTypes
  <2> HIDE DEF job, batch
  <2>4. job \in Task
    BY <2>3
  <2>5. Batches' /\ InTasks' = (InTasks \ Range(batch)) \cup Range(batch)
    <3>1. Range(job.batch) \cap (InTasks \ Range(task[w].batch)) = {}
      BY <2>2 DEF batch
    <3> QED  BY <1>2, <2>1, <2>2, <2>4, <3>1, TaskGiven, Zenon DEF PlaceInv, batch
  <2>6. InTasks' = InTasks
    BY <1>2, <2>5
  <2> QED  BY <1>1, <2>1, <2>5, <2>6, Zenon DEF PlaceInv, dlqVars, Counted
<1>4. CASE ~ShouldRetry(task[w].attempt)
  <2>1. task' = [task EXCEPT ![w] = Idle] /\ PushAll(batch)
    BY <1>4, SMTT(30) DEF Fail
  <2>2. Batches' /\ InTasks' = InTasks \ Range(batch)
    <3>1. Idle \in Task /\ Idle.batch = <<>>
      BY Limits DEF Idle
    <3>2. Range(Idle.batch) = {} /\ Distinct(Idle.batch)
      BY <3>1, PlaceTypes
    <3> QED  BY <2>1, <3>1, <3>2, TaskGiven, Zenon DEF PlaceInv
  <2> HIDE DEF batch
  <2>3. Distinct(dlq)' /\ Counted' /\ drained' = drained
    BY <1>2, <2>1, PushAllPlaces
  <2>4. PICK old : /\ evicted' = evicted \cup old /\ Range(dlq') \cap old = {}
                   /\ Range(dlq') \cup old = Range(dlq) \cup Range(batch)
    BY <1>2, <2>1, PushAllPlaces, SMTT(30)
  <2>5. Partition(Range(todo), Range(buffer), InTasks', Range(dlq'), taken, evicted', drained)
    BY <1>2, <2>2, <2>4 DEF PlaceInv, Partition
  <2> QED  BY <1>1, <2>2, <2>3, <2>5 DEF PlaceInv
<1> QED  BY <1>3, <1>4

(* drain_all empties the queue. *)
LEMMA DrainAllPlaces == ASSUME PlaceInv, WebhookInv', DrainAll PROVE PlaceInv'
<1>1. /\ drained' = drained \cup Range(dlq) /\ dlq' = <<>>
      /\ UNCHANGED <<todo, buffer, task, total_entries, evicted, taken>>
  BY DEF DrainAll
<1>2. dlq \in Seq(E) /\ Distinct(dlq) /\ drained \cap Range(dlq) = {}
  BY PlaceTypes DEF PlaceInv, Partition
<1>3. IsFiniteSet(Range(dlq)) /\ Cardinality(Range(dlq)) = Len(dlq) /\ Len(dlq) \in Nat
  BY <1>2, CountEvents
<1>4. /\ IsFiniteSet(evicted) /\ IsFiniteSet(drained)
      /\ total_entries = Len(dlq) + Cardinality(evicted) + Cardinality(drained)
  BY DEF PlaceInv, Counted
<1>5. Cardinality(evicted) \in Nat /\ Cardinality(drained) \in Nat
  BY <1>4, FS_CardinalityType
<1>6. IsFiniteSet(drained') /\ Cardinality(drained') = Cardinality(drained) + Len(dlq)
  <2>1. Cardinality(drained \cap Range(dlq)) = 0
    BY <1>2, FS_EmptySet, ZenonT(60)
  <2>2. /\ IsFiniteSet(drained')
        /\ Cardinality(drained')
             = Cardinality(drained) + Len(dlq) - Cardinality(drained \cap Range(dlq))
    BY <1>1, <1>3, <1>4, FS_Union
  <2> QED  BY <1>3, <1>5, <2>1, <2>2
<1>7. Len(dlq') = 0
  BY <1>1
<1>8. Counted'
  BY <1>1, <1>3, <1>4, <1>5, <1>6, <1>7 DEF Counted
<1>9. Partition(Range(todo), Range(buffer), InTasks, {}, taken, evicted, drained')
  BY <1>1 DEF PlaceInv, Partition
<1>10. InTasks' = InTasks /\ Batches' /\ Distinct(todo)' /\ Distinct(buffer)'
  BY <1>1 DEF InTasks, Batches, PlaceInv
<1> QED  BY <1>1, <1>8, <1>9, <1>10, PlaceTypes, Zenon DEF PlaceInv

(* A request and the timer move no event. *)
LEMMA QuietPlaces ==
    ASSUME PlaceInv, WebhookInv', UNCHANGED <<todo, buffer, dlqVars, taken>>,
           \A w \in Tasks : task'[w].batch = task[w].batch
    PROVE  PlaceInv'
<1>1. Batches' /\ InTasks' = InTasks
  BY DEF PlaceInv, Batches, InTasks
<1> QED  BY <1>1, SMTT(30) DEF PlaceInv, Counted, dlqVars

LEMMA PlaceStep == ASSUME PlaceInv, [Next]_vars PROVE PlaceInv'
<1>1. WebhookInv'
  BY WebhookStep DEF PlaceInv
<1>2. CASE Push
  BY <1>1, <1>2, PushPlaces
<1>3. CASE DrainAll
  BY <1>1, <1>3, DrainAllPlaces
<1>4. CASE Elapse \/ UNCHANGED vars
  BY <1>1, <1>4, QuietPlaces DEF Elapse, vars
<1>5. ASSUME NEW w \in Tasks, Request(w) PROVE PlaceInv'
  <2>1. \A u \in Tasks : task'[u].batch = task[u].batch
    BY <1>5, PlaceTypes DEF Request, Task
  <2> QED  BY <1>1, <1>5, <2>1, QuietPlaces, Zenon DEF Request
<1>6. ASSUME NEW w \in Tasks, Drain(w) \/ Succeed(w) \/ Fail(w) PROVE PlaceInv'
  BY <1>1, <1>6, DrainPlaces, SucceedPlaces, FailPlaces
<1> QED  BY <1>2, <1>3, <1>4, <1>5, <1>6 DEF Next, Refused, Done

LEMMA PlaceStart == ASSUME Init PROVE PlaceInv
<1>1. WebhookInv
  BY WebhookStart
<1>2. Range(<<>>) = {} /\ Distinct(<<>>) /\ Len(<<>>) = 0
  BY DEF Range, Distinct
<1>3. Distinct(todo) /\ Range(todo) = E
  BY WebhookAssumption DEF Init, Distinct, E
<1>4. \A w \in Tasks : task[w].batch = <<>>
  BY DEF Init, Idle
<1>5. Batches /\ InTasks = {}
  BY <1>2, <1>4 DEF Batches, InTasks
<1>6. Counted
  BY <1>2, FS_EmptySet DEF Init, Counted
<1>7. Partition(E, {}, {}, {}, {}, {}, {})
  BY DEF Partition
<1> QED  BY <1>1, <1>2, <1>3, <1>5, <1>6, <1>7, Zenon DEF Init, PlaceInv

(* The places of an event within one sequence. *)
At(name, s, e) == {<<name, i>> : i \in {i \in DOMAIN s : s[i] = e}}

LEMMA AtPlaces ==
    ASSUME NEW name, NEW s, NEW e
    PROVE  /\ e \notin Range(s) => At(name, s, e) = {}
           /\ Distinct(s) /\ e \in Range(s) => \E x : At(name, s, e) = {x}
<1>1. CASE e \notin Range(s)
  BY <1>1 DEF Range, At
<1>2. CASE Distinct(s) /\ e \in Range(s)
  <2>1. PICK i \in DOMAIN s : s[i] = e
    BY <1>2 DEF Range
  <2>2. {j \in DOMAIN s : s[j] = e} = {i}
    BY <1>2, <2>1 DEF Distinct
  <2>3. At(name, s, e) = {<<name, i>>}
    BY <2>2 DEF At
  <2> QED  BY <1>2, <2>3, Zenon
<1> QED  BY <1>1, <1>2

(* An event of one part of the partition has one place. *)
LEMMA OnePlace == ASSUME PlaceInv, NEW e \in E PROVE \E x : Places(e) = {x}
<1> DEFINE in(name, set) == IF e \in set THEN {<<name, 0>>} ELSE {}
           T == At(<<"todo">>, todo, e)
           B == At(<<"buffer">>, buffer, e)
           Q == At(<<"dlq">>, dlq, e)
           J == UNION {At(<<"task", w>>, task[w].batch, e) : w \in Jobs}
           K == in(<<"taken">>, taken)
           V == in(<<"evicted">>, evicted)
           D == in(<<"drained">>, drained)
<1>1. Places(e) = T \cup B \cup Q \cup J \cup K \cup V \cup D
  BY DEF Places, At
<1>2. /\ e \notin Range(todo) => T = {}
      /\ e \notin Range(buffer) => B = {}
      /\ e \notin Range(dlq) => Q = {}
      /\ e \in Range(todo) => \E x : T = {x}
      /\ e \in Range(buffer) => \E x : B = {x}
      /\ e \in Range(dlq) => \E x : Q = {x}
  BY AtPlaces, Zenon DEF PlaceInv
<1>3. /\ e \notin taken => K = {}
      /\ e \notin evicted => V = {}
      /\ e \notin drained => D = {}
      /\ e \in taken => \E x : K = {x}
      /\ e \in evicted => \E x : V = {x}
      /\ e \in drained => \E x : D = {x}
  BY Zenon
<1>4. e \notin InTasks => J = {}
  <2> SUFFICES ASSUME e \notin InTasks, NEW w \in Jobs
               PROVE  At(<<"task", w>>, task[w].batch, e) = {}
    BY Zenon
  <2>1. e \notin Range(task[w].batch)
    BY DEF InTasks, Jobs
  <2> QED  BY <2>1, AtPlaces
<1>5. e \in InTasks => \E x : J = {x}
  <2> SUFFICES ASSUME e \in InTasks PROVE \E x : J = {x}
    BY Zenon
  <2>1. PICK w \in Tasks : e \in Range(task[w].batch)
    BY DEF InTasks
  <2>2. w \in Jobs
    BY <2>1, PlaceTypes DEF Jobs, Busy
  <2>3. ASSUME NEW u \in Jobs, u # w PROVE At(<<"task", u>>, task[u].batch, e) = {}
    <3>1. e \notin Range(task[u].batch)
      BY <2>1, <2>3 DEF PlaceInv, Batches, Jobs
    <3> QED  BY <3>1, AtPlaces
  <2>4. PICK x : At(<<"task", w>>, task[w].batch, e) = {x}
    BY <2>1, AtPlaces, Zenon DEF PlaceInv, Batches
  <2>5. J = {x}
    BY <2>2, <2>3, <2>4, Zenon
  <2> QED  BY <2>5, Zenon
<1> HIDE DEF T, B, Q, J, K, V, D
<1>6. /\ \/ e \in Range(todo) \/ e \in Range(buffer) \/ e \in Range(dlq) \/ e \in InTasks
         \/ e \in taken \/ e \in evicted \/ e \in drained
      /\ e \in Range(todo) => e \notin Range(buffer) \cup Range(dlq) \cup InTasks \cup taken
                                         \cup evicted \cup drained
      /\ e \in Range(buffer) => e \notin Range(dlq) \cup InTasks \cup taken \cup evicted \cup drained
      /\ e \in Range(dlq) => e \notin InTasks \cup taken \cup evicted \cup drained
      /\ e \in InTasks => e \notin taken \cup evicted \cup drained
      /\ e \in taken => e \notin evicted \cup drained
      /\ e \in evicted => e \notin drained
  BY DEF PlaceInv, Partition
<1> QED  BY <1>1, <1>2, <1>3, <1>4, <1>5, <1>6, Zenon

-----------------------------------------------------------------------------
(* The batcher, the retries and the dead letter queue stay within their    *)
(* limits: max_batch_size, max_attempts and max_size.                      *)
THEOREM WebhookTypeCorrect == Spec => []TypeOK
<1>1. WebhookInv => TypeOK
  BY DEF WebhookInv
<1> QED  BY <1>1, WebhookStart, WebhookStep, PTL DEF Spec

(* The circuit is closed only below the threshold of consecutive failures. *)
THEOREM ClosedBelowThresholdHolds == Spec => []ClosedBelowThreshold
<1>1. WebhookInv => ClosedBelowThreshold
  BY DEF WebhookInv
<1> QED  BY <1>1, WebhookStart, WebhookStep, PTL DEF Spec

(* A half-open circuit, which refuses every request, has a probe whose     *)
(* answer will end it.                                                     *)
THEOREM ProbeUnderWayHolds == Spec => []ProbeUnderWay
<1>1. WebhookInv => ProbeUnderWay
  BY DEF WebhookInv
<1> QED  BY <1>1, WebhookStart, WebhookStep, PTL DEF Spec

(* Each event is in exactly one place, for any number of tasks and events, *)
(* and total_entries counts those that went through the queue: batching,   *)
(* retries and eviction neither lose nor double one.                       *)
THEOREM ExactlyOnePlaceHolds == Spec => []ExactlyOnePlace
<1>1. PlaceInv => ExactlyOnePlace
  <2> SUFFICES ASSUME PlaceInv PROVE ExactlyOnePlace
    OBVIOUS
  <2>1. \A e \in E : Cardinality(Places(e)) = 1
    BY OnePlace, FS_Singleton, Zenon
  <2> QED  BY <2>1 DEF ExactlyOnePlace, PlaceInv, Counted, E
<1>2. Init => PlaceInv
  BY PlaceStart
<1>3. PlaceInv /\ [Next]_vars => PlaceInv'
  BY PlaceStep
<1> QED  BY <1>1, <1>2, <1>3, PTL DEF Spec
=============================================================================
