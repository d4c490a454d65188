------------------------------- MODULE Egress -------------------------------
(***************************************************************************)
(* The stream to one gRPC consumer: ConsumerStream's bounded channel and   *)
(* GrpcBackpressure's count of unacknowledged events, "layered ON TOP of   *)
(* the credit-based throttle", CreditThrottle.                             *)
(*                                                                         *)
(* External: the tasks.  A sending thread takes a credit, and then, with   *)
(* the stream to itself and should_pause false, calls on_send and, a step  *)
(* later, the stream's send, which waits for room.  In the other order an  *)
(* acknowledgement between the two would be lost to on_ack's saturating    *)
(* subtraction, and pending stay one too high.  The gRPC task takes events *)
(* from the channel to the consumer.  An acknowledgement is given to       *)
(* GrpcBackpressure and then, a step later, to the throttle.  A consumer   *)
(* that comes back gets a new stream, from the event after the last it     *)
(* acknowledged, once the old one's tasks ended.                           *)
(*                                                                         *)
(*   connected  whether the channel's receiver is there                    *)
(*   channel    the events in the channel; event n has LSN n               *)
(*   last_sent_lsn, events_sent   ConsumerStream                           *)
(*   pending    GrpcBackpressure                                           *)
(*   holding    the threads that have a credit and wait to send            *)
(*   sender     the thread between on_send and the end of send, or None    *)
(*   acking     acknowledged, and not yet given back to the throttle       *)
(*   next       the event to send next                                     *)
(*   got, acked the last event received, and acknowledged                  *)
(*   base       acked when the stream was made (history)                   *)
(*   streams    bound: disconnections so far                               *)
(***************************************************************************)
EXTENDS Credit, Sequences, FiniteSets

CONSTANTS
    buffer_size, max_pending,
    MaxEvents,    \* bound
    MaxStreams    \* bound

ASSUME EgressAssumption ==
    /\ {buffer_size, max_pending} \subseteq Nat \ {0}
    /\ {MaxEvents, MaxStreams} \subseteq Nat
    /\ None \notin Threads

VARIABLES connected, channel, last_sent_lsn, events_sent, pending, holding, sender, acking,
          next, got, acked, base, streams

streamVars == <<connected, last_sent_lsn, events_sent, next, base, streams>>
egressVars == <<vars, streamVars, channel, pending, holding, sender, acking, got, acked>>

EgressInit ==
    /\ Init
    /\ connected = TRUE /\ channel = <<>>
    /\ last_sent_lsn = 0 /\ events_sent = 0 /\ pending = 0
    /\ holding = {} /\ sender = None /\ acking = 0
    /\ next = 1 /\ got = 0 /\ acked = 0 /\ base = 0 /\ streams = 0

-----------------------------------------------------------------------------
(* Sending *)

\* Fault: one event more than allowed.
ShouldPause_Late == pending > max_pending

ShouldPause == pending >= max_pending

OnSend == pending' = pending + 1

(* try_consume, by a thread that has something to send. *)
LoadCredit(t) ==
    /\ t \notin holding \cup {sender} /\ connected /\ next <= MaxEvents
    /\ Load(t)
    /\ UNCHANGED <<streamVars, channel, pending, holding, sender, acking, got, acked>>

TakeCredit(t) ==
    /\ Exchange(t)
    /\ holding' = holding \cup {t}
    /\ UNCHANGED <<streamVars, channel, pending, sender, acking, got, acked>>

LoseExchange(t) ==
    /\ Retry(t)
    /\ UNCHANGED <<streamVars, channel, pending, holding, sender, acking, got, acked>>

(* should_pause and on_send, with the stream taken. *)
Announce(t) ==
    /\ t \in holding /\ sender = None /\ connected /\ next <= MaxEvents
    /\ ~ShouldPause
    /\ OnSend
    /\ holding' = holding \ {t}
    /\ sender' = t
    /\ UNCHANGED <<vars, streamVars, channel, acking, got, acked>>

(* send waits for room in the channel. *)
Send(t) ==
    /\ sender = t /\ connected
    /\ Len(channel) < buffer_size
    /\ channel' = Append(channel, next)
    /\ last_sent_lsn' = next
    /\ events_sent' = events_sent + 1
    /\ next' = next + 1
    /\ sender' = None
    /\ UNCHANGED <<vars, connected, base, streams, pending, holding, acking, got, acked>>

\* Fault: the event counts as sent although it came back.
SendFails_Counts(t) ==
    /\ sender = t /\ ~connected
    /\ sender' = None
    /\ last_sent_lsn' = next /\ events_sent' = events_sent + 1
    /\ UNCHANGED <<vars, connected, next, base, streams, channel, pending, holding, acking,
                   got, acked>>

(* send returns the event: the consumer has disconnected. *)
SendFails(t) ==
    /\ sender = t /\ ~connected
    /\ sender' = None
    /\ UNCHANGED <<vars, streamVars, channel, pending, holding, acking, got, acked>>

(* A thread that waits to send ends with its stream. *)
GiveUp(t) ==
    /\ t \in holding /\ ~connected
    /\ holding' = holding \ {t}
    /\ UNCHANGED <<vars, streamVars, channel, pending, sender, acking, got, acked>>

-----------------------------------------------------------------------------
(* The consumer *)

Receive ==
    /\ connected /\ channel # <<>>
    /\ got' = Head(channel)
    /\ channel' = Tail(channel)
    /\ UNCHANGED <<vars, streamVars, pending, holding, sender, acking, acked>>

\* Fault: one event is acknowledged, however many the consumer did.
OnAck_One(n) ==
    /\ n \in 1 .. got - acked
    /\ pending' = IF 1 < pending THEN pending - 1 ELSE 0
    /\ acked' = acked + n
    /\ acking' = acking + n
    /\ UNCHANGED <<vars, streamVars, channel, holding, sender, got>>

(* on_ack; the subtraction saturates. *)
OnAck(n) ==
    /\ n \in 1 .. got - acked
    /\ pending' = IF n < pending THEN pending - n ELSE 0
    /\ acked' = acked + n
    /\ acking' = acking + n
    /\ UNCHANGED <<vars, streamVars, channel, holding, sender, got>>

\* Fault: credits go back only for more than a window of events.
GiveBack_Late ==
    /\ acking > window
    /\ Replenish(acking)
    /\ acking' = 0
    /\ UNCHANGED <<streamVars, channel, pending, holding, sender, got, acked>>

GiveBack ==
    /\ acking > 0
    /\ Replenish(acking)
    /\ acking' = 0
    /\ UNCHANGED <<streamVars, channel, pending, holding, sender, got, acked>>

(* The receiver is dropped, with what is in the channel. *)
Disconnect ==
    /\ connected /\ streams < MaxStreams
    /\ connected' = FALSE
    /\ streams' = streams + 1
    /\ channel' = <<>>
    /\ UNCHANGED <<vars, last_sent_lsn, events_sent, next, base, pending, holding, sender,
                   acking, got, acked>>

(* ConsumerStream::new, GrpcBackpressure::new and the throttle's reset. *)
Connect ==
    /\ ~connected /\ holding = {} /\ sender = None /\ acking = 0
    /\ \A t \in Threads : loaded[t] = None
    /\ Reset
    /\ connected' = TRUE
    /\ last_sent_lsn' = 0 /\ events_sent' = 0 /\ pending' = 0
    /\ next' = acked + 1 /\ got' = acked /\ base' = acked
    /\ UNCHANGED <<streams, channel, holding, sender, acking, acked>>

EgressNext ==
    \/ \E t \in Threads :
          \/ LoadCredit(t) \/ TakeCredit(t) \/ LoseExchange(t)
          \/ Announce(t) \/ Send(t) \/ SendFails(t) \/ GiveUp(t)
    \/ Receive
    \/ \E n \in 1 .. MaxEvents : OnAck(n)
    \/ GiveBack
    \/ Disconnect
    \/ Connect

EgressSpec == EgressInit /\ [][EgressNext]_egressVars

(* The tasks go on, the consumer reads and acknowledges, and comes back;   *)
(* it need not disconnect.  A weak exchange does not fail for ever, and a  *)
(* thread that waits for the channel, the pause or a credit tries again.   *)
EgressFairness ==
    /\ \A t \in Threads : /\ WF_egressVars(LoadCredit(t)) /\ SF_egressVars(TakeCredit(t))
                          /\ WF_egressVars(LoseExchange(t))
                          /\ SF_egressVars(Announce(t)) /\ WF_egressVars(Send(t))
                          /\ WF_egressVars(SendFails(t)) /\ WF_egressVars(GiveUp(t))
    /\ WF_egressVars(Receive) /\ WF_egressVars(\E n \in 1 .. MaxEvents : OnAck(n))
    /\ WF_egressVars(GiveBack) /\ WF_egressVars(Connect)

-----------------------------------------------------------------------------
(* Properties *)

EgressTypeOK ==
    /\ connected \in BOOLEAN /\ holding \subseteq Threads /\ sender \in Threads \cup {None}
    /\ channel \in Seq(1 .. MaxEvents) /\ Len(channel) <= buffer_size
    /\ pending \in 0 .. max_pending
    /\ {last_sent_lsn, events_sent, acking, got, acked, base} \subseteq 0 .. MaxEvents
    /\ next \in 1 .. MaxEvents + 1 /\ streams \in 0 .. MaxStreams

(* The two layers of flow control agree: each credit taken is that of a    *)
(* thread that waits to send, of an event GrpcBackpressure counts as       *)
(* pending, or of one acknowledged whose credit is on its way back, so     *)
(* on_ack's saturating subtraction loses no acknowledgement, although the  *)
(* throttle, the count and the channel are told of sends and               *)
(* acknowledgements at different times (backpressure.rs on_send, on_ack;   *)
(* throttle.rs).                                                           *)
LayersAgree ==
    connected => outstanding = Cardinality(holding) + pending + acking

(* The consumer gets the events after its last acknowledged one in order   *)
(* without gap, and last_sent_lsn and events_sent say how far: what is in  *)
(* the channel is what lies between the last received and last_sent_lsn    *)
(* (stream.rs send, try_send).                                             *)
SentInOrder ==
    /\ next = base + events_sent + 1
    /\ last_sent_lsn = IF events_sent = 0 THEN 0 ELSE next - 1
    /\ connected => channel = [i \in 1 .. next - 1 - got |-> got + i]

(* Credits, channel and pending count never wait for each other for good:  *)
(* every event reaches the consumer, once it no longer disconnects         *)
(* (backpressure.rs should_pause, throttle.rs try_consume, stream.rs).     *)
AllReceived == <>[](got = MaxEvents)
=============================================================================
