----------------------------- MODULE MCWebhook -----------------------------
(* Four events in batches of up to two; the queue holds two. *)
EXTENDS Webhook

CONSTANTS w1, w2

One == {w1}
Two == {w1, w2}
Four == <<1, 2, 3, 4>>
=============================================================================
