--------------------------- MODULE MCBackpressure ---------------------------
(* Two threads, a window that is larger than max_pending, and a channel of *)
(* one event.  One reason stands for all: none is treated specially.       *)
EXTENDS Backpressure
=============================================================================
