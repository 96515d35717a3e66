----------------------------- MODULE MCDispatcher -----------------------------
(* A channel and a log of one place each for two messages, two workers,    *)
(* and a second sender that fails now and then.                            *)
EXTENDS Dispatcher

CONSTANTS m1, m2, w1, w2
=============================================================================
