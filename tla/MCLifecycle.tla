------------------------------ MODULE MCLifecycle ------------------------------
(* Two requests, two workers and a job. *)
EXTENDS Lifecycle

CONSTANTS r1, r2, w1, w2
=============================================================================
