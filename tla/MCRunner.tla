------------------------------- MODULE MCRunner -------------------------------
(* Two jobs, as in main, and two calls of Start and of Stop.               *)
EXTENDS Runner

CONSTANTS s1, s2, p1, p2
=============================================================================
