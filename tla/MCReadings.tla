------------------------------ MODULE MCReadings ------------------------------
(* A cold reading far below zero, two too warm by different amounts, one   *)
(* of them in a congested zone, and one of another zone.                   *)
EXTENDS Readings, TLC

CONSTANTS r1, r2, r3

reading(z, t, o, cold) == [zone |-> z, temp |-> t, occupancy |-> o, refrigerated |-> cold]

Samples == {reading(1, -20, 50, TRUE), reading(1, 9, 50, TRUE), reading(1, 12, 95, TRUE),
            reading(2, 12, 95, FALSE)}

Symmetry == Permutations(Request)
=============================================================================
