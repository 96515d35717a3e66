------------------------------ MODULE MCYardZones ------------------------------
(* The two zones of store.New, and three or four requests. *)
EXTENDS YardZones, TLC

CONSTANTS yardA1, yardCold2, r1, r2, r3, r4

Seeded   == yardA1 :> "clear" @@ yardCold2 :> "inspection_due"
Symmetry == Permutations(Request)
=============================================================================
