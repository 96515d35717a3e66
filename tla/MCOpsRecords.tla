----------------------------- MODULE MCOpsRecords -----------------------------
(* Small instances of OpsRecords: one or two record ids, an id that is     *)
(* spelled two ways, and two or three requests.                            *)
EXTENDS OpsRecords, TLC

CONSTANTS lower, mixed   \* one record id and a spelling that normalizes to it
CONSTANTS r1, r2, r3

OneId     == {lower}
OneCanon  == lower :> lower
BothIds   == {lower, mixed}
BothCanon == lower :> lower @@ mixed :> lower

(* seedOpsRecords: ops-berth-01 is active in revision 1, ops-gate-03 is    *)
(* paused in revision 2.                                                   *)
SeedActive == lower :> [status |-> "active", rev |-> 1]
SeedPaused == lower :> [status |-> "paused", rev |-> 2]
SeedNone   == <<>>

Symmetry == Permutations(Request)
=============================================================================
