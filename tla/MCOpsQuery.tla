------------------------------ MODULE MCOpsQuery ------------------------------
(* Records that differ in owner, status and weight, so that each filter    *)
(* below tells some of them apart.                                         *)
EXTENDS OpsQuery

Crane == [subject |-> {"crane"}, owner |-> 1, status |-> "active", priority |-> "high"]
Lane  == [subject |-> {"yard", "lane"}, owner |-> 2, status |-> "active", priority |-> "low"]
Gate  == [subject |-> {"yard", "gate"}, owner |-> 2, status |-> "paused", priority |-> "low"]

Contents == {Crane, Lane, Gate}

SomeSeeds == {<<Lane, Gate, Crane>>, <<Lane, Lane, NoRecord>>}

OnlyActive == [subject |-> "", owner |-> 0, status |-> "active", priority |-> ""]
OnlyYard   == [subject |-> "yard", owner |-> 2, status |-> "", priority |-> "low"]

Filters == {OnlyActive, OnlyYard}
SomeSizes == {0, 9}
=============================================================================
