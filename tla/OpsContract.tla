------------------------------ MODULE OpsContract ------------------------------
(***************************************************************************)
(* What the records API promises, without saying how: a request changes    *)
(* the map of records at most once, in one step, by one entry, and before  *)
(* it is answered; an entry starts at revision 1 and is replaced by the    *)
(* next revision or removed.  Revision 0 stands for "no such record".      *)
(***************************************************************************)
EXTENDS Naturals

CONSTANTS Request, Id

VARIABLES revision, phase
vars == <<revision, phase>>

Init == /\ revision \in [Id -> Nat]
        /\ phase = [r \in Request |-> "open"]

(* The one step of r that changes the map. *)
Apply(r, i, n) == /\ phase[r] = "open"
                  /\ phase' = [phase EXCEPT ![r] = "applied"]
                  /\ revision' = [revision EXCEPT ![i] = n]

Insert(r, i)  == revision[i] = 0 /\ Apply(r, i, 1)
Replace(r, i) == revision[i] > 0 /\ Apply(r, i, revision[i] + 1)
Remove(r, i)  == revision[i] > 0 /\ Apply(r, i, 0)

Answer(r) == /\ phase[r] # "answered"
             /\ phase' = [phase EXCEPT ![r] = "answered"]
             /\ UNCHANGED revision

Next == \E r \in Request :
          \/ Answer(r)
          \/ \E i \in Id : Insert(r, i) \/ Replace(r, i) \/ Remove(r, i)

Spec == Init /\ [][Next]_vars

=============================================================================
