-------------------------- MODULE DispatcherContract --------------------------
(***************************************************************************)
(* What the dispatcher promises, without channel, workers and retries: a   *)
(* message is accepted or refused; an accepted one is received at most     *)
(* once by each sender, in the order of the senders; and once it is quiet  *)
(* nothing is received any more, though messages may still be accepted.    *)
(***************************************************************************)
EXTENDS Naturals

CONSTANTS Message, Sender

VARIABLES status, received, quiet
vars == <<status, received, quiet>>

Init == /\ status = [m \in Message |-> "open"]
        /\ received = [m \in Message |-> [s \in Sender |-> 0]]
        /\ quiet = FALSE

Answer(m) == /\ status[m] = "open"
             /\ \E answer \in {"accepted", "refused"} : status' = [status EXCEPT ![m] = answer]
             /\ UNCHANGED <<received, quiet>>

Receive(m, s) == /\ status[m] = "accepted" /\ ~quiet
                 /\ \A t \in Sender : t >= s => received[m][t] = 0
                 /\ received' = [received EXCEPT ![m][s] = 1]
                 /\ UNCHANGED <<status, quiet>>

FallQuiet == quiet' = TRUE /\ UNCHANGED <<status, received>>

Next == FallQuiet \/ \E m \in Message : Answer(m) \/ \E s \in Sender : Receive(m, s)

Spec == Init /\ [][Next]_vars

=============================================================================
