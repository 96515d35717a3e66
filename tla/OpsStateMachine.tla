---------------------------- MODULE OpsStateMachine ----------------------------
(***************************************************************************)
(* The life cycle of an operations record: the statuses and the moves      *)
(* ops_state.go allows between them.  OpsStatus is a Go string, so a       *)
(* record may also carry a text that is none of the four: all of those     *)
(* are the single status "other".                                          *)
(***************************************************************************)

ValidStatus == {"queued", "active", "paused", "closed"}
Status      == ValidStatus \cup {"other"}

opsTransitionTable ==
  [ queued |-> {"active", "closed"},
    active |-> {"paused", "closed"},
    paused |-> {"active", "closed"},
    closed |-> {},
    other  |-> {} ]

(* Move without the shortcut for a status that does not change. *)
IsMove(from, to) == to \in opsTransitionTable[from]

CanMove(from, to) == from = to \/ IsMove(from, to)

=============================================================================
