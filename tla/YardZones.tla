------------------------------- MODULE YardZones -------------------------------
(***************************************************************************)
(* The yard-zone API: POST /api/status (backend/httpapi/handlers.go) over  *)
(* store.Store, with the life cycle of domain/model.go.                    *)
(*                                                                         *)
(* The store's mutex covers one Get or one UpdateStatus; the handler       *)
(* validates the move in between, on its own copy of the status.           *)
(*                                                                         *)
(* Before some definitions stand variants of them, each marked as a slip:  *)
(* the mistake that the properties below have to find.                     *)
(***************************************************************************)
EXTENDS Naturals, FiniteSets

CONSTANTS
  Request,     \* the POST requests
  Zone,        \* the ids of the zones in the store
  SeedStatus,  \* the status store.New gives each of them
  UnknownZone, \* an id that is not in the store
  NoStatus,    \* the empty string
  Overlap      \* how many requests the clients have in flight at once

ZoneStatus == {"clear", "inspection_due", "restricted", "closed"}

ASSUME ZoneAssumption ==
  /\ SeedStatus \in [Zone -> ZoneStatus]
  /\ UnknownZone \notin Zone
  /\ NoStatus \notin ZoneStatus
  /\ Overlap \in Nat \ {0}
  /\ IsFiniteSet(Request)

VARIABLES
  status,   \* the Status of each zone in Store.items
  pc,       \* where the handler of each request is
  zone,     \* request.ID
  target,   \* request.Status
  current,  \* the status that the handler's Get has returned
  answer,   \* the HTTP status code
  overtakers \* history variable: who updated the zone since the handler's Get

vars == <<status, pc, zone, target, current, answer, overtakers>>

yardTransitions ==
  [ clear          |-> {"inspection_due", "restricted"},
    inspection_due |-> {"restricted", "closed"},
    restricted     |-> {"closed"},
    closed         |-> {} ]

CanTransitionYard(from, to) == to \in yardTransitions[from]

(* validation.Transition *)
\* slip: the move is looked up backwards
TransitionBackwards(from, to) == from = to \/ CanTransitionYard(to, from)
\* slip: any move but the reopening of a closed zone
TransitionUnlessClosed(from, to) == from = to \/ from # "closed"
Transition(from, to) == from = to \/ CanTransitionYard(from, to)

InFlight(r) == pc[r] \in {"get", "check", "update"}
HasCopy(r)  == pc[r] \in {"check", "update"}

Init ==
  /\ status  = SeedStatus
  /\ pc      = [r \in Request |-> "idle"]
  /\ zone    = [r \in Request |-> UnknownZone]
  /\ target  = [r \in Request |-> NoStatus]
  /\ current = [r \in Request |-> NoStatus]
  /\ answer  = [r \in Request |-> 0]
  /\ overtakers = [r \in Request |-> {}]

Goto(r, label) == pc' = [pc EXCEPT ![r] = label]

(* The handler returns, and its local variables are gone. *)
Answer(r, code) == /\ Goto(r, "done")
                   /\ answer'  = [answer EXCEPT ![r] = code]
                   /\ zone'    = [zone EXCEPT ![r] = UnknownZone]
                   /\ target'  = [target EXCEPT ![r] = NoStatus]
                   /\ current' = [current EXCEPT ![r] = NoStatus]

(* A request whose body decodes, with an id and a valid status. *)
Arrive(r) ==
  /\ pc[r] = "idle"
  /\ Cardinality({s \in Request : InFlight(s)}) < Overlap
  /\ \E z \in Zone \cup {UnknownZone}, s \in ZoneStatus :
       zone' = [zone EXCEPT ![r] = z] /\ target' = [target EXCEPT ![r] = s]
  /\ Goto(r, "get")
  /\ UNCHANGED <<status, current, answer, overtakers>>

(* Another method, a body that does not decode, an empty id, a status that *)
(* validation.Status does not know.                                        *)
BadRequest(r) ==
  /\ pc[r] = "idle"
  /\ \E code \in {400, 405} : Answer(r, code)
  /\ UNCHANGED <<status, overtakers>>

(* Store.Get *)
GetZone(r) ==
  /\ pc[r] = "get"
  /\ \/ zone[r] \notin Zone /\ Answer(r, 404)
     \/ /\ zone[r] \in Zone
        /\ current' = [current EXCEPT ![r] = status[zone[r]]]
        /\ Goto(r, "check")
        /\ UNCHANGED <<zone, target, answer>>
  /\ UNCHANGED <<status, overtakers>>

(* validation.Transition, on the handler's copy *)
Check(r) ==
  /\ pc[r] = "check"
  /\ \/ ~Transition(current[r], target[r]) /\ Answer(r, 409)
     \/ /\ Transition(current[r], target[r])
        /\ Goto(r, "update")
        /\ UNCHANGED <<zone, target, current, answer>>
  /\ UNCHANGED <<status, overtakers>>

(* Store.UpdateStatus; zones are never removed, so the id is still there. *)
UpdateStatus(r) ==
  /\ pc[r] = "update"
  /\ status' = [status EXCEPT ![zone[r]] = target[r]]
  /\ overtakers' = [s \in Request |->
       IF s # r /\ HasCopy(s) /\ zone[s] = zone[r] THEN overtakers[s] \cup {r}
                                                   ELSE overtakers[s]]
  /\ Answer(r, 200)

Next == \E r \in Request :
          Arrive(r) \/ BadRequest(r) \/ GetZone(r) \/ Check(r) \/ UpdateStatus(r)

Spec == Init /\ [][Next]_vars

-----------------------------------------------------------------------------
(* Type invariant (domain/model.go). *)
TypeOK ==
  /\ status  \in [Zone -> ZoneStatus]
  /\ pc      \in [Request -> {"idle", "get", "check", "update", "done"}]
  /\ zone    \in [Request -> Zone \cup {UnknownZone}]
  /\ target  \in [Request -> ZoneStatus \cup {NoStatus}]
  /\ current \in [Request -> ZoneStatus \cup {NoStatus}]
  /\ answer  \in [Request -> {0, 200, 400, 404, 405, 409}]
  /\ overtakers \in [Request -> SUBSET Request]

(* The moves of yardTransitions all go one way. *)
Rank == [clear |-> 0, inspection_due |-> 1, restricted |-> 2, closed |-> 3]

(* Whatever the requests race, a zone never gets a status that comes       *)
(* before the one it was seeded with: YARD-COLD-2, due for inspection,     *)
(* never turns clear (store.New, validation.Transition).                   *)
NeverBeforeSeed ==
  \A z \in Zone : Rank[status[z]] >= Rank[SeedStatus[z]]

(* "yardTransitions maps each yard status to the statuses it may legally   *)
(* move to" (domain/model.go:22): a zone's status changes along the table. *)
LegalMoves ==
  [][\A z \in Zone : \/ status'[z] = status[z]
                      \/ CanTransitionYard(status[z], status'[z])]_vars

(* A move that is not in the table is the work of a request that another   *)
(* one has overtaken: it updated the same zone between the Get and the      *)
(* UpdateStatus of this one.  A client that is alone breaks no rule.       *)
IllegalOnlyIfOvertaken ==
  [][\A r \in Request, z \in Zone :
       pc[r] = "update" /\ zone[r] = z /\ pc'[r] = "done"
         /\ status'[z] # status[z] /\ ~CanTransitionYard(status[z], status'[z])
       => overtakers[r] # {}]_vars

-----------------------------------------------------------------------------
(* What a handler knows of its zone: a copy that is no earlier than the    *)
(* seed and is up to date unless the handler has been overtaken, and a     *)
(* target that is a legal move from the copy.                              *)
HandlerInv ==
  \A r \in Request :
    /\ InFlight(r) => target[r] \in ZoneStatus
    /\ HasCopy(r) =>
         /\ zone[r] \in Zone /\ current[r] \in ZoneStatus
         /\ Rank[current[r]] >= Rank[SeedStatus[zone[r]]]
         /\ current[r] # status[zone[r]] => overtakers[r] # {}
    /\ pc[r] = "update" => Transition(current[r], target[r])

Inductive == TypeOK /\ HandlerInv /\ NeverBeforeSeed

=============================================================================
