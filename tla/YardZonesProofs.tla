---------------------------- MODULE YardZonesProofs ----------------------------
(***************************************************************************)
(* Theorems about YardZones, for any number of zones and of requests: with *)
(* requests that overlap a zone never falls behind its seeded status and   *)
(* leaves the table only when one request overtakes another; without       *)
(* overlap it only ever moves along the table.                             *)
(***************************************************************************)
EXTENDS YardZones, FiniteSetTheorems, TLAPS

(* A move of the table goes to a status of a higher rank. *)
LEMMA MovesGoUp ==
  \A from, to \in ZoneStatus :
    Transition(from, to) => Rank[from] \in Nat /\ Rank[to] \in Nat /\ Rank[to] >= Rank[from]
  BY DEF Transition, CanTransitionYard, yardTransitions, ZoneStatus, Rank

(* Ranks are numbers.                                                       *)
LEMMA RankType == \A s \in ZoneStatus : Rank[s] \in Nat
  BY DEF ZoneStatus, Rank

(* The seeded store satisfies the invariant.                                *)
LEMMA InductiveInit == Init => Inductive
  BY ZoneAssumption, RankType
     DEF Init, Inductive, TypeOK, HandlerInv, NeverBeforeSeed, InFlight, HasCopy

(* Every step keeps it.                                                     *)
LEMMA InductiveStep == Inductive /\ [Next]_vars => Inductive'
<1>. SUFFICES ASSUME Inductive, [Next]_vars PROVE Inductive'
  OBVIOUS
<1>. USE ZoneAssumption, RankType DEF Inductive
<1>1. CASE UNCHANGED vars
  BY <1>1 DEF vars, TypeOK, HandlerInv, NeverBeforeSeed, InFlight, HasCopy
<1>2. ASSUME NEW r \in Request, NEW code \in {200, 400, 404, 405, 409}, Answer(r, code),
             TypeOK, HandlerInv
      PROVE  /\ UNCHANGED <<status, overtakers>> => HandlerInv'
             /\ /\ status' \in [Zone -> ZoneStatus]
                /\ overtakers' \in [Request -> SUBSET Request]
                => TypeOK'
  BY <1>2 DEF Answer, Goto, TypeOK, HandlerInv, InFlight, HasCopy
<1>3. ASSUME NEW r \in Request, Arrive(r) PROVE Inductive'
  BY <1>3 DEF Arrive, Goto, TypeOK, HandlerInv, NeverBeforeSeed, InFlight, HasCopy
<1>4. ASSUME NEW r \in Request, BadRequest(r) PROVE Inductive'
  BY <1>2, <1>4 DEF BadRequest, NeverBeforeSeed, TypeOK
<1>5. ASSUME NEW r \in Request, GetZone(r) PROVE Inductive'
  <2>1. CASE Answer(r, 404)
    BY <1>2, <1>5, <2>1 DEF GetZone, NeverBeforeSeed, TypeOK
  <2>2. CASE /\ zone[r] \in Zone
             /\ current' = [current EXCEPT ![r] = status[zone[r]]]
             /\ Goto(r, "check")
             /\ UNCHANGED <<zone, target, answer>>
    BY <1>5, <2>2 DEF GetZone, Goto, TypeOK, HandlerInv, NeverBeforeSeed, InFlight, HasCopy
  <2>. QED BY <1>5, <2>1, <2>2 DEF GetZone
<1>6. ASSUME NEW r \in Request, Check(r) PROVE Inductive'
  <2>1. CASE Answer(r, 409)
    BY <1>2, <1>6, <2>1 DEF Check, NeverBeforeSeed, TypeOK
  <2>2. CASE /\ Transition(current[r], target[r])
             /\ Goto(r, "update")
             /\ UNCHANGED <<zone, target, current, answer>>
    BY <1>6, <2>2 DEF Check, Goto, Transition, TypeOK, HandlerInv, NeverBeforeSeed,
                      InFlight, HasCopy
  <2>. QED BY <1>6, <2>1, <2>2 DEF Check
<1>7. ASSUME NEW r \in Request, UpdateStatus(r) PROVE Inductive'
  <2>1. /\ pc[r] = "update" /\ status' = [status EXCEPT ![zone[r]] = target[r]]
        /\ Answer(r, 200)
    BY <1>7 DEF UpdateStatus
  <2>2. /\ zone[r] \in Zone /\ current[r] \in ZoneStatus /\ target[r] \in ZoneStatus
        /\ Rank[current[r]] >= Rank[SeedStatus[zone[r]]]
        /\ Transition(current[r], target[r])
    BY <2>1 DEF HandlerInv, InFlight, HasCopy, Transition
  <2>3. Rank[target[r]] >= Rank[SeedStatus[zone[r]]]
    BY <2>2, MovesGoUp
  <2>4. status' \in [Zone -> ZoneStatus] /\ overtakers' \in [Request -> SUBSET Request]
    BY <1>7, <2>1, <2>2 DEF TypeOK, UpdateStatus
  <2>5. NeverBeforeSeed'
    BY <2>1, <2>2, <2>3 DEF NeverBeforeSeed, TypeOK
  <2>6. ASSUME NEW s \in Request
        PROVE  /\ pc'[s] = IF s = r THEN "done" ELSE pc[s]
               /\ s # r => UNCHANGED <<zone[s], target[s], current[s]>>
               /\ overtakers'[s] = IF s # r /\ HasCopy(s) /\ zone[s] = zone[r]
                                   THEN overtakers[s] \cup {r} ELSE overtakers[s]
    BY <1>7, <2>1 DEF UpdateStatus, Answer, Goto, TypeOK
  <2>7. HandlerInv'
    <3>. SUFFICES ASSUME NEW s \in Request, s # r, InFlight(s)
                  PROVE  /\ target'[s] \in ZoneStatus
                         /\ HasCopy(s) =>
                              /\ zone'[s] \in Zone /\ current'[s] \in ZoneStatus
                              /\ Rank[current'[s]] >= Rank[SeedStatus[zone'[s]]]
                              /\ current'[s] # status'[zone'[s]] => overtakers'[s] # {}
                         /\ pc[s] = "update" => Transition(current'[s], target'[s])
      BY <2>6 DEF HandlerInv, InFlight, HasCopy
    <3>1. UNCHANGED <<zone[s], target[s], current[s]>>
      BY <2>6
    <3>2. HasCopy(s) /\ current[s] # status'[zone[s]] => overtakers'[s] # {}
      <4>1. CASE zone[s] = zone[r]
        BY <2>6, <4>1
      <4>2. CASE zone[s] # zone[r]
        BY <2>1, <2>2, <2>6, <4>2 DEF HandlerInv, TypeOK
      <4>. QED BY <4>1, <4>2
    <3>. QED BY <3>1, <3>2 DEF HandlerInv
  <2>. QED BY <1>2, <2>1, <2>4, <2>5, <2>7
<1>. QED BY <1>1, <1>3, <1>4, <1>5, <1>6, <1>7 DEF Next

(* The inductive invariant holds in every reachable state. *)
THEOREM InductiveInvariant == Spec => []Inductive
<1>1. Init => Inductive
  BY InductiveInit
<1>2. Inductive /\ [Next]_vars => Inductive'
  BY InductiveStep
<1>. QED BY <1>1, <1>2, PTL DEF Spec

(* No race of any number of requests takes a zone back behind the status   *)
(* that store.New gave it.                                                 *)
THEOREM ZonesNeverFallBehind == Spec => []NeverBeforeSeed
<1>1. Inductive => NeverBeforeSeed
  BY DEF Inductive
<1>. QED BY <1>1, InductiveInvariant, PTL

(* An illegal move is always the work of an overtaken request: the check   *)
(* of the handler fails only where its copy is out of date.                *)
THEOREM IllegalMovesAreOvertaken == Spec => IllegalOnlyIfOvertaken
<1>. DEFINE OnlyIfOvertaken ==
       \A r \in Request, z \in Zone :
         pc[r] = "update" /\ zone[r] = z /\ pc'[r] = "done"
           /\ status'[z] # status[z] /\ ~CanTransitionYard(status[z], status'[z])
         => overtakers[r] # {}
<1>1. Inductive /\ [Next]_vars => [OnlyIfOvertaken]_vars
  <2>. SUFFICES ASSUME Inductive, [Next]_vars, NEW r \in Request, NEW z \in Zone,
                       pc[r] = "update", zone[r] = z, pc'[r] = "done", status'[z] # status[z],
                       ~CanTransitionYard(status[z], status'[z])
                PROVE  overtakers[r] # {}
    OBVIOUS
  <2>. USE DEF Inductive
  <2>1. PICK s \in Request : UpdateStatus(s)
    BY DEF vars, Next, Arrive, BadRequest, GetZone, Check
  <2>2. s = r
    BY <2>1 DEF UpdateStatus, Answer, Goto, TypeOK
  <2>3. status'[z] = target[r]
    BY <2>1, <2>2 DEF UpdateStatus, TypeOK
  <2>4. HasCopy(r) /\ Transition(current[r], target[r])
    BY DEF HandlerInv, HasCopy
  <2>5. current[r] # status[z]
    BY <2>3, <2>4 DEF Transition
  <2>. QED BY <2>4, <2>5 DEF HandlerInv
<1>. QED BY <1>1, InductiveInvariant, PTL DEF Spec, IllegalOnlyIfOvertaken

-----------------------------------------------------------------------------
(* Without overlap: one handler at a time, whose copy is never stale.      *)
Alone ==
  /\ \A r, s \in Request : InFlight(r) /\ InFlight(s) => r = s
  /\ \A r \in Request : pc[r] \in {"check", "update"} => current[r] = status[zone[r]]

(* A handler that is alone stays so, and its copy stays fresh. *)
LEMMA AloneStep == Overlap = 1 /\ Inductive /\ Alone /\ [Next]_vars => Alone'
<1>. SUFFICES ASSUME Overlap = 1, Inductive, Alone, [Next]_vars PROVE Alone'
  OBVIOUS
<1>. USE DEF Inductive
<1>1. CASE UNCHANGED vars
  BY <1>1 DEF vars, Alone, InFlight, HasCopy
<1>2. ASSUME NEW r \in Request, Arrive(r) PROVE Alone'
  <2>1. \A s \in Request : ~InFlight(s)
    <3>. DEFINE S == {s \in Request : InFlight(s)}
    <3>1. IsFiniteSet(S)
      BY ZoneAssumption, FS_Subset
    <3>2. Cardinality(S) < 1 /\ Cardinality(S) \in Nat
      BY <1>2, <3>1, FS_CardinalityType DEF Arrive
    <3>3. S = {}
      BY <3>1, <3>2, FS_EmptySet
    <3>. QED BY <3>3
  <2>. QED BY <1>2, <2>1 DEF Arrive, Goto, Alone, InFlight, HasCopy, TypeOK
<1>3. ASSUME NEW r \in Request, NEW code, Answer(r, code), UNCHANGED status PROVE Alone'
  BY <1>3 DEF Answer, Goto, Alone, InFlight, HasCopy, TypeOK
<1>4. ASSUME NEW r \in Request, BadRequest(r) PROVE Alone'
  BY <1>3, <1>4 DEF BadRequest
<1>5. ASSUME NEW r \in Request, GetZone(r) \/ Check(r) PROVE Alone'
  <2>1. CASE \E code \in {404, 409} : Answer(r, code)
    BY <1>3, <1>5, <2>1 DEF GetZone, Check
  <2>2. CASE /\ pc[r] = "get" /\ Goto(r, "check")
             /\ current' = [current EXCEPT ![r] = status[zone[r]]]
             /\ UNCHANGED <<zone, status>>
    BY <2>2 DEF Goto, Alone, InFlight, HasCopy, TypeOK
  <2>3. CASE pc[r] = "check" /\ Goto(r, "update") /\ UNCHANGED <<zone, current, status>>
    BY <2>3 DEF Goto, Alone, InFlight, HasCopy, TypeOK
  <2>. QED BY <1>5, <2>1, <2>2, <2>3 DEF GetZone, Check
<1>6. ASSUME NEW r \in Request, UpdateStatus(r) PROVE Alone'
  <2>1. \A s \in Request : s # r => ~InFlight(s)
    BY <1>6 DEF UpdateStatus, Alone, InFlight, HasCopy
  <2>2. \A s \in Request : ~(pc'[s] \in {"get", "check", "update"})
    BY <1>6, <2>1 DEF UpdateStatus, Answer, Goto, InFlight, HasCopy, TypeOK
  <2>. QED BY <2>2 DEF Alone, InFlight, HasCopy
<1>. QED BY <1>1, <1>2, <1>4, <1>5, <1>6 DEF Next

(* Clients that wait for each answer see the life cycle of domain/model.go *)
(* obeyed; so it takes two requests in flight to break it.                 *)
THEOREM SequentialClientsMoveLegally ==
  ASSUME Overlap = 1
  PROVE  Spec => LegalMoves
<1>. DEFINE Legal == \A z \in Zone : \/ status'[z] = status[z]
                                      \/ CanTransitionYard(status[z], status'[z])
<1>1. Init => Alone
  BY DEF Init, Alone, InFlight, HasCopy
<1>2. ASSUME Inductive, Alone, [Next]_vars PROVE [Legal]_vars
  <2>. SUFFICES ASSUME NEW z \in Zone, Next PROVE Transition(status[z], status'[z])
    BY <1>2 DEF Transition
  <2>1. CASE UNCHANGED status
    BY <2>1 DEF Transition
  <2>2. ASSUME NEW r \in Request, UpdateStatus(r)
        PROVE  Transition(status[z], status'[z])
    <3>1. /\ status' = [status EXCEPT ![zone[r]] = target[r]]
          /\ current[r] = status[zone[r]]
          /\ Transition(current[r], target[r])
      BY <1>2, <2>2 DEF UpdateStatus, Alone, Inductive, HandlerInv, Transition
    <3>. QED BY <1>2, <3>1 DEF Transition, Inductive, TypeOK
  <2>. QED BY <2>1, <2>2 DEF Next, Arrive, BadRequest, GetZone, Check
<1>3. Inductive /\ Alone /\ [Next]_vars => Alone'
  BY AloneStep
<1>4. Spec => []Alone
  BY <1>1, <1>3, InductiveInvariant, PTL DEF Spec
<1>. QED BY <1>2, <1>4, InductiveInvariant, PTL DEF Spec, LegalMoves

=============================================================================
