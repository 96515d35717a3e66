---------------------------- MODULE OpsRecordsProofs ----------------------------
(***************************************************************************)
(* What holds of OpsRecords for any number of requests, ids and seeded     *)
(* records.  Everything but the audit trail follows from Inductive, whose  *)
(* proof splits a step in two ways: by what it does to the locals of the   *)
(* handler that takes it (HandlerStep), and by its Effect on the store -   *)
(* an insertion, a replacement, a removal or nothing (StepEffect).  The    *)
(* invariants about the store then need one proof per effect and not one   *)
(* per handler step.                                                       *)
(***************************************************************************)
EXTENDS OpsRecords, SequenceTheorems, TLAPS

(* Newest keeps the type of a sequence. *)
LEMMA NewestType ==
  ASSUME NEW S, NEW s \in Seq(S), NEW n \in Nat
  PROVE  /\ Newest(s, n) \in Seq(S)
         /\ Len(Newest(s, n)) <= n
         /\ Len(Newest(s, n)) <= Len(s)
         /\ \A k \in 1 .. Len(Newest(s, n)) :
              Newest(s, n)[k] = s[k + Len(s) - Len(Newest(s, n))]
<1>1. CASE Len(s) > n
  <2>1. Newest(s, n) = SubSeq(s, Len(s) - n + 1, Len(s))
    BY <1>1 DEF Newest
  <2>2. /\ Len(s) \in Nat /\ Len(s) - n + 1 \in 1 .. Len(s) + 1
    BY <1>1, LenProperties
  <2>3. /\ Newest(s, n) \in Seq(S)
        /\ Len(Newest(s, n)) = n
    BY <2>1, <2>2, SubSeqProperties
  <2>4. \A k \in 1 .. n : Newest(s, n)[k] = s[k + Len(s) - n]
    BY <2>1, <2>2, SubSeqProperties
  <2>. QED BY <1>1, <2>2, <2>3, <2>4
<1>2. CASE ~(Len(s) > n)
  BY <1>2, LenProperties DEF Newest
<1>. QED BY <1>1, <1>2

(* The seeded records and the empty rest of the state are well typed.     *)
LEMMA TypeInit == Init => TypeOK
<1>. SUFFICES ASSUME Init PROVE TypeOK
  OBVIOUS
<1>1. items \in [Id -> OpsRecord \cup {NoRecord}]
  BY SeedAssumption DEF Init, OpsRecord, Author
<1>. QED BY <1>1 DEF Init, TypeOK, Labels, Outcome

(* What a client can send is a request of the service. *)
LEMMA ArrivingType ==
  \A q \in ArrivingRequests :
    /\ q \in OpsRequest
    /\ FirstStep[q.kind] \in Labels
    /\ q.kind \in {"create", "delete"} => q.expected = 0
<1>. SUFFICES ASSUME NEW q \in ArrivingRequests
     PROVE /\ q \in OpsRequest
           /\ FirstStep[q.kind] \in Labels
           /\ q.kind \in {"create", "delete"} => q.expected = 0
  OBVIOUS
<1>. USE RequestAssumption
<1>1. /\ q \in [kind : Kinds, id : Id, expected : Expected \cup {0},
                target : Targets \cup {"other"}]
      /\ q.kind \in {"create", "delete"} => q.expected = 0
  BY DEF ArrivingRequests
<1>2. q \in OpsRequest
  <2>1. Kinds \subseteq {"create", "update", "delete", "transition"}
    OBVIOUS
  <2>2. Expected \cup {0} \subseteq Nat
    OBVIOUS
  <2>3. Targets \cup {"other"} \subseteq Status
    BY DEF Status
  <2>. QED BY ONLY <1>1, <2>1, <2>2, <2>3 DEF OpsRequest
<1>. QED BY <1>1, <1>2 DEF OpsRequest, FirstStep, Labels

(* The types of the variables that belong to the handlers, to the store,   *)
(* and to the audit trail and the state machine.                           *)
LocalsOK == /\ pc       \in [Request -> Labels]
            /\ req      \in [Request -> OpsRequest \cup {NoReq}]
            /\ copy     \in [Request -> OpsRecord \cup {NoRecord}]
            /\ ctxDone  \in [Request -> BOOLEAN]
            /\ outcome  \in [Request -> Outcome]
            /\ seen     \in [Request -> OpsRecord \cup {NoRecord}]
StoreOK  == /\ items    \in [Id -> OpsRecord \cup {NoRecord}]
            /\ births   \in [Id -> Nat]
            /\ commits  \subseteq Commit
TrailOK  == /\ events   \in Seq(OpsEvent)
            /\ auditSeq \in Nat
            /\ history  \in Seq([from : Status, to : Status])

(* The type invariant in three parts: locals of the handlers, store, trail. *)
LEMMA TypeParts == /\ TypeOK <=> LocalsOK /\ StoreOK /\ TrailOK
                   /\ TypeOK' <=> LocalsOK' /\ StoreOK' /\ TrailOK'
  BY DEF TypeOK, LocalsOK, StoreOK, TrailOK

(* A handler that returns leaves its locals well typed, ...                 *)
LEMMA AnswerType ==
  ASSUME LocalsOK, NEW r \in Request, NEW code \in Outcome, Answer(r, code)
  PROVE  LocalsOK'
  BY DEF LocalsOK, Answer, Labels

(* ... and so does one that goes on, ...                                    *)
LEMMA GotoType ==
  ASSUME LocalsOK, NEW r \in Request, NEW label \in Labels, Goto(r, label)
  PROVE  LocalsOK'
  BY DEF LocalsOK, Goto

(* ... with or without a new copy.                                          *)
LEMMA GotoWithType ==
  ASSUME LocalsOK, NEW r \in Request, NEW label \in Labels, NEW record \in OpsRecord,
         GotoWith(r, label, record)
  PROVE  LocalsOK'
  BY DEF LocalsOK, GotoWith

(* A step that writes nothing keeps the type of the store, ...              *)
LEMMA NoWriteType == StoreOK /\ NoWrite => StoreOK'
  BY DEF StoreOK, NoWrite

(* ... and so does the write of a record.                                   *)
LEMMA WriteType ==
  ASSUME StoreOK, LocalsOK, NEW r \in Request, req[r] # NoReq, NEW i \in Id,
         NEW record \in OpsRecord \cup {NoRecord}, NEW inc \in Nat, NEW over \in Nat,
         Write(r, i, record, inc, over), births' \in [Id -> Nat]
  PROVE  StoreOK'
<1>1. req[r] \in OpsRequest
  BY DEF LocalsOK
<1>2. [by |-> r, kind |-> req[r].kind, id |-> i, inc |-> inc, over |-> over,
       expected |-> req[r].expected] \in Commit
  BY <1>1 DEF OpsRequest, Commit
<1>. QED BY <1>2 DEF StoreOK, Write

(* What the store makes of a record is a record. *)
LEMMA StoredType ==
  ASSUME NEW record \in OpsRecord, NEW current \in OpsRecord
  PROVE  /\ Stored(record, current) \in OpsRecord
         /\ Stored(record, current).rev = current.rev + 1
         /\ Stored(record, current).inc = current.inc
         /\ Stored(record, current).status = record.status
<1>1. current.rev + 1 \in Nat /\ current.inc \in Nat
  BY DEF OpsRecord
<1>2. [record EXCEPT !.rev = current.rev + 1] \in OpsRecord
  BY <1>1 DEF OpsRecord
<1>. QED BY <1>1, <1>2 DEF Stored, OpsRecord

(* The two ways in which a call on the store goes wrong leave it alone.    *)
LEMMA UnreachableType ==
  ASSUME LocalsOK, StoreOK, NEW r \in Request, NEW i, Unreachable(r, i)
  PROVE  LocalsOK' /\ StoreOK'
  BY AnswerType, NoWriteType DEF Unreachable, Outcome

(* OpsStore.Update keeps the types.                                         *)
LEMMA StoreUpdateType ==
  ASSUME LocalsOK, StoreOK, NEW r \in Request, req[r] # NoReq, NEW i \in Id,
         Present(i), NEW record \in OpsRecord, NEW next \in Labels,
         StoreUpdate(r, i, record, next)
  PROVE  LocalsOK' /\ StoreOK'
<1>1. CASE Answer(r, "conflict") /\ NoWrite
  BY <1>1, AnswerType, NoWriteType DEF Outcome
<1>2. CASE /\ Write(r, i, Stored(record, items[i]), items[i].inc, items[i].rev)
           /\ Goto(r, next)
           /\ UNCHANGED births
  <2>1. items[i] \in OpsRecord
    BY DEF StoreOK, Present
  <2>2. Stored(record, items[i]) \in OpsRecord
    BY <2>1, StoredType
  <2>3. items[i].inc \in Nat /\ items[i].rev \in Nat
    BY <2>1 DEF OpsRecord
  <2>4. births' \in [Id -> Nat]
    BY <1>2 DEF StoreOK
  <2>5. StoreOK'
    BY <1>2, <2>2, <2>3, <2>4, WriteType
  <2>. QED BY <1>2, <2>5, GotoType
<1>. QED BY <1>1, <1>2 DEF StoreUpdate

(* Every step keeps the type invariant.                                     *)
LEMMA TypeStep == TypeOK /\ HandlersInv /\ [Next]_vars => TypeOK'
<1>. SUFFICES ASSUME TypeOK, HandlersInv, [Next]_vars PROVE TypeOK'
  OBVIOUS
<1>. USE CanonAssumption, RequestAssumption DEF StoreKey, AuditKey
<1>a. LocalsOK /\ StoreOK /\ TrailOK
  BY TypeParts
<1>b. ASSUME NEW r \in Request, req[r] # NoReq
      PROVE  /\ req[r] \in OpsRequest
             /\ req[r].id \in Id /\ Canon[req[r].id] \in Id
             /\ req[r].target \in Status
  <2>1. req[r] \in OpsRequest
    BY <1>a, <1>b DEF LocalsOK
  <2>. QED BY <2>1 DEF OpsRequest
<1>c. ASSUME NEW r \in Request, InFlight(r) PROVE req[r] # NoReq
  BY <1>c DEF HandlersInv, HandlerInv
<1>d. UNCHANGED svcVars => TrailOK'
  BY <1>a DEF TrailOK, svcVars
<1>e. ASSUME NEW i \in Id, Present(i)
      PROVE  items[i] \in OpsRecord /\ items[i].inc \in Nat /\ items[i].rev \in Nat
  BY <1>a, <1>e DEF StoreOK, Present, OpsRecord
<1>1. ASSUME NEW r \in Request, Arrive(r) PROVE TypeOK'
  <2>1. PICK q \in ArrivingRequests :
          /\ req'  = [req EXCEPT ![r] = q]
          /\ seen' = [seen EXCEPT ![r] = items[Canon[q.id]]]
          /\ pc'   = [pc EXCEPT ![r] = FirstStep[q.kind]]
    BY <1>1 DEF Arrive
  <2>2. q \in OpsRequest /\ FirstStep[q.kind] \in Labels
    BY ArrivingType
  <2>3. Canon[q.id] \in Id
    BY <2>2 DEF OpsRequest
  <2>4. LocalsOK'
    BY <1>a, <1>1, <2>1, <2>2, <2>3 DEF LocalsOK, StoreOK, Arrive
  <2>5. StoreOK'
    BY <1>a, <1>1 DEF StoreOK, Arrive
  <2>. QED BY <1>1, <1>d, <2>4, <2>5, TypeParts DEF Arrive
<1>2. ASSUME NEW r \in Request, BadRequest(r) PROVE LocalsOK' /\ StoreOK'
  BY <1>a, <1>2, AnswerType, NoWriteType DEF BadRequest, Outcome
<1>3. ASSUME NEW r \in Request, Cancel(r) PROVE TypeOK'
  BY <1>3 DEF TypeOK, Cancel, svcVars, ghosts
<1>4. ASSUME NEW r \in Request, CreatePut(r) PROVE LocalsOK' /\ StoreOK'
  <2>. DEFINE i == Canon[req[r].id]
  <2>1. req[r] # NoReq /\ i \in Id
    BY <1>4, <1>c, <1>b DEF CreatePut, StorePut, PolicyRejects, InFlight
  <2>2. CASE /\ NoWrite
             /\ Answer(r, "policy") \/ Answer(r, "internal") \/ Answer(r, "conflict")
    BY <1>a, <2>2, AnswerType, NoWriteType DEF Outcome
  <2>3. ASSUME births' = [births EXCEPT ![i] = @ + 1],
               Write(r, i, [status |-> req[r].target, rev |-> 1, created |-> r,
                            body |-> r, inc |-> births[i] + 1], births[i] + 1, 0),
               Goto(r, "audit")
        PROVE  LocalsOK' /\ StoreOK'
    <3>1. births[i] + 1 \in Nat /\ births' \in [Id -> Nat]
      BY <1>a, <2>1, <2>3 DEF StoreOK
    <3>2. [status |-> req[r].target, rev |-> 1, created |-> r, body |-> r,
           inc |-> births[i] + 1] \in OpsRecord
      BY <1>b, <2>1, <3>1 DEF OpsRecord, Author
    <3>3. StoreOK'
      BY <1>a, <2>1, <2>3, <3>1, <3>2, WriteType
    <3>. QED BY <1>a, <2>3, <3>3, GotoType DEF Labels
  <2>. QED BY <1>4, <2>2, <2>3 DEF CreatePut, StorePut, PolicyRejects
<1>5. ASSUME NEW r \in Request, UpdateWrite(r) PROVE LocalsOK' /\ StoreOK'
  <2>. DEFINE i == Canon[req[r].id]
              record == [status |-> req[r].target, rev |-> 1, created |-> "unset",
                         body |-> r, inc |-> 0]
  <2>1. req[r] # NoReq /\ i \in Id
    BY <1>5, <1>c, <1>b DEF UpdateWrite, PolicyRejects, InFlight
  <2>2. CASE Answer(r, "policy") /\ NoWrite
    BY <1>a, <2>2, AnswerType, NoWriteType DEF Outcome
  <2>3. CASE Unreachable(r, i)
    BY <1>a, <2>3, UnreachableType
  <2>4. CASE Reachable(r, i) /\ StoreUpdate(r, i, record, "updateReread")
    <3>1. record \in OpsRecord
      BY <1>b, <2>1 DEF OpsRecord, Author
    <3>. QED BY <1>a, <2>1, <2>4, <3>1, StoreUpdateType DEF Reachable, Labels
  <2>. QED BY <1>5, <2>2, <2>3, <2>4 DEF UpdateWrite, PolicyRejects
<1>6. ASSUME NEW r \in Request, UpdateReread(r) PROVE LocalsOK' /\ StoreOK'
  <2>1. CASE Unreachable(r, req[r].id)
    BY <1>a, <2>1, UnreachableType
  <2>2. CASE Goto(r, "audit") /\ NoWrite
    BY <1>a, <2>2, GotoType, NoWriteType DEF Labels
  <2>. QED BY <1>6, <2>1, <2>2 DEF UpdateReread
<1>7. ASSUME NEW r \in Request, DeleteRemove(r) PROVE LocalsOK' /\ StoreOK'
  <2>. DEFINE i == req[r].id
  <2>1. req[r] # NoReq /\ i \in Id
    BY <1>7, <1>c, <1>b DEF DeleteRemove, InFlight
  <2>2. CASE Unreachable(r, i)
    BY <1>a, <2>2, UnreachableType
  <2>3. CASE /\ Reachable(r, i)
             /\ Write(r, i, NoRecord, items[i].inc, items[i].rev)
             /\ Goto(r, "audit")
             /\ UNCHANGED births
    <3>1. items[i].inc \in Nat /\ items[i].rev \in Nat
      BY <1>e, <2>1, <2>3 DEF Reachable
    <3>2. births' \in [Id -> Nat]
      BY <1>a, <2>3 DEF StoreOK
    <3>3. StoreOK'
      BY <1>a, <2>1, <2>3, <3>1, <3>2, WriteType
    <3>. QED BY <1>a, <2>3, <3>3, GotoType DEF Labels
  <2>. QED BY <1>7, <2>2, <2>3 DEF DeleteRemove
<1>8. ASSUME NEW r \in Request, TransitionRead(r) PROVE LocalsOK' /\ StoreOK'
  <2>. DEFINE i == req[r].id
  <2>1. req[r] # NoReq /\ i \in Id
    BY <1>8, <1>c, <1>b DEF TransitionRead, InFlight
  <2>2. CASE Unreachable(r, i)
    BY <1>a, <2>2, UnreachableType
  <2>3. CASE NoWrite /\ (Answer(r, "conflict") \/ Answer(r, "transition"))
    BY <1>a, <2>3, AnswerType, NoWriteType DEF Outcome
  <2>4. CASE Reachable(r, i) /\ NoWrite /\ GotoWith(r, "transitionWrite", items[i])
    BY <1>a, <1>e, <2>1, <2>4, GotoWithType, NoWriteType DEF Reachable, Labels
  <2>. QED BY <1>8, <2>2, <2>3, <2>4 DEF TransitionRead
<1>9. ASSUME NEW r \in Request, TransitionWrite(r) PROVE LocalsOK' /\ StoreOK'
  <2>. DEFINE i == req[r].id
              record == [copy[r] EXCEPT !.status = req[r].target]
  <2>1. req[r] # NoReq /\ i \in Id
    BY <1>9, <1>c, <1>b DEF TransitionWrite, InFlight
  <2>2. CASE Unreachable(r, i)
    BY <1>a, <2>2, UnreachableType
  <2>3. CASE Reachable(r, i) /\ StoreUpdate(r, i, record, "transitionReread")
    <3>1. copy[r] \in OpsRecord
      BY <1>9, <1>a DEF HandlersInv, HandlerInv, TransitionWrite, LocalsOK
    <3>2. record \in OpsRecord
      BY <1>b, <2>1, <3>1 DEF OpsRecord
    <3>. QED BY <1>a, <2>1, <2>3, <3>2, StoreUpdateType DEF Reachable, Labels
  <2>. QED BY <1>9, <2>2, <2>3 DEF TransitionWrite
<1>10. ASSUME NEW r \in Request, TransitionReread(r) PROVE LocalsOK' /\ StoreOK'
  <2>. DEFINE i == req[r].id
  <2>1. req[r] # NoReq /\ i \in Id
    BY <1>10, <1>c, <1>b DEF TransitionReread, InFlight
  <2>2. CASE Unreachable(r, i)
    BY <1>a, <2>2, UnreachableType
  <2>3. CASE Reachable(r, i) /\ GotoWith(r, "transitionMove", items[i]) /\ NoWrite
    BY <1>a, <1>e, <2>1, <2>3, GotoWithType, NoWriteType DEF Reachable, Labels
  <2>. QED BY <1>10, <2>2, <2>3 DEF TransitionReread
<1>11. ASSUME NEW r \in Request, TransitionMove(r) PROVE TypeOK'
  <2>. DEFINE move == [from |-> copy[r].status, to |-> req[r].target]
  <2>1. copy[r] \in OpsRecord /\ req[r] # NoReq
    BY <1>11, <1>a, <1>c DEF HandlersInv, HandlerInv, TransitionMove, LocalsOK, InFlight
  <2>2. move \in [from : Status, to : Status]
    BY <1>b, <2>1 DEF OpsRecord
  <2>3. Append(history, move) \in Seq([from : Status, to : Status])
    BY <1>a, <2>2, AppendProperties DEF TrailOK
  <2>4. TrailOK'
    BY <1>a, <1>11, <2>3 DEF TransitionMove, TrailOK
  <2>5. LocalsOK'
    BY <1>a, <1>11, AnswerType, GotoType DEF TransitionMove, Labels, Outcome
  <2>. QED BY <1>a, <1>11, <2>4, <2>5, NoWriteType, TypeParts DEF TransitionMove
<1>12. ASSUME NEW r \in Request, AuditAdd(r) PROVE TypeOK'
  <2>. DEFINE event == [id |-> auditSeq + 1, record |-> AuditKey(r),
                        type |-> EventType[req[r].kind], by |-> r]
  <2>1. req[r] # NoReq
    BY <1>12, <1>c DEF AuditAdd, InFlight
  <2>2. event \in OpsEvent
    BY <1>a, <1>b, <2>1 DEF OpsEvent, OpsRequest, EventType, TrailOK
  <2>3. Append(events, event) \in Seq(OpsEvent)
    BY <1>a, <2>2, AppendProperties DEF TrailOK
  <2>4. KeepNewest(Append(events, event)) \in Seq(OpsEvent)
    BY <2>3, NewestType, AuditAssumption DEF KeepNewest
  <2>5. TrailOK'
    BY <1>a, <1>12, <2>4 DEF AuditAdd, TrailOK
  <2>. QED BY <1>a, <1>12, <2>5, AnswerType, NoWriteType, TypeParts DEF AuditAdd, Outcome
<1>13. ASSUME AuditSweep PROVE TypeOK'
  <2>1. Newest(events, SweepMax) \in Seq(OpsEvent)
    BY <1>a, NewestType, AuditAssumption DEF TrailOK
  <2>. QED BY <1>13, <2>1 DEF AuditSweep, TypeOK, ghosts
<1>14. CASE UNCHANGED vars
  BY <1>14 DEF TypeOK, vars
<1>15. ASSUME NEW r \in Request,
              \/ BadRequest(r)     \/ CreatePut(r)      \/ UpdateWrite(r)
              \/ UpdateReread(r)   \/ DeleteRemove(r)   \/ TransitionRead(r)
              \/ TransitionWrite(r) \/ TransitionReread(r)
       PROVE  TypeOK'
  <2>1. UNCHANGED svcVars
    BY <1>15 DEF BadRequest, CreatePut, StorePut, PolicyRejects, UpdateWrite,
                 UpdateReread, DeleteRemove, TransitionRead, TransitionWrite,
                 TransitionReread
  <2>2. LocalsOK' /\ StoreOK'
    BY <1>15, <1>2, <1>4, <1>5, <1>6, <1>7, <1>8, <1>9, <1>10
  <2>. QED BY <1>d, <2>1, <2>2, TypeParts
<1>. QED
  BY <1>1, <1>3, <1>11, <1>12, <1>13, <1>14, <1>15 DEF Next, Step

-----------------------------------------------------------------------------
(* Every step of a handler touches the store in one of four ways: not at   *)
(* all, or by inserting, replacing or removing the one entry it works on.  *)

Insertion(r, i) ==
  /\ pc[r] = "createPut" /\ pc'[r] = "audit"
  /\ i = Canon[req[r].id] /\ i = AuditKey(r) /\ ~Present(i)
  /\ births' = [births EXCEPT ![i] = @ + 1]
  /\ \E record \in OpsRecord : /\ record.rev = 1 /\ record.inc = births[i] + 1
                               /\ Write(r, i, record, births[i] + 1, 0)

Replacement(r, i) ==
  /\ pc[r] \in {"updateWrite", "transitionWrite"}
  /\ pc'[r] \in {"updateReread", "transitionReread"}
  /\ i = AuditKey(r)
  /\ Present(i) /\ RevisionMatches(req[r].expected, items[i])
  /\ UNCHANGED births
  /\ \E record \in OpsRecord : /\ record.rev = items[i].rev + 1
                               /\ record.inc = items[i].inc
                               /\ record.status = req[r].target
                               /\ Write(r, i, record, items[i].inc, items[i].rev)

Removal(r, i) ==
  /\ pc[r] = "deleteRemove" /\ pc'[r] = "audit"
  /\ i = AuditKey(r) /\ Present(i)
  /\ UNCHANGED births
  /\ Write(r, i, NoRecord, items[i].inc, items[i].rev)

Effect(r) == \/ NoWrite
             \/ /\ UNCHANGED <<req, copy, seen, outcome>>
                /\ \E i \in Id : Insertion(r, i) \/ Replacement(r, i) \/ Removal(r, i)

(* StoreUpdate replaces the entry or leaves everything as it is. *)
LEMMA StoreUpdateEffect ==
  ASSUME TypeOK, NEW r \in Request, NEW i \in Id, Present(i), NEW record \in OpsRecord,
         pc[r] \in {"updateWrite", "transitionWrite"},
         NEW next \in {"updateReread", "transitionReread"},
         i = AuditKey(r), record.status = req[r].target,
         StoreUpdate(r, i, record, next)
  PROVE  Effect(r)
<1>1. CASE NoWrite
  BY <1>1 DEF Effect
<1>2. CASE /\ RevisionMatches(req[r].expected, items[i])
           /\ Write(r, i, Stored(record, items[i]), items[i].inc, items[i].rev)
           /\ Goto(r, next)
           /\ UNCHANGED births
  <2>1. items[i] \in OpsRecord
    BY DEF TypeOK, Present
  <2>2. /\ Stored(record, items[i]) \in OpsRecord
        /\ Stored(record, items[i]).rev = items[i].rev + 1
        /\ Stored(record, items[i]).inc = items[i].inc
        /\ Stored(record, items[i]).status = req[r].target
    BY <2>1, StoredType
  <2>3. pc'[r] = next /\ UNCHANGED <<req, copy, seen, outcome>>
    BY <1>2 DEF Goto, TypeOK
  <2>4. Replacement(r, i)
    BY <1>2, <2>2, <2>3 DEF Replacement
  <2>. QED BY <2>3, <2>4 DEF Effect
<1>. QED BY <1>1, <1>2 DEF StoreUpdate

(* Every service call is an Effect: it writes once, or not at all.          *)
LEMMA StepEffect ==
  ASSUME TypeOK, HandlersInv, NEW r \in Request, Step(r)
  PROVE  Effect(r)
<1>. USE CanonAssumption DEF StoreKey
<1>a. ASSUME InFlight(r)
      PROVE  /\ req[r] # NoReq /\ req[r] \in OpsRequest
             /\ req[r].id \in Id /\ Canon[req[r].id] \in Id
             /\ req[r].target \in Status
             /\ pc[r] \in DOMAIN KindAt => req[r].kind = KindAt[pc[r]]
  <2>1. req[r] # NoReq
    BY <1>a DEF HandlersInv, HandlerInv
  <2>2. req[r] \in OpsRequest
    BY <2>1 DEF TypeOK
  <2>. QED BY <1>a, <2>1, <2>2 DEF OpsRequest, HandlersInv, HandlerInv
<1>1. CASE CreatePut(r)
  <2>. DEFINE i == Canon[req[r].id]
              record == [status |-> req[r].target, rev |-> 1, created |-> r,
                         body |-> r, inc |-> births[i] + 1]
  <2>1. i \in Id /\ req[r].target \in Status /\ births[i] + 1 \in Nat /\ i = AuditKey(r)
    BY <1>1, <1>a DEF CreatePut, StorePut, PolicyRejects, InFlight, TypeOK, KindAt, AuditKey
  <2>2. record \in OpsRecord /\ record.rev = 1 /\ record.inc = births[i] + 1
    BY <2>1 DEF OpsRecord, Author
  <2>3. CASE NoWrite
    BY <2>3 DEF Effect
  <2>4. CASE /\ ~Present(i)
             /\ births' = [births EXCEPT ![i] = @ + 1]
             /\ Write(r, i, record, births[i] + 1, 0)
             /\ Goto(r, "audit")
    <3>1. pc'[r] = "audit" /\ UNCHANGED <<req, copy, seen, outcome>>
      BY <2>4 DEF Goto, TypeOK
    <3>2. Insertion(r, i)
      BY <1>1, <2>1, <2>2, <2>4, <3>1 DEF Insertion, CreatePut, StorePut, PolicyRejects
    <3>. QED BY <2>1, <3>1, <3>2 DEF Effect
  <2>. QED BY <1>1, <2>3, <2>4 DEF CreatePut, StorePut, PolicyRejects
<1>2. CASE UpdateWrite(r)
  <2>. DEFINE i == Canon[req[r].id]
              record == [status |-> req[r].target, rev |-> 1, created |-> "unset",
                         body |-> r, inc |-> 0]
  <2>1. i \in Id /\ req[r].target \in Status /\ i = AuditKey(r)
    BY <1>2, <1>a DEF UpdateWrite, PolicyRejects, InFlight, KindAt, AuditKey
  <2>2. record \in OpsRecord /\ record.status = req[r].target
    BY <2>1 DEF OpsRecord, Author
  <2>3. CASE NoWrite
    BY <2>3 DEF Effect
  <2>4. CASE Reachable(r, i) /\ StoreUpdate(r, i, record, "updateReread")
    BY <1>2, <2>1, <2>2, <2>4, StoreUpdateEffect DEF Reachable, UpdateWrite, PolicyRejects
  <2>. QED BY <1>2, <2>3, <2>4 DEF UpdateWrite, PolicyRejects, Unreachable
<1>3. CASE DeleteRemove(r)
  <2>. DEFINE i == req[r].id
  <2>1. i \in Id /\ i = AuditKey(r)
    BY <1>3, <1>a DEF DeleteRemove, InFlight, KindAt, AuditKey
  <2>2. CASE NoWrite
    BY <2>2 DEF Effect
  <2>3. CASE /\ Reachable(r, i)
             /\ Write(r, i, NoRecord, items[i].inc, items[i].rev)
             /\ Goto(r, "audit")
             /\ UNCHANGED births
    <3>1. pc'[r] = "audit" /\ UNCHANGED <<req, copy, seen, outcome>>
      BY <2>3 DEF Goto, TypeOK
    <3>2. Removal(r, i)
      BY <1>3, <2>1, <2>3, <3>1 DEF Removal, DeleteRemove, Reachable
    <3>. QED BY <2>1, <3>1, <3>2 DEF Effect
  <2>. QED BY <1>3, <2>2, <2>3 DEF DeleteRemove, Unreachable
<1>4. CASE TransitionWrite(r)
  <2>. DEFINE i == req[r].id
              record == [copy[r] EXCEPT !.status = req[r].target]
  <2>1. i \in Id /\ req[r].target \in Status /\ i = AuditKey(r)
    BY <1>4, <1>a DEF TransitionWrite, InFlight, KindAt, AuditKey
  <2>2. copy[r] \in OpsRecord
    BY <1>4 DEF TransitionWrite, HandlersInv, HandlerInv, TypeOK
  <2>3. record \in OpsRecord /\ record.status = req[r].target
    BY <2>1, <2>2 DEF OpsRecord
  <2>4. CASE NoWrite
    BY <2>4 DEF Effect
  <2>5. CASE Reachable(r, i) /\ StoreUpdate(r, i, record, "transitionReread")
    BY <1>4, <2>1, <2>3, <2>5, StoreUpdateEffect DEF Reachable, TransitionWrite
  <2>. QED BY <1>4, <2>4, <2>5 DEF TransitionWrite, Unreachable
<1>5. CASE \/ UpdateReread(r) \/ TransitionRead(r) \/ TransitionReread(r)
           \/ TransitionMove(r) \/ AuditAdd(r)
  BY <1>5 DEF Effect, UpdateReread, TransitionRead, TransitionReread, TransitionMove,
              AuditAdd, Unreachable
<1>. QED BY <1>1, <1>2, <1>3, <1>4, <1>5 DEF Step

-----------------------------------------------------------------------------
(* A step belongs to one request, and leaves the handlers of all others    *)
(* alone.                                                                  *)

StepOf(r) == Arrive(r) \/ BadRequest(r) \/ Cancel(r) \/ Step(r)

Untouched(s) == UNCHANGED <<pc[s], req[s], copy[s], seen[s], outcome[s]>>

(* A handler's step leaves the locals of the other handlers alone.          *)
LEMMA OthersUntouched ==
  ASSUME TypeOK, NEW r \in Request, StepOf(r), NEW s \in Request, s # r
  PROVE  Untouched(s)
<1>1. CASE \/ CreatePut(r)      \/ UpdateWrite(r)      \/ UpdateReread(r)
           \/ DeleteRemove(r)   \/ TransitionRead(r)   \/ TransitionWrite(r)
           \/ TransitionReread(r) \/ TransitionMove(r) \/ AuditAdd(r) \/ BadRequest(r)
  <2>1. \/ \E code \in Outcome : Answer(r, code)
        \/ \E label \in Labels : Goto(r, label)
        \/ \E label \in Labels, record \in {items[req[r].id]} : GotoWith(r, label, record)
    BY <1>1 DEF CreatePut, StorePut, PolicyRejects, UpdateWrite, UpdateReread,
                DeleteRemove, TransitionRead, TransitionWrite, TransitionReread,
                TransitionMove, AuditAdd, BadRequest, Unreachable, StoreUpdate,
                Outcome, Labels
  <2>. QED BY <2>1 DEF Answer, Goto, GotoWith, TypeOK, Untouched
<1>2. CASE Arrive(r) \/ Cancel(r)
  BY <1>2 DEF Arrive, Cancel, TypeOK, Untouched, ghosts
<1>. QED BY <1>1, <1>2 DEF StepOf, Step

(* A request has written once it has taken the step that writes.           *)
LEMMA AppliedAfterWrite ==
  ASSUME NEW r, NEW i, NEW record, NEW inc, NEW over, Write(r, i, record, inc, over)
  PROVE  Applied(r)' /\ \A s : s # r => (Applied(s)' <=> Applied(s))
<1>. DEFINE c == [by |-> r, kind |-> req[r].kind, id |-> i, inc |-> inc, over |-> over,
                  expected |-> req[r].expected]
<1>1. commits' = commits \cup {c} /\ c.by = r
  BY DEF Write
<1>. HIDE DEF c
<1>. QED BY <1>1 DEF Applied

(* Without a new write nobody has written who had not.                      *)
LEMMA AppliedUnchanged ==
  ASSUME UNCHANGED commits
  PROVE  \A s : Applied(s)' <=> Applied(s)
  BY DEF Applied

(* Nor does one request's write count for another.                          *)
LEMMA AppliedByOthers ==
  ASSUME NEW r, Effect(r), NEW s, s # r
  PROVE  Applied(s)' <=> Applied(s)
  BY AppliedAfterWrite, AppliedUnchanged
     DEF Effect, Insertion, Replacement, Removal, NoWrite

(* So what holds of a handler that takes no step goes on to hold.           *)
LEMMA HandlerKept ==
  ASSUME NEW s \in Request, HandlerInv(s), Untouched(s), Applied(s)' <=> Applied(s)
  PROVE  HandlerInv(s)'
  BY DEF HandlerInv, Untouched, InFlight

(* It holds of a handler that has just returned.                            *)
LEMMA HandlerAnswered ==
  ASSUME TypeOK, NEW r \in Request, NEW code, Answer(r, code)
  PROVE  /\ HandlerInv(r)' /\ pc'[r] = "done" /\ outcome'[r] = code
         /\ req'[r] = NoReq /\ copy'[r] = NoRecord /\ seen'[r] = NoRecord
  BY DEF HandlerInv, Answer, TypeOK, InFlight, KindAt, BeforeWrite, AfterWrite

(* The handler that takes a step. *)
LEMMA HandlerStep ==
  ASSUME TypeOK, HandlersInv, NEW r \in Request, StepOf(r)
  PROVE  HandlerInv(r)'
<1>a. HandlerInv(r)
  BY DEF HandlersInv
<1>1. CASE Arrive(r)
  <2>1. PICK q \in ArrivingRequests :
          /\ req'  = [req EXCEPT ![r] = q]
          /\ pc'   = [pc EXCEPT ![r] = FirstStep[q.kind]]
    BY <1>1 DEF Arrive
  <2>2. /\ q \in OpsRequest /\ q # NoReq
        /\ q.kind \in {"create", "delete"} => q.expected = 0
    BY ArrivingType, NoReqAssumption
  <2>3. req'[r] = q /\ pc'[r] = FirstStep[q.kind] /\ copy' = copy /\ outcome' = outcome
    BY <1>1, <2>1 DEF TypeOK, Arrive
  <2>4. ~Applied(r)'
    BY <1>1, <1>a, AppliedUnchanged DEF Arrive, HandlerInv
  <2>5. outcome[r] = "none"
    BY <1>1, <1>a DEF Arrive, HandlerInv
  <2>. QED BY <2>2, <2>3, <2>4, <2>5 DEF OpsRequest, HandlerInv, FirstStep, KindAt,
         BeforeWrite, AfterWrite, InFlight
<1>2. CASE Cancel(r)
  BY <1>2, <1>a, HandlerKept, AppliedUnchanged DEF Cancel, Untouched, ghosts
<1>3. CASE \E code \in Outcome : Answer(r, code)
  BY <1>3, HandlerAnswered
<1>4. CASE CreatePut(r) /\ ~(\E code \in Outcome : Answer(r, code))
  <2>1. /\ pc'[r] = "audit" /\ UNCHANGED <<req, copy, seen, outcome>>
        /\ Applied(r)' /\ pc[r] = "createPut"
    BY <1>4, AppliedAfterWrite DEF CreatePut, StorePut, PolicyRejects, Goto, Outcome, TypeOK
  <2>. QED BY <2>1, <1>a DEF HandlerInv, KindAt, BeforeWrite, AfterWrite, InFlight
<1>5. CASE UpdateWrite(r) /\ ~(\E code \in Outcome : Answer(r, code))
  <2>1. /\ pc'[r] = "updateReread" /\ UNCHANGED <<req, copy, seen, outcome>>
        /\ Applied(r)' /\ pc[r] = "updateWrite"
    BY <1>5, AppliedAfterWrite
       DEF UpdateWrite, PolicyRejects, Unreachable, StoreUpdate, Goto, Outcome, TypeOK
  <2>. QED BY <2>1, <1>a DEF HandlerInv, KindAt, BeforeWrite, AfterWrite, InFlight
<1>6. CASE UpdateReread(r) /\ ~(\E code \in Outcome : Answer(r, code))
  <2>1. /\ pc'[r] = "audit" /\ UNCHANGED <<req, copy, seen, outcome>>
        /\ (Applied(r)' <=> Applied(r)) /\ pc[r] = "updateReread"
    BY <1>6, AppliedUnchanged DEF UpdateReread, Unreachable, Goto, Outcome, TypeOK, NoWrite
  <2>. QED BY <2>1, <1>a DEF HandlerInv, KindAt, BeforeWrite, AfterWrite, InFlight
<1>7. CASE DeleteRemove(r) /\ ~(\E code \in Outcome : Answer(r, code))
  <2>1. /\ pc'[r] = "audit" /\ UNCHANGED <<req, copy, seen, outcome>>
        /\ Applied(r)' /\ pc[r] = "deleteRemove"
    BY <1>7, AppliedAfterWrite DEF DeleteRemove, Unreachable, Goto, Outcome, TypeOK
  <2>. QED BY <2>1, <1>a DEF HandlerInv, KindAt, BeforeWrite, AfterWrite, InFlight
<1>8. CASE TransitionRead(r) /\ ~(\E code \in Outcome : Answer(r, code))
  <2>. DEFINE i == req[r].id
  <2>1. /\ pc[r] = "transitionRead" /\ NoWrite
        /\ GotoWith(r, "transitionWrite", items[i])
        /\ items[i] # NoRecord
        /\ RevisionMatches(req[r].expected, items[i])
        /\ CanMove(items[i].status, req[r].target)
    BY <1>8 DEF TransitionRead, Unreachable, Outcome, Reachable, Present
  <2>2. /\ pc'[r] = "transitionWrite" /\ UNCHANGED <<req, seen, outcome>>
        /\ copy'[r] = items[i]
        /\ Applied(r)' <=> Applied(r)
    BY <2>1, AppliedUnchanged DEF GotoWith, TypeOK, NoWrite
  <2>3. ~Applied(r)' /\ req[r] # NoReq /\ req[r].kind = "transition" /\ outcome[r] = "none"
    BY <2>1, <2>2, <1>a DEF HandlerInv, KindAt, BeforeWrite, InFlight
  <2>. QED BY <2>1, <2>2, <2>3 DEF HandlerInv, KindAt, BeforeWrite, AfterWrite, InFlight
<1>9. CASE TransitionWrite(r) /\ ~(\E code \in Outcome : Answer(r, code))
  <2>1. /\ pc'[r] = "transitionReread" /\ UNCHANGED <<req, copy, seen, outcome>>
        /\ Applied(r)' /\ pc[r] = "transitionWrite"
    BY <1>9, AppliedAfterWrite
       DEF TransitionWrite, Unreachable, StoreUpdate, Goto, Outcome, TypeOK
  <2>. QED BY <2>1, <1>a DEF HandlerInv, KindAt, BeforeWrite, AfterWrite, InFlight
<1>10. CASE TransitionReread(r) /\ ~(\E code \in Outcome : Answer(r, code))
  <2>. DEFINE i == req[r].id
  <2>1. /\ pc[r] = "transitionReread" /\ NoWrite
        /\ GotoWith(r, "transitionMove", items[i])
        /\ items[i] # NoRecord
    BY <1>10 DEF TransitionReread, Unreachable, Outcome, Reachable, Present
  <2>2. /\ pc'[r] = "transitionMove" /\ UNCHANGED <<req, seen, outcome>>
        /\ copy'[r] = items[i]
        /\ Applied(r)' <=> Applied(r)
    BY <2>1, AppliedUnchanged DEF GotoWith, TypeOK, NoWrite
  <2>3. Applied(r)' /\ req[r] # NoReq /\ req[r].kind = "transition" /\ outcome[r] = "none"
    BY <2>1, <2>2, <1>a DEF HandlerInv, KindAt, AfterWrite, InFlight
  <2>. QED BY <2>1, <2>2, <2>3 DEF HandlerInv, KindAt, BeforeWrite, AfterWrite, InFlight
<1>11. CASE TransitionMove(r) /\ ~(\E code \in Outcome : Answer(r, code))
  <2>1. /\ pc'[r] = "audit" /\ UNCHANGED <<req, copy, seen, outcome>>
        /\ (Applied(r)' <=> Applied(r)) /\ pc[r] = "transitionMove"
    BY <1>11, AppliedUnchanged DEF TransitionMove, Goto, Outcome, TypeOK, NoWrite
  <2>. QED BY <2>1, <1>a DEF HandlerInv, KindAt, BeforeWrite, AfterWrite, InFlight
<1>12. CASE (BadRequest(r) \/ AuditAdd(r)) /\ ~(\E code \in Outcome : Answer(r, code))
  BY <1>12 DEF BadRequest, AuditAdd, Outcome
<1>. QED BY <1>1, <1>2, <1>3, <1>4, <1>5, <1>6, <1>7, <1>8, <1>9, <1>10, <1>11, <1>12
     DEF StepOf, Step

-----------------------------------------------------------------------------
(* The store, under the three ways of changing it.                         *)

(* An insertion keeps lives and chains: it begins a creation.               *)
LEMMA InsertionStep ==
  ASSUME TypeOK, HandlersInv, LivesInv, ChainInv, IdsAreCanonical,
         NEW r \in Request, NEW i \in Id, Insertion(r, i)
  PROVE  LivesInv' /\ ChainInv' /\ IdsAreCanonical'
<1>1. PICK record \in OpsRecord : /\ record.rev = 1 /\ record.inc = births[i] + 1
                                  /\ Write(r, i, record, births[i] + 1, 0)
  BY DEF Insertion
<1>. DEFINE c == [by |-> r, kind |-> req[r].kind, id |-> i, inc |-> births[i] + 1,
                  over |-> 0, expected |-> req[r].expected]
<1>2. /\ items' = [items EXCEPT ![i] = record]
      /\ births' = [births EXCEPT ![i] = births[i] + 1]
      /\ commits' = commits \cup {c}
      /\ ~Present(i) /\ record # NoRecord
  BY <1>1, NoRecordAssumption DEF Write, Insertion
<1>3. /\ c.id = i /\ c.inc = births[i] + 1 /\ c.over = 0 /\ c.expected = 0
  BY DEF Insertion, HandlersInv, HandlerInv, KindAt, InFlight
<1>4. \A d \in commits : d.id \in Id /\ d.inc \in Nat /\ d.over \in Nat /\ d.expected \in Nat
  BY DEF TypeOK, Commit
<1>. HIDE DEF c
<1>5. LivesInv'
  BY <1>1, <1>2 DEF LivesInv, TypeOK, Present
<1>6. IdsAreCanonical'
  <2>1. i = Canon[i]
    <3>1. req[r] \in OpsRequest
      BY DEF Insertion, HandlersInv, HandlerInv, InFlight, TypeOK
    <3>. QED BY <3>1, CanonAssumption DEF Insertion, OpsRequest
  <2>. QED BY <1>2, <2>1 DEF IdsAreCanonical, TypeOK, Present
<1>7. births[i] \in Nat /\ births'[i] = births[i] + 1
      /\ \A j \in Id \ {i} : births'[j] = births[j] /\ items'[j] = items[j]
  BY <1>2 DEF TypeOK
<1>8. items'[i] = record
  BY <1>2 DEF TypeOK
<1>9. \A d \in commits' :
        /\ d.inc <= births'[d.id]
        /\ Present(d.id)' /\ d.inc = births'[d.id] => d.over < items'[d.id].rev
        /\ d.expected > 0 => d.expected = d.over
  <2>1. ASSUME NEW d \in commits
        PROVE  /\ d.inc <= births'[d.id]
               /\ Present(d.id)' /\ d.inc = births'[d.id] => d.over < items'[d.id].rev
               /\ d.expected > 0 => d.expected = d.over
    <3>1. CASE d.id = i
      BY <1>4, <1>7, <3>1 DEF ChainInv
    <3>2. CASE d.id # i
      BY <1>4, <1>7, <3>2 DEF ChainInv, Present
    <3>. QED BY <3>1, <3>2
  <2>. QED BY <1>1, <1>2, <1>3, <1>7, <1>8, <2>1
<1>10. \A d \in commits : SameLife(c, d) => FALSE
  BY <1>3, <1>4, <1>7 DEF SameLife, ChainInv
<1>11. \A d, e \in commits' : d # e /\ SameLife(d, e) => d.over # e.over
  BY <1>2, <1>10 DEF SameLife, ChainInv
<1>. QED BY <1>5, <1>6, <1>9, <1>11 DEF ChainInv, SameLife

(* A replacement extends the chain of the creation it belongs to.           *)
LEMMA ReplacementStep ==
  ASSUME TypeOK, HandlersInv, LivesInv, ChainInv, IdsAreCanonical,
         NEW r \in Request, NEW i \in Id, Replacement(r, i)
  PROVE  LivesInv' /\ ChainInv' /\ IdsAreCanonical'
<1>1. PICK record \in OpsRecord : /\ record.rev = items[i].rev + 1
                                  /\ record.inc = items[i].inc
                                  /\ Write(r, i, record, items[i].inc, items[i].rev)
  BY DEF Replacement
<1>. DEFINE c == [by |-> r, kind |-> req[r].kind, id |-> i, inc |-> items[i].inc,
                  over |-> items[i].rev, expected |-> req[r].expected]
<1>2. /\ items' = [items EXCEPT ![i] = record]
      /\ births' = births
      /\ commits' = commits \cup {c}
      /\ Present(i) /\ record # NoRecord
  BY <1>1, NoRecordAssumption DEF Write, Replacement
<1>3. /\ items[i].rev \in Nat /\ items[i].inc = births[i] /\ births[i] \in Nat
  BY <1>2 DEF TypeOK, Present, OpsRecord, LivesInv
<1>4. /\ c.id = i /\ c.inc = births[i] /\ c.over = items[i].rev
      /\ c.expected > 0 => c.expected = items[i].rev
  BY <1>3 DEF Replacement, RevisionMatches
<1>5. \A d \in commits : d.id \in Id /\ d.inc \in Nat /\ d.over \in Nat
  BY DEF TypeOK, Commit
<1>. HIDE DEF c
<1>6. /\ items'[i] = record /\ Present(i)'
      /\ \A j \in Id \ {i} : items'[j] = items[j]
  BY <1>2 DEF TypeOK, Present
<1>7. LivesInv'
  BY <1>1, <1>2, <1>3, <1>6 DEF LivesInv, Present
<1>8. IdsAreCanonical'
  BY <1>2, <1>6 DEF IdsAreCanonical, Present
<1>9. \A d \in commits' :
        /\ d.inc <= births'[d.id]
        /\ Present(d.id)' /\ d.inc = births'[d.id] => d.over < items'[d.id].rev
        /\ d.expected > 0 => d.expected = d.over
  <2>1. ASSUME NEW d \in commits
        PROVE  /\ d.inc <= births'[d.id]
               /\ Present(d.id)' /\ d.inc = births'[d.id] => d.over < items'[d.id].rev
               /\ d.expected > 0 => d.expected = d.over
    <3>1. CASE d.id = i
      BY <1>1, <1>2, <1>3, <1>5, <1>6, <3>1 DEF ChainInv
    <3>2. CASE d.id # i
      BY <1>2, <1>5, <1>6, <3>2 DEF ChainInv, Present
    <3>. QED BY <3>1, <3>2
  <2>. QED BY <1>1, <1>2, <1>3, <1>4, <1>6, <2>1
<1>10. \A d \in commits : SameLife(c, d) => d.over # c.over
  BY <1>2, <1>3, <1>4, <1>5 DEF SameLife, ChainInv
<1>11. \A d, e \in commits' : d # e /\ SameLife(d, e) => d.over # e.over
  BY <1>2, <1>10 DEF SameLife, ChainInv
<1>. QED BY <1>7, <1>8, <1>9, <1>11 DEF ChainInv, SameLife

(* A removal ends the chain.                                                *)
LEMMA RemovalStep ==
  ASSUME TypeOK, HandlersInv, LivesInv, ChainInv, IdsAreCanonical,
         NEW r \in Request, NEW i \in Id, Removal(r, i)
  PROVE  LivesInv' /\ ChainInv' /\ IdsAreCanonical'
<1>. DEFINE c == [by |-> r, kind |-> req[r].kind, id |-> i, inc |-> items[i].inc,
                  over |-> items[i].rev, expected |-> req[r].expected]
<1>1. /\ items' = [items EXCEPT ![i] = NoRecord]
      /\ births' = births
      /\ commits' = commits \cup {c}
      /\ Present(i)
  BY DEF Write, Removal
<1>2. /\ items[i].rev \in Nat /\ items[i].inc = births[i] /\ births[i] \in Nat
  BY <1>1 DEF TypeOK, Present, OpsRecord, LivesInv
<1>3. c.id = i /\ c.inc = births[i] /\ c.over = items[i].rev /\ c.expected = 0
  BY <1>2 DEF Removal, HandlersInv, HandlerInv, KindAt, InFlight
<1>4. \A d \in commits : d.id \in Id /\ d.inc \in Nat /\ d.over \in Nat
  BY DEF TypeOK, Commit
<1>. HIDE DEF c
<1>5. /\ ~Present(i)'
      /\ \A j \in Id \ {i} : items'[j] = items[j]
  BY <1>1 DEF TypeOK, Present
<1>6. LivesInv'
  BY <1>1, <1>5 DEF LivesInv, Present
<1>7. IdsAreCanonical'
  BY <1>1, <1>5 DEF IdsAreCanonical, Present
<1>8. \A d \in commits' :
        /\ d.inc <= births'[d.id]
        /\ Present(d.id)' /\ d.inc = births'[d.id] => d.over < items'[d.id].rev
        /\ d.expected > 0 => d.expected = d.over
  BY <1>1, <1>2, <1>3, <1>4, <1>5 DEF ChainInv, Present
<1>9. \A d \in commits : SameLife(c, d) => d.over # c.over
  BY <1>1, <1>2, <1>3, <1>4 DEF SameLife, ChainInv
<1>10. \A d, e \in commits' : d # e /\ SameLife(d, e) => d.over # e.over
  BY <1>1, <1>9 DEF SameLife, ChainInv
<1>. QED BY <1>6, <1>7, <1>8, <1>10 DEF ChainInv, SameLife

(* So every effect keeps the part of the invariant about the store.         *)
LEMMA StoreStep ==
  ASSUME TypeOK, HandlersInv, LivesInv, ChainInv, IdsAreCanonical,
         NEW r \in Request, Effect(r)
  PROVE  LivesInv' /\ ChainInv' /\ IdsAreCanonical'
<1>1. CASE NoWrite
  BY <1>1 DEF NoWrite, LivesInv, ChainInv, IdsAreCanonical, Present, SameLife
<1>. QED BY <1>1, InsertionStep, ReplacementStep, RemovalStep DEF Effect

-----------------------------------------------------------------------------
(* Copies of records that handlers and clients hold on to.                 *)

(* A copy just taken is not ahead of its entry. *)
LEMMA FreshCopy ==
  ASSUME TypeOK, LivesInv, NEW i \in Id
  PROVE  NotAheadOf(items[i], i)
<1>1. items[i] # NoRecord => items[i] \in OpsRecord
  BY DEF TypeOK
<1>. QED BY <1>1 DEF NotAheadOf, LivesInv, Present, OpsRecord, TypeOK

(* Nor does a write by anyone put an older copy ahead of it. *)
LEMMA CopyNotAhead ==
  ASSUME TypeOK, LivesInv, NEW i \in Id, NEW r \in Request, Effect(r),
         NEW old \in OpsRecord \cup {NoRecord}, NotAheadOf(old, i)
  PROVE  /\ old # NoRecord =>
           /\ old.inc <= births'[i]
           /\ items'[i] # NoRecord /\ items'[i].inc = old.inc =>
                /\ old.rev <= items'[i].rev
                /\ old.rev = items'[i].rev => old = items'[i]
<1>. SUFFICES ASSUME old # NoRecord
     PROVE  /\ old.inc <= births'[i]
            /\ items'[i] # NoRecord /\ items'[i].inc = old.inc =>
                 /\ old.rev <= items'[i].rev
                 /\ old.rev = items'[i].rev => old = items'[i]
  OBVIOUS
<1>1. /\ old.inc \in Nat /\ old.rev \in Nat /\ births[i] \in Nat
      /\ old.inc <= births[i]
      /\ Present(i) /\ items[i].inc = old.inc =>
           /\ old.rev <= items[i].rev
           /\ old.rev = items[i].rev => old = items[i]
  BY DEF NotAheadOf, OpsRecord, TypeOK
<1>2. CASE NoWrite
  BY <1>1, <1>2 DEF NoWrite, Present
<1>3. ASSUME NEW j \in Id, Insertion(r, j)
      PROVE  /\ old.inc <= births'[i]
             /\ items'[i] # NoRecord /\ items'[i].inc = old.inc =>
                  /\ old.rev <= items'[i].rev
                  /\ old.rev = items'[i].rev => old = items'[i]
  <2>1. PICK record \in OpsRecord : /\ record.inc = births[j] + 1
                                    /\ items' = [items EXCEPT ![j] = record]
                                    /\ births' = [births EXCEPT ![j] = births[j] + 1]
    BY <1>3 DEF Insertion, Write
  <2>2. CASE i = j
    BY <1>1, <2>1, <2>2 DEF TypeOK
  <2>3. CASE i # j
    BY <1>1, <2>1, <2>3 DEF TypeOK, Present
  <2>. QED BY <2>2, <2>3
<1>4. ASSUME NEW j \in Id, Replacement(r, j)
      PROVE  /\ old.inc <= births'[i]
             /\ items'[i] # NoRecord /\ items'[i].inc = old.inc =>
                  /\ old.rev <= items'[i].rev
                  /\ old.rev = items'[i].rev => old = items'[i]
  <2>1. PICK record \in OpsRecord : /\ record.rev = items[j].rev + 1
                                    /\ record.inc = items[j].inc
                                    /\ items' = [items EXCEPT ![j] = record]
                                    /\ births' = births
                                    /\ Present(j)
    BY <1>4 DEF Replacement, Write
  <2>2. items[j].rev \in Nat
    BY <2>1 DEF TypeOK, Present, OpsRecord
  <2>3. CASE i = j
    BY <1>1, <2>1, <2>2, <2>3 DEF TypeOK
  <2>4. CASE i # j
    BY <1>1, <2>1, <2>4 DEF TypeOK, Present
  <2>. QED BY <2>3, <2>4
<1>5. ASSUME NEW j \in Id, Removal(r, j)
      PROVE  /\ old.inc <= births'[i]
             /\ items'[i] # NoRecord /\ items'[i].inc = old.inc =>
                  /\ old.rev <= items'[i].rev
                  /\ old.rev = items'[i].rev => old = items'[i]
  <2>1. items' = [items EXCEPT ![j] = NoRecord] /\ births' = births
    BY <1>5 DEF Removal, Write
  <2>. QED BY <1>1, <2>1 DEF TypeOK, Present
<1>. QED BY <1>2, <1>3, <1>4, <1>5 DEF Effect

(* The copies a step leaves a handler with: the ones it had, none, or one  *)
(* it has just taken from an entry that the step does not change.          *)
LEMMA CopyAfterStep ==
  ASSUME TypeOK, HandlersInv, NEW r \in Request, StepOf(r), req'[r] # NoReq
  PROVE  \/ req'[r] = req[r] /\ seen'[r] = seen[r] /\ copy'[r] = copy[r]
         \/ /\ NoWrite /\ req'[r] = req[r] /\ seen'[r] = seen[r]
            /\ copy'[r] = items[req[r].id]
         \/ /\ NoWrite /\ req'[r] \in OpsRequest /\ copy'[r] = NoRecord
            /\ seen'[r] = items[Canon[req'[r].id]]
<1>1. CASE Arrive(r)
  <2>1. PICK q \in ArrivingRequests :
          /\ req'  = [req EXCEPT ![r] = q]
          /\ seen' = [seen EXCEPT ![r] = items[Canon[q.id]]]
    BY <1>1 DEF Arrive
  <2>2. q \in OpsRequest
    BY ArrivingType
  <2>3. copy[r] = NoRecord /\ copy' = copy /\ NoWrite
    BY <1>1 DEF Arrive, HandlersInv, HandlerInv, NoWrite
  <2>. QED BY <2>1, <2>2, <2>3 DEF TypeOK
<1>2. CASE Cancel(r)
  BY <1>2 DEF Cancel, ghosts
<1>3. ASSUME NEW code, Answer(r, code) PROVE FALSE
  BY <1>3, HandlerAnswered
<1>4. CASE \E label : Goto(r, label)
  BY <1>4 DEF Goto
<1>5. CASE NoWrite /\ \E label : GotoWith(r, label, items[req[r].id])
  BY <1>5 DEF GotoWith, TypeOK
<1>6. CASE Step(r) \/ BadRequest(r)
  BY <1>3, <1>4, <1>5, <1>6
     DEF Step, CreatePut, StorePut, PolicyRejects, UpdateWrite, UpdateReread,
         DeleteRemove, TransitionRead, TransitionWrite, TransitionReread,
         TransitionMove, AuditAdd, BadRequest, Unreachable, StoreUpdate
<1>. QED BY <1>1, <1>2, <1>6 DEF StepOf

(* Hence a revision goes on to name one content.                            *)
LEMMA ContentStep ==
  ASSUME TypeOK, HandlersInv, LivesInv, RevisionNamesContent,
         NEW r \in Request, StepOf(r), Effect(r)
  PROVE  RevisionNamesContent'
<1>. SUFFICES ASSUME NEW s \in Request, req'[s] # NoReq
     PROVE  NotAheadOf(seen[s], Canon[req[s].id])' /\ NotAheadOf(copy[s], req[s].id)'
  BY DEF RevisionNamesContent
<1>. USE CanonAssumption
<1>1. ASSUME req'[s] = req[s]
      PROVE  /\ req[s].id \in Id /\ Canon[req[s].id] \in Id
             /\ NotAheadOf(seen[s], Canon[req[s].id]) /\ NotAheadOf(copy[s], req[s].id)
             /\ seen[s] \in OpsRecord \cup {NoRecord} /\ copy[s] \in OpsRecord \cup {NoRecord}
  BY <1>1 DEF RevisionNamesContent, TypeOK, OpsRequest
<1>2. ASSUME req'[s] = req[s], seen'[s] = seen[s], copy'[s] = copy[s]
      PROVE  NotAheadOf(seen[s], Canon[req[s].id])' /\ NotAheadOf(copy[s], req[s].id)'
  BY <1>1, <1>2, CopyNotAhead DEF NotAheadOf, Present
<1>3. CASE s # r
  BY <1>2, <1>3, OthersUntouched DEF Untouched
<1>4. ASSUME s = r, NoWrite, req'[s] = req[s], seen'[s] = seen[s], copy'[s] = items[req[s].id]
      PROVE  NotAheadOf(seen[s], Canon[req[s].id])' /\ NotAheadOf(copy[s], req[s].id)'
  <2>1. NotAheadOf(items[req[s].id], req[s].id)
    BY <1>1, <1>4, FreshCopy
  <2>. QED BY <1>1, <1>4, <2>1 DEF NotAheadOf, Present, NoWrite
<1>5. ASSUME s = r, NoWrite, req'[s] \in OpsRequest, copy'[s] = NoRecord,
             seen'[s] = items[Canon[req'[s].id]]
      PROVE  NotAheadOf(seen[s], Canon[req[s].id])' /\ NotAheadOf(copy[s], req[s].id)'
  <2>1. Canon[req'[s].id] \in Id
    BY <1>5 DEF OpsRequest
  <2>2. NotAheadOf(items[Canon[req'[s].id]], Canon[req'[s].id])
    BY <2>1, FreshCopy
  <2>. QED BY <1>5, <2>2 DEF NotAheadOf, Present, NoWrite
<1>. QED BY <1>2, <1>3, <1>4, <1>5, CopyAfterStep

-----------------------------------------------------------------------------
(* Where in a handler an answer comes from. *)
LEMMA AnswerCause ==
  ASSUME TypeOK, HandlersInv, NEW r \in Request, StepOf(r), pc'[r] = "done"
  PROVE  /\ UNCHANGED commits
         /\ \/ outcome'[r] = "ok" /\ pc[r] = "audit"
            \/ /\ outcome'[r] \in {"conflict", "policy", "invalid"}
               /\ pc[r] \in BeforeWrite \cup {"idle"}
            \/ outcome'[r] \in {"not_found", "internal", "transition"}
<1>1. CASE Arrive(r)
  <2>1. PICK q \in ArrivingRequests : pc' = [pc EXCEPT ![r] = FirstStep[q.kind]]
    BY <1>1 DEF Arrive
  <2>. QED BY <2>1, ArrivingType DEF TypeOK, FirstStep, OpsRequest
<1>2. CASE Cancel(r)
  BY <1>2 DEF Cancel, InFlight
<1>3. ASSUME NEW label \in Labels \ {"done"}, Goto(r, label) PROVE FALSE
  BY <1>3 DEF Goto, TypeOK
<1>4. ASSUME NEW label \in Labels \ {"done"}, NEW record, GotoWith(r, label, record)
      PROVE  FALSE
  BY <1>4 DEF GotoWith, TypeOK
<1>5. ASSUME NEW code, Answer(r, code) PROVE outcome'[r] = code
  BY <1>5 DEF Answer, TypeOK
<1>6. CASE \/ CreatePut(r) \/ UpdateWrite(r) \/ DeleteRemove(r) \/ TransitionRead(r)
           \/ TransitionWrite(r) \/ BadRequest(r)
  BY <1>3, <1>4, <1>5, <1>6
     DEF CreatePut, StorePut, PolicyRejects, UpdateWrite, DeleteRemove, TransitionRead,
         TransitionWrite, BadRequest, Unreachable, StoreUpdate, NoWrite, BeforeWrite,
         Labels
<1>7. CASE UpdateReread(r) \/ TransitionReread(r) \/ TransitionMove(r) \/ AuditAdd(r)
  BY <1>3, <1>4, <1>5, <1>7
     DEF UpdateReread, TransitionReread, TransitionMove, AuditAdd, Unreachable, NoWrite,
         Labels
<1>. QED BY <1>1, <1>2, <1>6, <1>7 DEF StepOf, Step

(* Hence answers stay honest.                                               *)
LEMMA HonestStep ==
  ASSUME TypeOK, HandlersInv, AnswersAreHonest, NEW r \in Request, StepOf(r), Effect(r)
  PROVE  AnswersAreHonest'
<1>. SUFFICES ASSUME NEW s \in Request
     PROVE  /\ outcome'[s] = "ok" => Applied(s)'
            /\ outcome'[s] \in {"conflict", "policy", "invalid"} => ~Applied(s)'
  BY DEF AnswersAreHonest
<1>1. CASE s # r
  BY <1>1, OthersUntouched, AppliedByOthers DEF Untouched, AnswersAreHonest
<1>2. CASE s = r /\ pc'[r] # "done"
  BY <1>2, HandlerStep DEF HandlerInv
<1>3. CASE s = r /\ pc'[r] = "done"
  <2>1. Applied(r)' <=> Applied(r)
    BY <1>3, AnswerCause, AppliedUnchanged
  <2>. QED BY <1>3, <2>1, AnswerCause DEF HandlersInv, HandlerInv, AfterWrite
<1>. QED BY <1>1, <1>2, <1>3

(* Steps that are no step of a handler's service calls write nothing. *)
LEMMA AnyEffect ==
  ASSUME TypeOK, HandlersInv, NEW r \in Request, StepOf(r)
  PROVE  Effect(r)
  BY StepEffect DEF StepOf, Arrive, BadRequest, Cancel, Effect, NoWrite, ghosts

-----------------------------------------------------------------------------
(* A request's own write, until it is answered. *)

(* What an effect adds to the history of writes, and what it leaves.       *)
LEMMA EffectCommit ==
  ASSUME Inductive, NEW r \in Request, NEW i \in Id,
         Insertion(r, i) \/ Replacement(r, i) \/ Removal(r, i)
  PROVE  \E c : /\ commits' = commits \cup {c}
                /\ c.by = r /\ c.kind = req[r].kind /\ c.id = i
                /\ ~Applied(r) /\ i = AuditKey(r) /\ Canon[i] = i
                /\ \A j \in Id \ {i} : items'[j] = items[j]
                /\ Present(i) => c.inc = items[i].inc /\ c.over = items[i].rev
                /\ pc'[r] \in {"updateReread", "transitionReread", "audit"}
                /\ items'[i] # NoRecord => ResultOf(c, items'[i])
                /\ pc'[r] \in {"updateReread", "transitionReread"} =>
                     items'[i] # NoRecord /\ items'[i].status = req[r].target
<1>. USE DEF Inductive
<1>1. ~Applied(r)
  BY DEF Insertion, Replacement, Removal, HandlersInv, HandlerInv, BeforeWrite
<1>2. items \in [Id -> OpsRecord \cup {NoRecord}]
  BY DEF TypeOK
<1>3. CASE Insertion(r, i)
  <2>1. PICK record \in OpsRecord : /\ record.rev = 1 /\ record.inc = births[i] + 1
                                    /\ Write(r, i, record, births[i] + 1, 0)
    BY <1>3 DEF Insertion
  <2>. DEFINE c == [by |-> r, kind |-> req[r].kind, id |-> i, inc |-> births[i] + 1,
                    over |-> 0, expected |-> req[r].expected]
  <2>2. commits' = commits \cup {c} /\ c.by = r /\ c.kind = req[r].kind /\ c.id = i
    BY <2>1 DEF Write
  <2>3. req[r] \in OpsRequest
    BY <1>3 DEF Insertion, HandlersInv, HandlerInv, InFlight, TypeOK
  <2>4. Canon[i] = i
    BY <1>3, <2>3, CanonAssumption DEF Insertion, OpsRequest
  <2>5. items'[i] = record /\ \A j \in Id \ {i} : items'[j] = items[j]
    BY <1>2, <2>1 DEF Write
  <2>6. i = AuditKey(r) /\ ~Present(i) /\ pc'[r] = "audit"
    BY <1>3 DEF Insertion
  <2>7. ResultOf(c, items'[i])
    BY <2>1, <2>5 DEF ResultOf
  <2>. HIDE DEF c
  <2>. QED BY <1>1, <2>2, <2>4, <2>5, <2>6, <2>7
<1>4. CASE Replacement(r, i)
  <2>1. PICK record \in OpsRecord : /\ record.rev = items[i].rev + 1
                                    /\ record.inc = items[i].inc
                                    /\ record.status = req[r].target
                                    /\ Write(r, i, record, items[i].inc, items[i].rev)
    BY <1>4 DEF Replacement
  <2>. DEFINE c == [by |-> r, kind |-> req[r].kind, id |-> i, inc |-> items[i].inc,
                    over |-> items[i].rev, expected |-> req[r].expected]
  <2>2. commits' = commits \cup {c} /\ c.by = r /\ c.kind = req[r].kind /\ c.id = i
        /\ c.inc = items[i].inc /\ c.over = items[i].rev
    BY <2>1 DEF Write
  <2>3. Canon[i] = i
    BY <1>4 DEF Replacement, IdsAreCanonical
  <2>4. items'[i] = record /\ \A j \in Id \ {i} : items'[j] = items[j]
    BY <1>2, <2>1 DEF Write
  <2>5. i = AuditKey(r) /\ pc'[r] \in {"updateReread", "transitionReread"}
    BY <1>4 DEF Replacement
  <2>6. ResultOf(c, items'[i])
    BY <2>1, <2>4 DEF ResultOf
  <2>. HIDE DEF c
  <2>. QED BY <1>1, <2>1, <2>2, <2>3, <2>4, <2>5, <2>6, NoRecordAssumption
<1>5. CASE Removal(r, i)
  <2>. DEFINE c == [by |-> r, kind |-> req[r].kind, id |-> i, inc |-> items[i].inc,
                    over |-> items[i].rev, expected |-> req[r].expected]
  <2>1. commits' = commits \cup {c} /\ c.by = r /\ c.kind = req[r].kind /\ c.id = i
        /\ c.inc = items[i].inc /\ c.over = items[i].rev
    BY <1>5 DEF Removal, Write
  <2>2. Canon[i] = i
    BY <1>5 DEF Removal, IdsAreCanonical
  <2>3. items'[i] = NoRecord /\ \A j \in Id \ {i} : items'[j] = items[j]
    BY <1>2, <1>5 DEF Removal, Write
  <2>4. i = AuditKey(r) /\ pc'[r] = "audit"
    BY <1>5 DEF Removal
  <2>. HIDE DEF c
  <2>. QED BY <1>1, <2>1, <2>2, <2>3, <2>4
<1>. QED BY <1>3, <1>4, <1>5

(* A step is taken by a request that has not been answered.                *)
LEMMA StepIsOfLive ==
  ASSUME NEW r \in Request, StepOf(r)
  PROVE  pc[r] # "done"
  BY DEF StepOf, Step, Arrive, BadRequest, Cancel, CreatePut, UpdateWrite, UpdateReread,
         DeleteRemove, TransitionRead, TransitionWrite, TransitionReread, TransitionMove,
         AuditAdd, InFlight

(* After its write a request is answered, goes to the audit trail, or reads *)
(* the record for its move.                                                 *)
LEMMA StepAfterWrite ==
  ASSUME TypeOK, HandlersInv, NEW r \in Request, StepOf(r), Applied(r)
  PROVE  \/ pc'[r] = "done"
         \/ pc'[r] = "audit" /\ req'[r] = req[r]
         \/ pc'[r] = pc[r] /\ req'[r] = req[r] /\ copy'[r] = copy[r]
         \/ /\ pc[r] = "transitionReread" /\ pc'[r] = "transitionMove"
            /\ req'[r] = req[r] /\ copy'[r] = items[req[r].id] /\ Present(req[r].id)
<1>1. pc[r] \notin BeforeWrite \cup {"idle"}
  BY DEF HandlersInv, HandlerInv
<1>2. ASSUME NEW code, Answer(r, code) PROVE pc'[r] = "done"
  BY <1>2 DEF Answer, TypeOK
<1>3. ASSUME NEW label, Goto(r, label) PROVE pc'[r] = label /\ req'[r] = req[r]
  BY <1>3 DEF Goto, TypeOK
<1>4. CASE Cancel(r)
  BY <1>4 DEF Cancel
<1>5. CASE TransitionReread(r)
  <2>1. ASSUME GotoWith(r, "transitionMove", items[req[r].id])
        PROVE  /\ pc'[r] = "transitionMove" /\ req'[r] = req[r]
               /\ copy'[r] = items[req[r].id]
    BY <2>1 DEF GotoWith, TypeOK
  <2>. QED BY <1>2, <1>5, <2>1 DEF TransitionReread, Unreachable, Reachable
<1>6. CASE UpdateReread(r) \/ TransitionMove(r) \/ AuditAdd(r)
  BY <1>2, <1>3, <1>6 DEF UpdateReread, TransitionMove, AuditAdd, Unreachable
<1>. QED BY <1>1, <1>4, <1>5, <1>6
     DEF StepOf, Step, Arrive, BadRequest, CreatePut, UpdateWrite, DeleteRemove,
         TransitionRead, TransitionWrite, BeforeWrite

(* A later write of the same record stays later. *)
LEMMA StaysOvertaken ==
  ASSUME NEW c, Overtaken(c), commits \subseteq commits'
  PROVE  Overtaken(c)'
  BY DEF Overtaken, After

(* What stands in an entry after others have written it is the result of   *)
(* one of them.                                                            *)
LEMMA OvertakenEntry ==
  ASSUME Inductive, NEW c \in commits, Present(c.id), Overtaken(c)
  PROVE  \E d \in commits : After(d, c) /\ ResultOf(d, items[c.id])
<1>. USE DEF Inductive
<1>1. PICK d \in commits : d.id = c.id /\ ResultOf(d, items[c.id])
  BY DEF LastWriteInv
<1>2. PICK e \in commits : After(e, c)
  BY DEF Overtaken
<1>3. /\ c.id \in Id /\ c.inc \in Nat /\ c.over \in Nat
      /\ d.inc \in Nat /\ d.over \in Nat /\ e.inc \in Nat /\ e.over \in Nat
      /\ births[c.id] \in Nat
  BY DEF TypeOK, Commit
<1>4. d.inc = births[c.id] /\ items[c.id].rev = d.over + 1
  BY <1>1, <1>3 DEF ResultOf, LivesInv
<1>5. e.id = c.id /\ e.inc <= births[c.id] /\ (e.inc = births[c.id] => e.over < d.over + 1)
  BY <1>2, <1>4 DEF After, ChainInv
<1>6. After(d, c)
  BY <1>1, <1>2, <1>3, <1>4, <1>5 DEF After
<1>. QED BY <1>1, <1>6

(* What OwnWriteInv says of one write. *)
OwnWrite(c) ==
  /\ \A d \in commits : d.by = c.by => d = c
  /\ Canon[c.id] = c.id
  /\ pc[c.by] # "done" => c.kind = req[c.by].kind /\ c.id = AuditKey(c.by)
  /\ pc[c.by] \in {"updateReread", "transitionReread"} => StandsAsWritten(c) \/ Overtaken(c)
  /\ pc[c.by] = "transitionMove" =>
       \/ copy[c.by].status = req[c.by].target
       \/ \E d \in commits : After(d, c) /\ ResultOf(d, copy[c.by])

(* A step that writes nothing keeps what is known of every write. *)
LEMMA OwnWriteKept ==
  ASSUME Inductive, NEW r \in Request, StepOf(r), NoWrite, NEW c \in commits
  PROVE  OwnWrite(c)'
<1>. USE DEF Inductive
<1>1. UNCHANGED <<items, commits>> /\ c.by \in Request
  BY DEF NoWrite, TypeOK, Commit
<1>2. OwnWrite(c)
  BY DEF OwnWriteInv, OwnWrite
<1>3. Overtaken(c) => Overtaken(c)'
  BY <1>1, StaysOvertaken
<1>4. CASE pc'[c.by] = pc[c.by] /\ req'[c.by] = req[c.by] /\ copy'[c.by] = copy[c.by]
  BY <1>1, <1>2, <1>3, <1>4
     DEF OwnWrite, AuditKey, StoreKey, StandsAsWritten, Present, After, ResultOf
<1>5. CASE c.by # r
  BY <1>1, <1>4, <1>5, OthersUntouched DEF Untouched
<1>6. CASE c.by = r
  <2>1. Applied(r) /\ pc[r] # "done"
    BY <1>6, StepIsOfLive DEF Applied
  <2>2. CASE pc'[r] = "done"
    BY <1>1, <1>2, <1>6, <2>2 DEF OwnWrite
  <2>3. CASE pc'[r] = "audit" /\ req'[r] = req[r]
    BY <1>1, <1>2, <1>6, <2>1, <2>3 DEF OwnWrite, AuditKey, StoreKey
  <2>4. CASE /\ pc[r] = "transitionReread" /\ pc'[r] = "transitionMove"
             /\ req'[r] = req[r] /\ copy'[r] = items[req[r].id] /\ Present(req[r].id)
    <3>1. req[r].kind = "transition"
      BY <2>4 DEF HandlersInv, HandlerInv, KindAt
    <3>2. c.kind = req[r].kind /\ c.id = AuditKey(r) /\ c.id = req[r].id
      BY <1>2, <1>6, <2>1, <3>1 DEF OwnWrite, AuditKey
    <3>3. c.kind = req'[r].kind /\ c.id = AuditKey(r)'
      BY <2>4, <3>2 DEF AuditKey, StoreKey
    <3>4. StandsAsWritten(c) \/ Overtaken(c)
      BY <1>2, <1>6, <2>4 DEF OwnWrite
    <3>5. CASE StandsAsWritten(c)
      <4>1. copy'[r].status = req'[r].target
        BY <1>6, <2>4, <3>2, <3>5 DEF StandsAsWritten
      <4>. QED BY <1>1, <1>2, <1>6, <2>4, <3>3, <4>1 DEF OwnWrite
    <3>6. CASE Overtaken(c)
      <4>1. PICK d \in commits : After(d, c) /\ ResultOf(d, copy'[r])
        BY <2>4, <3>2, <3>6, OvertakenEntry
      <4>2. \E e \in commits' : After(e, c)' /\ ResultOf(e, copy'[r])
        BY <1>1, <4>1 DEF After
      <4>. QED BY <1>1, <1>2, <1>6, <2>4, <3>3, <4>2 DEF OwnWrite, ResultOf
    <3>. QED BY <3>4, <3>5, <3>6
  <2>. QED BY <1>4, <1>6, <2>1, <2>2, <2>3, <2>4, StepAfterWrite
<1>. QED BY <1>5, <1>6

(* A write is as OwnWriteInv has it, and overtakes what stood in its entry. *)
LEMMA OwnWriteAdded ==
  ASSUME Inductive, NEW r \in Request, StepOf(r), UNCHANGED <<req, copy, seen, outcome>>,
         NEW i \in Id, Insertion(r, i) \/ Replacement(r, i) \/ Removal(r, i),
         NEW c \in commits'
  PROVE  OwnWrite(c)'
<1>. USE DEF Inductive
<1>1. PICK own : /\ commits' = commits \cup {own}
                 /\ own.by = r /\ own.kind = req[r].kind /\ own.id = i
                 /\ ~Applied(r) /\ i = AuditKey(r) /\ Canon[i] = i
                 /\ \A j \in Id \ {i} : items'[j] = items[j]
                 /\ Present(i) => own.inc = items[i].inc /\ own.over = items[i].rev
                 /\ pc'[r] \in {"updateReread", "transitionReread", "audit"}
                 /\ items'[i] # NoRecord => ResultOf(own, items'[i])
                 /\ pc'[r] \in {"updateReread", "transitionReread"} =>
                      items'[i] # NoRecord /\ items'[i].status = req[r].target
  BY EffectCommit
<1>2. \A d \in commits : d.by # r
  BY <1>1 DEF Applied
<1>3. \A s : AuditKey(s)' = AuditKey(s)
  BY DEF AuditKey, StoreKey
<1>4. \A d \in commits' : d.by = c.by => d = c
  BY <1>1, <1>2 DEF OwnWriteInv
<1>5. CASE c = own
  <2>1. pc'[r] \in {"updateReread", "transitionReread"} => StandsAsWritten(c)'
    BY <1>1, <1>5 DEF StandsAsWritten, Present, ResultOf
  <2>. QED BY <1>1, <1>3, <1>4, <1>5, <2>1 DEF OwnWrite
<1>6. CASE c \in commits
  <2>1. /\ c.by \in Request /\ c.id \in Id /\ c.inc \in Nat /\ c.over \in Nat
        /\ OwnWrite(c)
    BY <1>6 DEF TypeOK, Commit, OwnWriteInv, OwnWrite
  <2>2. c.by # r /\ pc'[c.by] = pc[c.by]
    BY <1>2, <1>6, <2>1, OthersUntouched DEF Untouched
  <2>3. /\ Overtaken(c) => Overtaken(c)'
        /\ \A record : (\E d \in commits : After(d, c) /\ ResultOf(d, record)) =>
                       (\E d \in commits' : After(d, c) /\ ResultOf(d, record))
    BY <1>1, StaysOvertaken
  <2>4. CASE c.id # i
    <3>1. items'[c.id] = items[c.id]
      BY <1>1, <2>1, <2>4
    <3>2. StandsAsWritten(c)' <=> StandsAsWritten(c)
      BY <2>2, <3>1 DEF StandsAsWritten, Present, ResultOf
    <3>. QED BY <1>3, <1>4, <2>1, <2>2, <2>3, <3>2 DEF OwnWrite
  <2>5. CASE c.id = i
    <3>1. ASSUME StandsAsWritten(c) PROVE Overtaken(c)'
      <4>1. own.id = c.id /\ own.inc = c.inc /\ own.over = c.over + 1
        BY <1>1, <2>5, <3>1 DEF StandsAsWritten, ResultOf
      <4>2. After(own, c)
        BY <2>1, <4>1 DEF After
      <4>. QED BY <1>1, <4>2 DEF Overtaken, After
    <3>. QED BY <1>3, <1>4, <2>1, <2>2, <2>3, <3>1 DEF OwnWrite
  <2>. QED BY <2>4, <2>5
<1>. QED BY <1>1, <1>5, <1>6

(* So OwnWriteInv holds on, whichever effect a step has. *)
LEMMA OwnWriteStep ==
  ASSUME Inductive, NEW r \in Request, StepOf(r)
  PROVE  OwnWriteInv'
<1>. SUFFICES ASSUME NEW c \in commits' PROVE OwnWrite(c)'
  BY DEF OwnWriteInv, OwnWrite
<1>1. Effect(r)
  BY AnyEffect DEF Inductive
<1>2. CASE NoWrite
  BY <1>2, OwnWriteKept DEF NoWrite
<1>. QED BY <1>1, <1>2, OwnWriteAdded DEF Effect

(* The write that a step makes is the last one of its entry. *)
LEMMA LastWriteStep ==
  ASSUME Inductive, NEW r \in Request, StepOf(r)
  PROVE  LastWriteInv'
<1>. USE DEF Inductive
<1>1. Effect(r)
  BY AnyEffect
<1>2. CASE NoWrite
  BY <1>2 DEF NoWrite, LastWriteInv, Present, ResultOf
<1>3. ASSUME NEW i \in Id, Insertion(r, i) \/ Replacement(r, i) \/ Removal(r, i)
      PROVE  LastWriteInv'
  <2>1. PICK own : /\ commits' = commits \cup {own} /\ own.id = i
                   /\ \A j \in Id \ {i} : items'[j] = items[j]
                   /\ items'[i] # NoRecord => ResultOf(own, items'[i])
    BY <1>3, EffectCommit
  <2>. SUFFICES ASSUME NEW c \in commits', items'[c.id] # NoRecord
       PROVE  \E d \in commits' : d.id = c.id /\ ResultOf(d, items'[c.id])
    BY DEF LastWriteInv, Present, ResultOf
  <2>2. CASE c.id = i
    BY <2>1, <2>2
  <2>3. CASE c.id # i
    <3>1. c \in commits /\ c.id \in Id
      BY <2>1, <2>3 DEF TypeOK, Commit
    <3>2. items'[c.id] = items[c.id] /\ Present(c.id)
      BY <2>1, <2>3, <3>1 DEF Present
    <3>. QED BY <2>1, <3>1, <3>2 DEF LastWriteInv
  <2>. QED BY <2>2, <2>3
<1>. QED BY <1>1, <1>2, <1>3 DEF Effect

(* A copy goes stale by a write only. *)
LEMMA StaleStep ==
  ASSUME Inductive, HandlersInv', NEW r \in Request, StepOf(r)
  PROVE  StaleInv'
<1>. USE DEF Inductive
<1>. SUFFICES ASSUME NEW s \in Request, copy'[s] # NoRecord, items'[req'[s].id] # NoRecord,
                     items'[req'[s].id] # copy'[s]
     PROVE  \E d \in commits' : d.id = req'[s].id /\ ResultOf(d, items'[req'[s].id])
  BY DEF StaleInv, Present, ResultOf
<1>1. req'[s] # NoReq
  BY DEF HandlersInv, HandlerInv
<1>2. CASE req'[s] = req[s] /\ copy'[s] = copy[s]
  <2>. DEFINE i == req[s].id
  <2>1. i \in Id
    BY <1>1, <1>2 DEF TypeOK, OpsRequest
  <2>2. CASE NoWrite
    BY <1>2, <2>2 DEF NoWrite, StaleInv, Present
  <2>3. ASSUME NEW j \in Id, Insertion(r, j) \/ Replacement(r, j) \/ Removal(r, j)
        PROVE  \E d \in commits' : d.id = i /\ ResultOf(d, items'[i])
    <3>1. PICK own : /\ commits' = commits \cup {own} /\ own.id = j
                     /\ \A k \in Id \ {j} : items'[k] = items[k]
                     /\ items'[j] # NoRecord => ResultOf(own, items'[j])
      BY <2>3, EffectCommit
    <3>2. CASE i = j
      BY <1>2, <3>1, <3>2
    <3>3. CASE i # j
      BY <1>2, <2>1, <3>1, <3>3 DEF StaleInv, Present
    <3>. QED BY <3>2, <3>3
  <2>4. Effect(r)
    BY AnyEffect
  <2>. QED BY <1>2, <2>2, <2>3, <2>4 DEF Effect
<1>3. CASE s # r
  BY <1>2, <1>3, OthersUntouched DEF Untouched
<1>4. CASE s = r
  <2>1. \/ req'[r] = req[r] /\ copy'[r] = copy[r]
        \/ NoWrite /\ req'[r] = req[r] /\ copy'[r] = items[req[r].id]
        \/ copy'[r] = NoRecord
    BY <1>1, <1>4, CopyAfterStep
  <2>2. NoWrite /\ req'[r] = req[r] => items'[req'[r].id] = items[req[r].id]
    BY DEF NoWrite
  <2>. QED BY <1>2, <1>4, <2>1, <2>2
<1>. QED BY <1>3, <1>4

-----------------------------------------------------------------------------
(* The invariant holds of the seeded store before any request.              *)
LEMMA InductiveInit == Init => Inductive
<1>. SUFFICES ASSUME Init PROVE Inductive
  OBVIOUS
<1>1. TypeOK
  BY TypeInit
<1>2. HandlersInv
  BY DEF Init, HandlersInv, HandlerInv, Applied, InFlight, KindAt, AfterWrite
<1>3. \A i \in Id :
        /\ births[i] = IF i \in DOMAIN Seed THEN 1 ELSE 0
        /\ Present(i) => /\ i \in DOMAIN Seed
                         /\ items[i].inc = 1 /\ items[i].rev = Seed[i].rev
  BY DEF Init, Present
<1>4. LivesInv /\ IdsAreCanonical
  BY <1>3, SeedAssumption DEF LivesInv, IdsAreCanonical
<1>5. ChainInv /\ RevisionNamesContent /\ AnswersAreHonest /\ LastWriteInv /\ StaleInv
      /\ OwnWriteInv
  BY DEF Init, ChainInv, RevisionNamesContent, AnswersAreHonest, Applied, LastWriteInv,
         StaleInv, OwnWriteInv
<1>. QED BY <1>1, <1>2, <1>4, <1>5 DEF Inductive

(* Every step keeps the inductive invariant, conjunct by conjunct.          *)
LEMMA InductiveStep == Inductive /\ [Next]_vars => Inductive'
<1>. SUFFICES ASSUME Inductive, [Next]_vars PROVE Inductive'
  OBVIOUS
<1>. USE DEF Inductive
<1>1. TypeOK'
  BY TypeStep
<1>2. ASSUME NEW r \in Request, StepOf(r) PROVE Inductive'
  <2>1. Effect(r)
    BY <1>2, AnyEffect
  <2>2. HandlersInv'
    <3>. SUFFICES ASSUME NEW s \in Request PROVE HandlerInv(s)'
      BY DEF HandlersInv
    <3>1. CASE s = r
      BY <1>2, <3>1, HandlerStep
    <3>2. CASE s # r
      BY <1>2, <2>1, <3>2, OthersUntouched, AppliedByOthers, HandlerKept DEF HandlersInv
    <3>. QED BY <3>1, <3>2
  <2>3. LivesInv' /\ ChainInv' /\ IdsAreCanonical'
    BY <2>1, StoreStep
  <2>4. RevisionNamesContent'
    BY <1>2, <2>1, ContentStep
  <2>5. AnswersAreHonest'
    BY <1>2, <2>1, HonestStep
  <2>6. LastWriteInv' /\ StaleInv' /\ OwnWriteInv'
    BY <1>2, <2>2, LastWriteStep, StaleStep, OwnWriteStep
  <2>. QED BY <1>1, <2>2, <2>3, <2>4, <2>5, <2>6
<1>3. CASE AuditSweep \/ UNCHANGED vars
  <2>1. UNCHANGED <<items, pc, req, copy, outcome, births, seen, commits>>
    BY <1>3 DEF AuditSweep, vars, ghosts
  <2>. QED BY <1>1, <2>1
       DEF HandlersInv, HandlerInv, LivesInv, ChainInv, RevisionNamesContent,
           IdsAreCanonical, AnswersAreHonest, Applied, InFlight, Present, NotAheadOf,
           SameLife, LastWriteInv, StaleInv, OwnWriteInv, StandsAsWritten, ResultOf, Overtaken,
           After, AuditKey, StoreKey
<1>. QED BY <1>2, <1>3 DEF Next, StepOf

(* The inductive invariant holds in every reachable state. *)
THEOREM InductiveInvariant == Spec => []Inductive
<1>1. Init => Inductive
  BY InductiveInit
<1>2. Inductive /\ [Next]_vars => Inductive'
  BY InductiveStep
<1>. QED BY <1>1, <1>2, PTL DEF Spec

(* Type correctness: every variable keeps its type (ops_model.go). *)
THEOREM TypeCorrect == Spec => []TypeOK
<1>1. Inductive => TypeOK
  BY DEF Inductive
<1>. QED BY <1>1, InductiveInvariant, PTL

(* Optimistic concurrency loses no update: of all the writes that carried  *)
(* an expected revision and went into one creation of a record, no two     *)
(* carried the same one (OpsStore.Update).                                 *)
THEOREM LostUpdates == Spec => []NoLostUpdate
<1>1. Inductive => NoLostUpdate
  <2>. SUFFICES ASSUME Inductive, NEW c \in commits, NEW d \in commits, c # d,
                       SameLife(c, d), c.expected > 0, d.expected > 0
       PROVE  c.expected # d.expected
    BY DEF NoLostUpdate
  <2>. QED BY DEF Inductive, ChainInv
<1>. QED BY <1>1, InductiveInvariant, PTL

(* A copy with the revision of the entry is the entry: the revision check  *)
(* of Transition and OpsStore.Update means what it is there for.           *)
THEOREM RevisionsNameContents == Spec => []RevisionNamesContent
<1>1. Inductive => RevisionNamesContent
  BY DEF Inductive
<1>. QED BY <1>1, InductiveInvariant, PTL

(* Records live under normalized ids only (normalizeOpsRecord on every     *)
(* path that inserts).                                                     *)
THEOREM CanonicalIds == Spec => []IdsAreCanonical
<1>1. Inductive => IdsAreCanonical
  BY DEF Inductive
<1>. QED BY <1>1, InductiveInvariant, PTL

(* A request that is told it has succeeded has written; one that is told   *)
(* of a conflict, a policy or an invalid request has not.                  *)
THEOREM HonestAnswers == Spec => []AnswersAreHonest
<1>1. Inductive => AnswersAreHonest
  BY DEF Inductive
<1>. QED BY <1>1, InductiveInvariant, PTL

-----------------------------------------------------------------------------
(* A step that leaves the map of records alone, or one handler's write.    *)
LEMMA ItemsChange ==
  ASSUME Inductive, [Next]_vars
  PROVE  \/ UNCHANGED <<items, births, commits>>
         \/ \E r \in Request, i \in Id :
              Insertion(r, i) \/ Replacement(r, i) \/ Removal(r, i)
<1>1. CASE AuditSweep \/ UNCHANGED vars
  BY <1>1 DEF AuditSweep, vars, ghosts
<1>2. ASSUME NEW r \in Request, StepOf(r)
      PROVE  \/ UNCHANGED <<items, births, commits>>
             \/ \E i \in Id : Insertion(r, i) \/ Replacement(r, i) \/ Removal(r, i)
  BY <1>2, AnyEffect DEF Effect, NoWrite, Inductive
<1>. QED BY <1>1, <1>2 DEF Next, StepOf

(* Revisions of a record are consecutive, whatever stale copy is written   *)
(* back (OpsStore.Put and OpsStore.Update).                                *)
THEOREM ConsecutiveRevisions == Spec => RevisionsAreConsecutive
<1>. DEFINE Consecutive ==
       \A i \in Id :
         items'[i] # items[i] /\ items'[i] # NoRecord =>
           IF Present(i) THEN /\ items'[i].rev = items[i].rev + 1
                              /\ items'[i].inc = items[i].inc
                         ELSE items'[i].rev = 1
<1>1. Inductive /\ [Next]_vars => [Consecutive]_vars
  <2>. SUFFICES ASSUME Inductive, [Next]_vars, NEW i \in Id,
                       items'[i] # items[i], items'[i] # NoRecord
       PROVE  IF Present(i) THEN /\ items'[i].rev = items[i].rev + 1
                                 /\ items'[i].inc = items[i].inc
                            ELSE items'[i].rev = 1
    OBVIOUS
  <2>1. PICK r \in Request, j \in Id :
          Insertion(r, j) \/ Replacement(r, j) \/ Removal(r, j)
    BY ItemsChange
  <2>2. CASE Insertion(r, j)
    BY <2>2 DEF Insertion, Write, Inductive, TypeOK
  <2>3. CASE Replacement(r, j)
    BY <2>3 DEF Replacement, Write, Inductive, TypeOK
  <2>4. CASE Removal(r, j)
    BY <2>4 DEF Removal, Write, Inductive, TypeOK
  <2>. QED BY <2>1, <2>2, <2>3, <2>4
<1>. QED BY <1>1, InductiveInvariant, PTL DEF Spec, RevisionsAreConsecutive

(* What the write of a transition starts from and leaves.  If the copy is  *)
(* still what stands in the entry, the write is the move that was judged.  *)
Writes(r, i) ==
  /\ i \in Id /\ req[r].expected \in Nat
  /\ copy[r] \in OpsRecord /\ NotAheadOf(copy[r], i) /\ ~Applied(r)
  /\ RevisionMatches(req[r].expected, copy[r])
  /\ Present(i) /\ RevisionMatches(req[r].expected, items[i])
  /\ copy[r] = items[i] =>
       /\ CanMove(items[i].status, items'[i].status)
       /\ items'[i] = [items[i] EXCEPT !.status = items'[i].status, !.rev = items'[i].rev]

LEMMA TransitionWrites ==
  ASSUME Inductive, [Next]_vars, NEW r \in Request, pc[r] = "transitionWrite", Replaces(r)
  PROVE  Writes(r, req[r].id)
<1>. DEFINE i == req[r].id
            record == [copy[r] EXCEPT !.status = req[r].target]
<1>1. TransitionWrite(r)
  <2>1. pc'[r] # pc[r] /\ pc'[r] # "done"
    BY DEF Replaces
  <2>2. ~(AuditSweep \/ UNCHANGED vars)
    BY <2>1 DEF AuditSweep, vars
  <2>3. ASSUME NEW s \in Request, StepOf(s) PROVE s = r
    BY <2>1, <2>3, OthersUntouched DEF Untouched, Inductive
  <2>4. StepOf(r)
    BY <2>2, <2>3 DEF Next, StepOf
  <2>. QED BY <2>1, <2>4 DEF StepOf, Step, Arrive, BadRequest, Cancel, CreatePut,
                             StorePut, PolicyRejects, UpdateWrite, UpdateReread,
                             DeleteRemove, TransitionRead, TransitionReread,
                             TransitionMove, AuditAdd
<1>2. /\ i \in Id /\ req[r].target \in Status /\ req[r].expected \in Nat
      /\ copy[r] \in OpsRecord
      /\ CanMove(copy[r].status, req[r].target)
      /\ RevisionMatches(req[r].expected, copy[r])
      /\ NotAheadOf(copy[r], i) /\ ~Applied(r)
  BY DEF Inductive, HandlersInv, HandlerInv, TypeOK, OpsRequest, InFlight, BeforeWrite,
         RevisionNamesContent
<1>3. /\ Present(i) /\ RevisionMatches(req[r].expected, items[i])
      /\ items' = [items EXCEPT ![i] = Stored(record, items[i])]
  BY <1>1, HandlerAnswered
     DEF TransitionWrite, Unreachable, Reachable, StoreUpdate, Write, Replaces, Inductive
<1>4. ASSUME copy[r] = items[i]
      PROVE  /\ CanMove(items[i].status, items'[i].status)
             /\ items'[i] = [items[i] EXCEPT !.status = items'[i].status,
                                             !.rev = items'[i].rev]
  <2>1. items[i] \in OpsRecord
    BY <1>2, <1>4
  <2>2. items'[i] = Stored(record, items[i])
    BY <1>2, <1>3 DEF Inductive, TypeOK
  <2>3. Stored(record, items[i]) = [items[i] EXCEPT !.status = req[r].target,
                                                    !.rev = items[i].rev + 1]
    BY <1>4, <2>1 DEF Stored, OpsRecord
  <2>4. /\ items'[i].status = req[r].target
        /\ items'[i].rev = items[i].rev + 1
    BY <2>1, <2>2, <2>3 DEF OpsRecord
  <2>. QED BY <1>2, <1>4, <2>2, <2>3, <2>4
<1>. QED BY <1>2, <1>3, <1>4 DEF Writes

(* A transition that carried a revision is legal for, and a change of      *)
(* nothing but the status of, the entry it replaces, however long ago the  *)
(* handler read it (OpsService.Transition).                                *)
THEOREM GuardedTransitions == Spec => GuardedTransitionIsLegal
<1>. DEFINE Legal ==
       \A r \in Request : LET i == req[r].id IN
         pc[r] = "transitionWrite" /\ Replaces(r) /\ req[r].expected > 0
           /\ copy[r].inc = items[i].inc =>
             /\ CanMove(items[i].status, items'[i].status)
             /\ items'[i] = [items[i] EXCEPT !.status = items'[i].status,
                                             !.rev = items'[i].rev]
<1>1. Inductive /\ [Next]_vars => [Legal]_vars
  <2>. SUFFICES ASSUME Inductive, [Next]_vars, NEW r \in Request,
                       pc[r] = "transitionWrite", Replaces(r), req[r].expected > 0,
                       copy[r].inc = items[req[r].id].inc
       PROVE  LET i == req[r].id IN
              /\ CanMove(items[i].status, items'[i].status)
              /\ items'[i] = [items[i] EXCEPT !.status = items'[i].status,
                                              !.rev = items'[i].rev]
    OBVIOUS
  <2>. DEFINE i == req[r].id
  <2>1. /\ i \in Id /\ req[r].expected \in Nat /\ NotAheadOf(copy[r], i)
        /\ copy[r] \in OpsRecord /\ RevisionMatches(req[r].expected, copy[r])
        /\ Present(i) /\ RevisionMatches(req[r].expected, items[i])
    BY TransitionWrites DEF Writes
  <2>2. copy[r] = items[i]
    <3>1. copy[r] # NoRecord /\ copy[r].rev = items[i].rev
      BY <2>1, NoRecordAssumption DEF RevisionMatches
    <3>. QED BY <2>1, <3>1 DEF NotAheadOf
  <2>. QED BY <2>2, TransitionWrites DEF Writes
<1>. QED BY <1>1, InductiveInvariant, PTL DEF Spec, GuardedTransitionIsLegal

(* A transition that carried none is so too, unless another request has    *)
(* written the record since the handler read it (OpsService.Transition).   *)
THEOREM UnfitTransitions == Spec => UnfitOnlyIfOvertaken
<1>. DEFINE Fit ==
       \A r \in Request : LET i == req[r].id IN
         pc[r] = "transitionWrite" /\ Replaces(r) =>
           \/ /\ CanMove(items[i].status, items'[i].status)
              /\ items'[i] = [items[i] EXCEPT !.status = items'[i].status,
                                              !.rev = items'[i].rev]
           \/ \E c \in commits : /\ c.by # r /\ c.id = i
                                 /\ ResultOf(c, items[i]) /\ WrittenSince(c, copy[r])
<1>1. Inductive /\ [Next]_vars => [Fit]_vars
  <2>. SUFFICES ASSUME Inductive, [Next]_vars, NEW r \in Request,
                       pc[r] = "transitionWrite", Replaces(r),
                       copy[r] # items[req[r].id]
       PROVE  \E c \in commits : /\ c.by # r /\ c.id = req[r].id
                                 /\ ResultOf(c, items[req[r].id])
                                 /\ WrittenSince(c, copy[r])
    BY TransitionWrites DEF Writes
  <2>. DEFINE i == req[r].id
  <2>1. /\ i \in Id /\ copy[r] \in OpsRecord /\ copy[r] # NoRecord
        /\ NotAheadOf(copy[r], i) /\ Present(i) /\ ~Applied(r)
    BY TransitionWrites, NoRecordAssumption DEF Writes
  <2>2. PICK c \in commits : c.id = i /\ ResultOf(c, items[i])
    BY <2>1 DEF Inductive, StaleInv
  <2>3. c.by # r
    BY <2>1, <2>2 DEF Applied
  <2>4. /\ copy[r].inc \in Nat /\ copy[r].rev \in Nat /\ c.inc \in Nat /\ c.over \in Nat
    BY <2>1, <2>2 DEF OpsRecord, Inductive, TypeOK, Commit
  <2>5. items[i].inc = births[i] /\ births[i] \in Nat
    BY <2>1 DEF Inductive, LivesInv, TypeOK
  <2>6. copy[r].inc <= births[i]
        /\ (copy[r].inc = births[i] => copy[r].rev <= items[i].rev /\ copy[r].rev # items[i].rev)
    BY <2>1, <2>5 DEF NotAheadOf
  <2>7. WrittenSince(c, copy[r])
    BY <2>2, <2>4, <2>5, <2>6 DEF WrittenSince, ResultOf
  <2>. QED BY <2>2, <2>3, <2>7
<1>. QED BY <1>1, InductiveInvariant, PTL DEF Spec, UnfitOnlyIfOvertaken

(* The numbers of the trail are consecutive, up to the last one given out. *)
UnbrokenTrail ==
  /\ Len(events) <= AuditCap
  /\ \A n \in DOMAIN events : events[n].id + Len(events) = auditSeq + n

(* An event keeps its number where it has another place f, in a trail of   *)
(* another length e that ends with the same event.                         *)
LEMMA NumberShifts ==
  ASSUME TypeOK, UnbrokenTrail, NEW m \in DOMAIN events, NEW e \in Nat, NEW f \in Nat,
         m + e = f + Len(events)
  PROVE  events[m].id + e = auditSeq + f
<1>1. events \in Seq(OpsEvent) /\ auditSeq \in Nat
  BY DEF TypeOK
<1>2. PICK b \in Nat : b = Len(events) /\ DOMAIN events = 1 .. b
  BY <1>1, LenProperties
<1>3. events[m] \in OpsEvent
  BY <1>1, <1>2, ElementOfSeq
<1>4. PICK a \in Nat : a = events[m].id
  BY <1>3 DEF OpsEvent
<1>5. PICK c \in Nat : c = auditSeq
  BY <1>1
<1>6. PICK d \in Nat : d = m
  BY <1>2
<1>7. a + b = c + d /\ d + e = f + b
  BY <1>2, <1>4, <1>5, <1>6 DEF UnbrokenTrail
<1>8. a + e = c + f
  BY ONLY <1>7, a \in Nat, b \in Nat, c \in Nat, d \in Nat, e \in Nat, f \in Nat
<1>. QED BY <1>4, <1>5, <1>8

(* The audit trail is the unbroken end of everything ever added to it      *)
(* (OpsAudit.Add and OpsAudit.Trim).                                       *)
THEOREM AuditTrail == Spec => []AuditIsNewestEvents
<1>1. Init => UnbrokenTrail
  BY AuditAssumption DEF Init, UnbrokenTrail
<1>2. TypeOK /\ UnbrokenTrail /\ [Next]_vars => UnbrokenTrail'
  <2>. SUFFICES ASSUME TypeOK, UnbrokenTrail, [Next]_vars
       PROVE  UnbrokenTrail'
    OBVIOUS
  <2>. USE AuditAssumption
  <2>1. events \in Seq(OpsEvent) /\ auditSeq \in Nat
    BY DEF TypeOK
  <2>2. Len(events) \in Nat /\ DOMAIN events = 1 .. Len(events)
    BY <2>1, LenProperties
  <2>3. CASE UNCHANGED <<events, auditSeq>>
    BY <2>3 DEF UnbrokenTrail
  <2>4. CASE AuditSweep
    <3>. DEFINE kept == Newest(events, SweepMax)
    <3>1. /\ kept \in Seq(OpsEvent)
          /\ Len(kept) <= Len(events)
          /\ \A k \in 1 .. Len(kept) : kept[k] = events[k + Len(events) - Len(kept)]
      BY <2>1, NewestType
    <3>2. Len(kept) \in Nat /\ DOMAIN kept = 1 .. Len(kept)
      BY <3>1, LenProperties
    <3>3. events' = kept /\ auditSeq' = auditSeq
      BY <2>4 DEF AuditSweep
    <3>. HIDE DEF kept
    <3>4. ASSUME NEW k \in DOMAIN kept PROVE kept[k].id + Len(kept) = auditSeq + k
      <4>. DEFINE m == k + Len(events) - Len(kept)
      <4>1. k \in Nat /\ m \in DOMAIN events /\ kept[k] = events[m]
        BY <2>2, <3>1, <3>2
      <4>2. m + Len(kept) = k + Len(events)
        BY <2>2, <3>2, <4>1
      <4>. HIDE DEF m
      <4>3. events[m].id + Len(kept) = auditSeq + k
        BY <3>2, <4>1, <4>2, NumberShifts
      <4>. QED BY <4>1, <4>3
    <3>. QED BY <2>2, <3>1, <3>2, <3>3, <3>4 DEF UnbrokenTrail
  <2>5. ASSUME NEW r \in Request, AuditAdd(r) PROVE UnbrokenTrail'
    <3>. DEFINE event == [id |-> auditSeq + 1, record |-> AuditKey(r),
                          type |-> EventType[req[r].kind], by |-> r]
                longer == Append(events, event)
                kept == Newest(longer, AuditCap)
    <3>1. events' = kept /\ auditSeq' = auditSeq + 1 /\ event.id = auditSeq + 1
      BY <2>5 DEF AuditAdd, KeepNewest
    <3>2. /\ longer \in Seq(OpsEvent \cup {event}) /\ Len(longer) = Len(events) + 1
          /\ \A k \in 1 .. Len(events) : longer[k] = events[k]
          /\ longer[Len(events) + 1] = event
      BY <2>1, <2>2, AppendProperties
    <3>. HIDE DEF event
    <3>. HIDE DEF longer
    <3>3. /\ kept \in Seq(OpsEvent \cup {event})
          /\ Len(kept) <= Len(longer) /\ Len(kept) <= AuditCap
          /\ \A k \in 1 .. Len(kept) : kept[k] = longer[k + Len(longer) - Len(kept)]
      BY <3>2, NewestType
    <3>4. Len(kept) \in Nat /\ DOMAIN kept = 1 .. Len(kept)
      BY <3>3, LenProperties
    <3>. HIDE DEF kept
    <3>5. ASSUME NEW k \in Nat, k \in 1 .. Len(kept)
          PROVE  kept[k].id + Len(kept) = auditSeq + 1 + k
      <4>1. PICK m \in Nat : /\ m \in 1 .. Len(longer)
                             /\ m + Len(kept) = k + Len(events) + 1
                             /\ kept[k] = longer[m]
        <5>. DEFINE m == k + Len(longer) - Len(kept)
        <5>1. m \in Nat /\ m \in 1 .. Len(longer) /\ m + Len(kept) = k + Len(events) + 1
          BY <2>2, <3>2, <3>3, <3>4, <3>5
        <5>2. kept[k] = longer[m]
          BY <3>3, <3>5
        <5>. QED BY <5>1, <5>2
      <4>2. CASE m = Len(events) + 1
        BY <2>1, <2>2, <3>1, <3>2, <3>4, <4>1, <4>2
      <4>3. CASE m # Len(events) + 1
        <5>1. m \in DOMAIN events /\ kept[k] = events[m]
          BY <2>2, <3>2, <4>1, <4>3
        <5>2. m + Len(kept) = (k + 1) + Len(events) /\ k + 1 \in Nat
          BY <2>2, <3>4, <4>1
        <5>3. events[m].id + Len(kept) = auditSeq + (k + 1)
          BY <3>4, <5>1, <5>2, NumberShifts
        <5>4. auditSeq + (k + 1) = auditSeq + 1 + k
          BY <2>1
        <5>. QED BY <5>1, <5>3, <5>4
      <4>. QED BY <4>2, <4>3
    <3>. QED BY <3>1, <3>3, <3>4, <3>5 DEF UnbrokenTrail
  <2>6. UNCHANGED vars => UNCHANGED <<events, auditSeq>>
    BY DEF vars
  <2>7. ASSUME NEW r \in Request, StepOf(r), ~AuditAdd(r)
        PROVE  UNCHANGED <<events, auditSeq>>
    BY <2>7 DEF StepOf, Step, Arrive, BadRequest, Cancel, CreatePut, StorePut,
                PolicyRejects, UpdateWrite, UpdateReread, DeleteRemove, TransitionRead,
                TransitionWrite, TransitionReread, TransitionMove, svcVars
  <2>. QED BY <2>3, <2>4, <2>5, <2>6, <2>7 DEF Next, StepOf
<1>3. ASSUME TypeOK, UnbrokenTrail PROVE AuditIsNewestEvents
  <2>1. events \in Seq(OpsEvent) /\ Len(events) \in Nat /\ DOMAIN events = 1 .. Len(events)
    BY <1>3, LenProperties DEF TypeOK
  <2>2. ASSUME NEW limit \in 0 .. AuditCap, NEW n \in DOMAIN Recent(limit)
        PROVE  Recent(limit)[n].id + Len(Recent(limit)) = auditSeq + n
    <3>. DEFINE kept == Recent(limit)
    <3>1. /\ kept \in Seq(OpsEvent) /\ Len(kept) <= Len(events)
          /\ \A k \in 1 .. Len(kept) : kept[k] = events[k + Len(events) - Len(kept)]
      <4>1. limit \in Nat
        BY AuditAssumption
      <4>2. CASE limit <= 0
        BY <2>1, <4>2 DEF Recent
      <4>3. CASE ~(limit <= 0)
        BY <2>1, <4>1, <4>3, NewestType DEF Recent
      <4>. QED BY <4>2, <4>3
    <3>2. n \in DOMAIN kept
      OBVIOUS
    <3>. HIDE DEF kept
    <3>3. Len(kept) \in Nat /\ n \in Nat /\ n \in 1 .. Len(kept)
      BY <3>1, <3>2, LenProperties
    <3>4. PICK m \in Nat : /\ m \in DOMAIN events /\ m + Len(kept) = n + Len(events)
                          /\ kept[n] = events[m]
      <4>. DEFINE m == n + Len(events) - Len(kept)
      <4>1. m \in Nat /\ m \in DOMAIN events /\ m + Len(kept) = n + Len(events)
        BY <2>1, <3>1, <3>3
      <4>2. kept[n] = events[m]
        BY <3>1, <3>3
      <4>. QED BY <4>1, <4>2
    <3>5. events[m].id + Len(kept) = auditSeq + n
      BY <1>3, <3>3, <3>4, NumberShifts
    <3>6. kept[n].id + Len(kept) = auditSeq + n
      BY <3>4, <3>5
    <3>. QED BY <3>6 DEF kept
  <2>. QED BY <1>3, <2>2 DEF AuditIsNewestEvents, UnbrokenTrail
<1>. QED BY <1>1, <1>2, <1>3, TypeCorrect, PTL DEF Spec

-----------------------------------------------------------------------------
(* The handlers implement the contract.                                    *)

(* The mapped revision of an id is a number, and 0 only if it is absent.    *)
LEMMA Revisions ==
  ASSUME Inductive
  PROVE  /\ revisionBar \in [Id -> Nat]
         /\ \A i \in Id : revisionBar[i] > 0 <=> Present(i)
<1>1. \A i \in Id : Present(i) => items[i].rev \in Nat /\ items[i].rev > 0
  BY DEF Inductive, TypeOK, LivesInv, Present, OpsRecord
<1>. QED BY <1>1 DEF revisionBar

(* A handler's step changes the mapped phase of its own request only.       *)
LEMMA PhaseUpdate ==
  ASSUME TypeOK, HandlersInv, NEW r \in Request, StepOf(r)
  PROVE  \A s \in Request : s # r => phaseBar'[s] = phaseBar[s]
<1>. SUFFICES ASSUME NEW s \in Request, s # r PROVE phaseBar'[s] = phaseBar[s]
  OBVIOUS
<1>1. pc'[s] = pc[s] /\ (Applied(s)' <=> Applied(s))
  BY OthersUntouched, AnyEffect, AppliedByOthers DEF Untouched
<1>. QED BY <1>1 DEF phaseBar

(* A write of the handlers is a write of the contract. *)
LEMMA ContractWrite ==
  ASSUME Inductive, NEW r \in Request, StepOf(r), NEW i \in Id,
         Insertion(r, i) \/ Replacement(r, i) \/ Removal(r, i)
  PROVE  Contract!Insert(r, i) \/ Contract!Replace(r, i) \/ Contract!Remove(r, i)
<1>. USE DEF Inductive
<1>1. pc[r] # "done" /\ ~Applied(r) /\ pc'[r] # "done" /\ Applied(r)'
  BY AppliedAfterWrite
     DEF Insertion, Replacement, Removal, HandlersInv, HandlerInv, BeforeWrite
<1>2. phaseBar[r] = "open" /\ phaseBar' = [phaseBar EXCEPT ![r] = "applied"]
  <2>1. phaseBar[r] = "open" /\ phaseBar'[r] = "applied"
    BY <1>1 DEF phaseBar
  <2>2. \A s \in Request : s # r => phaseBar'[s] = phaseBar[s]
    BY PhaseUpdate
  <2>. QED BY <2>1, <2>2 DEF phaseBar
<1>3. CASE Insertion(r, i)
  <2>1. PICK record \in OpsRecord : /\ record.rev = 1
                                    /\ items' = [items EXCEPT ![i] = record]
    BY <1>3 DEF Insertion, Write
  <2>2. revisionBar[i] = 0
    BY <1>3 DEF Insertion, revisionBar
  <2>3. revisionBar' = [revisionBar EXCEPT ![i] = 1]
    BY <2>1, NoRecordAssumption DEF revisionBar, Present, TypeOK
  <2>. QED BY <1>2, <2>2, <2>3 DEF Contract!Insert, Contract!Apply
<1>4. CASE Replacement(r, i)
  <2>1. PICK record \in OpsRecord : /\ record.rev = items[i].rev + 1
                                    /\ items' = [items EXCEPT ![i] = record]
    BY <1>4 DEF Replacement, Write
  <2>2. revisionBar[i] > 0 /\ revisionBar[i] = items[i].rev
    BY <1>4, Revisions DEF Replacement, revisionBar
  <2>3. revisionBar' = [revisionBar EXCEPT ![i] = revisionBar[i] + 1]
    BY <2>1, <2>2, NoRecordAssumption DEF revisionBar, Present, TypeOK
  <2>. QED BY <1>2, <2>2, <2>3 DEF Contract!Replace, Contract!Apply
<1>5. CASE Removal(r, i)
  <2>1. items' = [items EXCEPT ![i] = NoRecord]
    BY <1>5 DEF Removal, Write
  <2>2. revisionBar[i] > 0
    BY <1>5, Revisions DEF Removal
  <2>3. revisionBar' = [revisionBar EXCEPT ![i] = 0]
    BY <2>1 DEF revisionBar, Present, TypeOK
  <2>. QED BY <1>2, <2>2, <2>3 DEF Contract!Remove, Contract!Apply
<1>. QED BY <1>3, <1>4, <1>5

(* Every step maps to a step of the contract or to a stutter.               *)
LEMMA ContractStep == Inductive /\ [Next]_vars => [Contract!Next]_(Contract!vars)
<1>. SUFFICES ASSUME Inductive, [Next]_vars
     PROVE  Contract!Next \/ UNCHANGED <<revisionBar, phaseBar>>
  BY DEF Contract!vars
<1>1. CASE AuditSweep \/ UNCHANGED vars
  <2>1. UNCHANGED <<items, pc, commits>>
    BY <1>1 DEF AuditSweep, vars, ghosts
  <2>. QED BY <2>1 DEF revisionBar, phaseBar, Present, Applied
<1>2. ASSUME NEW r \in Request, StepOf(r)
      PROVE  Contract!Next \/ UNCHANGED <<revisionBar, phaseBar>>
  <2>. USE DEF Inductive
  <2>1. Effect(r)
    BY <1>2, AnyEffect
  <2>2. ASSUME NEW i \in Id, Insertion(r, i) \/ Replacement(r, i) \/ Removal(r, i)
        PROVE  Contract!Next
    BY <1>2, <2>2, ContractWrite DEF Contract!Next
  <2>3. CASE NoWrite
    <3>1. UNCHANGED revisionBar
      BY <2>3 DEF NoWrite, revisionBar, Present
    <3>2. Applied(r)' <=> Applied(r)
      BY <2>3, AppliedUnchanged DEF NoWrite
    <3>3. \A s \in Request : s # r => phaseBar'[s] = phaseBar[s]
      BY <1>2, PhaseUpdate
    <3>4. pc[r] # "done"
      BY <1>2 DEF StepOf, Step, Arrive, BadRequest, Cancel, CreatePut, StorePut,
                  PolicyRejects, UpdateWrite, UpdateReread, DeleteRemove,
                  TransitionRead, TransitionWrite, TransitionReread, TransitionMove,
                  AuditAdd, InFlight
    <3>5. CASE pc'[r] = "done"
      <4>1. phaseBar[r] # "answered" /\ phaseBar'[r] = "answered"
        BY <3>4, <3>5 DEF phaseBar
      <4>2. phaseBar' = [phaseBar EXCEPT ![r] = "answered"]
        BY <3>3, <4>1 DEF phaseBar
      <4>. QED BY <3>1, <4>1, <4>2 DEF Contract!Next, Contract!Answer
    <3>6. CASE pc'[r] # "done"
      <4>1. phaseBar'[r] = phaseBar[r]
        BY <3>2, <3>4, <3>6 DEF phaseBar
      <4>2. UNCHANGED phaseBar
        BY <3>3, <4>1 DEF phaseBar
      <4>. QED BY <3>1, <4>2
    <3>. QED BY <3>5, <3>6
  <2>. QED BY <2>1, <2>2, <2>3 DEF Effect
<1>. QED BY <1>1, <1>2 DEF Next, StepOf

(* Every behaviour of the handlers is one of OpsContract: a request takes   *)
(* effect in at most one atomic step, before it is answered, and that step *)
(* inserts revision 1, replaces a revision by the next, or removes.        *)
THEOREM Refinement == Spec => ImplementsContract
<1>1. Init => Contract!Init
  <2>. SUFFICES ASSUME Init PROVE Contract!Init
    OBVIOUS
  <2>1. revisionBar \in [Id -> Nat]
    BY InductiveInit, Revisions
  <2>2. phaseBar = [r \in Request |-> "open"]
    BY DEF Init, phaseBar, Applied
  <2>. QED BY <2>1, <2>2 DEF Contract!Init
<1>2. Inductive /\ [Next]_vars => [Contract!Next]_(Contract!vars)
  BY ContractStep
<1>. QED BY <1>1, <1>2, InductiveInvariant, PTL DEF Spec, ImplementsContract, Contract!Spec

=============================================================================
