----------------------------- MODULE OpsTrailProofs -----------------------------
(***************************************************************************)
(* What the traces of a write say about it: the audit trail, the history   *)
(* of the state machine, and the answer of the request.  All of it rests   *)
(* on OwnWriteInv, the part of Inductive that follows a request's own      *)
(* write until the request is answered.                                    *)
(***************************************************************************)
EXTENDS OpsRecordsProofs, FiniteSetTheorems

(* A request past its write has one in the history of writes; if others    *)
(* have overtaken it, one of those is of another request.                  *)
LEMMA OwnCommit ==
  ASSUME Inductive, NEW r \in Request, pc[r] \in AfterWrite
  PROVE  \E own \in commits :
           /\ own.by = r /\ own.kind = req[r].kind /\ own.id = AuditKey(r)
           /\ pc[r] \in {"updateReread", "transitionReread"} =>
                StandsAsWritten(own) \/ Overtaken(own)
           /\ pc[r] = "transitionMove" =>
                \/ copy[r].status = req[r].target
                \/ \E c \in commits : c.by # r /\ After(c, own) /\ ResultOf(c, copy[r])
           /\ Overtaken(own) => \E c \in commits : c.by # r /\ After(c, own)
<1>1. PICK own \in commits : own.by = r
  BY DEF Inductive, HandlersInv, HandlerInv, Applied
<1>2. pc[r] # "done" /\ OwnWrite(own)
  BY DEF Inductive, OwnWriteInv, OwnWrite, AfterWrite
<1>3. ASSUME NEW c \in commits, After(c, own) PROVE c.by # r
  <2>1. own.inc \in Nat /\ own.over \in Nat
    BY DEF Inductive, TypeOK, Commit
  <2>2. c # own
    BY <1>3, <2>1 DEF After
  <2>. QED BY <1>1, <1>2, <2>2 DEF OwnWrite
<1>. QED BY <1>1, <1>2, <1>3 DEF OwnWrite, Overtaken

-----------------------------------------------------------------------------
(* The history of the state machine. *)

(* The state machine records a move only for a request that was overtaken  *)
(* between its write and its second read: the move starts from what another *)
(* request has written after it (Transition, OpsStateMachine.Move).        *)
THEOREM HistoryOnlyOfRaces == Spec => HistoryNeedsARace
<1>1. Inductive /\ [Next]_vars =>
        (history' # history =>
           \E r \in Request : \E own, c \in commits :
             /\ pc[r] = "transitionMove" /\ pc'[r] = "audit"
             /\ own.by = r /\ c.by # r /\ After(c, own)
             /\ ResultOf(c, copy[r]))
  <2>. SUFFICES ASSUME Inductive, [Next]_vars, history' # history
       PROVE  \E r \in Request : \E own, c \in commits :
                /\ pc[r] = "transitionMove" /\ pc'[r] = "audit"
                /\ own.by = r /\ c.by # r /\ After(c, own)
                /\ ResultOf(c, copy[r])
    OBVIOUS
  <2>1. PICK r \in Request : StepOf(r)
    BY DEF Next, StepOf, AuditSweep, vars
  <2>2. TransitionMove(r)
    BY <2>1 DEF StepOf, Step, Arrive, BadRequest, Cancel, CreatePut, UpdateWrite,
                UpdateReread, DeleteRemove, TransitionRead, TransitionWrite,
                TransitionReread, AuditAdd, svcVars
  <2>3. /\ pc[r] = "transitionMove" /\ copy[r].status # req[r].target
        /\ Goto(r, "audit")
    BY <2>2 DEF TransitionMove
  <2>4. pc'[r] = "audit"
    BY <2>3 DEF Goto, Inductive, TypeOK
  <2>5. PICK own \in commits :
          /\ own.by = r
          /\ \E c \in commits : c.by # r /\ After(c, own) /\ ResultOf(c, copy[r])
    BY <2>3, OwnCommit DEF AfterWrite
  <2>. QED BY <2>3, <2>4, <2>5
<1>. QED BY <1>1, InductiveInvariant, PTL DEF Spec, HistoryNeedsARace

-----------------------------------------------------------------------------
(* The answers after the second read. *)

(* A request whose write took place is denied it only if another request   *)
(* has written the record after it, or if it spelled the id in another way *)
(* than the store (the second reads of Update and Transition).             *)
THEOREM DeniedOnlyIfOvertaken == Spec => OnlyOvertakenIsDenied
<1>1. Inductive /\ [Next]_vars =>
        \A r \in Request :
          pc[r] \in {"updateReread", "transitionReread", "transitionMove"}
            /\ outcome'[r] \in {"not_found", "transition"} =>
              \/ Canon[req[r].id] # req[r].id
              \/ \E c, own \in commits : own.by = r /\ After(c, own)
  <2>. SUFFICES ASSUME Inductive, [Next]_vars, NEW r \in Request,
                       pc[r] \in {"updateReread", "transitionReread", "transitionMove"},
                       outcome'[r] \in {"not_found", "transition"},
                       Canon[req[r].id] = req[r].id
       PROVE  \E c, own \in commits : own.by = r /\ After(c, own)
    OBVIOUS
  <2>. USE DEF Inductive
  <2>1. outcome[r] = "none" /\ req[r].kind \in {"update", "transition"}
        /\ req[r].kind = KindAt[pc[r]]
    BY DEF HandlersInv, HandlerInv, KindAt
  <2>2. AuditKey(r) = req[r].id
    BY <2>1 DEF AuditKey, StoreKey
  <2>3. StepOf(r)
    <3>1. ASSUME NEW s \in Request, StepOf(s), s # r PROVE FALSE
      BY <2>1, <3>1, OthersUntouched DEF Untouched
    <3>2. ~(AuditSweep \/ UNCHANGED vars)
      BY <2>1 DEF AuditSweep, vars
    <3>. QED BY <3>1, <3>2 DEF Next, StepOf
  <2>4. PICK own \in commits :
          /\ own.by = r /\ own.id = req[r].id
          /\ pc[r] \in {"updateReread", "transitionReread"} =>
               StandsAsWritten(own) \/ Overtaken(own)
          /\ pc[r] = "transitionMove" => copy[r].status = req[r].target \/ Overtaken(own)
    BY <2>2, OwnCommit DEF AfterWrite, Overtaken
  <2>5. ~Overtaken(own) => FALSE
    <3>. SUFFICES ASSUME ~Overtaken(own) PROVE FALSE
      OBVIOUS
    <3>1. ASSUME NEW code, Answer(r, code) PROVE outcome'[r] = code
      BY <3>1 DEF Answer, TypeOK
    <3>2. ASSUME NEW label, Goto(r, label) PROVE FALSE
      BY <2>1, <3>2 DEF Goto
    <3>3. ASSUME NEW label, NEW record, GotoWith(r, label, record) PROVE FALSE
      BY <2>1, <3>3 DEF GotoWith
    <3>4. CASE pc[r] \in {"updateReread", "transitionReread"}
      <4>1. Present(req[r].id)
        BY <2>4, <3>4 DEF StandsAsWritten
      <4>2. CASE UpdateReread(r) \/ TransitionReread(r)
        BY <3>1, <3>2, <3>3, <4>1, <4>2 DEF UpdateReread, TransitionReread, Unreachable
      <4>3. CASE Cancel(r)
        BY <2>1, <4>3 DEF Cancel
      <4>. QED BY <2>3, <3>4, <4>2, <4>3
           DEF StepOf, Step, Arrive, BadRequest, CreatePut, UpdateWrite, DeleteRemove,
               TransitionRead, TransitionWrite, TransitionMove, AuditAdd
    <3>5. CASE pc[r] = "transitionMove"
      <4>1. CASE TransitionMove(r)
        BY <2>4, <3>2, <3>5, <4>1 DEF TransitionMove
      <4>2. CASE Cancel(r)
        BY <2>1, <4>2 DEF Cancel
      <4>. QED BY <2>3, <3>5, <4>1, <4>2
           DEF StepOf, Step, Arrive, BadRequest, CreatePut, UpdateWrite, UpdateReread,
               DeleteRemove, TransitionRead, TransitionWrite, TransitionReread, AuditAdd
    <3>. QED BY <3>4, <3>5
  <2>. QED BY <2>4, <2>5 DEF Overtaken
<1>. QED BY <1>1, InductiveInvariant, PTL DEF Spec, OnlyOvertakenIsDenied

-----------------------------------------------------------------------------
(* The audit trail. *)

(* Newest shifts: what it keeps stands a fixed number of places earlier.    *)
LEMMA NewestShifts ==
  ASSUME NEW S, NEW s \in Seq(S), NEW n \in Nat
  PROVE  \E shift \in Nat : \A k \in DOMAIN Newest(s, n) :
           /\ k \in Nat /\ k + shift \in DOMAIN s
           /\ Newest(s, n)[k] = s[k + shift]
<1>. DEFINE kept == Newest(s, n)
<1>1. /\ kept \in Seq(S) /\ Len(kept) <= Len(s)
      /\ \A k \in 1 .. Len(kept) : kept[k] = s[k + Len(s) - Len(kept)]
  BY NewestType
<1>2. /\ Len(s) \in Nat /\ DOMAIN s = 1 .. Len(s)
      /\ Len(kept) \in Nat /\ DOMAIN kept = 1 .. Len(kept)
  BY <1>1, LenProperties
<1>. HIDE DEF kept
<1>. DEFINE shift == Len(s) - Len(kept)
<1>3. shift \in Nat
  BY <1>1, <1>2
<1>4. ASSUME NEW k \in DOMAIN kept
      PROVE  k \in Nat /\ k + shift \in DOMAIN s /\ kept[k] = s[k + shift]
  <2>1. k \in Nat /\ k + shift \in 1 .. Len(s) /\ k + shift = k + Len(s) - Len(kept)
    BY <1>1, <1>2
  <2>. QED BY <1>1, <1>2, <2>1
<1>. QED BY <1>3, <1>4 DEF kept

(* A trail reports writes truly if each entry has a write that succeeded,   *)
(* and no two entries are of one request.                                   *)
Reported(event, writes, answers) ==
  \E c \in writes : /\ c.by = event.by /\ answers[c.by] = "ok"
                    /\ Canon[c.id] = event.record
                    /\ EventType[c.kind] = event.type

TrueTrail(trail, writes, answers) ==
  /\ \A n \in DOMAIN trail : Reported(trail[n], writes, answers)
  /\ \A m, n \in DOMAIN trail : trail[m].by = trail[n].by => m = n

(* The end of such a trail is one. *)
LEMMA NewestIsTrue ==
  ASSUME NEW S, NEW trail \in Seq(S), NEW n \in Nat, NEW writes, NEW answers,
         TrueTrail(trail, writes, answers)
  PROVE  TrueTrail(Newest(trail, n), writes, answers)
<1>. DEFINE kept == Newest(trail, n)
<1>1. PICK shift \in Nat : \A k \in DOMAIN kept :
        k \in Nat /\ k + shift \in DOMAIN trail /\ kept[k] = trail[k + shift]
  BY NewestShifts
<1>. HIDE DEF kept
<1>2. ASSUME NEW j \in DOMAIN kept, NEW k \in DOMAIN kept, kept[j].by = kept[k].by
      PROVE  j = k
  <2>1. j + shift = k + shift
    BY <1>1, <1>2 DEF TrueTrail
  <2>. QED BY <1>1, <2>1
<1>3. \A k \in DOMAIN kept : Reported(kept[k], writes, answers)
  BY <1>1 DEF TrueTrail
<1>4. TrueTrail(kept, writes, answers)
  BY <1>2, <1>3 DEF TrueTrail
<1>. QED BY <1>4 DEF kept

(* The requests that have been told that they succeeded. *)
Succeeded == {r \in Request : outcome[r] = "ok"}

(* Only an addition to the trail makes a request one of them.               *)
LEMMA SucceedsWithEvent ==
  ASSUME Inductive, NEW r \in Request, StepOf(r), ~AuditAdd(r)
  PROVE  UNCHANGED <<events, auditSeq, Succeeded>>
<1>. USE DEF Inductive
<1>1. UNCHANGED <<events, auditSeq>>
  BY DEF StepOf, Step, Arrive, BadRequest, Cancel, CreatePut, UpdateWrite, UpdateReread,
         DeleteRemove, TransitionRead, TransitionWrite, TransitionReread, TransitionMove,
         svcVars
<1>2. outcome[r] # "ok"
  BY StepIsOfLive DEF HandlersInv, HandlerInv
<1>3. outcome'[r] # "ok"
  <2>1. CASE pc'[r] = "done"
    <3>1. outcome'[r] = "ok" => pc[r] = "audit"
      BY <2>1, AnswerCause
    <3>2. pc[r] = "audit" => Cancel(r)
      BY DEF StepOf, Step, Arrive, BadRequest, CreatePut, UpdateWrite, UpdateReread,
             DeleteRemove, TransitionRead, TransitionWrite, TransitionReread,
             TransitionMove
    <3>3. Cancel(r) => pc'[r] = pc[r]
      BY DEF Cancel
    <3>. QED BY <2>1, <3>1, <3>2, <3>3
  <2>2. CASE pc'[r] # "done"
    BY <2>2, HandlerStep DEF HandlerInv
  <2>. QED BY <2>1, <2>2
<1>4. \A s \in Request : s # r => outcome'[s] = outcome[s]
  BY OthersUntouched DEF Untouched
<1>5. Succeeded' = Succeeded
  BY <1>2, <1>3, <1>4 DEF Succeeded
<1>. QED BY <1>1, <1>5

(* An addition reports the write of its request and counts it. *)
LEMMA AddedIsTrue ==
  ASSUME Inductive, AuditMatchesWrites, IsFiniteSet(Succeeded),
         NEW r \in Request, AuditAdd(r)
  PROVE  AuditMatchesWrites' /\ IsFiniteSet(Succeeded)'
<1>. USE DEF Inductive
<1>. DEFINE event == [id |-> auditSeq + 1, record |-> AuditKey(r),
                      type |-> EventType[req[r].kind], by |-> r]
            longer == Append(events, event)
<1>1. /\ events' = Newest(longer, AuditCap) /\ auditSeq' = auditSeq + 1
      /\ event.by = r /\ event.record = AuditKey(r)
      /\ event.type = EventType[req[r].kind]
      /\ pc[r] = "audit" /\ commits' = commits
      /\ outcome' = [outcome EXCEPT ![r] = "ok"]
  BY DEF AuditAdd, KeepNewest, Answer, NoWrite
<1>2. /\ events \in Seq(OpsEvent) /\ auditSeq \in Nat
      /\ outcome \in [Request -> Outcome]
  BY DEF TypeOK
<1>. HIDE DEF event
<1>3. /\ longer \in Seq(OpsEvent \cup {event})
      /\ DOMAIN longer = 1 .. Len(events) + 1 /\ DOMAIN events = 1 .. Len(events)
      /\ Len(events) \in Nat
      /\ \A k \in 1 .. Len(events) : longer[k] = events[k]
      /\ longer[Len(events) + 1] = event
  <2>1. events \in Seq(OpsEvent \cup {event})
    BY <1>2, SeqMonotonic
  <2>2. /\ longer \in Seq(OpsEvent \cup {event}) /\ Len(longer) = Len(events) + 1
        /\ \A k \in 1 .. Len(events) : longer[k] = events[k]
        /\ longer[Len(events) + 1] = event
    BY <2>1, AppendProperties
  <2>. QED BY <1>2, <2>2, LenProperties
<1>. HIDE DEF longer
<1>4. outcome[r] = "none" /\ outcome'[r] = "ok"
      /\ \A s \in Request : s # r => outcome'[s] = outcome[s]
  BY <1>1, <1>2 DEF HandlersInv, HandlerInv
<1>5. PICK own \in commits : own.by = r /\ own.kind = req[r].kind /\ own.id = AuditKey(r)
  BY <1>1, OwnCommit DEF AfterWrite
<1>6. Reported(event, commits', outcome')
  <2>1. Canon[own.id] = own.id
    BY DEF OwnWriteInv
  <2>. QED BY <1>1, <1>4, <1>5, <2>1 DEF Reported
<1>7. ASSUME NEW k \in DOMAIN events
      PROVE  Reported(events[k], commits', outcome') /\ events[k].by # r
  <2>1. PICK c \in commits : /\ c.by = events[k].by /\ outcome[c.by] = "ok"
                             /\ Canon[c.id] = events[k].record
                             /\ EventType[c.kind] = events[k].type
    BY DEF AuditMatchesWrites
  <2>2. c.by \in Request /\ c.by # r
    BY <1>4, <2>1 DEF TypeOK, Commit
  <2>. QED BY <1>1, <1>4, <2>1, <2>2 DEF Reported
<1>8. TrueTrail(longer, commits', outcome')
  <2>1. \A n \in DOMAIN longer : Reported(longer[n], commits', outcome')
    BY <1>3, <1>6, <1>7
  <2>2. ASSUME NEW m \in DOMAIN longer, NEW n \in DOMAIN longer, longer[m].by = longer[n].by
        PROVE  m = n
    <3>1. CASE m \in DOMAIN events /\ n \in DOMAIN events
      BY <1>3, <2>2, <3>1 DEF AuditMatchesWrites
    <3>2. CASE m \notin DOMAIN events /\ n \notin DOMAIN events
      BY <1>3, <3>2
    <3>3. CASE m \in DOMAIN events /\ n \notin DOMAIN events
      BY <1>1, <1>3, <1>7, <2>2, <3>3
    <3>4. CASE m \notin DOMAIN events /\ n \in DOMAIN events
      BY <1>1, <1>3, <1>7, <2>2, <3>4
    <3>. QED BY <3>1, <3>2, <3>3, <3>4
  <2>. QED BY <2>1, <2>2 DEF TrueTrail
<1>9. TrueTrail(events', commits', outcome')
  BY <1>1, <1>3, <1>8, NewestIsTrue, AuditAssumption
<1>10. Succeeded' = Succeeded \cup {r} /\ r \notin Succeeded
  BY <1>4 DEF Succeeded
<1>11. IsFiniteSet(Succeeded') /\ Cardinality(Succeeded') = Cardinality(Succeeded) + 1
  BY <1>10, FS_AddElement
<1>12. auditSeq' = Cardinality(Succeeded')
  BY <1>1, <1>11 DEF AuditMatchesWrites, Succeeded
<1>. QED BY <1>9, <1>11, <1>12 DEF AuditMatchesWrites, TrueTrail, Reported, Succeeded

(* The audit trail and the store agree: every event is of a write that took *)
(* place and whose request has been told so, no request has two events, and *)
(* as many events have been added as requests have succeeded, for any       *)
(* interleaving with the sweep (OpsAudit.Add, OpsAudit.Trim).               *)
THEOREM TrailMatchesStore == Spec => []AuditMatchesWrites
<1>. DEFINE Inv == AuditMatchesWrites /\ IsFiniteSet(Succeeded)
<1>1. Init => Inv
  <2>. SUFFICES ASSUME Init PROVE Inv
    OBVIOUS
  <2>1. Succeeded = {}
    BY DEF Init, Succeeded
  <2>2. IsFiniteSet(Succeeded) /\ Cardinality(Succeeded) = 0
    BY <2>1, FS_EmptySet
  <2>3. AuditMatchesWrites
    BY <2>2 DEF Init, AuditMatchesWrites, Succeeded
  <2>. QED BY <2>2, <2>3
<1>2. Inductive /\ Inv /\ [Next]_vars => Inv'
  <2>. SUFFICES ASSUME Inductive, AuditMatchesWrites, IsFiniteSet(Succeeded), [Next]_vars
       PROVE  AuditMatchesWrites' /\ IsFiniteSet(Succeeded')
    OBVIOUS
  <2>1. ASSUME NEW r \in Request, AuditAdd(r)
        PROVE  AuditMatchesWrites' /\ IsFiniteSet(Succeeded')
    BY <2>1, AddedIsTrue
  <2>2. ASSUME NEW r \in Request, StepOf(r), ~AuditAdd(r)
        PROVE  AuditMatchesWrites' /\ IsFiniteSet(Succeeded')
    <3>1. UNCHANGED <<events, auditSeq, Succeeded>>
      BY <2>2, SucceedsWithEvent
    <3>2. commits \subseteq commits'
      <4>1. Effect(r)
        BY <2>2, AnyEffect DEF Inductive
      <4>. QED BY <4>1 DEF Effect, NoWrite, Insertion, Replacement, Removal, Write
    <3>3. \A c \in commits : outcome[c.by] = "ok" => outcome'[c.by] = "ok"
      BY <3>1 DEF Inductive, TypeOK, Commit, Succeeded
    <3>4. \A n \in DOMAIN events :
            \E c \in commits' : /\ c.by = events[n].by /\ outcome'[c.by] = "ok"
                                /\ Canon[c.id] = events[n].record
                                /\ EventType[c.kind] = events[n].type
      BY <3>2, <3>3 DEF AuditMatchesWrites
    <3>5. auditSeq' = Cardinality(Succeeded')
      BY <3>1 DEF AuditMatchesWrites, Succeeded
    <3>. QED BY <3>1, <3>4, <3>5 DEF AuditMatchesWrites, Succeeded
  <2>3. CASE AuditSweep
    <3>1. /\ events' = Newest(events, SweepMax) /\ auditSeq' = auditSeq
          /\ commits' = commits /\ outcome' = outcome /\ events \in Seq(OpsEvent)
      BY <2>3 DEF AuditSweep, ghosts, Inductive, TypeOK
    <3>2. TrueTrail(events, commits, outcome)
      BY DEF AuditMatchesWrites, TrueTrail, Reported
    <3>3. TrueTrail(events', commits', outcome')
      BY <3>1, <3>2, NewestIsTrue, AuditAssumption
    <3>. QED BY <3>1, <3>3 DEF AuditMatchesWrites, TrueTrail, Reported, Succeeded
  <2>4. CASE UNCHANGED vars
    BY <2>4 DEF vars, AuditMatchesWrites, Succeeded
  <2>. QED BY <2>1, <2>2, <2>3, <2>4 DEF Next, StepOf
<1>. QED BY <1>1, <1>2, InductiveInvariant, PTL DEF Spec

=============================================================================
