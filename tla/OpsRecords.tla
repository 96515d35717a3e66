------------------------------- MODULE OpsRecords -------------------------------
(***************************************************************************)
(* The operations-records API: OpsService over OpsStore, OpsStateMachine   *)
(* and OpsAudit (backend/ops_*.go).                                        *)
(*                                                                         *)
(* Every HTTP request is a goroutine.  The store, the audit trail and the  *)
(* state machine each have their own mutex, held for one method call, so   *)
(* one method call is one atomic step, and everything may happen between   *)
(* two calls of the same handler.  A Request is one HTTP request, from its *)
(* arrival to its answer; its local variables are pc, req, copy, outcome.  *)
(*                                                                         *)
(* Right before some definitions stand variants of them, each marked as a  *)
(* slip: the mistake that the properties below have to find.  Nothing uses *)
(* them.                                                                   *)
(***************************************************************************)
EXTENDS Naturals, Sequences, FiniteSets, OpsStateMachine

CONSTANTS
  Request,   \* the HTTP requests
  Id,        \* record ids as clients spell them
  Canon,     \* Canon[i]: the id that normalizeOpsRecord makes of i
  Seed,      \* the seeded records: a function from ids to [status, rev]
  Kinds,     \* the kinds of requests that arrive
  Targets,   \* the statuses that requests ask for
  Expected,  \* the expected_revision they carry; 0 is "absent or negative"
  AuditCap,  \* OpsAudit.cap
  SweepMax,  \* what the scheduled sweep trims the audit trail to
  NoRecord,  \* "not in the map", the zero OpsRecord
  NoReq      \* no request has arrived yet

ASSUME CanonAssumption ==
  /\ Canon \in [Id -> Id]
  /\ \A i \in Id : Canon[Canon[i]] = Canon[i]

ASSUME SeedAssumption ==
  /\ DOMAIN Seed \subseteq Id
  /\ \A i \in DOMAIN Seed : /\ Canon[i] = i
                            /\ Seed[i] \in [status : Status, rev : Nat \ {0}]

ASSUME RequestAssumption ==
  /\ Kinds \subseteq {"create", "update", "delete", "transition"}
  /\ Targets \subseteq Status
  /\ Expected \subseteq Nat
  /\ Request \cap {"seed", "unset"} = {}

ASSUME AuditAssumption == AuditCap \in Nat \ {0} /\ SweepMax \in Nat

VARIABLES
  items,     \* OpsStore.items
  events,    \* OpsAudit.events
  auditSeq,  \* opsAuditSequence
  history,   \* OpsStateMachine.history
  pc,        \* where the handler of each request is
  req,       \* the decoded request
  copy,      \* the handler's own copy of a record, from its last store.Get
  ctxDone,   \* the request's context is cancelled or past its deadline
  outcome,   \* the answer the client gets
  births,    \* history variable: how often each id was created
  seen,      \* history variable: the record as the client last observed it
  commits    \* history variable: every write the store has accepted

svcVars  == <<events, auditSeq, history>>
ghosts   == <<births, seen, commits>>
vars     == <<items, events, auditSeq, history, pc, req, copy, ctxDone,
              outcome, births, seen, commits>>

(***************************************************************************)
(* The data.  created names who stamped CreatedAt ("unset" is the empty    *)
(* string), body who wrote Subject, Owner, Priority and Labels.  inc is a  *)
(* history field: which creation of its id the map entry goes back to.     *)
(***************************************************************************)
Author    == Request \cup {"seed"}
OpsRecord == [status : Status, rev : Nat, created : Author \cup {"unset"},
              body : Author, inc : Nat]

ASSUME NoRecordAssumption == NoRecord \notin OpsRecord

OpsRequest == [kind : {"create", "update", "delete", "transition"}, id : Id,
               expected : Nat, target : Status]

ASSUME NoReqAssumption == NoReq \notin OpsRequest

EventType         == [create |-> "created", update |-> "updated",
                      delete |-> "deleted", transition |-> "status_changed"]

OpsEvent == [id : Nat, record : Id,
             type : {"created", "updated", "deleted", "status_changed"}, by : Request]

Outcome == {"none", "ok", "not_found", "conflict", "invalid", "transition",
            "policy", "internal"}

Commit == [by : Request, kind : {"create", "update", "delete", "transition"},
           id : Id, inc : Nat, over : Nat, expected : Nat]

Labels == {"idle", "createPut", "updateWrite", "updateReread", "deleteRemove",
           "transitionRead", "transitionWrite", "transitionReread",
           "transitionMove", "audit", "done"}

FirstStep == [create |-> "createPut", update |-> "updateWrite",
              delete |-> "deleteRemove", transition |-> "transitionRead"]

Present(i) == items[i] # NoRecord
Applied(r) == \E c \in commits : c.by = r
InFlight(r) == pc[r] \notin {"idle", "done"}

(* The revision check that Transition and OpsStore.Update both make. *)
\* slip: an old revision will do
RevisionMatchesAtLeast(expected, record) == expected > 0 => expected <= record.rev
RevisionMatches(expected, record)        == expected > 0 => expected = record.rev

(* The key under which Create and Update store a record, which             *)
(* normalizeOpsRecord has gone over, and the record id of an audit event.  *)
\* slip: the id is not normalized
StoreKeyAsSent(r) == req[r].id
StoreKey(r)       == Canon[req[r].id]
\* slip: nor is it here
AuditKeyAsSent(r) == req[r].id
AuditKey(r) == IF req[r].kind \in {"create", "update"} THEN StoreKey(r) ELSE req[r].id

(* The last n elements of a sequence. *)
\* slip: the wrong end is cut off
Oldest(s, n) == IF Len(s) > n THEN SubSeq(s, 1, n) ELSE s
Newest(s, n) == IF Len(s) > n THEN SubSeq(s, Len(s) - n + 1, Len(s)) ELSE s

Init ==
  /\ items    = [i \in Id |-> IF i \in DOMAIN Seed
                              THEN [status |-> Seed[i].status, rev |-> Seed[i].rev,
                                    created |-> "seed", body |-> "seed", inc |-> 1]
                              ELSE NoRecord]
  /\ births   = [i \in Id |-> IF i \in DOMAIN Seed THEN 1 ELSE 0]
  /\ events   = <<>>
  /\ auditSeq = 0
  /\ history  = <<>>
  /\ pc       = [r \in Request |-> "idle"]
  /\ req      = [r \in Request |-> NoReq]
  /\ copy     = [r \in Request |-> NoRecord]
  /\ ctxDone  = [r \in Request |-> FALSE]
  /\ outcome  = [r \in Request |-> "none"]
  /\ seen     = [r \in Request |-> NoRecord]
  /\ commits  = {}

-----------------------------------------------------------------------------
(* Control flow of a handler. *)

Goto(r, label) == /\ pc' = [pc EXCEPT ![r] = label]
                  /\ UNCHANGED <<req, copy, ctxDone, outcome, seen>>

GotoWith(r, label, record) == /\ pc' = [pc EXCEPT ![r] = label]
                              /\ copy' = [copy EXCEPT ![r] = record]
                              /\ UNCHANGED <<req, ctxDone, outcome, seen>>

(* The goroutine ends, and its local variables with it. *)
Answer(r, code) == /\ pc'      = [pc EXCEPT ![r] = "done"]
                   /\ outcome' = [outcome EXCEPT ![r] = code]
                   /\ req'     = [req EXCEPT ![r] = NoReq]
                   /\ copy'    = [copy EXCEPT ![r] = NoRecord]
                   /\ ctxDone' = [ctxDone EXCEPT ![r] = FALSE]
                   /\ seen'    = [seen EXCEPT ![r] = NoRecord]

NoWrite == UNCHANGED <<items, births, commits>>

(* A store call looks at the context first and at the map second. *)
Reachable(r, i) == ~ctxDone[r] /\ Present(i)

Unreachable(r, i) ==
  /\ \/ ctxDone[r]                  /\ Answer(r, "internal")
     \/ ~ctxDone[r] /\ ~Present(i)  /\ Answer(r, "not_found")
  /\ NoWrite

(* The map entry of i becomes record, or goes away; the history variable   *)
(* commits remembers which revision of which creation was replaced.        *)
Write(r, i, record, inc, over) ==
  /\ items'   = [items EXCEPT ![i] = record]
  /\ commits' = commits \cup {[by |-> r, kind |-> req[r].kind, id |-> i, inc |-> inc,
                               over |-> over, expected |-> req[r].expected]}

-----------------------------------------------------------------------------
(* A request arrives.  Its expected revision stems from what the client    *)
(* saw before: seen is the record at the client's last look (opsGetHandler *)
(* and the list), taken to be at arrival, as from here on the handler may  *)
(* be delayed for as long as it takes.                                     *)

ArrivingRequests ==
  { q \in [kind : Kinds, id : Id, expected : Expected \cup {0},
           target : Targets \cup {"other"}] :
      /\ q.kind \in {"create", "delete"} => q.expected = 0
      /\ IF q.kind = "delete" THEN q.target = "other" ELSE q.target \in Targets
      /\ q.kind = "transition" => q.target \in ValidStatus
      /\ q.kind \in {"update", "transition"} => q.expected \in Expected }

Arrive(r) ==
  /\ pc[r] = "idle"
  /\ \E q \in ArrivingRequests :
       /\ req'  = [req EXCEPT ![r] = q]
       /\ seen' = [seen EXCEPT ![r] = items[Canon[q.id]]]
       /\ pc'   = [pc EXCEPT ![r] = FirstStep[q.kind]]
  /\ UNCHANGED <<items, svcVars, copy, ctxDone, outcome, births, commits>>

(* A body that does not decode, an empty id, a transition to a text that   *)
(* is no status: answered before the service is called.                    *)
BadRequest(r) ==
  /\ pc[r] = "idle"
  /\ Answer(r, "invalid") /\ NoWrite
  /\ UNCHANGED svcVars

(* The client goes away, or the three seconds of opsContext run out.       *)
Cancel(r) ==
  /\ InFlight(r) /\ ~ctxDone[r]
  /\ ctxDone' = [ctxDone EXCEPT ![r] = TRUE]
  /\ UNCHANGED <<items, svcVars, pc, req, copy, outcome, ghosts>>

(* OpsPolicy.Check: a record without owner, site label or priority.        *)
PolicyRejects(r) == Answer(r, "policy") /\ NoWrite

(* OpsStore.Put *)
StorePut(r, i, record) ==
  \/ Present(i) /\ Answer(r, "conflict") /\ NoWrite
  \/ /\ ~Present(i)
     /\ births' = [births EXCEPT ![i] = @ + 1]
     /\ Write(r, i, record, record.inc, 0)
     /\ Goto(r, "audit")

(* OpsService.Create: the policy, then OpsStore.Put of a new record.       *)
CreatePut(r) ==
  LET i == StoreKey(r) IN
  /\ pc[r] = "createPut"
  /\ \/ PolicyRejects(r)
     \/ ctxDone[r] /\ Answer(r, "internal") /\ NoWrite
     \/ /\ ~ctxDone[r]
        /\ StorePut(r, i, [status |-> req[r].target, rev |-> 1, created |-> r,
                           body |-> r, inc |-> births[i] + 1])
  /\ UNCHANGED svcVars

(* What OpsStore.Update makes of the record it is given: the revision is   *)
(* counted on from the entry it replaces, never from the caller's copy.    *)
\* slip: not counted on at all
StoredSameRevision(record, current) ==
  [record EXCEPT !.rev = current.rev, !.inc = current.inc]
Stored(record, current) ==
  [record EXCEPT !.rev = current.rev + 1, !.inc = current.inc]

(* OpsStore.Update for an entry that is there. *)
\* slip: writes before it compares
StoreUpdateWriteFirst(r, i, record, next) ==
  /\ Write(r, i, Stored(record, items[i]), items[i].inc, items[i].rev)
  /\ IF RevisionMatches(req[r].expected, items[i]) THEN Goto(r, next)
                                                   ELSE Answer(r, "conflict")
  /\ UNCHANGED births
\* slip: does not compare
StoreUpdateUnchecked(r, i, record, next) ==
  /\ Write(r, i, Stored(record, items[i]), items[i].inc, items[i].rev)
  /\ Goto(r, next)
  /\ UNCHANGED births
StoreUpdate(r, i, record, next) ==
  \/ /\ ~RevisionMatches(req[r].expected, items[i])
     /\ Answer(r, "conflict") /\ NoWrite
  \/ /\ RevisionMatches(req[r].expected, items[i])
     /\ Write(r, i, Stored(record, items[i]), items[i].inc, items[i].rev)
     /\ Goto(r, next)
     /\ UNCHANGED births

(* OpsService.Update: the policy, then OpsStore.Update under the normalized *)
(* id with a record built from the request, in which CreatedAt is empty.    *)
UpdateWrite(r) ==
  LET i == StoreKey(r) IN
  /\ pc[r] = "updateWrite"
  /\ \/ PolicyRejects(r)
     \/ Unreachable(r, i)
     \/ /\ Reachable(r, i)
        /\ StoreUpdate(r, i, [status |-> req[r].target, rev |-> 1, created |-> "unset",
                              body |-> r, inc |-> 0], "updateReread")
  /\ UNCHANGED svcVars

(* ... then OpsStore.Get under the id as it stands in the path.            *)
\* slip: polls until the record is there
UpdateRereadWaits(r) ==
  /\ pc[r] = "updateReread"
  /\ Reachable(r, req[r].id) /\ Goto(r, "audit") /\ NoWrite
  /\ UNCHANGED svcVars
\* slip: retries the write
UpdateRereadWritesAgain(r) ==
  /\ pc[r] = "updateReread"
  /\ \/ ~Reachable(r, req[r].id) /\ Goto(r, "updateWrite") /\ NoWrite
     \/ Reachable(r, req[r].id) /\ Goto(r, "audit") /\ NoWrite
  /\ UNCHANGED svcVars
UpdateReread(r) ==
  /\ pc[r] = "updateReread"
  /\ \/ Unreachable(r, req[r].id)
     \/ Reachable(r, req[r].id) /\ Goto(r, "audit") /\ NoWrite
  /\ UNCHANGED svcVars

(* OpsService.Delete: OpsStore.Delete under the id of the path.            *)
DeleteRemove(r) ==
  LET i == req[r].id IN
  /\ pc[r] = "deleteRemove"
  /\ \/ Unreachable(r, i)
     \/ /\ Reachable(r, i)
        /\ Write(r, i, NoRecord, items[i].inc, items[i].rev)
        /\ Goto(r, "audit")
        /\ UNCHANGED births
  /\ UNCHANGED svcVars

(* OpsService.Transition: read, check the revision and the move, ...       *)
\* slip: asks for a status that is one, not for a move
TransitionReadAnyMove(r) ==
  LET i == req[r].id IN
  /\ pc[r] = "transitionRead"
  /\ \/ Unreachable(r, i)
     \/ /\ Reachable(r, i)
        /\ NoWrite
        /\ \/ /\ ~RevisionMatches(req[r].expected, items[i])
              /\ Answer(r, "conflict")
           \/ /\ RevisionMatches(req[r].expected, items[i])
              /\ GotoWith(r, "transitionWrite", items[i])
  /\ UNCHANGED svcVars
TransitionRead(r) ==
  LET i == req[r].id IN
  /\ pc[r] = "transitionRead"
  /\ \/ Unreachable(r, i)
     \/ /\ Reachable(r, i)
        /\ NoWrite
        /\ \/ /\ ~RevisionMatches(req[r].expected, items[i])
              /\ Answer(r, "conflict")
           \/ /\ RevisionMatches(req[r].expected, items[i])
              /\ ~CanMove(items[i].status, req[r].target)
              /\ Answer(r, "transition")
           \/ /\ RevisionMatches(req[r].expected, items[i])
              /\ CanMove(items[i].status, req[r].target)
              /\ GotoWith(r, "transitionWrite", items[i])
  /\ UNCHANGED svcVars

(* ... write the copy back under its new status, ...                       *)
TransitionWrite(r) ==
  LET i == req[r].id IN
  /\ pc[r] = "transitionWrite"
  /\ \/ Unreachable(r, i)
     \/ /\ Reachable(r, i)
        /\ StoreUpdate(r, i, [copy[r] EXCEPT !.status = req[r].target],
                       "transitionReread")
  /\ UNCHANGED svcVars

(* ... read again ...                                                      *)
\* slip: drops what it has read
TransitionRereadKeepsCopy(r) ==
  /\ pc[r] = "transitionReread"
  /\ \/ Unreachable(r, req[r].id)
     \/ Reachable(r, req[r].id) /\ Goto(r, "transitionMove") /\ NoWrite
  /\ UNCHANGED svcVars
TransitionReread(r) ==
  LET i == req[r].id IN
  /\ pc[r] = "transitionReread"
  /\ \/ Unreachable(r, i)
     \/ /\ Reachable(r, i)
        /\ GotoWith(r, "transitionMove", items[i]) /\ NoWrite
  /\ UNCHANGED svcVars

(* ... and let the state machine record the move, from the status just     *)
(* read to the status asked for.                                           *)
\* slip: a move from a status to itself is no move
TransitionMoveStrict(r) ==
  LET from == copy[r].status
      to   == req[r].target
  IN
  /\ pc[r] = "transitionMove"
  /\ \/ IsMove(from, to) /\ history' = Append(history, [from |-> from, to |-> to])
        /\ Goto(r, "audit")
     \/ ~IsMove(from, to) /\ Answer(r, "transition") /\ UNCHANGED history
  /\ NoWrite /\ UNCHANGED <<events, auditSeq>>
TransitionMove(r) ==
  LET from == copy[r].status
      to   == req[r].target
  IN
  /\ pc[r] = "transitionMove"
  /\ \/ from = to /\ Goto(r, "audit") /\ UNCHANGED history
     \/ /\ from # to /\ IsMove(from, to)
        /\ history' = Append(history, [from |-> from, to |-> to])
        /\ Goto(r, "audit")
     \/ /\ from # to /\ ~IsMove(from, to)
        /\ Answer(r, "transition") /\ UNCHANGED history
  /\ NoWrite /\ UNCHANGED <<events, auditSeq>>

(* OpsAudit.Add, the last call of every handler that changes a record.     *)
KeepNewest(log) == Newest(log, AuditCap)
AuditAdd(r) ==
  /\ pc[r] = "audit"
  /\ auditSeq' = auditSeq + 1
  /\ events' = KeepNewest(Append(events,
                 [id |-> auditSeq + 1, record |-> AuditKey(r),
                  type |-> EventType[req[r].kind], by |-> r]))
  /\ Answer(r, "ok") /\ NoWrite
  /\ UNCHANGED history

(* OpsAudit.Recent, for GET /api/ops/audit. *)
Recent(limit) == IF limit <= 0 THEN events ELSE Newest(events, limit)

(* The scheduled job "ops-audit-sweep": OpsAudit.Trim. *)
AuditSweep ==
  /\ events' = Newest(events, SweepMax)
  /\ UNCHANGED <<items, auditSeq, history, pc, req, copy, ctxDone, outcome, ghosts>>

-----------------------------------------------------------------------------
Step(r) ==
  \/ CreatePut(r)      \/ UpdateWrite(r)      \/ UpdateReread(r)
  \/ DeleteRemove(r)   \/ TransitionRead(r)   \/ TransitionWrite(r)
  \/ TransitionReread(r) \/ TransitionMove(r) \/ AuditAdd(r)

Next ==
  \/ \E r \in Request : Arrive(r) \/ BadRequest(r) \/ Cancel(r) \/ Step(r)
  \/ AuditSweep

Spec == Init /\ [][Next]_vars

(* The Go scheduler runs every runnable goroutine again and no method call *)
(* blocks for good, as no mutex is held across calls; clients may stay out *)
(* and nobody has to cancel.                                               *)
FairSpec == Spec /\ \A r \in Request : WF_vars(Step(r))

-----------------------------------------------------------------------------
(* Type invariant: what each of the variables may hold (ops_model.go).     *)
TypeOK ==
  /\ items    \in [Id -> OpsRecord \cup {NoRecord}]
  /\ events   \in Seq(OpsEvent)
  /\ auditSeq \in Nat
  /\ history  \in Seq([from : Status, to : Status])
  /\ pc       \in [Request -> Labels]
  /\ req      \in [Request -> OpsRequest \cup {NoReq}]
  /\ copy     \in [Request -> OpsRecord \cup {NoRecord}]
  /\ ctxDone  \in [Request -> BOOLEAN]
  /\ outcome  \in [Request -> Outcome]
  /\ births   \in [Id -> Nat]
  /\ seen     \in [Request -> OpsRecord \cup {NoRecord}]
  /\ commits  \subseteq Commit

(* A record that somebody still holds from an earlier look is never ahead  *)
(* of the map entry it was copied from, and is that very entry if the      *)
(* revision is the same: a revision number names one content, as long as   *)
(* the id has not been deleted and created again in between.               *)
NotAheadOf(old, i) ==
  old # NoRecord =>
    /\ old.inc <= births[i]
    /\ Present(i) /\ items[i].inc = old.inc =>
         /\ old.rev <= items[i].rev
         /\ old.rev = items[i].rev => old = items[i]

RevisionNamesContent ==
  \A r \in Request : req[r] # NoReq => /\ NotAheadOf(seen[r], Canon[req[r].id])
                                       /\ NotAheadOf(copy[r], req[r].id)

(* No lost update: two requests that both carried a revision and both got  *)
(* their write into the same creation of a record carried different ones,  *)
(* so neither wrote over what it had not seen (OpsStore.Update).           *)
SameLife(c, d) == c.id = d.id /\ c.inc = d.inc

NoLostUpdate ==
  \A c, d \in commits :
    c # d /\ SameLife(c, d) /\ c.expected > 0 /\ d.expected > 0
      => c.expected # d.expected

(* Records live under normalized ids only: an entry under another spelling *)
(* could be created twice and reached by no PUT.                           *)
IdsAreCanonical == \A i \in Id : Present(i) => Canon[i] = i

(* What an answer says about the store: a success has been written, and a  *)
(* conflict, a policy or a validation error has left nothing behind, so    *)
(* that it is safe to send the request again.                              *)
AnswersAreHonest ==
  \A r \in Request :
    /\ outcome[r] = "ok" => Applied(r)
    /\ outcome[r] \in {"conflict", "policy", "invalid"} => ~Applied(r)

(* The audit trail reports writes that took place, under the right id and  *)
(* type, of requests that have succeeded, no request twice, and it skips   *)
(* none of these (OpsAudit.Add at the end of Create, Update, Delete and    *)
(* Transition).                                                            *)
AuditMatchesWrites ==
  /\ \A n \in DOMAIN events :
       \E c \in commits : /\ c.by = events[n].by /\ outcome[c.by] = "ok"
                          /\ Canon[c.id] = events[n].record
                          /\ EventType[c.kind] = events[n].type
  /\ \A m, n \in DOMAIN events : events[m].by = events[n].by => m = n
  /\ auditSeq = Cardinality({r \in Request : outcome[r] = "ok"})

(* The trail never outgrows its capacity, and whatever part of it a client *)
(* asks for is the unbroken end of all events ever added: their numbers    *)
(* are consecutive and end at the last one given out, for any interleaving *)
(* of Add with the sweep (Add, Trim, Recent).                              *)
AuditIsNewestEvents ==
  /\ Len(events) <= AuditCap
  /\ \A limit \in 0 .. AuditCap : \A n \in DOMAIN Recent(limit) :
       Recent(limit)[n].id + Len(Recent(limit)) = auditSeq + n

(* c wrote the record after d did, and record is what c left behind.       *)
After(c, d) == c.id = d.id /\ (c.inc > d.inc \/ (c.inc = d.inc /\ c.over > d.over))
ResultOf(c, record) == record.inc = c.inc /\ record.rev = c.over + 1

(* OpsStateMachine.Move is told where the record stands after the write,   *)
(* so it sees from = to and has nothing to record, except when a request   *)
(* was overtaken between its write and its second read: each move in the   *)
(* history starts from what another request has written after the one that *)
(* the move is of.                                                         *)
HistoryNeedsARace ==
  [][history' # history =>
       \E r \in Request : \E own, c \in commits :
         /\ pc[r] = "transitionMove" /\ pc'[r] = "audit"
         /\ own.by = r /\ c.by # r /\ After(c, own)
         /\ ResultOf(c, copy[r])]_vars

(* A record changes by one revision at a time and keeps its creation, a    *)
(* new one starts at revision 1, whichever stale copy the writer held.     *)
RevisionsAreConsecutive ==
  [][\A i \in Id :
       items'[i] # items[i] /\ items'[i] # NoRecord =>
         IF Present(i) THEN /\ items'[i].rev = items[i].rev + 1
                            /\ items'[i].inc = items[i].inc
                       ELSE items'[i].rev = 1]_vars

Replaces(r) == /\ pc[r] \in {"updateWrite", "transitionWrite"}
               /\ Reachable(r, Canon[req[r].id])
               /\ pc'[r] \in {"updateReread", "transitionReread"}

(* A transition that carried a revision is judged by the status it really  *)
(* replaces, and changes nothing but the status, however long the request  *)
(* was held up between its read and its write - within one creation of the *)
(* record.                                                                 *)
GuardedTransitionIsLegal ==
  [][\A r \in Request : LET i == req[r].id IN
       pc[r] = "transitionWrite" /\ Replaces(r) /\ req[r].expected > 0
         /\ copy[r].inc = items[i].inc =>
           /\ CanMove(items[i].status, items'[i].status)
           /\ items'[i] = [items[i] EXCEPT !.status = items'[i].status,
                                           !.rev = items'[i].rev]]_vars

(* A transition that carries no revision is judged by the copy it has read *)
(* and writes that copy back, whatever stands there by then.  It may so    *)
(* make a move that the table does not have, or take back what others have *)
(* changed, but only if another request has written the record after it    *)
(* was read.                                                               *)
WrittenSince(c, record) ==
  c.inc > record.inc \/ (c.inc = record.inc /\ c.over >= record.rev)

UnfitOnlyIfOvertaken ==
  [][\A r \in Request : LET i == req[r].id IN
       pc[r] = "transitionWrite" /\ Replaces(r) =>
         \/ /\ CanMove(items[i].status, items'[i].status)
            /\ items'[i] = [items[i] EXCEPT !.status = items'[i].status,
                                            !.rev = items'[i].rev]
         \/ \E c \in commits : /\ c.by # r /\ c.id = i
                               /\ ResultOf(c, items[i]) /\ WrittenSince(c, copy[r])]_vars

(* Optimistic concurrency as ops_service.go:115-116 words it: a write that *)
(* carries the revision its caller last observed replaces the record the   *)
(* caller observed.                                                        *)
ObservedIsReplaced ==
  [][\A r \in Request : LET i == Canon[req[r].id] IN
       Replaces(r) /\ seen[r] # NoRecord /\ req[r].expected = seen[r].rev
         => items[i] = seen[r]]_vars

(* A request whose write took place is told that there is no such record,  *)
(* or that its transition is not allowed, in two cases only: it spelled    *)
(* the id in another way than the store does, or another request has       *)
(* written the record after it (the second reads of Update and Transition).*)
OnlyOvertakenIsDenied ==
  [][\A r \in Request :
       pc[r] \in {"updateReread", "transitionReread", "transitionMove"}
         /\ outcome'[r] \in {"not_found", "transition"} =>
           \/ Canon[req[r].id] # req[r].id
           \/ \E c, own \in commits : own.by = r /\ After(c, own)]_vars

(* "operations status transition is not allowed" (ops_errors.go:12): a     *)
(* transition that is refused has not taken place.                         *)
RefusedTransitionDidNotHappen ==
  \A r \in Request : outcome[r] = "transition" => ~Applied(r)

(* Every request that has reached the service is answered.                 *)
EveryRequestIsAnswered == \A r \in Request : InFlight(r) ~> pc[r] = "done"

-----------------------------------------------------------------------------
(* The refinement mapping to OpsContract: of a record only the revision is *)
(* left, of a request only whether it has written and has been answered.   *)
revisionBar == [i \in Id |-> IF Present(i) THEN items[i].rev ELSE 0]

phaseBar == [r \in Request |-> IF pc[r] = "done" THEN "answered"
                               ELSE IF Applied(r) THEN "applied" ELSE "open"]

Contract == INSTANCE OpsContract WITH revision <- revisionBar, phase <- phaseBar

(* Every behaviour of the handlers is one of the contract: a request's     *)
(* effect is one atomic step between its arrival and its answer.           *)
ImplementsContract == Contract!Spec

-----------------------------------------------------------------------------
(* What makes the invariants above inductive.                              *)

BeforeWrite == {"createPut", "updateWrite", "deleteRemove", "transitionRead",
                "transitionWrite"}
AfterWrite  == {"updateReread", "transitionReread", "transitionMove", "audit"}

KindAt == [createPut |-> "create", updateWrite |-> "update", updateReread |-> "update",
           deleteRemove |-> "delete", transitionRead |-> "transition",
           transitionWrite |-> "transition", transitionReread |-> "transition",
           transitionMove |-> "transition"]

(* Where a handler is tells what it works on, whether it has written, and  *)
(* that it has not been answered.  Creations and deletions carry no        *)
(* revision.                                                               *)
HandlerInv(r) ==
  /\ pc[r] = "idle" => req[r] = NoReq
  /\ pc[r] # "done" => outcome[r] = "none"
  /\ InFlight(r) => req[r] # NoReq
  /\ pc[r] \in DOMAIN KindAt => req[r].kind = KindAt[pc[r]]
  /\ pc[r] \in BeforeWrite \cup {"idle"} => ~Applied(r)
  /\ pc[r] \in AfterWrite => Applied(r)
  /\ req[r] = NoReq => copy[r] = NoRecord /\ seen[r] = NoRecord
  /\ req[r] # NoReq /\ req[r].kind \in {"create", "delete"} => req[r].expected = 0
  /\ pc[r] \in {"transitionWrite", "transitionMove"} => copy[r] # NoRecord
  /\ pc[r] = "transitionWrite" => /\ CanMove(copy[r].status, req[r].target)
                                  /\ RevisionMatches(req[r].expected, copy[r])

HandlersInv == \A r \in Request : HandlerInv(r)

(* An entry belongs to the latest creation of its id.                      *)
LivesInv ==
  \A i \in Id : Present(i) => items[i].inc = births[i] /\ items[i].rev > 0

(* The writes to one creation of a record form a chain: each replaced a    *)
(* revision of its own, and all of them lie behind the entry.              *)
ChainInv ==
  /\ \A c \in commits :
       /\ c.inc <= births[c.id]
       /\ Present(c.id) /\ c.inc = births[c.id] => c.over < items[c.id].rev
       /\ c.expected > 0 => c.expected = c.over
  /\ \A c, d \in commits : c # d /\ SameLife(c, d) => c.over # d.over

(* The entry of an id that has been written is what one of the writes left. *)
LastWriteInv ==
  \A c \in commits : Present(c.id) =>
    \E d \in commits : d.id = c.id /\ ResultOf(d, items[c.id])

(* The same goes for an entry that is no longer what a handler has read.    *)
StaleInv ==
  \A r \in Request : LET i == req[r].id IN
    copy[r] # NoRecord /\ Present(i) /\ items[i] # copy[r] =>
      \E d \in commits : d.id = i /\ ResultOf(d, items[i])

(* A request writes once, under a normalized id.  Until it is answered, its *)
(* write is the kind of change it asks for, at the id that its audit event *)
(* will name; until it reads the record again, the entry is as it left it, *)
(* unless another request has written after it; and what it reads then is  *)
(* of its own status, or the result of one of these others.                *)
Overtaken(c) == \E d \in commits : After(d, c)

StandsAsWritten(c) ==
  /\ Present(c.id) /\ ResultOf(c, items[c.id])
  /\ pc[c.by] = "transitionReread" => items[c.id].status = req[c.by].target

OwnWriteInv ==
  \A c \in commits : LET r == c.by IN
    /\ \A d \in commits : d.by = r => d = c
    /\ Canon[c.id] = c.id
    /\ pc[r] # "done" => c.kind = req[r].kind /\ c.id = AuditKey(r)
    /\ pc[r] \in {"updateReread", "transitionReread"} => StandsAsWritten(c) \/ Overtaken(c)
    /\ pc[r] = "transitionMove" =>
         \/ copy[r].status = req[r].target
         \/ \E d \in commits : After(d, c) /\ ResultOf(d, copy[r])

Inductive == /\ TypeOK /\ HandlersInv /\ LivesInv /\ ChainInv
             /\ RevisionNamesContent /\ IdsAreCanonical /\ AnswersAreHonest
             /\ LastWriteInv /\ StaleInv /\ OwnWriteInv

=============================================================================
