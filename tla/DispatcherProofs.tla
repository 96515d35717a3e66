---------------------------- MODULE DispatcherProofs ----------------------------
(***************************************************************************)
(* What holds of Dispatcher for any messages, workers, senders, capacities *)
(* and numbers of attempts.  The actions fall into those of the callers,   *)
(* of the workers, and of the goroutine that calls Start and Stop; each    *)
(* part of the inductive invariant has a lemma with one step per action.   *)
(* The counters are sizes of sets, which a step leaves alone or adds one   *)
(* element to.                                                             *)
(***************************************************************************)
EXTENDS Dispatcher, FiniteSetTheorems, SequenceTheorems, TLAPS

(* LogSender's ring keeps its type, and its size unless it may grow by one. *)
LEMMA RingType ==
  ASSUME NEW s \in Seq(Message), Len(s) <= LogLimit + 1
  PROVE  Ring(s) \in Seq(Message) /\ Len(Ring(s)) <= LogLimit
<1>. USE DispatcherAssumption
<1>1. CASE Len(s) > LogLimit
  <2>1. /\ Ring(s) = SubSeq(s, Len(s) - LogLimit + 1, Len(s))
        /\ Len(s) \in Nat /\ Len(s) = LogLimit + 1
    BY <1>1, LenProperties DEF Ring
  <2>2. \A i \in (Len(s) - LogLimit + 1) .. Len(s) : i \in 1 .. Len(s)
    BY <2>1
  <2>3. Ring(s) \in Seq(Message) /\ Len(Ring(s)) = LogLimit
    BY <2>1, <2>2, SubSeqProperties
  <2>. QED BY <2>3
<1>2. CASE ~(Len(s) > LogLimit)
  BY <1>2, LenProperties DEF Ring
<1>. QED BY <1>1, <1>2

(* NewDispatcher establishes the invariant. *)
LEMMA InitInductive == Init => Inductive
<1>. SUFFICES ASSUME Init PROVE Inductive
  OBVIOUS
<1>. USE DispatcherAssumption DEF Init
<1>1. TypeOK
  <2>1. queue \in Seq(Message) /\ Len(queue) <= QueueSize /\ log \in Seq(Message) /\ Len(log) <= LogLimit
    OBVIOUS
  <2>3. received \in [Message -> [Sender -> Nat]]
    OBVIOUS
  <2>4. /\ sender \in [Worker -> Sender \cup {0}] /\ attempt \in [Worker -> 0 .. MaxAttempts]
        /\ job \in [Worker -> Message \cup {NoMessage}] /\ reader \in 0 .. 3
        /\ snapshot \in [dispatched : Nat, delivered : Nat, failed : Nat]
    OBVIOUS
  <2>5. /\ caller  \in [Message -> {"idle", "counted", "accepted", "refused"}]
        /\ ctxDone \in [Message -> BOOLEAN]
        /\ worker  \in [Worker -> {"unborn", "poll", "wait", "sending", "sent", "backoff",
                                   "gaveUp", "exited"}]
        /\ dispatched \in Nat /\ delivered \in Nat /\ failed \in Nat
        /\ done \in BOOLEAN /\ owner \in {"starting", "started", "stopping", "stopped"}
    OBVIOUS
  <2>. QED BY ONLY <2>1, <2>3, <2>4, <2>5 DEF TypeOK
<1>2. WorkersInv
  BY DEF WorkersInv, Busy
<1>3. OnePlace
  BY DEF OnePlace, InQueue, WorkersAt
<1>. QED BY <1>1, <1>2, <1>3 DEF Inductive

-----------------------------------------------------------------------------
(* Types.  The callers, Start, Stop and Snapshot: *)
LEMMA CallerStepType ==
  ASSUME TypeOK, NEW m \in Message, Count(m) \/ Enqueue(m) \/ GiveUp(m) \/ Cancel(m)
  PROVE  TypeOK'
<1>. USE DispatcherAssumption DEF TypeOK
<1>1. CASE Count(m)
  BY <1>1 DEF Count, queueVars, workerVars, readerVars, senderVars
<1>2. CASE Enqueue(m)
  <2>1. queue' = Append(queue, m) /\ Len(queue) < QueueSize /\ caller' = [caller EXCEPT ![m] = "accepted"]
    BY <1>2 DEF Enqueue
  <2>2. queue' \in Seq(Message) /\ Len(queue') <= QueueSize
    BY <2>1, AppendProperties, LenProperties
  <2>. QED BY <1>2, <2>1, <2>2 DEF Enqueue, workerVars, stats, readerVars, senderVars
<1>3. CASE GiveUp(m) \/ Cancel(m)
  <2>1. CASE GiveUp(m)
    BY <2>1 DEF GiveUp, queueVars, workerVars, stats, readerVars, senderVars
  <2>2. CASE Cancel(m)
    BY <2>2 DEF Cancel, queueVars, workerVars, stats, readerVars, senderVars
  <2>. QED BY <1>3, <2>1, <2>2
<1>. QED BY <1>1, <1>2, <1>3

LEMMA OwnerStepType ==
  ASSUME TypeOK, (\E w \in Worker : Launch(w)) \/ Started \/ StopCalled \/ StopReturns
  PROVE  TypeOK'
BY DEF TypeOK, Launch, Started, StopCalled, StopReturns, queueVars, callerVars, workerVars,
       stats, readerVars, senderVars

LEMMA LoadType ==
  ASSUME TypeOK, NEW n \in 1 .. Loads, Load(n)
  PROVE  TypeOK'
<1>1. n \in 1 .. 3
  BY DispatcherAssumption
<1>2. snapshot' \in [dispatched : Nat, delivered : Nat, failed : Nat]
  <2>1. /\ snapshot \in [dispatched : Nat, delivered : Nat, failed : Nat]
        /\ dispatched \in Nat /\ delivered \in Nat /\ failed \in Nat
    BY DEF TypeOK
  <2>2. CASE n = 1
    <3>1. snapshot' = [snapshot EXCEPT !.dispatched = dispatched]
      BY <2>2 DEF Load
    <3>. QED BY <2>1, <3>1
  <2>3. CASE n = 2
    <3>1. snapshot' = [snapshot EXCEPT !.delivered = delivered]
      BY <2>3 DEF Load
    <3>. QED BY <2>1, <3>1
  <2>4. CASE n = 3
    <3>1. snapshot' = [snapshot EXCEPT !.failed = failed]
      BY <2>4 DEF Load
    <3>. QED BY <2>1, <3>1
  <2>. QED BY <1>1, <2>2, <2>3, <2>4
<1>3. reader' \in 0 .. 3
  BY <1>1 DEF Load
<1>. QED BY <1>2, <1>3 DEF TypeOK, Load, queueVars, callerVars, workerVars, stats, senderVars

(* The workers: *)
LEMMA WorkerStepType ==
  ASSUME TypeOK, WorkersInv, NEW w \in Worker, WorkerStep(w)
  PROVE  TypeOK'
<1>. USE DispatcherAssumption DEF TypeOK
<1>1. CASE Receive(w)
  <2>1. queue # <<>> /\ queue' = Tail(queue) /\ Begin(w, Head(queue))
    BY <1>1 DEF Receive
  <2>2. queue' \in Seq(Message) /\ Len(queue') <= QueueSize /\ Head(queue) \in Message
    BY <2>1, HeadTailProperties, LenProperties
  <2>3. 1 \in Sender
    BY DEF Sender
  <2>4. /\ worker' \in [Worker -> {"unborn", "poll", "wait", "sending", "sent", "backoff",
                                   "gaveUp", "exited"}]
        /\ job' \in [Worker -> Message \cup {NoMessage}]
        /\ sender' \in [Worker -> Sender \cup {0}]
        /\ attempt' \in [Worker -> 0 .. MaxAttempts]
    BY <2>1, <2>2, <2>3 DEF Begin
  <2>5. UNCHANGED <<done, owner, caller, ctxDone, dispatched, delivered, failed, reader,
                    snapshot, log, received>>
    BY <1>1 DEF Receive, callerVars, stats, readerVars, senderVars
  <2>. QED BY <2>2, <2>4, <2>5
<1>2. CASE Wait(w) \/ Exit(w)
  BY <1>2 DEF Wait, Exit, queueVars, callerVars, stats, readerVars, senderVars
<1>3. CASE SendAccepted(w)
  <2>1. job[w] \in Message /\ sender[w] \in Sender
    BY <1>3 DEF SendAccepted, WorkersInv, Busy
  <2>2. Append(log, job[w]) \in Seq(Message) /\ Len(Append(log, job[w])) <= LogLimit + 1
    BY <2>1, AppendProperties, LenProperties
  <2>3. log' \in Seq(Message) /\ Len(log') <= LogLimit
    BY <1>3, <2>2, RingType DEF SendAccepted
  <2>4. received' \in [Message -> [Sender -> Nat]]
    BY <1>3, <2>1 DEF SendAccepted
  <2>. QED BY <1>3, <2>3, <2>4 DEF SendAccepted, queueVars, callerVars, stats, readerVars
<1>4. CASE SendFailed(w)
  BY <1>4 DEF SendFailed, WorkersInv, queueVars, callerVars, stats, readerVars, senderVars
<1>5. CASE BackoffEnds(w)
  BY <1>5 DEF BackoffEnds, queueVars, callerVars, stats, readerVars, senderVars
<1>6. CASE CountOutcome(w)
  <2>1. /\ delivered' \in Nat /\ failed' \in Nat
        /\ UNCHANGED <<queueVars, callerVars, dispatched, readerVars, senderVars>>
    BY <1>6 DEF CountOutcome
  <2>2. NextSender(w) /\ sender[w] \in Sender
    BY <1>6 DEF CountOutcome, WorkersInv, Busy
  <2>3. /\ attempt \in [Worker -> 0 .. MaxAttempts] /\ sender \in [Worker -> Sender \cup {0}]
        /\ job \in [Worker -> Message \cup {NoMessage}]
        /\ worker \in [Worker -> {"unborn", "poll", "wait", "sending", "sent", "backoff",
                                  "gaveUp", "exited"}]
        /\ 0 \in 0 .. MaxAttempts
    OBVIOUS
  <2>4. /\ attempt' \in [Worker -> 0 .. MaxAttempts] /\ sender' \in [Worker -> Sender \cup {0}]
        /\ job' \in [Worker -> Message \cup {NoMessage}]
        /\ worker' \in [Worker -> {"unborn", "poll", "wait", "sending", "sent", "backoff",
                                   "gaveUp", "exited"}]
    <3>. HIDE DEF TypeOK, DispatcherAssumption
    <3>1. CASE sender[w] < SenderCount
      <4>1. sender[w] + 1 \in Sender
        BY ONLY <2>2, <3>1, DispatcherAssumption DEF Sender, DispatcherAssumption
      <4>2. /\ attempt' = [attempt EXCEPT ![w] = 0] /\ sender' = [sender EXCEPT ![w] = sender[w] + 1]
            /\ worker' = [worker EXCEPT ![w] = "sending"] /\ job' = job
        BY <2>2, <3>1 DEF NextSender
      <4>. QED BY ONLY <2>3, <4>1, <4>2
    <3>2. CASE ~(sender[w] < SenderCount)
      <4>1. /\ attempt' = [attempt EXCEPT ![w] = 0] /\ sender' = [sender EXCEPT ![w] = 0]
            /\ worker' = [worker EXCEPT ![w] = "poll"] /\ job' = [job EXCEPT ![w] = NoMessage]
        BY <2>2, <3>2 DEF NextSender
      <4>. QED BY ONLY <2>3, <4>1
    <3>. QED BY ONLY <3>1, <3>2
  <2>. QED BY <2>1, <2>4 DEF queueVars, callerVars, readerVars, senderVars
<1>. QED BY <1>1, <1>2, <1>3, <1>4, <1>5, <1>6 DEF WorkerStep

(* A type is kept by every step. *)
LEMMA StepType ==
  ASSUME TypeOK, WorkersInv, [Next]_vars
  PROVE  TypeOK'
<1>1. CASE UNCHANGED vars
  BY <1>1 DEF TypeOK, vars, queueVars, callerVars, workerVars, stats, readerVars, senderVars
<1>. QED BY <1>1, CallerStepType, OwnerStepType, LoadType, WorkerStepType DEF Next

-----------------------------------------------------------------------------
(* What a worker has at hand.  Its own steps: *)
LEMMA WorkerStepWorkers ==
  ASSUME TypeOK, WorkersInv, NEW w \in Worker, WorkerStep(w)
  PROVE  WorkersInv'
<1>1. /\ worker \in [Worker -> {"unborn", "poll", "wait", "sending", "sent", "backoff",
                                "gaveUp", "exited"}]
      /\ job \in [Worker -> Message \cup {NoMessage}]
      /\ sender \in [Worker -> Sender \cup {0}] /\ attempt \in [Worker -> 0 .. MaxAttempts]
      /\ MaxAttempts \in Nat \ {0} /\ NoMessage \notin Message
  BY DispatcherAssumption DEF TypeOK, DispatcherAssumption
<1>2. owner' = owner /\ owner # "stopped"
  BY <1>1 DEF WorkersInv, AllExited, WorkerStep, Receive, Wait, Exit, SendAccepted, SendFailed,
     BackoffEnds, CountOutcome, queueVars
<1>3. \A v \in Worker : v # w => /\ worker'[v] = worker[v] /\ job'[v] = job[v]
                                 /\ sender'[v] = sender[v] /\ attempt'[v] = attempt[v]
  BY <1>1 DEF WorkerStep, Receive, Begin, Wait, Exit, SendAccepted, SendFailed, BackoffEnds,
     CountOutcome, NextSender
<1>4. /\ worker'[w] \in Busy <=> job'[w] # NoMessage
      /\ worker'[w] \in Busy => sender'[w] \in Sender
      /\ worker'[w] = "sending" => attempt'[w] < MaxAttempts
  <2>1. /\ worker[w] \in Busy <=> job[w] # NoMessage
        /\ worker[w] \in Busy => sender[w] \in Sender
        /\ worker[w] = "sending" => attempt[w] < MaxAttempts
    BY DEF WorkersInv
  <2>2. CASE Receive(w)
    <3>1. Head(queue) \in Message /\ 1 \in Sender
      BY <2>2, HeadTailProperties, DispatcherAssumption
         DEF Receive, TypeOK, Sender, DispatcherAssumption
    <3>2. worker'[w] = "sending" /\ job'[w] = Head(queue) /\ sender'[w] = 1 /\ attempt'[w] = 0
      BY <2>2, <1>1 DEF Receive, Begin
    <3>. QED BY <1>1, <3>1, <3>2 DEF Busy
  <2>3. CASE Wait(w) \/ Exit(w)
    BY <1>1, <2>1, <2>3 DEF Wait, Exit, Busy
  <2>4. CASE SendAccepted(w)
    BY <1>1, <2>1, <2>4 DEF SendAccepted, Busy
  <2>5. CASE SendFailed(w)
    BY <1>1, <2>1, <2>5 DEF SendFailed, Busy
  <2>6. CASE BackoffEnds(w)
    BY <1>1, <2>1, <2>6 DEF BackoffEnds, Busy
  <2>7. CASE CountOutcome(w)
    <3>1. worker[w] \in Busy /\ NextSender(w) /\ sender[w] \in Sender /\ job[w] # NoMessage
      BY <2>1, <2>7 DEF CountOutcome, Busy
    <3>2. CASE sender[w] < SenderCount
      <4>1. sender[w] + 1 \in Sender
        BY <3>1, <3>2, DispatcherAssumption DEF Sender, DispatcherAssumption
      <4>2. /\ worker'[w] = "sending" /\ job'[w] = job[w] /\ attempt'[w] = 0
            /\ sender'[w] = sender[w] + 1
        BY <1>1, <3>1, <3>2 DEF NextSender
      <4>. QED BY <1>1, <3>1, <4>1, <4>2 DEF Busy
    <3>3. CASE ~(sender[w] < SenderCount)
      <4>1. worker'[w] = "poll" /\ job'[w] = NoMessage
        BY <1>1, <3>1, <3>3 DEF NextSender
      <4>. QED BY <4>1 DEF Busy
    <3>. QED BY <3>2, <3>3
  <2>. QED BY <2>2, <2>3, <2>4, <2>5, <2>6, <2>7 DEF WorkerStep
<1>. QED BY <1>2, <1>3, <1>4 DEF WorkersInv

LEMMA StepWorkers ==
  ASSUME TypeOK, WorkersInv, [Next]_vars
  PROVE  WorkersInv'
<1>1. ASSUME NEW m \in Message, Count(m) \/ Enqueue(m) \/ GiveUp(m) \/ Cancel(m)
      PROVE  WorkersInv'
  BY <1>1 DEF WorkersInv, AllExited, Count, Enqueue, GiveUp, Cancel, queueVars, workerVars
<1>2. ASSUME NEW w \in Worker, Launch(w) PROVE WorkersInv'
  BY <1>2 DEF WorkersInv, TypeOK, Busy, Launch, queueVars
<1>3. CASE Started \/ StopCalled
  BY <1>3 DEF WorkersInv, Started, StopCalled, workerVars
<1>4. CASE StopReturns
  BY <1>4 DEF WorkersInv, AllExited, StopReturns, workerVars
<1>5. ASSUME NEW n \in 1 .. Loads, Load(n) PROVE WorkersInv'
  BY <1>5 DEF WorkersInv, AllExited, Load, queueVars, workerVars
<1>6. CASE UNCHANGED vars
  BY <1>6 DEF WorkersInv, AllExited, vars, queueVars, workerVars
<1>. QED BY <1>1, <1>2, <1>3, <1>4, <1>5, <1>6, WorkerStepWorkers DEF Next

-----------------------------------------------------------------------------
(* Where a message is.  Most steps move none: *)
LEMMA PlacesKept ==
  ASSUME OnePlace, UNCHANGED <<queue, job, sender, received>>,
         \A m \in Message : caller[m] = "accepted" => caller'[m] = "accepted",
         \A w \in Worker : worker[w] = "sent" => worker'[w] = "sent"
  PROVE  OnePlace'
BY DEF OnePlace, InQueue, WorkersAt

(* Enqueue takes the message from its caller to the end of the channel. *)
LEMMA EnqueuePlaces ==
  ASSUME TypeOK, OnePlace, NEW m \in Message, Enqueue(m)
  PROVE  OnePlace'
<1>1. /\ caller[m] = "counted" /\ queue' = Append(queue, m)
      /\ caller' = [caller EXCEPT ![m] = "accepted"]
      /\ UNCHANGED <<worker, job, sender, received>>
  BY DEF Enqueue, workerVars, senderVars
<1>2. /\ queue \in Seq(Message) /\ caller \in [Message -> {"idle", "counted", "accepted", "refused"}]
      /\ received \in [Message -> [Sender -> Nat]]
  BY DEF TypeOK
<1>3. /\ Len(queue) \in Nat /\ DOMAIN queue = 1 .. Len(queue)
      /\ DOMAIN queue' = 1 .. Len(queue) + 1
      /\ \A n \in 1 .. Len(queue) : queue'[n] = queue[n]
      /\ queue'[Len(queue) + 1] = m
  BY <1>1, <1>2, AppendProperties, LenProperties
<1>4. InQueue(m) = {} /\ WorkersAt(m) = {} /\ \A s \in Sender : received[m][s] = 0
  BY <1>1, <1>2 DEF OnePlace
<1>5. InQueue(m)' = {Len(queue) + 1}
  <2>1. \A n \in 1 .. Len(queue) : queue[n] # m
    BY <1>3, <1>4 DEF InQueue
  <2>. QED BY <1>3, <2>1 DEF InQueue
<1>6. \A x \in Message : x # m => InQueue(x)' = InQueue(x)
  BY <1>3 DEF InQueue
<1>7. \A x \in Message : WorkersAt(x)' = WorkersAt(x) /\ (x # m => caller'[x] = caller[x])
  BY <1>1, <1>2 DEF WorkersAt
<1>8. caller'[m] = "accepted"
  BY <1>1, <1>2
<1>9. ASSUME NEW x \in Message, x # m
      PROVE  /\ \A i, j \in InQueue(x)' : i = j
             /\ \A v, w \in WorkersAt(x)' : v = w /\ InQueue(x)' = {}
             /\ InQueue(x)' # {} \/ WorkersAt(x)' # {} => caller'[x] = "accepted"
             /\ \A s \in Sender :
                  /\ received'[x][s] \in {0, 1}
                  /\ received'[x][s] = 1 =>
                       /\ caller'[x] = "accepted" /\ InQueue(x)' = {}
                       /\ \A w \in WorkersAt(x)' :
                            s < sender'[w] \/ (s = sender'[w] /\ worker'[w] = "sent")
  <2>1. /\ InQueue(x)' = InQueue(x) /\ WorkersAt(x)' = WorkersAt(x) /\ caller'[x] = caller[x]
    BY <1>6, <1>7, <1>9
  <2>. QED BY <1>1, <2>1 DEF OnePlace
<1>. QED BY <1>1, <1>4, <1>5, <1>7, <1>8, <1>9 DEF OnePlace

(* Receive takes it from the head of the channel to the first sender. *)
LEMMA ReceivePlaces ==
  ASSUME TypeOK, WorkersInv, OnePlace, NEW w \in Worker, Receive(w)
  PROVE  OnePlace'
<1>0. PICK h \in Message : h = Head(queue)
  BY HeadTailProperties DEF Receive, TypeOK
<1>1. /\ queue # <<>> /\ queue' = Tail(queue) /\ worker[w] \in {"poll", "wait"}
      /\ worker' = [worker EXCEPT ![w] = "sending"] /\ job' = [job EXCEPT ![w] = h]
      /\ sender' = [sender EXCEPT ![w] = 1] /\ UNCHANGED <<caller, received>>
  BY <1>0 DEF Receive, Begin, callerVars, senderVars
<1>2. /\ queue \in Seq(Message) /\ worker \in [Worker -> {"unborn", "poll", "wait", "sending",
                                                          "sent", "backoff", "gaveUp", "exited"}]
      /\ job \in [Worker -> Message \cup {NoMessage}] /\ sender \in [Worker -> Sender \cup {0}]
      /\ received \in [Message -> [Sender -> Nat]]
  BY DEF TypeOK
<1>3. /\ Len(queue) \in Nat \ {0} /\ DOMAIN queue = 1 .. Len(queue) /\ h = queue[1]
      /\ DOMAIN queue' = 1 .. Len(queue) - 1 /\ h \in Message
      /\ \A n \in 1 .. Len(queue) - 1 : queue'[n] = queue[n + 1]
  BY <1>0, <1>1, <1>2, HeadTailProperties, LenProperties, EmptySeq
<1>4. 1 \in InQueue(h)
  BY <1>3 DEF InQueue
<1>5. /\ InQueue(h) = {1} /\ WorkersAt(h) = {} /\ caller[h] = "accepted"
      /\ \A s \in Sender : received[h][s] = 0
  BY <1>2, <1>3, <1>4 DEF OnePlace
<1>6. InQueue(h)' = {}
  <2>1. \A n \in 2 .. Len(queue) : queue[n] # h
    BY <1>3, <1>5 DEF InQueue
  <2>. QED BY <1>3, <2>1 DEF InQueue
<1>7. \A x \in Message : /\ InQueue(x)' # {} => InQueue(x) # {}
                         /\ \A i \in InQueue(x)' : i \in Nat /\ i + 1 \in InQueue(x)
  <2>1. ASSUME NEW x \in Message, NEW i \in InQueue(x)'
        PROVE  i \in Nat /\ i + 1 \in InQueue(x)
    <3>1. i \in 1 .. Len(queue) - 1 /\ queue'[i] = x
      BY <1>3 DEF InQueue
    <3>2. i + 1 \in DOMAIN queue /\ queue[i + 1] = x
      BY <1>3, <3>1
    <3>. QED BY <3>1, <3>2 DEF InQueue
  <2>. QED BY <2>1
<1>8. job[w] = NoMessage
  BY <1>1 DEF WorkersInv, Busy
<1>9. WorkersAt(h)' = {w} /\ \A x \in Message : x # h => WorkersAt(x)' = WorkersAt(x)
  BY <1>1, <1>2, <1>5, <1>8, DispatcherAssumption DEF WorkersAt, DispatcherAssumption
<1>10. ASSUME NEW x \in Message, x # h
       PROVE  /\ \A i, j \in InQueue(x)' : i = j
              /\ \A u, v \in WorkersAt(x)' : u = v /\ InQueue(x)' = {}
              /\ InQueue(x)' # {} \/ WorkersAt(x)' # {} => caller'[x] = "accepted"
              /\ \A s \in Sender :
                   /\ received'[x][s] \in {0, 1}
                   /\ received'[x][s] = 1 =>
                        /\ caller'[x] = "accepted" /\ InQueue(x)' = {}
                        /\ \A v \in WorkersAt(x)' :
                             s < sender'[v] \/ (s = sender'[v] /\ worker'[v] = "sent")
  <2>1. WorkersAt(x)' = WorkersAt(x) /\ w \notin WorkersAt(x) /\ caller' = caller /\ received' = received
    BY <1>1, <1>8, <1>9, <1>10, DispatcherAssumption DEF WorkersAt, DispatcherAssumption
  <2>2. \A v \in WorkersAt(x) : sender'[v] = sender[v] /\ worker'[v] = worker[v]
    BY <1>1, <1>2, <2>1 DEF WorkersAt
  <2>3. \A i, j \in InQueue(x)' : i = j
    <3>1. \A i, j \in InQueue(x) : i = j
      BY DEF OnePlace
    <3>. QED BY <1>7, <3>1
  <2>. QED BY <1>7, <2>1, <2>2, <2>3 DEF OnePlace
<1>. QED BY <1>1, <1>3, <1>5, <1>6, <1>9, <1>10 DEF OnePlace

(* SendAccepted: the sender at hand has it for the first time. *)
LEMMA SendPlaces ==
  ASSUME TypeOK, WorkersInv, OnePlace, NEW w \in Worker, SendAccepted(w)
  PROVE  OnePlace'
<1>1. /\ worker[w] = "sending" /\ worker' = [worker EXCEPT ![w] = "sent"]
      /\ received' = [received EXCEPT ![job[w]][sender[w]] = @ + 1]
      /\ UNCHANGED <<queue, caller, job, sender>>
  BY DEF SendAccepted, queueVars, callerVars
<1>2. /\ worker \in [Worker -> {"unborn", "poll", "wait", "sending", "sent", "backoff", "gaveUp",
                                "exited"}]
      /\ job \in [Worker -> Message \cup {NoMessage}]
      /\ received \in [Message -> [Sender -> Nat]] /\ job[w] \in Message /\ sender[w] \in Sender
  BY <1>1 DEF TypeOK, WorkersInv, Busy
<1>3. w \in WorkersAt(job[w]) /\ caller[job[w]] = "accepted" /\ InQueue(job[w]) = {}
      /\ \A v \in WorkersAt(job[w]) : v = w
  BY <1>2 DEF OnePlace, WorkersAt
<1>4. received[job[w]][sender[w]] = 0
  BY <1>1, <1>2, <1>3, DispatcherAssumption DEF OnePlace, Sender, DispatcherAssumption
<1>5. \A x \in Message : \A s \in Sender :
        received'[x][s] = IF x = job[w] /\ s = sender[w] THEN 1 ELSE received[x][s]
  BY <1>1, <1>2, <1>4
<1>6. \A x \in Message : InQueue(x)' = InQueue(x) /\ WorkersAt(x)' = WorkersAt(x)
  BY <1>1 DEF InQueue, WorkersAt
<1>7. worker'[w] = "sent" /\ \A v \in Worker : worker[v] = "sent" => worker'[v] = "sent"
  BY <1>1, <1>2
<1>8. \A x \in Message : WorkersAt(x) \subseteq Worker
  BY DEF WorkersAt
<1>. QED BY <1>1, <1>3, <1>5, <1>6, <1>7, <1>8 DEF OnePlace

(* CountOutcome goes on to the next sender, or ends the job. *)
LEMMA CountPlaces ==
  ASSUME TypeOK, WorkersInv, OnePlace, NEW w \in Worker, CountOutcome(w)
  PROVE  OnePlace'
<1>1. /\ NextSender(w) /\ worker[w] \in {"sent", "gaveUp"}
      /\ UNCHANGED <<queue, caller, received>>
  BY DEF CountOutcome, queueVars, callerVars, senderVars
<1>2. /\ worker \in [Worker -> {"unborn", "poll", "wait", "sending", "sent", "backoff", "gaveUp",
                                "exited"}]
      /\ job \in [Worker -> Message \cup {NoMessage}] /\ sender \in [Worker -> Sender \cup {0}]
      /\ job[w] \in Message /\ sender[w] \in Sender
      /\ NoMessage \notin Message /\ SenderCount \in Nat
  BY <1>1, DispatcherAssumption DEF TypeOK, WorkersInv, Busy, DispatcherAssumption
<1>3. \A x \in Message : /\ InQueue(x)' = InQueue(x) /\ WorkersAt(x)' \subseteq WorkersAt(x)
                         /\ WorkersAt(x) \subseteq Worker
  BY <1>1, <1>2 DEF InQueue, WorkersAt, NextSender
<1>4. \A v \in Worker : v # w => sender'[v] = sender[v] /\ worker'[v] = worker[v]
  BY <1>1, <1>2 DEF NextSender
<1>5. job'[w] # NoMessage => sender'[w] = sender[w] + 1 /\ sender[w] \in Nat
  BY <1>1, <1>2 DEF NextSender, Sender
<1>6. \A x \in Message : w \in WorkersAt(x)' => sender'[w] = sender[w] + 1
  BY <1>2, <1>5 DEF WorkersAt
<1>7. \A x \in Message : \A s \in Sender : \A v \in WorkersAt(x)' :
        received[x][s] = 1 => s < sender'[v] \/ (s = sender'[v] /\ worker'[v] = "sent")
  <2>. SUFFICES ASSUME NEW x \in Message, NEW s \in Sender, NEW v \in WorkersAt(x)',
                       received[x][s] = 1
                PROVE  s < sender'[v] \/ (s = sender'[v] /\ worker'[v] = "sent")
    OBVIOUS
  <2>1. v \in WorkersAt(x) /\ v \in Worker
    BY <1>3
  <2>2. s < sender[v] \/ (s = sender[v] /\ worker[v] = "sent")
    BY <2>1 DEF OnePlace
  <2>3. CASE v = w
    BY <1>2, <1>6, <2>2, <2>3 DEF Sender
  <2>4. CASE v # w
    BY <1>4, <2>1, <2>2, <2>4
  <2>. QED BY <2>3, <2>4
<1>. QED BY <1>1, <1>3, <1>7 DEF OnePlace

LEMMA StepPlaces ==
  ASSUME TypeOK, WorkersInv, OnePlace, [Next]_vars
  PROVE  OnePlace'
<1>1. ASSUME NEW m \in Message, Count(m) \/ GiveUp(m) \/ Cancel(m) PROVE OnePlace'
  BY <1>1, PlacesKept DEF TypeOK, Count, GiveUp, Cancel, queueVars, workerVars, senderVars
<1>2. ASSUME NEW w \in Worker,
             Launch(w) \/ Wait(w) \/ Exit(w) \/ SendFailed(w) \/ BackoffEnds(w)
      PROVE  OnePlace'
  BY <1>2, PlacesKept DEF TypeOK, Launch, Wait, Exit, SendFailed, BackoffEnds, queueVars,
     callerVars, senderVars
<1>3. CASE Started \/ StopCalled \/ StopReturns \/ \E n \in 1 .. Loads : Load(n)
  BY <1>3, PlacesKept DEF Started, StopCalled, StopReturns, Load, queueVars, callerVars,
     workerVars, senderVars
<1>4. CASE UNCHANGED vars
  BY <1>4, PlacesKept DEF vars, queueVars, callerVars, workerVars, senderVars
<1>. QED BY <1>1, <1>2, <1>3, <1>4, EnqueuePlaces, ReceivePlaces, SendPlaces, CountPlaces
         DEF Next, WorkerStep

-----------------------------------------------------------------------------
(* What the counters count is finite. *)
LEMMA CountedIsFinite ==
  /\ IsFiniteSet(Calls) /\ Cardinality(Calls) \in Nat
  /\ IsFiniteSet(Uncounted) /\ Cardinality(Uncounted) \in Nat
  /\ IsFiniteSet(Accepted) /\ Cardinality(Accepted) \in Nat
  /\ IsFiniteSet(Tried) /\ Cardinality(Tried) \in Nat
<1>1. IsFiniteSet(Message) /\ IsFiniteSet(Worker) /\ SenderCount \in Nat
  BY DispatcherAssumption DEF DispatcherAssumption
<1>2. IsFiniteSet(Sender)
  BY <1>1, FS_Interval DEF Sender
<1>3. IsFiniteSet(Message \X Sender)
  BY <1>1, <1>2, FS_Product
<1>4. /\ Calls \in SUBSET Message /\ Uncounted \in SUBSET Worker
      /\ Accepted \in SUBSET (Message \X Sender) /\ Tried \in SUBSET (Message \X Sender)
  BY DEF Calls, Uncounted, Accepted, Tried
<1>5. IsFiniteSet(Calls) /\ IsFiniteSet(Uncounted) /\ IsFiniteSet(Accepted) /\ IsFiniteSet(Tried)
  BY <1>1, <1>3, <1>4, FS_Subset
<1>. QED BY <1>5, FS_CardinalityType

(* At most one outcome per sender of each call: what deliver is done with  *)
(* was dispatched.                                                         *)
LEMMA OutcomesOfCalls ==
  ASSUME dispatched = Cardinality(Calls), delivered + failed = Cardinality(Tried)
  PROVE  delivered + failed <= SenderCount * dispatched
<1>1. SenderCount \in Nat
  BY DispatcherAssumption DEF DispatcherAssumption
<1>2. IsFiniteSet(Sender) /\ Cardinality(Sender) = SenderCount
  BY <1>1, FS_Interval DEF Sender
<1>3. IsFiniteSet(Calls) /\ Cardinality(Calls) \in Nat
  BY CountedIsFinite
<1>4. /\ IsFiniteSet(Calls \X Sender)
      /\ Cardinality(Calls \X Sender) = Cardinality(Calls) * SenderCount
  BY <1>2, <1>3, FS_Product
<1>5. Tried \in SUBSET (Calls \X Sender)
  BY DEF Tried, Calls
<1>6. Cardinality(Tried) <= Cardinality(Calls) * SenderCount
  BY <1>4, <1>5, FS_Subset
<1>7. Cardinality(Calls) * SenderCount = SenderCount * Cardinality(Calls)
  BY <1>1, <1>3
<1>. QED BY <1>6, <1>7

(* New starts with nothing to count. *)
LEMMA InitCounters == Init => CountersAddUp
<1>. SUFFICES ASSUME Init PROVE CountersAddUp
  OBVIOUS
<1>1. Calls = {} /\ Uncounted = {} /\ Accepted = {} /\ Tried = {}
  BY DEF Init, Calls, Uncounted, Accepted, Tried
<1>2. dispatched = 0 /\ delivered = 0 /\ failed = 0
  BY DEF Init
<1>3. /\ dispatched = Cardinality(Calls) /\ delivered + Cardinality(Uncounted) = Cardinality(Accepted)
      /\ delivered + failed = Cardinality(Tried)
  BY <1>1, <1>2, FS_EmptySet
<1>. QED BY <1>3, OutcomesOfCalls DEF CountersAddUp

(* Most steps change nothing that is counted, and no counter.              *)
LEMMA CountersKept ==
  ASSUME CountersAddUp, UNCHANGED <<stats, Calls, Uncounted, Accepted, Tried>>
  PROVE  CountersAddUp'
BY DEF CountersAddUp, stats

(* Nor do steps that leave the messages where they are. *)
LEMMA NothingCounted ==
  ASSUME CountersAddUp, UNCHANGED <<queue, job, sender, received, stats>>,
         \A m \in Message : /\ caller[m] = "idle" <=> caller'[m] = "idle"
                            /\ caller[m] = "accepted" <=> caller'[m] = "accepted",
         \A w \in Worker : worker[w] = "sent" <=> worker'[w] = "sent"
  PROVE  CountersAddUp'
<1>1. Calls' = Calls
  BY DEF Calls
<1>2. Uncounted' = Uncounted
  BY DEF Uncounted
<1>3. Accepted' = Accepted
  BY DEF Accepted
<1>4. Tried' = Tried
  <2>1. \A m \in Message : InQueue(m)' = InQueue(m) /\ WorkersAt(m)' = WorkersAt(m)
    BY DEF InQueue, WorkersAt
  <2>. QED BY <2>1 DEF Tried
<1>. QED BY <1>1, <1>2, <1>3, <1>4, CountersKept

(* Dispatch counts its call. *)
LEMMA CountCounted ==
  ASSUME TypeOK, CountersAddUp, NEW m \in Message, Count(m)
  PROVE  CountersAddUp'
<1>1. /\ caller \in [Message -> {"idle", "counted", "accepted", "refused"}]
      /\ caller[m] = "idle" /\ caller' = [caller EXCEPT ![m] = "counted"]
      /\ dispatched' = dispatched + 1
      /\ UNCHANGED <<queue, worker, job, sender, received, delivered, failed>>
  BY DEF TypeOK, Count, queueVars, workerVars, senderVars
<1>2. Calls' = Calls \cup {m} /\ m \notin Calls
  BY <1>1 DEF Calls
<1>3. Uncounted' = Uncounted /\ Accepted' = Accepted
  BY <1>1 DEF Uncounted, Accepted
<1>4. Tried' = Tried
  <2>1. \A x \in Message : /\ InQueue(x)' = InQueue(x) /\ WorkersAt(x)' = WorkersAt(x)
                           /\ caller'[x] = "accepted" <=> caller[x] = "accepted"
    BY <1>1 DEF InQueue, WorkersAt
  <2>. QED BY <1>1, <2>1 DEF Tried
<1>5. Cardinality(Calls') = Cardinality(Calls) + 1
  BY <1>2, CountedIsFinite, FS_AddElement
<1>6. dispatched' = Cardinality(Calls')
  BY <1>1, <1>5 DEF CountersAddUp
<1>7. /\ (delivered + Cardinality(Uncounted) = Cardinality(Accepted))'
      /\ (delivered + failed = Cardinality(Tried))'
  BY <1>1, <1>3, <1>4 DEF CountersAddUp
<1>8. (delivered + failed <= SenderCount * dispatched)'
  <2>1. (dispatched = Cardinality(Calls) /\ delivered + failed = Cardinality(Tried)
           => delivered + failed <= SenderCount * dispatched)'
    BY OutcomesOfCalls, PTL
  <2>. QED BY <1>6, <1>7, <2>1
<1>. QED BY <1>6, <1>7, <1>8 DEF CountersAddUp

(* Neither a message on its way into the channel, nor one on its way to    *)
(* the first sender, is one that a sender has had.                         *)
LEMMA EnqueueCounted ==
  ASSUME TypeOK, CountersAddUp, NEW m \in Message, Enqueue(m)
  PROVE  CountersAddUp'
<1>1. /\ caller \in [Message -> {"idle", "counted", "accepted", "refused"}]
      /\ caller[m] = "counted" /\ caller' = [caller EXCEPT ![m] = "accepted"]
      /\ queue \in Seq(Message) /\ queue' = Append(queue, m)
      /\ UNCHANGED <<worker, job, sender, received, stats>>
  BY DEF TypeOK, Enqueue, workerVars, senderVars
<1>2. /\ Len(queue) \in Nat /\ DOMAIN queue = 1 .. Len(queue)
      /\ DOMAIN queue' = 1 .. Len(queue) + 1
      /\ \A n \in 1 .. Len(queue) : queue'[n] = queue[n]
      /\ queue'[Len(queue) + 1] = m
  BY <1>1, AppendProperties, LenProperties
<1>3. \A x \in Message : x # m => InQueue(x)' = InQueue(x) /\ caller'[x] = caller[x]
  BY <1>1, <1>2 DEF InQueue
<1>4. InQueue(m)' # {}
  BY <1>2 DEF InQueue
<1>5. Calls' = Calls /\ Uncounted' = Uncounted /\ Accepted' = Accepted
  BY <1>1 DEF Calls, Uncounted, Accepted
<1>6. Tried' = Tried
  <2>1. \A x \in Message : WorkersAt(x)' = WorkersAt(x)
    BY <1>1 DEF WorkersAt
  <2>2. \A x \in Message : \A s \in Sender : <<x, s>> \in Tried' <=> <<x, s>> \in Tried
    BY <1>1, <1>3, <1>4, <2>1 DEF Tried
  <2>3. Tried \subseteq Message \X Sender /\ Tried' \subseteq Message \X Sender
    BY DEF Tried
  <2>. QED BY <2>2, <2>3
<1>. QED BY <1>1, <1>5, <1>6, CountersKept

LEMMA ReceiveCounted ==
  ASSUME TypeOK, WorkersInv, OnePlace, CountersAddUp, NEW w \in Worker, Receive(w)
  PROVE  CountersAddUp'
<1>0. PICK h \in Message : h = Head(queue)
  BY HeadTailProperties DEF Receive, TypeOK
<1>1. /\ queue # <<>> /\ queue' = Tail(queue) /\ worker[w] \in {"poll", "wait"}
      /\ worker' = [worker EXCEPT ![w] = "sending"] /\ job' = [job EXCEPT ![w] = h]
      /\ sender' = [sender EXCEPT ![w] = 1] /\ UNCHANGED <<caller, received, stats>>
  BY <1>0 DEF Receive, Begin, callerVars, senderVars
<1>2. /\ queue \in Seq(Message) /\ worker \in [Worker -> {"unborn", "poll", "wait", "sending",
                                                          "sent", "backoff", "gaveUp", "exited"}]
      /\ job \in [Worker -> Message \cup {NoMessage}] /\ sender \in [Worker -> Sender \cup {0}]
      /\ NoMessage \notin Message
  BY DispatcherAssumption DEF TypeOK, DispatcherAssumption
<1>3. /\ Len(queue) \in Nat \ {0} /\ DOMAIN queue = 1 .. Len(queue) /\ h = queue[1]
      /\ DOMAIN queue' = 1 .. Len(queue) - 1
      /\ \A n \in 1 .. Len(queue) - 1 : queue'[n] = queue[n + 1]
  BY <1>0, <1>1, <1>2, HeadTailProperties, LenProperties, EmptySeq
<1>4. 1 \in InQueue(h) /\ job[w] = NoMessage
  BY <1>1, <1>3 DEF InQueue, WorkersInv, Busy
<1>5. \A x \in Message : x # h => (InQueue(x)' = {} <=> InQueue(x) = {})
  <2>. SUFFICES ASSUME NEW x \in Message, x # h PROVE InQueue(x)' = {} <=> InQueue(x) = {}
    OBVIOUS
  <2>1. ASSUME NEW i \in InQueue(x)' PROVE InQueue(x) # {}
    <3>1. i \in 1 .. Len(queue) - 1 /\ queue'[i] = x
      BY <1>3 DEF InQueue
    <3>2. i + 1 \in DOMAIN queue /\ queue[i + 1] = x
      BY <1>3, <3>1
    <3>. QED BY <3>2 DEF InQueue
  <2>2. ASSUME NEW i \in InQueue(x) PROVE InQueue(x)' # {}
    <3>1. i \in 1 .. Len(queue) /\ queue[i] = x /\ i # 1
      BY <1>3, <2>2 DEF InQueue
    <3>2. i - 1 \in 1 .. Len(queue) - 1 /\ i - 1 + 1 = i
      BY <1>3, <3>1
    <3>3. i - 1 \in DOMAIN queue' /\ queue'[i - 1] = x
      BY <1>3, <3>1, <3>2
    <3>. QED BY <3>3 DEF InQueue
  <2>. QED BY <2>1, <2>2
<1>6. Calls' = Calls /\ Accepted' = Accepted
  BY <1>1 DEF Calls, Accepted
<1>7. Uncounted' = Uncounted
  BY <1>1, <1>2 DEF Uncounted
<1>8. Tried' = Tried
  <2>1. ASSUME NEW x \in Message, NEW s \in Sender, x # h
        PROVE  <<x, s>> \in Tried' <=> <<x, s>> \in Tried
    <3>1. WorkersAt(x)' = WorkersAt(x) /\ w \notin WorkersAt(x)
      BY <1>1, <1>2, <1>4, <2>1 DEF WorkersAt
    <3>2. \A v \in WorkersAt(x) : sender'[v] = sender[v]
      BY <1>1, <1>2, <3>1 DEF WorkersAt
    <3>. QED BY <1>1, <1>5, <2>1, <3>1, <3>2 DEF Tried
  <2>2. ASSUME NEW s \in Sender
        PROVE  <<h, s>> \notin Tried /\ <<h, s>> \notin Tried'
    <3>1. w \in WorkersAt(h)' /\ sender'[w] = 1 /\ ~(s < 1)
      BY <1>1, <1>2 DEF WorkersAt, Sender
    <3>. QED BY <1>4, <3>1 DEF Tried
  <2>3. Tried \subseteq Message \X Sender /\ Tried' \subseteq Message \X Sender
    BY DEF Tried
  <2>4. \A x \in Message : \A s \in Sender : <<x, s>> \in Tried' <=> <<x, s>> \in Tried
    BY <2>1, <2>2
  <2>. QED BY <2>3, <2>4
<1>. QED BY <1>1, <1>6, <1>7, <1>8, CountersKept

(* A sender accepts a message for the first time, and the worker has it    *)
(* still to count.                                                         *)
LEMMA SendCounted ==
  ASSUME TypeOK, WorkersInv, OnePlace, CountersAddUp, NEW w \in Worker, SendAccepted(w)
  PROVE  CountersAddUp'
<1>. DEFINE ms == <<job[w], sender[w]>>
<1>1. /\ worker[w] = "sending" /\ worker' = [worker EXCEPT ![w] = "sent"]
      /\ received' = [received EXCEPT ![job[w]][sender[w]] = @ + 1]
      /\ UNCHANGED <<queue, caller, job, sender, stats>>
  BY DEF SendAccepted, queueVars, callerVars
<1>2. /\ worker \in [Worker -> {"unborn", "poll", "wait", "sending", "sent", "backoff", "gaveUp",
                                "exited"}]
      /\ job \in [Worker -> Message \cup {NoMessage}]
      /\ received \in [Message -> [Sender -> Nat]] /\ job[w] \in Message /\ sender[w] \in Sender
  BY <1>1 DEF TypeOK, WorkersInv, Busy
<1>3. received[job[w]][sender[w]] = 0
  BY <1>1, <1>2, DispatcherAssumption DEF OnePlace, WorkersAt, Sender, DispatcherAssumption
<1>4. Calls' = Calls
  BY <1>1 DEF Calls
<1>5. Tried' = Tried
  BY <1>1 DEF Tried, InQueue, WorkersAt
<1>6. Uncounted' = Uncounted \cup {w} /\ w \notin Uncounted
  BY <1>1, <1>2 DEF Uncounted
<1>7. Accepted' = Accepted \cup {ms} /\ ms \notin Accepted
  <2>1. \A x \in Message : \A s \in Sender :
          received'[x][s] = IF x = job[w] /\ s = sender[w] THEN 1 ELSE received[x][s]
    BY <1>1, <1>2, <1>3
  <2>2. \A x \in Message : \A s \in Sender :
          <<x, s>> \in Accepted' <=> <<x, s>> \in Accepted \/ <<x, s>> = ms
    BY <2>1 DEF Accepted
  <2>3. ms \in Message \X Sender /\ Accepted \subseteq Message \X Sender
        /\ Accepted' \subseteq Message \X Sender
    BY <1>2 DEF Accepted
  <2>4. ms \notin Accepted
    BY <1>3 DEF Accepted
  <2>. HIDE DEF ms
  <2>. QED BY <2>2, <2>3, <2>4
<1>8. /\ Cardinality(Uncounted') = Cardinality(Uncounted) + 1
      /\ Cardinality(Accepted') = Cardinality(Accepted) + 1
  BY <1>6, <1>7, CountedIsFinite, FS_AddElement
<1>9. delivered \in Nat /\ Cardinality(Uncounted) \in Nat
  BY CountedIsFinite DEF TypeOK
<1>10. (delivered + Cardinality(Uncounted) = Cardinality(Accepted))'
  BY <1>1, <1>8, <1>9 DEF CountersAddUp, stats
<1>. QED BY <1>1, <1>4, <1>5, <1>10 DEF CountersAddUp, stats

(* deliver counts the outcome at one sender, just that one, and leaves it. *)
LEMMA CountOutcomeTried ==
  ASSUME TypeOK, WorkersInv, OnePlace, NEW w \in Worker, CountOutcome(w)
  PROVE  /\ Tried' = Tried \cup {<<job[w], sender[w]>>}
         /\ <<job[w], sender[w]>> \notin Tried
<1>. DEFINE ms == <<job[w], sender[w]>>
<1>1. /\ NextSender(w) /\ worker[w] \in {"sent", "gaveUp"}
      /\ UNCHANGED <<queue, caller, received>>
  BY DEF CountOutcome, queueVars, callerVars, senderVars
<1>2. /\ job \in [Worker -> Message \cup {NoMessage}] /\ sender \in [Worker -> Sender \cup {0}]
      /\ job[w] \in Message /\ sender[w] \in Sender
      /\ NoMessage \notin Message /\ SenderCount \in Nat
  BY <1>1, DispatcherAssumption DEF TypeOK, WorkersInv, Busy, DispatcherAssumption
<1>3. /\ caller[job[w]] = "accepted" /\ InQueue(job[w]) = {} /\ WorkersAt(job[w]) = {w}
  BY <1>2 DEF OnePlace, WorkersAt
<1>4. \A x \in Message : InQueue(x)' = InQueue(x)
  BY <1>1 DEF InQueue
<1>5. ASSUME NEW x \in Message, NEW s \in Sender, x # job[w]
      PROVE  <<x, s>> \in Tried' <=> <<x, s>> \in Tried
  <2>1. \A v \in Worker : v # w => job'[v] = job[v] /\ sender'[v] = sender[v]
    BY <1>1, <1>2 DEF NextSender
  <2>2. job[w] # x /\ job'[w] # x
    BY <1>1, <1>2, <1>5 DEF NextSender
  <2>3. WorkersAt(x)' = WorkersAt(x) /\ \A v \in WorkersAt(x) : sender'[v] = sender[v]
    BY <2>1, <2>2 DEF WorkersAt
  <2>. QED BY <1>1, <1>4, <2>3 DEF Tried
<1>6. ASSUME NEW s \in Sender
      PROVE  /\ <<job[w], s>> \in Tried <=> s < sender[w]
             /\ <<job[w], s>> \in Tried' <=> s < sender[w] \/ s = sender[w]
  <2>1. <<job[w], s>> \in Tried <=> s < sender[w]
    BY <1>2, <1>3 DEF Tried
  <2>2. \A v \in Worker : v # w => job'[v] = job[v] /\ job[v] # job[w]
    BY <1>1, <1>2, <1>3 DEF NextSender, WorkersAt
  <2>3. CASE sender[w] < SenderCount
    <3>1. sender' = [sender EXCEPT ![w] = sender[w] + 1] /\ job' = job
      BY <1>1, <2>3 DEF NextSender
    <3>2. sender'[w] = sender[w] + 1 /\ WorkersAt(job[w])' = WorkersAt(job[w])
      BY <1>2, <3>1 DEF WorkersAt
    <3>3. \A x \in {job[w]} : <<x, s>> \in Tried' <=> s < sender[w] + 1
      BY <1>1, <1>2, <1>3, <1>4, <3>1, <3>2 DEF Tried
    <3>. QED BY <1>2, <2>1, <3>3 DEF Sender
  <2>4. CASE ~(sender[w] < SenderCount)
    <3>1. job'[w] = NoMessage
      BY <1>1, <1>2, <2>4 DEF NextSender
    <3>2. \A x \in {job[w]} : {v \in Worker : job'[v] = x} = {}
      BY <1>2, <2>2, <3>1
    <3>3. \A x \in {job[w]} : <<x, s>> \in Tried'
      BY <1>1, <1>2, <1>3, <1>4, <3>2 DEF Tried, WorkersAt
    <3>4. s < sender[w] \/ s = sender[w]
      BY <1>2, <2>4 DEF Sender
    <3>. QED BY <2>1, <3>3, <3>4
  <2>. QED BY <2>3, <2>4
<1>7. ms \in Message \X Sender /\ Tried \subseteq Message \X Sender
      /\ Tried' \subseteq Message \X Sender
  BY <1>2 DEF Tried
<1>8. \A x \in Message : \A s \in Sender :
        <<x, s>> \in Tried' <=> <<x, s>> \in Tried \/ <<x, s>> = ms
  BY <1>5, <1>6
<1>9. ms \notin Tried
  BY <1>2, <1>6 DEF Sender
<1>. HIDE DEF ms
<1>10. Tried' = Tried \cup {ms} /\ ms \notin Tried
  BY <1>7, <1>8, <1>9
<1>. QED BY <1>10 DEF ms

LEMMA OutcomeCounted ==
  ASSUME TypeOK, WorkersInv, OnePlace, CountersAddUp, NEW w \in Worker, CountOutcome(w)
  PROVE  CountersAddUp'
<1>1. Calls' = Calls /\ Accepted' = Accepted /\ dispatched' = dispatched
  BY DEF CountOutcome, callerVars, senderVars, Calls, Accepted
<1>2. delivered \in Nat /\ failed \in Nat
  BY DEF TypeOK
<1>3. Cardinality(Tried') = Cardinality(Tried) + 1
  BY CountOutcomeTried, CountedIsFinite, FS_AddElement
<1>4. delivered' + failed' = delivered + failed + 1
  BY <1>2 DEF CountOutcome
<1>5. (dispatched = Cardinality(Calls) /\ delivered + failed = Cardinality(Tried))'
  BY <1>1, <1>3, <1>4 DEF CountersAddUp
<1>6. delivered' + Cardinality(Uncounted') = Cardinality(Accepted')
  <2>1. \A v \in Worker : v # w => worker'[v] = worker[v]
    BY DEF TypeOK, CountOutcome, NextSender
  <2>2. worker'[w] # "sent"
    BY DEF TypeOK, CountOutcome, NextSender
  <2>3. CASE worker[w] = "sent"
    <3>1. Uncounted' = Uncounted \ {w} /\ w \in Uncounted
      BY <2>1, <2>2, <2>3 DEF Uncounted
    <3>2. Cardinality(Uncounted') = Cardinality(Uncounted) - 1
      BY <3>1, CountedIsFinite, FS_RemoveElement
    <3>3. delivered' = delivered + 1
      BY <2>3 DEF CountOutcome
    <3>. QED BY <1>1, <1>2, <3>2, <3>3, CountedIsFinite DEF CountersAddUp
  <2>4. CASE worker[w] # "sent"
    <3>1. Uncounted' = Uncounted
      BY <2>1, <2>2, <2>4 DEF Uncounted
    <3>2. delivered' = delivered
      BY <2>4 DEF CountOutcome
    <3>. QED BY <1>1, <3>1, <3>2 DEF CountersAddUp
  <2>. QED BY <2>3, <2>4
<1>7. (dispatched = Cardinality(Calls) /\ delivered + failed = Cardinality(Tried)
         => delivered + failed <= SenderCount * dispatched)'
  BY OutcomesOfCalls, PTL
<1>. QED BY <1>5, <1>6, <1>7 DEF CountersAddUp

LEMMA StepCounters ==
  ASSUME Inductive, CountersAddUp, [Next]_vars
  PROVE  CountersAddUp'
<1>. USE DEF Inductive
<1>1. ASSUME NEW m \in Message, GiveUp(m) \/ Cancel(m) PROVE CountersAddUp'
  BY <1>1, NothingCounted DEF TypeOK, GiveUp, Cancel, queueVars, workerVars, senderVars
<1>2. ASSUME NEW w \in Worker,
             Launch(w) \/ Wait(w) \/ Exit(w) \/ SendFailed(w) \/ BackoffEnds(w)
      PROVE  CountersAddUp'
  <2>1. /\ worker[w] # "sent"
        /\ \E at \in {"poll", "wait", "exited", "backoff", "sending", "gaveUp"} :
             worker' = [worker EXCEPT ![w] = at]
        /\ UNCHANGED <<queue, job, sender, received, stats, caller>>
    BY <1>2 DEF Launch, Wait, Exit, SendFailed, BackoffEnds, queueVars, callerVars, senderVars
  <2>2. \A v \in Worker : worker[v] = "sent" <=> worker'[v] = "sent"
    BY <2>1 DEF TypeOK
  <2>. QED BY <2>1, <2>2, NothingCounted
<1>3. CASE Started \/ StopCalled \/ StopReturns \/ \E n \in 1 .. Loads : Load(n)
  BY <1>3, NothingCounted DEF Started, StopCalled, StopReturns, Load, queueVars, callerVars,
     workerVars, senderVars
<1>4. CASE UNCHANGED vars
  BY <1>4, NothingCounted DEF vars, queueVars, callerVars, workerVars, senderVars
<1>. QED BY <1>1, <1>2, <1>3, <1>4, CountCounted, EnqueueCounted, ReceiveCounted, SendCounted,
            OutcomeCounted DEF Next, WorkerStep

-----------------------------------------------------------------------------
(* The log.  The ring keeps the last entries, in their order. *)
LEMMA RingShifts ==
  ASSUME NEW s \in Seq(Message), Len(s) <= LogLimit + 1
  PROVE  /\ Len(Ring(s)) = IF Len(s) > LogLimit THEN LogLimit ELSE Len(s)
         /\ \E shift \in Nat : \A k \in DOMAIN Ring(s) :
              k \in Nat /\ k + shift \in DOMAIN s /\ Ring(s)[k] = s[k + shift]
<1>1. LogLimit \in Nat \ {0} /\ Len(s) \in Nat /\ DOMAIN s = 1 .. Len(s)
  BY DispatcherAssumption, LenProperties DEF DispatcherAssumption
<1>2. CASE Len(s) > LogLimit
  <2>0. Len(s) = LogLimit + 1 /\ Len(s) - LogLimit + 1 = 2
    <3>1. PICK l \in Nat, n \in Nat : l = LogLimit /\ n = Len(s)
      BY <1>1
    <3>2. n <= l + 1 /\ n > l
      BY <1>2, <3>1
    <3>3. n = l + 1 /\ n - l + 1 = 2
      BY ONLY <3>2, l \in Nat, n \in Nat
    <3>. QED BY ONLY <3>1, <3>3
  <2>1. Ring(s) = SubSeq(s, 2, Len(s)) /\ Len(s) = LogLimit + 1
    BY <1>2, <2>0 DEF Ring
  <2>2. \A i \in 2 .. Len(s) : i \in 1 .. Len(s)
    BY <1>1
  <2>3. /\ Len(SubSeq(s, 2, Len(s))) = LogLimit
        /\ DOMAIN SubSeq(s, 2, Len(s)) = 1 .. LogLimit
        /\ \A k \in 1 .. LogLimit : SubSeq(s, 2, Len(s))[k] = s[k + 1]
    BY <1>1, <2>1, <2>2, SubSeqProperties, LenProperties
  <2>4. \A k \in 1 .. LogLimit : k \in Nat /\ k + 1 \in 1 .. Len(s)
    BY <1>1, <2>1
  <2>. QED BY <1>1, <1>2, <2>1, <2>3, <2>4
<1>3. CASE ~(Len(s) > LogLimit)
  <2>1. Ring(s) = s
    BY <1>3 DEF Ring
  <2>2. \A k \in DOMAIN s : k \in Nat /\ k + 0 \in DOMAIN s /\ s[k] = s[k + 0]
    BY <1>1
  <2>. QED BY <1>3, <2>1, <2>2
<1>. QED BY <1>2, <1>3

LEMMA LoggedIsFinite == IsFiniteSet(Logged) /\ Cardinality(Logged) \in Nat
<1>1. Logged \in SUBSET Message /\ IsFiniteSet(Message)
  BY DispatcherAssumption DEF Logged, DispatcherAssumption
<1>. QED BY <1>1, FS_Subset, FS_CardinalityType

LEMMA InitLog == Init => LogIsComplete
<1>. SUFFICES ASSUME Init PROVE LogIsComplete
  OBVIOUS
<1>1. 1 \in Sender
  BY DispatcherAssumption DEF Sender, DispatcherAssumption
<1>2. log = <<>> /\ Len(log) = 0 /\ DOMAIN log = {} /\ Logged = {}
  BY <1>1 DEF Init, Logged
<1>. QED BY <1>2, FS_EmptySet DEF LogIsComplete

(* The LogSender gets a message for the first time: its entry is a new     *)
(* one, and if there is no room it takes the place of the oldest.          *)
LEMMA EntryLogged ==
  ASSUME TypeOK, WorkersInv, OnePlace, LogIsComplete, NEW w \in Worker, SendAccepted(w),
         sender[w] = 1
  PROVE  LogIsComplete'
<1>. DEFINE longer == Append(log, job[w])
<1>1. /\ worker[w] = "sending" /\ log' = Ring(longer)
      /\ received' = [received EXCEPT ![job[w]][1] = @ + 1]
  BY DEF SendAccepted
<1>2. /\ job[w] \in Message /\ 1 \in Sender /\ received \in [Message -> [Sender -> Nat]]
      /\ log \in Seq(Message) /\ Len(log) <= LogLimit /\ LogLimit \in Nat
  BY <1>1, DispatcherAssumption DEF TypeOK, WorkersInv, Busy, Sender, DispatcherAssumption
<1>3. received[job[w]][1] = 0
  BY <1>1, <1>2 DEF OnePlace, WorkersAt
<1>4. Logged' = Logged \cup {job[w]} /\ job[w] \notin Logged
  BY <1>1, <1>2, <1>3 DEF Logged
<1>5. Cardinality(Logged') = Cardinality(Logged) + 1 /\ Cardinality(Logged) \in Nat
  BY <1>4, LoggedIsFinite, FS_AddElement
<1>6. /\ longer \in Seq(Message) /\ Len(longer) = Len(log) + 1 /\ Len(log) \in Nat
      /\ DOMAIN log = 1 .. Len(log) /\ DOMAIN longer = 1 .. Len(log) + 1
      /\ longer[Len(log) + 1] = job[w] /\ \A n \in 1 .. Len(log) : longer[n] = log[n]
  BY <1>2, AppendProperties, LenProperties
<1>. HIDE DEF longer
<1>7. \A n \in DOMAIN longer : longer[n] \in Logged'
  BY <1>4, <1>6 DEF LogIsComplete
<1>8. ASSUME NEW i \in DOMAIN longer, NEW j \in DOMAIN longer, longer[i] = longer[j]
      PROVE  i = j
  <2>1. \A n \in 1 .. Len(log) : longer[n] # job[w]
    BY <1>4, <1>6 DEF LogIsComplete
  <2>2. CASE i \in 1 .. Len(log) /\ j \in 1 .. Len(log)
    BY <1>6, <1>8, <2>2 DEF LogIsComplete
  <2>3. CASE ~(i \in 1 .. Len(log) /\ j \in 1 .. Len(log))
    <3>1. i = Len(log) + 1 \/ j = Len(log) + 1
      BY <1>6, <2>3
    <3>2. longer[i] = job[w] /\ longer[j] = job[w]
      BY <1>6, <1>8, <3>1
    <3>. QED BY <1>6, <2>1, <3>2
  <2>. QED BY <2>2, <2>3
<1>9. /\ Len(Ring(longer)) = IF Len(longer) > LogLimit THEN LogLimit ELSE Len(longer)
      /\ \E shift \in Nat : \A k \in DOMAIN Ring(longer) :
           k \in Nat /\ k + shift \in DOMAIN longer /\ Ring(longer)[k] = longer[k + shift]
  <2>1. longer \in Seq(Message) /\ Len(longer) <= LogLimit + 1
    BY <1>2, <1>6
  <2>. QED BY ONLY <2>1, RingShifts
<1>10. PICK shift \in Nat : \A k \in DOMAIN log' :
         k \in Nat /\ k + shift \in DOMAIN longer /\ log'[k] = longer[k + shift]
  BY <1>1, <1>9
<1>11. \A i, j \in DOMAIN log' : log'[i] = log'[j] => i = j
  BY <1>8, <1>10
<1>12. \A i \in DOMAIN log' : log'[i] \in Logged'
  BY <1>7, <1>10
<1>13. \/ Len(log') = Cardinality(Logged')
       \/ Len(log') = LogLimit /\ LogLimit < Cardinality(Logged')
  <2>1. Len(log') = IF Len(log) + 1 > LogLimit THEN LogLimit ELSE Len(log) + 1
    BY <1>1, <1>6, <1>9
  <2>2. \/ Len(log) = Cardinality(Logged)
        \/ Len(log) = LogLimit /\ LogLimit < Cardinality(Logged)
    BY DEF LogIsComplete
  <2>3. Len(log) <= LogLimit /\ LogLimit \in Nat /\ Len(log) \in Nat
    BY <1>2, <1>6
  <2>. HIDE DEF Logged
  <2>4. CASE Len(log) + 1 > LogLimit
    <3>1. Len(log) = LogLimit
      BY <2>3, <2>4
    <3>2. Len(log') = LogLimit /\ LogLimit < Cardinality(Logged) + 1
      BY <1>5, <2>1, <2>2, <2>3, <2>4, <3>1
    <3>. QED BY <1>5, <3>2
  <2>5. CASE ~(Len(log) + 1 > LogLimit)
    <3>1. Len(log) = Cardinality(Logged)
      BY <2>2, <2>3, <2>5
    <3>. QED BY <1>5, <2>1, <2>5, <3>1
  <2>. QED BY <2>4, <2>5
<1>. QED BY <1>11, <1>12, <1>13 DEF LogIsComplete

LEMMA StepLog ==
  ASSUME Inductive, LogIsComplete, [Next]_vars
  PROVE  LogIsComplete'
<1>1. ASSUME NEW w \in Worker, SendAccepted(w), sender[w] # 1 PROVE LogIsComplete'
  <2>1. log' = log /\ received' = [received EXCEPT ![job[w]][sender[w]] = @ + 1]
    BY <1>1 DEF SendAccepted
  <2>2. Logged' = Logged
    BY <1>1, <2>1 DEF Inductive, TypeOK, Logged
  <2>. QED BY <2>1, <2>2 DEF LogIsComplete
<1>2. ASSUME \A w \in Worker : ~SendAccepted(w) PROVE UNCHANGED senderVars
  BY <1>2 DEF Next, Count, Enqueue, GiveUp, Cancel, Launch, WorkerStep, Receive, Wait, Exit,
     SendFailed, BackoffEnds, CountOutcome, Started, StopCalled, StopReturns, Load, vars
<1>3. CASE UNCHANGED senderVars
  BY <1>3 DEF senderVars, LogIsComplete, Logged
<1>. QED BY <1>1, <1>2, <1>3, EntryLogged DEF Inductive

-----------------------------------------------------------------------------
(* The inductive invariant holds in every reachable state, for any         *)
(* messages, workers and senders (notify.go, senders.go).                  *)
THEOREM InductiveInvariant == Spec => []Inductive
<1>1. Init => Inductive
  BY InitInductive
<1>2. Inductive /\ [Next]_vars => Inductive'
  BY StepType, StepWorkers, StepPlaces DEF Inductive
<1>. QED BY <1>1, <1>2, PTL DEF Spec

(* The channel and the log keep within their capacities, no worker makes   *)
(* more attempts than RetrySender may, and everything keeps its type.      *)
THEOREM TypeCorrect == Spec => []TypeOK
<1>1. Inductive => TypeOK
  BY DEF Inductive
<1>. QED BY <1>1, InductiveInvariant, PTL

(* A message is in one place, and no sender gets it twice or out of order. *)
THEOREM MessagesAreInOnePlace == Spec => []OnePlace
<1>1. Inductive => OnePlace
  BY DEF Inductive
<1>. QED BY <1>1, InductiveInvariant, PTL

(* The counters lose no outcome and count none twice, however the calls,   *)
(* the workers and Stop interleave (stats.go, deliver).                    *)
THEOREM CountersAreExact == Spec => []CountersAddUp
<1>1. Inductive /\ CountersAddUp /\ [Next]_vars => CountersAddUp'
  BY StepCounters
<1>. QED BY <1>1, InitCounters, InductiveInvariant, PTL DEF Spec

(* The log has each delivered message once, and all of them, or as many as *)
(* it may hold, whatever its limit (LogSender).                            *)
THEOREM LogMissesNothing == Spec => []LogIsComplete
<1>1. Inductive /\ LogIsComplete /\ [Next]_vars => LogIsComplete'
  BY StepLog
<1>. QED BY <1>1, InitLog, InductiveInvariant, PTL DEF Spec

(* When Stop has returned no worker delivers anything any more. *)
THEOREM StopIsQuiet == Spec => QuietAfterStop
<1>1. Inductive /\ [Next]_vars =>
        [owner' = "stopped" => /\ \A w \in Worker : job'[w] = NoMessage
                               /\ UNCHANGED <<received, delivered, failed>>]_vars
  <2>. SUFFICES ASSUME Inductive, Next, owner' = "stopped"
                PROVE  /\ \A w \in Worker : job'[w] = NoMessage
                       /\ UNCHANGED <<received, delivered, failed>>
    OBVIOUS
  <2>1. \A w \in Worker : worker'[w] = "exited" /\ job'[w] = NoMessage
    <3>1. WorkersInv'
      BY StepWorkers DEF Inductive
    <3>. QED BY <3>1 DEF WorkersInv, AllExited, Busy
  <2>2. owner = "stopped" => \A w \in Worker : worker[w] = "exited"
    BY DEF Inductive, WorkersInv, AllExited
  <2>3. ASSUME NEW w \in Worker, WorkerStep(w) PROVE FALSE
    <3>1. owner' = owner
      BY <2>3 DEF WorkerStep, Receive, Wait, Exit, SendAccepted, SendFailed, BackoffEnds,
         CountOutcome, queueVars
    <3>2. worker[w] = "exited"
      BY <2>2, <3>1
    <3>. QED BY <2>3, <3>2 DEF WorkerStep, Receive, Wait, Exit, SendAccepted, SendFailed,
             BackoffEnds, CountOutcome
  <2>4. CASE Started \/ StopCalled \/ StopReturns \/ \E n \in 1 .. Loads : Load(n)
    BY <2>1, <2>4 DEF Started, StopCalled, StopReturns, Load, stats, senderVars
  <2>5. ASSUME NEW m \in Message, Count(m) \/ Enqueue(m) \/ GiveUp(m) \/ Cancel(m)
        PROVE  UNCHANGED <<received, delivered, failed>>
    BY <2>5 DEF Count, Enqueue, GiveUp, Cancel, stats, senderVars
  <2>6. ASSUME NEW w \in Worker, Launch(w) PROVE UNCHANGED <<received, delivered, failed>>
    BY <2>6 DEF Launch, stats, senderVars
  <2>. QED BY <2>1, <2>3, <2>4, <2>5, <2>6 DEF Next
<1>. QED BY <1>1, InductiveInvariant, PTL DEF Spec, QuietAfterStop

-----------------------------------------------------------------------------
(* The refinement. *)

(* A sender's acceptance is the contract's. *)
LEMMA SendContract ==
  ASSUME Inductive, NEW w \in Worker, SendAccepted(w)
  PROVE  Contract!Receive(job[w], sender[w])
<1>1. TypeOK /\ WorkersInv /\ OnePlace
  BY DEF Inductive
<1>2. /\ worker[w] = "sending" /\ received' = [received EXCEPT ![job[w]][sender[w]] = @ + 1]
      /\ UNCHANGED <<caller, owner>>
  BY DEF SendAccepted, queueVars, callerVars
<1>3. /\ job[w] \in Message /\ sender[w] \in Sender /\ w \in WorkersAt(job[w])
      /\ received \in [Message -> [Sender -> Nat]] /\ \A s \in Sender : s \in Nat
  <2>1. worker[w] \in Busy
    BY <1>2 DEF Busy
  <2>2. job[w] \in Message /\ sender[w] \in Sender
    <3>1. job[w] # NoMessage /\ sender[w] \in Sender
      BY ONLY <1>1, <2>1, w \in Worker DEF WorkersInv
    <3>2. job[w] \in Message \cup {NoMessage}
      BY <1>1 DEF TypeOK
    <3>. QED BY ONLY <3>1, <3>2
  <2>3. received \in [Message -> [Sender -> Nat]]
    BY <1>1 DEF TypeOK
  <2>4. \A s \in Sender : s \in Nat
    BY DispatcherAssumption DEF Sender
  <2>. QED BY <2>2, <2>3, <2>4 DEF WorkersAt
<1>4. caller[job[w]] = "accepted" /\ owner # "stopped"
  BY <1>1, <1>2, <1>3 DEF OnePlace, WorkersInv, AllExited
<1>5. \A s \in Sender : s >= sender[w] => received[job[w]][s] = 0
  BY <1>1, <1>2, <1>3 DEF OnePlace
<1>6. received' = [received EXCEPT ![job[w]][sender[w]] = 1]
  <2>1. received[job[w]][sender[w]] = 0
    BY <1>3, <1>5
  <2>. QED BY <1>2, <1>3, <2>1
<1>. QED BY <1>2, <1>3, <1>4, <1>5, <1>6 DEF Contract!Receive

(* Dispatch's answers are the contract's, and so is the end of Stop; every *)
(* other step is a stutter.                                                *)
LEMMA ContractStep ==
  ASSUME Inductive, [Next]_vars
  PROVE  [Contract!Next]_(Contract!vars)
<1>. USE DEF Contract!vars
<1>1. ASSUME NEW m \in Message, Enqueue(m) \/ GiveUp(m) PROVE Contract!Answer(m)
  <2>1. /\ caller[m] = "counted" /\ UNCHANGED <<received, owner>>
        /\ \E answer \in {"accepted", "refused"} : caller' = [caller EXCEPT ![m] = answer]
    BY <1>1 DEF Enqueue, GiveUp, queueVars, senderVars
  <2>2. caller \in [Message -> {"idle", "counted", "accepted", "refused"}]
    BY DEF Inductive, TypeOK
  <2>. QED BY <2>1, <2>2 DEF Contract!Answer
<1>2. ASSUME NEW m \in Message, Count(m) \/ Cancel(m) PROVE UNCHANGED Contract!vars
  <2>1. caller \in [Message -> {"idle", "counted", "accepted", "refused"}]
    BY DEF Inductive, TypeOK
  <2>. QED BY <1>2, <2>1 DEF Count, Cancel, queueVars, senderVars
<1>3. ASSUME NEW w \in Worker, Launch(w) \/ (WorkerStep(w) /\ ~SendAccepted(w))
      PROVE  UNCHANGED Contract!vars
  BY <1>3 DEF Launch, WorkerStep, Receive, Wait, Exit, SendFailed, BackoffEnds, CountOutcome,
     queueVars, callerVars, senderVars
<1>4. ASSUME NEW w \in Worker, SendAccepted(w) PROVE Contract!Next
  <2>1. job[w] \in Message /\ sender[w] \in Sender
    BY <1>4 DEF Inductive, TypeOK, WorkersInv, Busy, SendAccepted
  <2>. QED BY <1>4, <2>1, SendContract DEF Contract!Next
<1>5. CASE Started \/ StopCalled \/ \E n \in 1 .. Loads : Load(n)
  BY <1>5 DEF Started, StopCalled, Load, queueVars, callerVars, senderVars
<1>6. CASE StopReturns
  BY <1>6 DEF StopReturns, callerVars, senderVars, Contract!Next, Contract!FallQuiet
<1>7. CASE UNCHANGED vars
  BY <1>7 DEF vars, queueVars, callerVars, senderVars
<1>. QED BY <1>1, <1>2, <1>3, <1>4, <1>5, <1>6, <1>7 DEF Next, Contract!Next

(* The dispatcher does what DispatcherContract promises.                   *)
THEOREM Refinement == Spec => ImplementsContract
<1>1. Init => Contract!Init
  BY DEF Init, Contract!Init
<1>2. Inductive /\ [Next]_vars => [Contract!Next]_(Contract!vars)
  BY ContractStep
<1>. QED BY <1>1, <1>2, InductiveInvariant, PTL DEF Spec, ImplementsContract, Contract!Spec

=============================================================================
