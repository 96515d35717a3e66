------------------------------ MODULE Dispatcher ------------------------------
(***************************************************************************)
(* notify.Dispatcher: callers of Dispatch, a bounded channel, a pool of    *)
(* workers, senders wrapped in RetrySender, Stop, and Stats.               *)
(*                                                                         *)
(* Atomic steps are channel operations, selects, atomic adds and loads,    *)
(* and calls of the wrapped sender.  A caller is named by the message it   *)
(* dispatches.  The channel queue is never closed, so receiving from it    *)
(* never reports !ok.                                                      *)
(*                                                                         *)
(* Before some definitions stand variants of them, each marked as a slip:  *)
(* the mistake that the properties below have to find.                     *)
(***************************************************************************)
EXTENDS Naturals, Sequences, FiniteSets

CONSTANTS
  Message,     \* the messages, one call of Dispatch each
  Worker,      \* the workers that Start launches
  QueueSize,   \* capacity of the channel
  SenderCount, \* len(d.senders)
  Flaky,       \* the senders whose wrapped sender may fail
  MaxAttempts, \* RetrySender.max
  Stoppable,   \* whether Stop may be called
  LogLimit,    \* LogSender.limit; the first sender is the LogSender
  Loads,       \* how far a call of Stats.Snapshot gets: 3 loads, or 0 for no call
  NoMessage

Sender == 1 .. SenderCount

ASSUME DispatcherAssumption ==
  /\ QueueSize \in Nat \ {0}
  /\ SenderCount \in Nat \ {0}
  /\ Flaky \subseteq Sender /\ 1 \notin Flaky
  /\ LogLimit \in Nat \ {0}
  /\ MaxAttempts \in Nat \ {0}
  /\ Stoppable \in BOOLEAN
  /\ Loads \in {0, 3}
  /\ NoMessage \notin Message
  /\ IsFiniteSet(Message) /\ IsFiniteSet(Worker)

VARIABLES
  queue,      \* the buffer of the channel
  done,       \* the channel done is closed
  owner,      \* the goroutine that calls Start and, later, Stop
  caller,     \* where the Dispatch of each message is
  ctxDone,    \* its context is cancelled
  worker,     \* where each worker is
  job,        \* the message a worker delivers
  sender,     \* deliver's loop: the sender it is at
  attempt,    \* RetrySender.Send's loop: how many attempts have failed
  dispatched, delivered, failed, \* Stats
  reader,     \* how many of its loads Stats.Snapshot has done
  snapshot,   \* what they returned
  log,        \* LogSender.items
  received    \* history variable: how often each sender has accepted each message

queueVars  == <<queue, done, owner>>
callerVars == <<caller, ctxDone>>
workerVars == <<worker, job, sender, attempt>>
stats      == <<dispatched, delivered, failed>>
readerVars == <<reader, snapshot>>
senderVars == <<log, received>>
vars == <<queueVars, callerVars, workerVars, stats, readerVars, senderVars>>

Init ==
  /\ queue = <<>> /\ done = FALSE /\ owner = "starting"
  /\ caller  = [m \in Message |-> "idle"]
  /\ ctxDone = [m \in Message |-> FALSE]
  /\ worker  = [w \in Worker |-> "unborn"]
  /\ job     = [w \in Worker |-> NoMessage]
  /\ sender  = [w \in Worker |-> 0]
  /\ attempt = [w \in Worker |-> 0]
  /\ dispatched = 0 /\ delivered = 0 /\ failed = 0
  /\ reader = 0 /\ snapshot = [dispatched |-> 0, delivered |-> 0, failed |-> 0]
  /\ log = <<>> /\ received = [m \in Message |-> [s \in Sender |-> 0]]

-----------------------------------------------------------------------------
(* Dispatch *)

\* slip: counts when the message has been enqueued
CountNothing(m) ==
  /\ caller[m] = "idle"
  /\ caller' = [caller EXCEPT ![m] = "counted"]
  /\ UNCHANGED <<queueVars, ctxDone, workerVars, stats, readerVars, senderVars>>
Count(m) ==
  /\ caller[m] = "idle"
  /\ caller' = [caller EXCEPT ![m] = "counted"]
  /\ dispatched' = dispatched + 1
  /\ UNCHANGED <<queueVars, ctxDone, workerVars, delivered, failed, readerVars, senderVars>>

(* The select: room in the channel, or the context.  If both are there the *)
(* choice is random.                                                       *)
Enqueue(m) ==
  /\ caller[m] = "counted"
  /\ Len(queue) < QueueSize
  /\ queue' = Append(queue, m)
  /\ caller' = [caller EXCEPT ![m] = "accepted"]
  /\ UNCHANGED <<done, owner, ctxDone, workerVars, stats, readerVars, senderVars>>

GiveUp(m) ==
  /\ caller[m] = "counted" /\ ctxDone[m]
  /\ caller' = [caller EXCEPT ![m] = "refused"]
  /\ UNCHANGED <<queueVars, ctxDone, workerVars, stats, readerVars, senderVars>>

Cancel(m) ==
  /\ caller[m] \in {"idle", "counted"} /\ ~ctxDone[m]
  /\ ctxDone' = [ctxDone EXCEPT ![m] = TRUE]
  /\ UNCHANGED <<queueVars, caller, workerVars, stats, readerVars, senderVars>>

-----------------------------------------------------------------------------
(* The workers *)

(* deliver begins with the first sender. *)
Begin(w, m) ==
  /\ worker'  = [worker EXCEPT ![w] = "sending"]
  /\ job'     = [job EXCEPT ![w] = m]
  /\ sender'  = [sender EXCEPT ![w] = 1]
  /\ attempt' = [attempt EXCEPT ![w] = 0]

(* A receive from the channel, in the outer select ("poll") or in the      *)
(* inner one ("wait").                                                     *)
\* slip: the message stays in the channel while it is delivered
ReceiveAndKeep(w) ==
  /\ worker[w] \in {"poll", "wait"} /\ queue # <<>>
  /\ Begin(w, Head(queue))
  /\ UNCHANGED <<queueVars, callerVars, stats, readerVars, senderVars>>
Receive(w) ==
  /\ worker[w] \in {"poll", "wait"} /\ queue # <<>>
  /\ queue' = Tail(queue)
  /\ Begin(w, Head(queue))
  /\ UNCHANGED <<done, owner, callerVars, stats, readerVars, senderVars>>

(* The default of the outer select. *)
\* slip: a worker returns when there is nothing to do
WaitReturns(w) ==
  /\ worker[w] = "poll" /\ queue = <<>>
  /\ worker' = [worker EXCEPT ![w] = "exited"]
  /\ UNCHANGED <<queueVars, callerVars, job, sender, attempt, stats, readerVars, senderVars>>
Wait(w) ==
  /\ worker[w] = "poll" /\ queue = <<>>
  /\ worker' = [worker EXCEPT ![w] = "wait"]
  /\ UNCHANGED <<queueVars, callerVars, job, sender, attempt, stats, readerVars, senderVars>>

(* The inner select finds done closed; a message that has come in since    *)
(* the outer select does not matter, the choice between the two is random. *)
Exit(w) ==
  /\ worker[w] = "wait" /\ done
  /\ worker' = [worker EXCEPT ![w] = "exited"]
  /\ UNCHANGED <<queueVars, callerVars, job, sender, attempt, stats, readerVars, senderVars>>

(* RetrySender.Send calls the wrapped sender; the context is Background.   *)
(* LogSender appends to its ring and never fails.                          *)
\* slip: off by one
RingShort(items) ==
  IF Len(items) > LogLimit THEN SubSeq(items, Len(items) - LogLimit + 2, Len(items)) ELSE items
Ring(items) ==
  IF Len(items) > LogLimit THEN SubSeq(items, Len(items) - LogLimit + 1, Len(items)) ELSE items

SendAccepted(w) ==
  /\ worker[w] = "sending"
  /\ received' = [received EXCEPT ![job[w]][sender[w]] = @ + 1]
  /\ log' = IF sender[w] = 1 THEN Ring(Append(log, job[w])) ELSE log
  /\ worker' = [worker EXCEPT ![w] = "sent"]
  /\ UNCHANGED <<queueVars, callerVars, job, sender, attempt, stats, readerVars>>

SendFailed(w) ==
  /\ worker[w] = "sending" /\ sender[w] \in Flaky
  /\ worker'  = [worker EXCEPT ![w] = "backoff"]
  /\ attempt' = [attempt EXCEPT ![w] = @ + 1]
  /\ UNCHANGED <<queueVars, callerVars, job, sender, stats, readerVars, senderVars>>

(* The backoff timer fires, after the last attempt too. *)
\* slip: never runs out of attempts
BackoffForever(w) ==
  /\ worker[w] = "backoff"
  /\ worker' = [worker EXCEPT ![w] = "sending"]
  /\ attempt' = [attempt EXCEPT ![w] = 0]
  /\ UNCHANGED <<queueVars, callerVars, job, sender, stats, readerVars, senderVars>>
BackoffEnds(w) ==
  /\ worker[w] = "backoff"
  /\ worker' = [worker EXCEPT ![w] = IF attempt[w] < MaxAttempts THEN "sending" ELSE "gaveUp"]
  /\ UNCHANGED <<queueVars, callerVars, job, sender, attempt, stats, readerVars, senderVars>>

(* deliver counts the outcome and goes on to the next sender. *)
NextSender(w) ==
  /\ attempt' = [attempt EXCEPT ![w] = 0]
  /\ IF sender[w] < SenderCount
     THEN /\ sender' = [sender EXCEPT ![w] = @ + 1]
          /\ worker' = [worker EXCEPT ![w] = "sending"]
          /\ UNCHANGED job
     ELSE /\ sender' = [sender EXCEPT ![w] = 0]
          /\ worker' = [worker EXCEPT ![w] = "poll"]
          /\ job' = [job EXCEPT ![w] = NoMessage]

CountOutcome(w) ==
  /\ \/ worker[w] = "sent"   /\ delivered' = delivered + 1 /\ UNCHANGED failed
     \/ worker[w] = "gaveUp" /\ failed' = failed + 1       /\ UNCHANGED delivered
  /\ NextSender(w)
  /\ UNCHANGED <<queueVars, callerVars, dispatched, readerVars, senderVars>>

WorkerStep(w) ==
  \/ Receive(w) \/ Wait(w) \/ Exit(w) \/ SendAccepted(w) \/ SendFailed(w)
  \/ BackoffEnds(w) \/ CountOutcome(w)

-----------------------------------------------------------------------------
(* Start and Stop, called once each, in this order (main). *)

(* One turn of Start's loop. *)
Launch(w) ==
  /\ owner = "starting" /\ worker[w] = "unborn"
  /\ worker' = [worker EXCEPT ![w] = "poll"]
  /\ UNCHANGED <<queueVars, callerVars, job, sender, attempt, stats, readerVars, senderVars>>

Started ==
  /\ owner = "starting" /\ \A w \in Worker : worker[w] # "unborn"
  /\ owner' = "started"
  /\ UNCHANGED <<queue, done, callerVars, workerVars, stats, readerVars, senderVars>>

StopCalled ==
  /\ Stoppable /\ owner = "started"
  /\ done' = TRUE /\ owner' = "stopping"
  /\ UNCHANGED <<queue, callerVars, workerVars, stats, readerVars, senderVars>>

(* d.wg.Wait *)
AllExited == \A w \in Worker : worker[w] = "exited"
\* slip: Done is called when a worker begins to wait
StopReturnsEarly ==
  /\ owner = "stopping" /\ \A w \in Worker : worker[w] \in {"wait", "exited"}
  /\ owner' = "stopped"
  /\ UNCHANGED <<queue, done, callerVars, workerVars, stats, readerVars, senderVars>>
StopReturns ==
  /\ owner = "stopping" /\ AllExited
  /\ owner' = "stopped"
  /\ UNCHANGED <<queue, done, callerVars, workerVars, stats, readerVars, senderVars>>

(* Stats.Snapshot: three loads, in the order of the struct literal. *)
Load(n) ==
  /\ reader = n - 1 /\ reader' = n
  /\ snapshot' = CASE n = 1 -> [snapshot EXCEPT !.dispatched = dispatched]
                   [] n = 2 -> [snapshot EXCEPT !.delivered = delivered]
                   [] n = 3 -> [snapshot EXCEPT !.failed = failed]
  /\ UNCHANGED <<queueVars, callerVars, workerVars, stats, senderVars>>

-----------------------------------------------------------------------------
Next ==
  \/ \E m \in Message : Count(m) \/ Enqueue(m) \/ GiveUp(m) \/ Cancel(m)
  \/ \E w \in Worker : Launch(w) \/ WorkerStep(w)
  \/ Started \/ StopCalled \/ StopReturns
  \/ \E n \in 1 .. Loads : Load(n)

Spec == Init /\ [][Next]_vars

(* The Go scheduler runs every runnable goroutine again, a timer that is   *)
(* set fires, and a call of a wrapped sender returns.  A worker that can   *)
(* both receive and exit does one of the two.  Nobody has to dispatch or   *)
(* to cancel, and nobody has to call Stop.                                 *)
FairSpec ==
  /\ Spec
  /\ \A w \in Worker : WF_vars(Launch(w)) /\ WF_vars(WorkerStep(w))
  /\ \A m \in Message : WF_vars(Enqueue(m) \/ GiveUp(m))
  /\ WF_vars(Started) /\ WF_vars(StopReturns)

-----------------------------------------------------------------------------
(* Type invariant (notify.go, stats.go). *)
TypeOK ==
  /\ queue \in Seq(Message) /\ Len(queue) <= QueueSize
  /\ done \in BOOLEAN
  /\ owner \in {"starting", "started", "stopping", "stopped"}
  /\ caller  \in [Message -> {"idle", "counted", "accepted", "refused"}]
  /\ ctxDone \in [Message -> BOOLEAN]
  /\ worker  \in [Worker -> {"unborn", "poll", "wait", "sending", "sent", "backoff",
                             "gaveUp", "exited"}]
  /\ job     \in [Worker -> Message \cup {NoMessage}]
  /\ sender  \in [Worker -> Sender \cup {0}]
  /\ attempt \in [Worker -> 0 .. MaxAttempts]
  /\ dispatched \in Nat /\ delivered \in Nat /\ failed \in Nat
  /\ reader \in 0 .. 3
  /\ snapshot \in [dispatched : Nat, delivered : Nat, failed : Nat]
  /\ log \in Seq(Message) /\ Len(log) <= LogLimit
  /\ received \in [Message -> [Sender -> Nat]]

InQueue(m)  == {n \in DOMAIN queue : queue[n] = m}
WorkersAt(m) == {w \in Worker : job[w] = m}

(* A message is in one place: with its caller, once in the channel, with   *)
(* one worker, or done with.  No sender gets it before a worker has it,    *)
(* none gets it twice, though RetrySender sends again what failed, and the *)
(* senders get it in their order (Dispatch, worker, deliver).              *)
OnePlace ==
  \A m \in Message :
    /\ \A i, j \in InQueue(m) : i = j
    /\ \A v, w \in WorkersAt(m) : v = w /\ InQueue(m) = {}
    /\ InQueue(m) # {} \/ WorkersAt(m) # {} => caller[m] = "accepted"
    /\ \A s \in Sender :
         /\ received[m][s] \in {0, 1}
         /\ received[m][s] = 1 =>
              /\ caller[m] = "accepted" /\ InQueue(m) = {}
              /\ \A w \in WorkersAt(m) :
                   s < sender[w] \/ (s = sender[w] /\ worker[w] = "sent")

(* Where a worker is tells what it has at hand, that the message has been  *)
(* accepted, and that an attempt is left; when Stop has returned there is  *)
(* no worker any more (deliver, RetrySender.Send, Stop).                   *)
Busy == {"sending", "sent", "backoff", "gaveUp"}

WorkersInv ==
  /\ \A w \in Worker :
       /\ worker[w] \in Busy <=> job[w] # NoMessage
       /\ worker[w] \in Busy => sender[w] \in Sender
       /\ worker[w] = "sending" => attempt[w] < MaxAttempts
  /\ owner = "stopped" => AllExited

Inductive == TypeOK /\ WorkersInv /\ OnePlace

(* What the counters count: the calls of Dispatch, the deliveries that a   *)
(* sender has accepted and those of them that a worker has still to count, *)
(* and the senders that deliver is done with, message by message.          *)
Calls     == {m \in Message : caller[m] # "idle"}
Accepted  == {ms \in Message \X Sender : received[ms[1]][ms[2]] > 0}
Uncounted == {w \in Worker : worker[w] = "sent"}
Tried     == {ms \in Message \X Sender :
                /\ caller[ms[1]] = "accepted" /\ InQueue(ms[1]) = {}
                /\ \A w \in WorkersAt(ms[1]) : ms[2] < sender[w]}

(* The counters lose nothing and count nothing twice: each call is counted *)
(* when it begins, each sender's outcome once, when deliver leaves that    *)
(* sender, and as a delivery just if the sender has accepted the message.  *)
(* So they never claim more than has been asked for: at every moment at    *)
(* most one outcome per sender of each dispatched message (stats.go).      *)
CountersAddUp ==
  /\ dispatched = Cardinality(Calls)
  /\ delivered + Cardinality(Uncounted) = Cardinality(Accepted)
  /\ delivered + failed = Cardinality(Tried)
  /\ delivered + failed <= SenderCount * dispatched

(* The messages that the LogSender has accepted. *)
Logged == {m \in Message : received[m][1] > 0}

(* The log of delivered messages has each of them once, and it has all of  *)
(* them, or is full: as it never fails, no retry repeats an entry, and the *)
(* ring gives up an entry only for another (LogSender).                    *)
LogIsComplete ==
  /\ \A i, j \in DOMAIN log : log[i] = log[j] => i = j
  /\ \A i \in DOMAIN log : log[i] \in Logged
  /\ \/ Len(log) = Cardinality(Logged)
     \/ Len(log) = LogLimit /\ LogLimit < Cardinality(Logged)

(* What Stop promises: when it has returned no worker is in the middle of   *)
(* a delivery, and none takes up another one (Stop, wg.Wait).              *)
QuietAfterStop ==
  [][owner' = "stopped" => /\ \A w \in Worker : job'[w] = NoMessage
                           /\ UNCHANGED <<received, delivered, failed>>]_vars

(* All of it together, and step by step, is what DispatcherContract says:   *)
(* a message is received by each sender at most once, in their order, when *)
(* it has been accepted and before Stop has returned.                      *)
Contract == INSTANCE DispatcherContract WITH
              status <- [m \in Message |->
                           IF caller[m] \in {"idle", "counted"} THEN "open" ELSE caller[m]],
              quiet  <- (owner = "stopped")

ImplementsContract == Contract!Spec

(* "Snapshot returns a consistent copy of the counters" (stats.go:12):     *)
(* what holds of the counters at every moment holds of the copy.           *)
SnapshotIsConsistent ==
  reader = 3 => snapshot.delivered + snapshot.failed <= SenderCount * snapshot.dispatched

(* Finished: every sender has accepted the message or has failed it.       *)
Handled(m) == caller[m] = "accepted" /\ InQueue(m) = {} /\ WorkersAt(m) = {}

(* As long as Stop is not called, a message that Dispatch has accepted is  *)
(* tried on all senders.  (Stop leaves messages in the channel.)           *)
AcceptedIsHandled ==
  \A m \in Message : caller[m] = "accepted" ~> (Handled(m) \/ owner \in {"stopping", "stopped"})

(* "Stop signals the workers to finish and waits for them to exit"         *)
(* (notify.go:101): it returns, whatever the senders do, once the messages *)
(* stop coming in.                                                         *)
StopTerminates == owner = "stopping" ~> owner = "stopped"

(* Nobody waits in Dispatch for good as long as the workers run.           *)
DispatchReturns ==
  \A m \in Message :
    caller[m] = "counted" ~> (caller[m] # "counted" \/ owner \in {"stopping", "stopped"})

=============================================================================
