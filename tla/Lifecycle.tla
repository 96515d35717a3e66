------------------------------ MODULE Lifecycle ------------------------------
(***************************************************************************)
(* The process: main and serveHTTP, composed with the dispatcher and the   *)
(* runner they start and stop, the http.Server, and the signals.  Runner   *)
(* and Dispatcher are the modules of these names, with one call of Start   *)
(* and one of Stop each and, as in main, without any caller of Dispatch.   *)
(*                                                                         *)
(* http.Server and os/signal are modelled by what serveHTTP relies on:     *)
(* Shutdown closes the listener, then waits for the running requests or    *)
(* for its context; a signal ends the process unless it is being notified. *)
(***************************************************************************)
EXTENDS Naturals

CONSTANTS
  Request,    \* the HTTP requests
  Worker,     \* the workers of the dispatcher
  JobCount,   \* the jobs of the runner
  MaxSignals  \* bound of the number of signals

ASSUME LifecycleAssumption ==
  JobCount \in Nat /\ MaxSignals \in Nat /\ "none" \notin Worker

VARIABLES
  main,     \* where the main goroutine is
  result,   \* what serveHTTP has returned
  exit,     \* how the process has ended
  listener, \* the listener of the server
  errCh,    \* the channel of ListenAndServe's goroutine
  notified, \* signals go to the channel
  signals,  \* one is in the channel, which has room for one
  sent,     \* how many signals there were
  request,  \* where each request is
  \* the runner's and the dispatcher's
  started, stop, lock, starter, turn, loop, tick, failed, lastErr, stopper, late, lastRun,
  done, owner, worker

runnerVars == <<started, stop, lock, starter, turn, loop, tick, failed, lastErr, stopper,
                late, lastRun>>
dispatcherVars == <<done, owner, worker>>
signalVars == <<notified, signals, sent>>
serverVars == <<listener, errCh, request>>
mainVars   == <<main, result, exit>>
vars == <<mainVars, serverVars, signalVars, runnerVars, dispatcherVars>>

R == INSTANCE Runner WITH Starter <- {"main"}, Stopper <- {"main"}, NoStarter <- "none"

D == INSTANCE Dispatcher WITH
       Message <- {}, NoMessage <- "none", QueueSize <- 128, SenderCount <- 1, Flaky <- {},
       MaxAttempts <- 3, LogLimit <- 1000, Stoppable <- TRUE, Loads <- 0,
       queue <- <<>>, caller <- <<>>, ctxDone <- <<>>, received <- <<>>, log <- <<>>,
       job <- [w \in Worker |-> "none"], sender <- [w \in Worker |-> 0],
       attempt <- [w \in Worker |-> 0],
       dispatched <- 0, delivered <- 0, failed <- 0, reader <- 0,
       snapshot <- [dispatched |-> 0, delivered |-> 0, failed |-> 0]

Unanswered == {r \in Request : request[r] = "active"}

Init ==
  /\ main = "startDispatcher" /\ result = "none" /\ exit = "none"
  /\ listener = "unborn" /\ errCh = "none"
  /\ notified = FALSE /\ signals = 0 /\ sent = 0
  /\ request = [r \in Request |-> "absent"]
  /\ R!Init /\ D!Init

-----------------------------------------------------------------------------
(* main *)

Goto(label) == main' = label /\ UNCHANGED <<result, exit, serverVars, signalVars>>

StartDispatcher ==
  /\ main = "startDispatcher"
  /\ \/ (\E w \in Worker : D!Launch(w)) /\ Goto(main)
     \/ D!Started /\ Goto("startRunner")
  /\ UNCHANGED runnerVars

StartRunner ==
  /\ main = "startRunner"
  /\ \/ (R!StartFirst("main") \/ R!Launch("main")) /\ Goto(main)
     \/ R!StartReturns("main") /\ Goto("serve")
  /\ UNCHANGED dispatcherVars

(* serveHTTP: the goroutine of ListenAndServe, then signal.Notify. *)
Serve ==
  /\ main = "serve" /\ main' = "notify" /\ listener' = "opening"
  /\ UNCHANGED <<result, exit, errCh, request, signalVars, runnerVars, dispatcherVars>>

Notify ==
  /\ main = "notify" /\ main' = "select" /\ notified' = TRUE
  /\ UNCHANGED <<result, exit, signals, sent, serverVars, runnerVars, dispatcherVars>>

(* serveHTTP returns, and signal.Stop is called on the way. *)
Return(answer) ==
  /\ main' = "returned" /\ result' = answer /\ notified' = FALSE
  /\ UNCHANGED <<exit, signals, sent, runnerVars, dispatcherVars>>

(* The select.  If both channels are ready it takes either. *)
SelectError ==
  /\ main = "select" /\ errCh # "none"
  /\ Return(IF errCh = "closed" THEN "nil" ELSE "listen")
  /\ UNCHANGED serverVars

\* slip: signal.Stop is called before Shutdown
SelectSignalStops ==
  /\ main = "select" /\ signals = 1
  /\ main' = "shutdown" /\ signals' = 0 /\ listener' = "closed" /\ notified' = FALSE
  /\ UNCHANGED <<result, exit, errCh, request, sent, runnerVars, dispatcherVars>>
SelectSignal ==
  /\ main = "select" /\ signals = 1
  /\ main' = "shutdown" /\ signals' = 0 /\ listener' = "closed"
  /\ UNCHANGED <<result, exit, errCh, request, notified, sent, runnerVars, dispatcherVars>>

(* Shutdown looks for running requests; as long as there are some it waits *)
(* for its next look or for the end of its context.  The ten seconds may   *)
(* be over although the last request has just been answered.               *)
ShutdownWaits ==
  /\ main = "shutdown" /\ Unanswered # {}
  /\ Goto("grace") /\ UNCHANGED <<runnerVars, dispatcherVars>>

ShutdownReturns ==
  /\ main \in {"shutdown", "grace"} /\ Unanswered = {}
  /\ Return("nil") /\ UNCHANGED serverVars

\* slip: a context without deadline
GraceNeverEnds == main = "grace" /\ FALSE /\ UNCHANGED vars
\* slip: the error of Shutdown is dropped
GraceEndsQuietly == main = "grace" /\ Return("nil") /\ UNCHANGED serverVars
GraceEnds == main = "grace" /\ Return("deadline") /\ UNCHANGED serverVars

(* log.Fatal ends the process at once; deferred calls do not run. *)
Fatal ==
  /\ main = "returned" /\ result # "nil" /\ exit' = "fatal"
  /\ UNCHANGED <<main, result, serverVars, signalVars, runnerVars, dispatcherVars>>

(* The deferred calls, the last one first. *)
\* slip: main does not wait for the jobs
StopRunnerNoWait ==
  /\ main = "returned" /\ result = "nil" /\ R!StopCalled("main") /\ Goto("stopDispatcher")
  /\ UNCHANGED dispatcherVars
StopRunner ==
  /\ \/ main = "returned" /\ result = "nil" /\ R!StopCalled("main") /\ Goto("stopRunner")
     \/ main = "stopRunner" /\ R!StopReturns("main") /\ Goto("stopDispatcher")
  /\ UNCHANGED dispatcherVars

\* slip: main does not wait for the workers
StopDispatcherNoWait ==
  /\ main = "stopDispatcher" /\ D!StopCalled /\ exit' = "clean"
  /\ UNCHANGED <<main, result, serverVars, signalVars, runnerVars>>
StopDispatcher ==
  /\ main = "stopDispatcher"
  /\ \/ D!StopCalled /\ Goto(main)
     \/ D!StopReturns /\ exit' = "clean" /\ UNCHANGED <<main, result, serverVars, signalVars>>
  /\ UNCHANGED runnerVars

MainStep ==
  \/ StartDispatcher \/ StartRunner \/ Serve \/ Notify \/ SelectError \/ SelectSignal
  \/ ShutdownWaits \/ ShutdownReturns \/ GraceEnds \/ Fatal \/ StopRunner \/ StopDispatcher

-----------------------------------------------------------------------------
(* Around it *)

(* ListenAndServe: the port is free or not; later Accept may fail.  After  *)
(* Shutdown it returns ErrServerClosed.                                    *)
Listen ==
  /\ \/ listener = "opening" /\ listener' \in {"open", "closed"}
     \/ listener = "open" /\ listener' = "closed"
  /\ errCh' = IF listener' = "closed" THEN "error" ELSE errCh
  /\ UNCHANGED <<mainVars, request, signalVars, runnerVars, dispatcherVars>>

ServerClosed ==
  /\ main \notin {"serve", "notify", "select"} /\ listener = "closed" /\ errCh = "none"
  /\ errCh' = "closed"
  /\ UNCHANGED <<mainVars, listener, request, signalVars, runnerVars, dispatcherVars>>

(* newRootHandler picks one of three handlers by the prefix of the path.   *)
Arrive(r) ==
  /\ listener = "open" /\ request[r] = "absent"
  /\ request' = [request EXCEPT ![r] = "active"]
  /\ UNCHANGED <<mainVars, listener, errCh, signalVars, runnerVars, dispatcherVars>>

(* A handler returns or panics; recoveryMiddleware makes an answer of both. *)
Answer(r) ==
  /\ request[r] = "active"
  /\ request' = [request EXCEPT ![r] = "answered"]
  /\ UNCHANGED <<mainVars, listener, errCh, signalVars, runnerVars, dispatcherVars>>

(* SIGINT or SIGTERM: into the channel if it has room, dropped if not, and *)
(* the end of the process if nobody has asked to be notified.              *)
Signal ==
  /\ sent < MaxSignals /\ sent' = sent + 1
  /\ IF notified THEN signals' = 1 /\ UNCHANGED exit
                 ELSE exit' = "killed" /\ UNCHANGED signals
  /\ UNCHANGED <<main, result, serverVars, notified, runnerVars, dispatcherVars>>

JobStep(g) ==
  /\ R!Tick(g) \/ R!TakeTick(g) \/ R!Exit(g) \/ R!JobReturns(g) \/ R!Record(g)
  /\ UNCHANGED <<mainVars, serverVars, signalVars, dispatcherVars>>

(* There are no messages, so a worker waits or exits. *)
WorkerStep(w) ==
  /\ D!Wait(w) \/ D!Exit(w)
  /\ UNCHANGED <<mainVars, serverVars, signalVars, runnerVars>>

-----------------------------------------------------------------------------
Next ==
  /\ exit = "none"
  /\ \/ MainStep \/ Listen \/ ServerClosed \/ Signal
     \/ \E r \in Request : Arrive(r) \/ Answer(r)
     \/ \E g \in R!Loop : JobStep(g)
     \/ \E w \in Worker : WorkerStep(w)

Spec == Init /\ [][Next]_vars

(* The main goroutine and the workers run on, jobs return and, since the   *)
(* select of a loop is random, a loop sees that stop is closed.  No request *)
(* has to be answered and no signal to be sent; the timer of the ten       *)
(* seconds fires.                                                          *)
FairSpec ==
  /\ Spec
  /\ WF_vars(exit = "none" /\ MainStep)
  /\ \A w \in Worker : WF_vars(exit = "none" /\ WorkerStep(w))
  /\ \A g \in R!Loop :
       /\ WF_vars(exit = "none" /\ (R!JobReturns(g) \/ R!Record(g)) /\ JobStep(g))
       /\ SF_vars(exit = "none" /\ R!Exit(g) /\ JobStep(g))

-----------------------------------------------------------------------------
(* Type invariant (main.go, runtime.go). *)
TypeOK ==
  /\ main \in {"startDispatcher", "startRunner", "serve", "notify", "select", "shutdown",
               "grace", "returned", "stopRunner", "stopDispatcher"}
  /\ result \in {"none", "nil", "listen", "deadline"}
  /\ exit \in {"none", "clean", "fatal", "killed"}
  /\ listener \in {"unborn", "opening", "open", "closed"}
  /\ errCh \in {"none", "error", "closed"}
  /\ notified \in BOOLEAN /\ signals \in {0, 1} /\ sent \in 0 .. MaxSignals
  /\ request \in [Request -> {"absent", "active", "answered"}]
  /\ done \in BOOLEAN /\ owner \in {"starting", "started", "stopping", "stopped"}
  /\ worker \in [Worker -> {"unborn", "poll", "wait", "exited"}]
  /\ R!TypeOK

(* A process that ends with code 0 has answered every request and has no   *)
(* job and no worker in the middle of something: server, runner and        *)
(* dispatcher are taken down one after the other, each to its end (main).  *)
CleanExitLeavesNothing ==
  exit = "clean" =>
    /\ Unanswered = {} /\ listener = "closed"
    /\ \A g \in R!Loop : loop[g] \in {"unborn", "exited"}
    /\ \A w \in Worker : worker[w] = "exited"

(* Whatever a handler may want of the dispatcher or the runner, while it   *)
(* runs they are started, all of their goroutines, and not stopped (main). *)
RequestsFindThePartsUp ==
  Unanswered # {} => /\ owner = "started" /\ ~done
                     /\ ~stop /\ \A j \in 1 .. JobCount : R!Launched(j)

(* While main waits for signals or shuts the server down, no signal kills  *)
(* the process, nor does a second one.  Before signal.Notify and after     *)
(* signal.Stop one does, but it cuts off requests only in two gaps: while  *)
(* the listener is started and Notify not yet called, and right before     *)
(* log.Fatal (serveHTTP, main).                                            *)
SignalsSpareRequests ==
  exit = "killed" =>
    /\ main \notin {"select", "shutdown", "grace"}
    /\ Unanswered # {} =>
         main = "notify" \/ (main = "returned" /\ result \in {"listen", "deadline"})

(* The inductive invariant behind these: how far dispatcher and runner have *)
(* been started or stopped, and what the server has left, where main is.   *)
Starting == {"startDispatcher", "startRunner"}
Stopping == {"stopRunner", "stopDispatcher"}

PartsInv ==
  /\ main = "startDispatcher" => owner = "starting" /\ starter["main"] = "idle"
  /\ main \notin {"startDispatcher", "stopDispatcher"} => owner = "started"
  /\ main # "stopDispatcher" => ~done
  /\ owner = "stopped" => \A w \in Worker : worker[w] = "exited"
  /\ exit = "clean" => owner = "stopped"
  /\ main \notin Starting <=> starter["main"] = "returned"
  /\ main \notin Stopping => ~stop
  /\ main = "stopDispatcher" => \A g \in R!Loop : ~R!Alive(g)

ServerInv ==
  /\ main \in Starting \cup {"serve"} => listener = "unborn"
  /\ listener = "unborn" => \A r \in Request : request[r] = "absent"
  /\ main \in {"shutdown", "grace"} => listener = "closed"
  /\ main \in Stopping \/ (main = "returned" /\ result = "nil") =>
       listener = "closed" /\ Unanswered = {}
  /\ main = "returned" => result # "none"
  /\ main \in Starting \cup {"serve", "notify", "select"} => errCh # "closed"
  /\ notified <=> main \in {"select", "shutdown", "grace"}

Inductive == TypeOK /\ PartsInv /\ ServerInv /\ SignalsSpareRequests

(* A signal ends the process, even if requests hang: at the latest when    *)
(* the ten seconds are over and the running jobs have returned (serveHTTP, *)
(* main).                                                                  *)
SignalEndsProcess == sent > 0 ~> exit # "none"

=============================================================================
