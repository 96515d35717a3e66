---------------------------- MODULE LifecycleProofs ----------------------------
(***************************************************************************)
(* What holds of the process for any number of requests, workers, jobs and *)
(* signals: a step belongs to main, to the server and its clients, to a    *)
(* signal, or to a goroutine of the runner or the dispatcher.              *)
(***************************************************************************)
EXTENDS Lifecycle, TLAPS

(* main has not started anything yet. *)
LEMMA InitInductive == Init => Inductive
<1> SUFFICES ASSUME Init PROVE Inductive
    OBVIOUS
<1>1. /\ main = "startDispatcher" /\ exit = "none" /\ listener = "unborn" /\ errCh = "none"
      /\ result = "none" /\ notified = FALSE /\ signals = 0 /\ sent = 0
      /\ request = [r \in Request |-> "absent"]
      /\ done = FALSE /\ owner = "starting" /\ worker = [w \in Worker |-> "unborn"]
      /\ stop = FALSE /\ starter = [s \in {"main"} |-> "idle"] /\ turn = [s \in {"main"} |-> 1]
      /\ loop = [g \in R!Loop |-> "unborn"]
  BY DEF Init, R!Init, D!Init
<1>2. R!TypeOK
  <2>1. 1 \in 1 .. JobCount + 1
    BY LifecycleAssumption
  <2> QED
    BY <2>1 DEF Init, R!Init, R!TypeOK
<1>3. TypeOK
  <2>1. sent \in 0 .. MaxSignals
    BY <1>1, LifecycleAssumption
  <2>2. /\ request \in [Request -> {"absent", "active", "answered"}]
        /\ worker \in [Worker -> {"unborn", "poll", "wait", "exited"}]
    BY <1>1
  <2> QED
    BY <1>1, <1>2, <2>1, <2>2 DEF TypeOK
<1>4. PartsInv
  BY <1>1, LifecycleAssumption DEF PartsInv, Starting, Stopping, R!Loop, R!Job
<1>5. ServerInv
  BY <1>1 DEF ServerInv, Starting, Stopping
<1>6. SignalsSpareRequests
  BY <1>1 DEF SignalsSpareRequests
<1> QED
  BY <1>3, <1>4, <1>5, <1>6 DEF Inductive

-----------------------------------------------------------------------------
(* The runner.  RunnerProofs is about an instance of Runner of its own; it *)
(* is the instance that the process has.                                   *)
RP == INSTANCE RunnerProofs WITH Starter <- {"main"}, Stopper <- {"main"}, NoStarter <- "none"

LEMMA RunnerInit == RP!Init <=> R!Init
  BY DEF RP!Init, R!Init, RP!Loop, R!Loop, RP!Job, R!Job

LEMMA RunnerNext == [RP!Next]_(RP!vars) <=> [R!Next]_(R!vars)
<1>1. (UNCHANGED RP!vars) <=> (UNCHANGED R!vars)
  BY DEF R!vars, R!startVars, R!stopVars, R!loopVars,
         RP!vars, RP!startVars, RP!stopVars, RP!loopVars
<1> USE DEF R!startVars, R!stopVars, R!loopVars, RP!startVars, RP!stopVars, RP!loopVars,
            R!Loop, R!Job, RP!Loop, RP!Job, R!Alive, RP!Alive
<1>2. ASSUME NEW s
      PROVE  /\ RP!StartFirst(s) <=> R!StartFirst(s)
             /\ RP!StartedAlready(s) <=> R!StartedAlready(s)
             /\ RP!Launch(s) <=> R!Launch(s)
             /\ RP!StartReturns(s) <=> R!StartReturns(s)
  BY DEF RP!StartFirst, RP!StartedAlready, RP!Launch, RP!StartReturns,
         R!StartFirst, R!StartedAlready, R!Launch, R!StartReturns
<1>3. ASSUME NEW g
      PROVE  /\ RP!Tick(g) <=> R!Tick(g)
             /\ RP!TakeTick(g) <=> R!TakeTick(g)
             /\ RP!Exit(g) <=> R!Exit(g)
             /\ RP!JobReturns(g) <=> R!JobReturns(g)
             /\ RP!Record(g) <=> R!Record(g)
  BY DEF RP!Tick, RP!TakeTick, RP!Exit, RP!JobReturns, RP!Record,
         R!Tick, R!TakeTick, R!Exit, R!JobReturns, R!Record
<1>4. ASSUME NEW p
      PROVE  /\ RP!StopCalled(p) <=> R!StopCalled(p)
             /\ RP!StopReturns(p) <=> R!StopReturns(p)
  BY DEF RP!StopCalled, RP!StopReturns, R!StopCalled, R!StopReturns
<1>5. RP!Loop = R!Loop
  OBVIOUS
<1> HIDE DEF R!startVars, R!stopVars, R!loopVars, RP!startVars, RP!stopVars, RP!loopVars,
             R!Loop, R!Job, RP!Loop, RP!Job, R!Alive, RP!Alive
<1>6. RP!Next <=> R!Next
  BY <1>2, <1>3, <1>4, <1>5 DEF RP!Next, R!Next
<1> QED
  BY <1>1, <1>6

LEMMA RunnerInductive == RP!Inductive <=> R!Inductive
  BY DEF RP!Inductive, RP!TypeOK, RP!StartInv, RP!RecordInv, RP!StopInv, RP!StartedMeansLaunched, RP!QuietAfterStop, RP!LastErrIsOfLastRun, RP!Launched, RP!Alive, RP!Loop, RP!Job,
   R!Inductive, R!TypeOK, R!StartInv, R!RecordInv, R!StopInv, R!StartedMeansLaunched, R!QuietAfterStop, R!LastErrIsOfLastRun, R!Launched, R!Alive, R!Loop, R!Job


(* Whoever uses the runner as specified has its inductive invariant. *)
LEMMA RunnerInvariant == R!Spec => []R!Inductive
<1>1. RP!RunnerAssumption
  BY LifecycleAssumption DEF RP!RunnerAssumption
<1>2. RP!Spec => []RP!Inductive
  BY RP!InductiveInvariant, <1>1
<1> QED
  BY <1>2, RunnerInit, RunnerNext, RunnerInductive, PTL DEF R!Spec, RP!Spec

(* main, and nobody else, calls Start and Stop of the runner as its module *)
(* says, and the loops run on by themselves.                               *)
LEMMA RunnerStep == [Next]_vars => [R!Next]_(R!vars)
<1> SUFFICES ASSUME [Next]_vars, ~UNCHANGED runnerVars PROVE R!Next
  BY DEF runnerVars, R!vars, R!startVars, R!stopVars, R!loopVars
<1>1. CASE StartRunner \/ StopRunner
  BY <1>1 DEF StartRunner, StopRunner, R!Next
<1>2. ASSUME NEW g \in R!Loop, JobStep(g) PROVE R!Next
  BY <1>2 DEF JobStep, R!Next
<1>3. CASE StartDispatcher \/ Serve \/ Notify \/ SelectError \/ SelectSignal \/ ShutdownWaits
           \/ ShutdownReturns \/ GraceEnds \/ Fatal \/ StopDispatcher
  BY <1>3 DEF StartDispatcher, Serve, Notify, SelectError, SelectSignal, ShutdownWaits,
              ShutdownReturns, GraceEnds, Fatal, StopDispatcher, Return
<1>4. CASE Listen \/ ServerClosed \/ Signal
  BY <1>4 DEF Listen, ServerClosed, Signal
<1>5. ASSUME NEW r \in Request, Arrive(r) \/ Answer(r) PROVE R!Next
  BY <1>5 DEF Arrive, Answer
<1>6. ASSUME NEW w \in Worker, WorkerStep(w) PROVE R!Next
  BY <1>6 DEF WorkerStep
<1>7. CASE UNCHANGED vars
  BY <1>7 DEF vars
<1> QED
  BY <1>1, <1>2, <1>3, <1>4, <1>5, <1>6, <1>7 DEF Next, MainStep

(* The process uses the runner as Runner specifies it. *)
THEOREM RunnerAsSpecified == Spec => R!Spec
<1>1. Init => R!Init
  BY DEF Init
<1> QED
  BY <1>1, RunnerStep, PTL DEF Spec, R!Spec

(* Hence what is proved of Runner holds in the process. *)
LEMMA RunnerHolds == Spec => []R!Inductive
  BY RunnerAsSpecified, RunnerInvariant, PTL

-----------------------------------------------------------------------------
(* The dispatcher.  Nobody calls Dispatch, so its channel and its counters *)
(* stay as they are; main and the workers change the rest as its module    *)
(* says.                                                                   *)
LEMMA DispatcherStep == [Next]_vars => [D!Next]_(D!vars)
<1> SUFFICES ASSUME [Next]_vars, ~UNCHANGED dispatcherVars PROVE D!Next
  BY DEF dispatcherVars, D!vars, D!queueVars, D!callerVars, D!workerVars, D!stats,
         D!readerVars, D!senderVars
<1>1. CASE StartDispatcher \/ StopDispatcher
  BY <1>1 DEF StartDispatcher, StopDispatcher, D!Next
<1>2. ASSUME NEW w \in Worker, WorkerStep(w) PROVE D!Next
  BY <1>2 DEF WorkerStep, D!WorkerStep, D!Next
<1>3. CASE StartRunner \/ Serve \/ Notify \/ SelectError \/ SelectSignal \/ ShutdownWaits
           \/ ShutdownReturns \/ GraceEnds \/ Fatal \/ StopRunner
  BY <1>3 DEF StartRunner, Serve, Notify, SelectError, SelectSignal, ShutdownWaits,
              ShutdownReturns, GraceEnds, Fatal, StopRunner, Return
<1>4. CASE Listen \/ ServerClosed \/ Signal
  BY <1>4 DEF Listen, ServerClosed, Signal
<1>5. ASSUME NEW r \in Request, Arrive(r) \/ Answer(r) PROVE D!Next
  BY <1>5 DEF Arrive, Answer
<1>6. ASSUME NEW g \in R!Loop, JobStep(g) PROVE D!Next
  BY <1>6 DEF JobStep
<1>7. CASE UNCHANGED vars
  BY <1>7 DEF vars
<1> QED
  BY <1>1, <1>2, <1>3, <1>4, <1>5, <1>6, <1>7 DEF Next, MainStep

(* The process uses the dispatcher as Dispatcher specifies it (main). *)
THEOREM DispatcherAsSpecified == Spec => D!Spec
<1>1. Init => D!Init
  BY DEF Init
<1> QED
  BY <1>1, DispatcherStep, PTL DEF Spec, D!Spec

-----------------------------------------------------------------------------
(* The process *)

(* Types; those of the runner's variables are its own matter. *)
LEMMA StepTypeOK == TypeOK /\ R!TypeOK' /\ [Next]_vars => TypeOK'
<1> SUFFICES ASSUME TypeOK, R!TypeOK', [Next]_vars PROVE TypeOK'
    OBVIOUS
<1>1. MaxSignals \in Nat
  BY LifecycleAssumption
<1> USE DEF TypeOK, serverVars, signalVars, mainVars, dispatcherVars
<1>2. CASE StartDispatcher
  BY <1>2 DEF StartDispatcher, Goto, D!Launch, D!Started, D!queueVars, D!workerVars
<1>3. CASE StartRunner \/ StopRunner
  BY <1>3 DEF StartRunner, StopRunner, Goto
<1>4. CASE Serve \/ Notify \/ SelectError \/ SelectSignal \/ ShutdownWaits
           \/ ShutdownReturns \/ GraceEnds \/ Fatal
  BY <1>4 DEF Serve, Notify, SelectError, SelectSignal, ShutdownWaits, ShutdownReturns,
              GraceEnds, Fatal, Return, Goto
<1>5. CASE StopDispatcher
  BY <1>5 DEF StopDispatcher, Goto, D!StopCalled, D!StopReturns, D!workerVars
<1>6. CASE Listen \/ ServerClosed \/ Signal
  BY <1>1, <1>6 DEF Listen, ServerClosed, Signal
<1>7. ASSUME NEW r \in Request, Arrive(r) \/ Answer(r) PROVE TypeOK'
  BY <1>7 DEF Arrive, Answer
<1>8. ASSUME NEW g \in R!Loop, JobStep(g) PROVE TypeOK'
  BY <1>8 DEF JobStep
<1>9. ASSUME NEW w \in Worker, WorkerStep(w) PROVE TypeOK'
  BY <1>9 DEF WorkerStep, D!Wait, D!Exit, D!queueVars
<1>10. CASE UNCHANGED vars
  BY <1>10 DEF vars
<1> QED
  BY <1>2, <1>3, <1>4, <1>5, <1>6, <1>7, <1>8, <1>9, <1>10 DEF Next, MainStep

(* How far the parts are. *)
LEMMA StepPartsInv == TypeOK /\ PartsInv /\ [Next]_vars => PartsInv'
<1> SUFFICES ASSUME TypeOK, PartsInv, [Next]_vars PROVE PartsInv'
    OBVIOUS
<1> USE DEF PartsInv, Starting, Stopping, runnerVars, dispatcherVars
<1>1. CASE StartDispatcher
  BY <1>1 DEF StartDispatcher, Goto, D!Launch, D!Started, D!queueVars, D!workerVars, R!Alive
<1>2. CASE StartRunner
  BY <1>2 DEF StartRunner, Goto, R!StartFirst, R!Launch, R!StartReturns, R!stopVars, TypeOK, R!TypeOK
<1>3. CASE Serve \/ Notify \/ SelectError \/ SelectSignal \/ ShutdownWaits
           \/ ShutdownReturns \/ GraceEnds
  BY <1>3 DEF Serve, Notify, SelectError, SelectSignal, ShutdownWaits, ShutdownReturns,
              GraceEnds, Return, Goto
<1>4. CASE Fatal
  BY <1>4 DEF Fatal, R!Alive
<1>5. CASE StopRunner
  BY <1>5 DEF StopRunner, Goto, R!StopCalled, R!StopReturns, R!startVars, R!loopVars, R!Alive
<1>6. CASE StopDispatcher
  BY <1>6 DEF StopDispatcher, Goto, D!StopCalled, D!StopReturns, D!AllExited, D!workerVars, R!Alive
<1>7. CASE Listen \/ ServerClosed \/ Signal
  BY <1>7 DEF Listen, ServerClosed, Signal, mainVars, R!Alive
<1>8. ASSUME NEW r \in Request, Arrive(r) \/ Answer(r) PROVE PartsInv'
  BY <1>8 DEF Arrive, Answer, mainVars, R!Alive
<1>9. ASSUME NEW g \in R!Loop, JobStep(g) PROVE PartsInv'
  BY <1>9 DEF JobStep, mainVars, TypeOK, R!TypeOK, R!Tick, R!TakeTick, R!Exit, R!JobReturns,
              R!Record, R!startVars, R!stopVars, R!Alive
<1>10. ASSUME NEW w \in Worker, WorkerStep(w) PROVE PartsInv'
  BY <1>10 DEF WorkerStep, mainVars, D!Wait, D!Exit, D!queueVars, R!Alive
<1>11. CASE UNCHANGED vars
  BY <1>11 DEF vars, mainVars, R!Alive
<1> QED
  BY <1>1, <1>2, <1>3, <1>4, <1>5, <1>6, <1>7, <1>8, <1>9, <1>10, <1>11 DEF Next, MainStep

(* What the server has left. *)
LEMMA StepServerInv == TypeOK /\ ServerInv /\ [Next]_vars => ServerInv'
<1> SUFFICES ASSUME TypeOK, ServerInv, [Next]_vars PROVE ServerInv'
    OBVIOUS
<1> USE DEF ServerInv, Starting, Stopping, Unanswered, serverVars, signalVars
<1>1. CASE StartDispatcher \/ StartRunner \/ Serve \/ Notify
  BY <1>1 DEF StartDispatcher, StartRunner, Serve, Notify, Goto
<1>2. CASE SelectError \/ SelectSignal \/ ShutdownWaits
  BY <1>2 DEF SelectError, SelectSignal, ShutdownWaits, Return, Goto, TypeOK
<1>3. CASE ShutdownReturns \/ GraceEnds
  BY <1>3 DEF ShutdownReturns, GraceEnds, Return
<1>4. CASE Fatal \/ StopRunner \/ StopDispatcher
  BY <1>4 DEF Fatal, StopRunner, StopDispatcher, Goto
<1>5. CASE Listen
  BY <1>5 DEF Listen, mainVars
<1>6. CASE ServerClosed \/ Signal
  BY <1>6 DEF ServerClosed, Signal, mainVars
<1>7. ASSUME NEW r \in Request, Arrive(r) \/ Answer(r) PROVE ServerInv'
  BY <1>7 DEF Arrive, Answer, mainVars, TypeOK
<1>8. ASSUME NEW g \in R!Loop, JobStep(g) PROVE ServerInv'
  BY <1>8 DEF JobStep, mainVars
<1>9. ASSUME NEW w \in Worker, WorkerStep(w) PROVE ServerInv'
  BY <1>9 DEF WorkerStep, mainVars
<1>10. CASE UNCHANGED vars
  BY <1>10 DEF vars, mainVars
<1> QED
  BY <1>1, <1>2, <1>3, <1>4, <1>5, <1>6, <1>7, <1>8, <1>9, <1>10 DEF Next, MainStep

(* A signal ends the process at once or never: nothing happens after it.   *)
LEMMA StepSparesRequests ==
  TypeOK /\ ServerInv /\ SignalsSpareRequests /\ [Next]_vars => SignalsSpareRequests'
<1> SUFFICES ASSUME TypeOK, ServerInv, SignalsSpareRequests, [Next]_vars
             PROVE  SignalsSpareRequests'
    OBVIOUS
<1>1. CASE UNCHANGED vars
  BY <1>1 DEF SignalsSpareRequests, Unanswered, vars, mainVars, serverVars
<1>2. CASE Signal
  BY <1>2 DEF Signal, SignalsSpareRequests, Unanswered, TypeOK, ServerInv, Starting, Stopping,
              serverVars
<1>3. CASE Next /\ ~Signal
  <2>1. exit = "none"
    BY <1>3 DEF Next
  <2>2. exit' # "killed"
    BY <1>3, <2>1 DEF Next, MainStep, StartDispatcher, StartRunner, Serve, Notify, SelectError,
       SelectSignal, ShutdownWaits, ShutdownReturns, GraceEnds, Fatal, StopRunner, StopDispatcher,
       Return, Goto, Listen, ServerClosed, Arrive, Answer, JobStep, WorkerStep, mainVars
  <2> QED
    BY <2>2 DEF SignalsSpareRequests
<1> QED
  BY <1>1, <1>2, <1>3

(* The invariant holds in every reachable state of the process (main,      *)
(* serveHTTP).                                                             *)
THEOREM InductiveInvariant == Spec => []Inductive
<1>1. Init => Inductive
  BY InitInductive
<1>2. R!Inductive' => R!TypeOK'
  BY DEF R!Inductive
<1>3. Inductive /\ R!Inductive' /\ [Next]_vars => Inductive'
  BY <1>2, StepTypeOK, StepPartsInv, StepServerInv, StepSparesRequests DEF Inductive
<1> QED
  BY <1>1, <1>3, RunnerHolds, PTL DEF Spec

(* A process that ends with code 0 has finished what it had begun. *)
THEOREM CleanExit == Spec => []CleanExitLeavesNothing
<1>1. Inductive => CleanExitLeavesNothing
  BY DEF Inductive, TypeOK, PartsInv, ServerInv, Starting, Stopping, CleanExitLeavesNothing, R!Alive
<1> QED
  BY <1>1, InductiveInvariant, PTL

(* No request runs while a part is not up yet or down already. *)
THEOREM PartsAreUp == Spec => []RequestsFindThePartsUp
<1>1. Inductive /\ R!Inductive => RequestsFindThePartsUp
  BY DEF Inductive, TypeOK, PartsInv, ServerInv, Starting, Stopping, Unanswered,
         RequestsFindThePartsUp, R!Inductive, R!StartedMeansLaunched, R!Job
<1> QED
  BY <1>1, InductiveInvariant, RunnerHolds, PTL

(* No signal kills the process between signal.Notify and signal.Stop, and  *)
(* one that does cuts off requests only right before the former or right   *)
(* before log.Fatal.                                                       *)
THEOREM SignalsAreTaken == Spec => []SignalsSpareRequests
<1>1. Inductive => SignalsSpareRequests
  BY DEF Inductive
<1> QED
  BY <1>1, InductiveInvariant, PTL

=============================================================================
