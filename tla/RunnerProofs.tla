------------------------------ MODULE RunnerProofs ------------------------------
(***************************************************************************)
(* What holds of Runner for every number of jobs and of calls of Start and *)
(* Stop.  A step is one of Start's, of one loop, or of one Stop; each kind *)
(* disturbs parts of the inductive invariant of its own.                   *)
(***************************************************************************)
EXTENDS Runner, TLAPS

(* NewRunner establishes the invariant. *)
LEMMA InitInductive == Init => Inductive
<1> SUFFICES ASSUME Init PROVE Inductive
    OBVIOUS
<1>1. TypeOK
  <2>1. 1 \in 1 .. JobCount + 1
    BY RunnerAssumption
  <2> QED
    BY <2>1 DEF Init, TypeOK
<1> USE DEF Init, Alive, Loop, Job
<1>2. StartInv
  BY RunnerAssumption DEF StartInv, Launched
<1>3. RecordInv /\ StopInv /\ StartedMeansLaunched /\ QuietAfterStop /\ LastErrIsOfLastRun
  BY DEF RecordInv, StopInv, StartedMeansLaunched, QuietAfterStop, LastErrIsOfLastRun
<1> QED
  BY <1>1, <1>2, <1>3 DEF Inductive

(* A step that a loop takes. *)
LoopStep == \E g \in Loop : Tick(g) \/ TakeTick(g) \/ Exit(g) \/ JobReturns(g) \/ Record(g)

(* Types, per kind of step. *)
LEMMA StepTypeOK == TypeOK /\ [Next]_vars => TypeOK'
<1> SUFFICES ASSUME TypeOK, [Next]_vars PROVE TypeOK'
    OBVIOUS
<1> USE RunnerAssumption DEF TypeOK, startVars, stopVars, loopVars, Loop, Job
<1>1. ASSUME NEW s \in Starter, StartFirst(s) \/ StartedAlready(s) \/ StartReturns(s) PROVE TypeOK'
  BY <1>1 DEF StartFirst, StartedAlready, StartReturns
<1>2. ASSUME NEW s \in Starter, Launch(s) PROVE TypeOK'
  BY <1>2 DEF Launch
<1>3. ASSUME NEW g \in Loop, Tick(g) \/ TakeTick(g) \/ Exit(g) PROVE TypeOK'
  <2>1. CASE Tick(g)
    BY <2>1 DEF Tick
  <2>2. CASE TakeTick(g)
    BY <2>2 DEF TakeTick
  <2>3. CASE Exit(g)
    BY <2>3 DEF Exit
  <2>. QED BY <1>3, <2>1, <2>2, <2>3
<1>4. ASSUME NEW g \in Loop, JobReturns(g) PROVE TypeOK'
  BY <1>4 DEF JobReturns
<1>5. ASSUME NEW g \in Loop, Record(g) PROVE TypeOK'
  BY <1>5 DEF Record
<1>6. ASSUME NEW p \in Stopper, StopCalled(p) \/ StopReturns(p) PROVE TypeOK'
  BY <1>6 DEF StopCalled, StopReturns
<1>7. CASE UNCHANGED vars
  BY <1>7 DEF vars
<1> QED
  BY <1>1, <1>2, <1>3, <1>4, <1>5, <1>6, <1>7 DEF Next

(* A loop moves between its own states; whether it has been launched, and  *)
(* everything of Start and Stop, stays.                                    *)
LEMMA LoopStepEffect ==
  ASSUME TypeOK, LoopStep
  PROVE  /\ UNCHANGED <<startVars, stopVars, late>>
         /\ \A g \in Loop : loop'[g] = "unborn" <=> loop[g] = "unborn"
         /\ \A g \in Loop : Alive(g)' => Alive(g)
  BY DEF TypeOK, LoopStep, Tick, TakeTick, Exit, JobReturns, Record, Alive, startVars, stopVars

(* A step that neither launches nor touches Start keeps what Start knows.  *)
LEMMA StartUntouched ==
  ASSUME StartInv, UNCHANGED startVars,
         \A g \in Loop : loop'[g] = "unborn" <=> loop[g] = "unborn"
  PROVE  StartInv'
<1>1. \A t \in Starter : \A j \in Job : <<t, j>> \in Loop
  BY DEF Loop
<1>2. \A t \in Starter : \A j \in Job : loop'[<<t, j>>] # "unborn" <=> loop[<<t, j>>] # "unborn"
  BY <1>1
<1>3. \A t \in Starter : \A j \in Job : loop'[<<t, j>>] # "unborn" <=> j < turn'[t]
  BY <1>2 DEF StartInv, startVars
<1>4. \A j \in Job : Launched(j) => Launched(j)'
  BY <1>2 DEF Launched
<1> QED
  BY <1>3, <1>4 DEF StartInv, startVars

(* The mutex and the launches. *)
LEMMA StepStartInv == TypeOK /\ StartInv /\ [Next]_vars => StartInv'
<1> SUFFICES ASSUME TypeOK, StartInv, [Next]_vars PROVE StartInv'
    OBVIOUS
<1> USE RunnerAssumption DEF TypeOK, StartInv, Launched, startVars, stopVars, loopVars, Loop, Job
<1>1. ASSUME NEW s \in Starter, StartFirst(s) PROVE StartInv'
  <2>1. /\ ~started /\ lock = NoStarter /\ started' /\ lock' = s
        /\ starter' = [starter EXCEPT ![s] = "launching"] /\ starter[s] = "idle"
        /\ UNCHANGED <<turn, loop>>
    BY <1>1 DEF StartFirst
  <2>2. \A t \in Starter : turn[t] = 1 /\ starter[t] # "launching"
    BY <2>1
  <2>3. \A t \in Starter : starter'[t] = IF t = s THEN "launching" ELSE starter[t]
    BY <2>1
  <2>4. \A t \in Starter : \A j \in Job : loop'[<<t, j>>] # "unborn" <=> j < turn'[t]
    BY <2>1
  <2> QED
    BY <2>1, <2>2, <2>3, <2>4
<1>2. ASSUME NEW s \in Starter, StartedAlready(s) PROVE StartInv'
  <2>1. /\ started /\ lock = NoStarter /\ starter[s] = "idle"
        /\ starter' = [starter EXCEPT ![s] = "returned"]
        /\ UNCHANGED <<started, lock, turn, loop>>
    BY <1>2 DEF StartedAlready
  <2>2. \A t \in Starter : starter'[t] = IF t = s THEN "returned" ELSE starter[t]
    BY <2>1
  <2>3. \A t \in Starter : \A j \in Job : loop'[<<t, j>>] # "unborn" <=> j < turn'[t]
    <3>1. \A t \in Starter : \A j \in Job : loop[<<t, j>>] # "unborn" <=> j < turn[t]
      OBVIOUS
    <3>2. UNCHANGED <<loop, turn>>
      BY <2>1
    <3> HIDE DEF TypeOK, StartInv, Loop, Job
    <3> QED
      BY <3>1, <3>2
  <2>4. \A t \in Starter : /\ starter'[t] = "launching" <=> lock' = t
                           /\ starter'[t] = "idle" => turn'[t] = 1
                           /\ starter'[t] # "idle" => started'
    BY <2>1, <2>2
  <2>5. started' /\ lock' = NoStarter => \A j \in Job : Launched(j)'
    BY <2>1
  <2> QED
    BY <2>1, <2>3, <2>4, <2>5
<1>3. ASSUME NEW s \in Starter, Launch(s) PROVE StartInv'
  <2>1. /\ lock = s /\ starter[s] = "launching" /\ turn[s] \in Job
        /\ loop' = [loop EXCEPT ![<<s, turn[s]>>] = "select"]
        /\ turn' = [turn EXCEPT ![s] = @ + 1]
        /\ UNCHANGED <<started, lock, starter>>
    BY <1>3 DEF Launch
  <2>2. \A t \in Starter : t # s => turn'[t] = turn[t] /\ \A j \in Job : loop'[<<t, j>>] = loop[<<t, j>>]
    BY <2>1
  <2>3. \A j \in Job : loop'[<<s, j>>] = IF j = turn[s] THEN "select" ELSE loop[<<s, j>>]
    BY <2>1
  <2>4. turn'[s] = turn[s] + 1
    BY <2>1
  <2>5. \A t \in Starter : \A j \in Job : loop'[<<t, j>>] # "unborn" <=> j < turn'[t]
    <3>1. ASSUME NEW t \in Starter, NEW j \in Job
          PROVE  loop'[<<t, j>>] # "unborn" <=> j < turn'[t]
      <4>1. CASE t = s
        BY <2>1, <2>3, <2>4, <4>1
      <4>2. CASE t # s
        BY <2>1, <2>2, <4>2
      <4> QED
        BY <4>1, <4>2
    <3> QED
      BY <3>1
  <2>6. \A t \in Starter : t # s => turn[t] = 1
    BY <2>1
  <2>7. \A t, u \in Starter : turn'[t] > 1 /\ (turn'[u] > 1 \/ lock' = u) => t = u
    BY <2>1, <2>2, <2>6
  <2> QED
    BY <2>1, <2>2, <2>5, <2>7
<1>4. ASSUME NEW s \in Starter, StartReturns(s) PROVE StartInv'
  <2>1. /\ lock = s /\ starter[s] = "launching" /\ turn[s] > JobCount /\ lock' = NoStarter
        /\ starter' = [starter EXCEPT ![s] = "returned"]
        /\ UNCHANGED <<started, turn, loop>>
    BY <1>4 DEF StartReturns
  <2>2. \A j \in Job : loop[<<s, j>>] # "unborn"
    BY <2>1
  <2>3. \A t \in Starter : starter'[t] # "launching"
    BY <2>1
  <2> QED
    BY <2>1, <2>2, <2>3
<1> HIDE DEF TypeOK, StartInv, Launched, startVars, stopVars, Loop, Job
<1>5. CASE LoopStep
  BY <1>5, LoopStepEffect, StartUntouched
<1>6. ASSUME NEW p \in Stopper, StopCalled(p) \/ StopReturns(p) PROVE StartInv'
  <2>1. UNCHANGED <<startVars, loop>>
    BY <1>6 DEF StopCalled, StopReturns
  <2> QED
    BY <2>1, StartUntouched
<1>7. CASE UNCHANGED vars
  <2>1. UNCHANGED <<startVars, loop>>
    BY <1>7 DEF vars
  <2> QED
    BY <2>1, StartUntouched
<1> QED
  BY <1>1, <1>2, <1>3, <1>4, <1>5, <1>6, <1>7 DEF Next, LoopStep

(* A job has one loop at most. *)
LEMMA UniqueLoops == TypeOK /\ StartInv => OneLoopPerJob
  BY DEF TypeOK, StartInv, OneLoopPerJob, Loop, Job

(* What Start promises when it returns. *)
LEMMA StepStartedMeansLaunched ==
  TypeOK /\ StartInv /\ StartedMeansLaunched /\ [Next]_vars => StartedMeansLaunched'
<1> SUFFICES ASSUME TypeOK, StartInv, StartedMeansLaunched, [Next]_vars
             PROVE  StartedMeansLaunched'
    OBVIOUS
<1> USE RunnerAssumption DEF TypeOK, StartInv, StartedMeansLaunched, Launched, startVars,
                             stopVars, loopVars, Loop, Job
<1>1. ASSUME NEW s \in Starter, StartFirst(s) \/ StartedAlready(s) PROVE StartedMeansLaunched'
  <2>1. CASE StartFirst(s)
    BY <2>1 DEF StartFirst
  <2>2. CASE StartedAlready(s)
    <3>1. \A j \in Job : Launched(j)
      BY <2>2 DEF StartedAlready
    <3>2. UNCHANGED loop
      BY <2>2 DEF StartedAlready
    <3> QED
      BY <3>1, <3>2
  <2> QED
    BY <1>1, <2>1, <2>2
<1>2. ASSUME NEW s \in Starter, Launch(s) PROVE StartedMeansLaunched'
  BY <1>2 DEF Launch
<1>3. ASSUME NEW s \in Starter, StartReturns(s) PROVE StartedMeansLaunched'
  BY <1>3 DEF StartReturns
<1>4. CASE LoopStep
  BY <1>4, LoopStepEffect
<1>5. ASSUME NEW p \in Stopper, StopCalled(p) \/ StopReturns(p) PROVE StartedMeansLaunched'
  BY <1>5 DEF StopCalled, StopReturns
<1>6. CASE UNCHANGED vars
  BY <1>6 DEF vars
<1> QED
  BY <1>1, <1>2, <1>3, <1>4, <1>5, <1>6 DEF Next, LoopStep

(* What Stop promises when it returns. *)
LEMMA StepQuiet ==
  TypeOK /\ StopInv /\ QuietAfterStop /\ [Next]_vars => StopInv' /\ QuietAfterStop'
<1> SUFFICES ASSUME TypeOK, StopInv, QuietAfterStop, [Next]_vars PROVE StopInv' /\ QuietAfterStop'
    OBVIOUS
<1> USE DEF TypeOK, StopInv, QuietAfterStop, startVars, stopVars, loopVars
<1>1. ASSUME NEW s \in Starter, StartFirst(s) \/ StartedAlready(s) \/ StartReturns(s)
      PROVE  StopInv' /\ QuietAfterStop'
  BY <1>1 DEF StartFirst, StartedAlready, StartReturns, Alive
<1>2. ASSUME NEW s \in Starter, Launch(s) PROVE StopInv' /\ QuietAfterStop'
  BY <1>2 DEF Launch, Alive
<1>3. CASE LoopStep
  BY <1>3, LoopStepEffect
<1>4. ASSUME NEW p \in Stopper, StopCalled(p) PROVE StopInv' /\ QuietAfterStop'
  BY <1>4 DEF StopCalled, Alive
<1>5. ASSUME NEW p \in Stopper, StopReturns(p) PROVE StopInv' /\ QuietAfterStop'
  BY <1>5 DEF StopReturns, Alive
<1>6. CASE UNCHANGED vars
  BY <1>6 DEF vars, Alive
<1> QED
  BY <1>1, <1>2, <1>3, <1>4, <1>5, <1>6 DEF Next, LoopStep

(* What is recorded, and what is still to be. *)
LEMMA StepRecord ==
  /\ TypeOK /\ StartInv /\ OneLoopPerJob /\ RecordInv /\ LastErrIsOfLastRun /\ [Next]_vars
  => RecordInv' /\ LastErrIsOfLastRun'
<1> SUFFICES ASSUME TypeOK, StartInv, OneLoopPerJob, RecordInv, LastErrIsOfLastRun, [Next]_vars
             PROVE  RecordInv' /\ LastErrIsOfLastRun'
    OBVIOUS
<1> USE DEF TypeOK, RecordInv, LastErrIsOfLastRun, startVars, stopVars, loopVars, Loop, Job
<1>1. ASSUME NEW s \in Starter, StartFirst(s) \/ StartedAlready(s) \/ StartReturns(s)
      PROVE  RecordInv' /\ LastErrIsOfLastRun'
  BY <1>1 DEF StartFirst, StartedAlready, StartReturns
<1>2. ASSUME NEW s \in Starter, Launch(s) PROVE RecordInv' /\ LastErrIsOfLastRun'
  <2>1. /\ turn[s] \in Job /\ loop' = [loop EXCEPT ![<<s, turn[s]>>] = "select"]
        /\ UNCHANGED <<failed, lastErr, lastRun>>
    BY <1>2, RunnerAssumption DEF Launch
  <2>2. \A g \in Loop : loop'[g] = "recording" => loop[g] = "recording"
    BY <2>1
  <2>3. loop[<<s, turn[s]>>] # "recording"
    BY <1>2 DEF Launch, StartInv
  <2>4. \A g \in Loop : loop[g] = "recording" => loop'[g] = "recording"
    BY <2>1, <2>3
  <2> QED
    BY <2>1, <2>2, <2>4
<1>3. ASSUME NEW g \in Loop, Tick(g) \/ TakeTick(g) \/ Exit(g)
      PROVE  RecordInv' /\ LastErrIsOfLastRun'
  BY <1>3 DEF Tick, TakeTick, Exit
<1>4. ASSUME NEW g \in Loop, JobReturns(g) PROVE RecordInv' /\ LastErrIsOfLastRun'
  BY <1>4 DEF JobReturns, OneLoopPerJob
<1>5. ASSUME NEW g \in Loop, Record(g) PROVE RecordInv' /\ LastErrIsOfLastRun'
  BY <1>5 DEF Record, OneLoopPerJob
<1>6. ASSUME NEW p \in Stopper, StopCalled(p) \/ StopReturns(p)
      PROVE  RecordInv' /\ LastErrIsOfLastRun'
  BY <1>6 DEF StopCalled, StopReturns
<1>7. CASE UNCHANGED vars
  BY <1>7 DEF vars
<1> QED
  BY <1>1, <1>2, <1>3, <1>4, <1>5, <1>6, <1>7 DEF Next

(* The invariant holds in every reachable state, for any number of jobs    *)
(* and any calls of Start and Stop (schedule.go).                          *)
THEOREM InductiveInvariant == Spec => []Inductive
<1>1. Init => Inductive
  BY InitInductive
<1>2. Inductive /\ [Next]_vars => Inductive'
  BY StepTypeOK, StepStartInv, UniqueLoops, StepStartedMeansLaunched, StepQuiet, StepRecord
     DEF Inductive
<1> QED
  BY <1>1, <1>2, PTL DEF Spec

(* Every variable of the scheduler keeps its type. *)
THEOREM TypeCorrect == Spec => []TypeOK
<1>1. Inductive => TypeOK
  BY DEF Inductive
<1> QED
  BY <1>1, InductiveInvariant, PTL

(* However Start is called, no job has two loops. *)
THEOREM OneLoop == Spec => []OneLoopPerJob
<1>1. Inductive => OneLoopPerJob
  BY UniqueLoops DEF Inductive
<1> QED
  BY <1>1, InductiveInvariant, PTL

(* A Start that has returned leaves every job with its loop. *)
THEOREM StartLaunchesAll == Spec => []StartedMeansLaunched
<1>1. Inductive => StartedMeansLaunched
  BY DEF Inductive
<1> QED
  BY <1>1, InductiveInvariant, PTL

(* After a Stop has returned only what Start launches late can run. *)
THEOREM StopIsQuiet == Spec => []QuietAfterStop
<1>1. Inductive => QuietAfterStop
  BY DEF Inductive
<1> QED
  BY <1>1, InductiveInvariant, PTL

(* LastError tells of the latest run. *)
THEOREM LastErrorIsCurrent == Spec => []LastErrIsOfLastRun
<1>1. Inductive => LastErrIsOfLastRun
  BY DEF Inductive
<1> QED
  BY <1>1, InductiveInvariant, PTL

=============================================================================
