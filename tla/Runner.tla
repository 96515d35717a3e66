-------------------------------- MODULE Runner --------------------------------
(***************************************************************************)
(* schedule.Runner: calls of Start and Stop in any order and more than     *)
(* once, and the loop that each job gets.                                  *)
(*                                                                         *)
(* Atomic steps are a section under the mutex (Start's is longer, so it    *)
(* holds lock), a select, a launched goroutine, and the return of a job.   *)
(* What the jobs of main do is OpsRecords!AuditSweep and Readings!Sweep.   *)
(***************************************************************************)
EXTENDS Naturals

CONSTANTS
  JobCount,  \* len(r.jobs)
  Starter,   \* the calls of Start
  Stopper,   \* the calls of Stop
  NoStarter

ASSUME RunnerAssumption ==
  /\ JobCount \in Nat
  /\ NoStarter \notin Starter

(* The jobs have names of their own, as in main, so a job stands for its   *)
(* name, too.  A loop is a goroutine: the call of Start that launches it   *)
(* and the job.                                                            *)
Job  == 1 .. JobCount
Loop == Starter \X Job

VARIABLES
  started,  \* Runner.started
  stop,     \* the channel stop is closed
  lock,     \* the call of Start that holds mu between two of its steps
  starter,  \* where each call of Start is
  turn,     \* Start's loop: the job it launches next
  loop,     \* where each goroutine is
  tick,     \* a tick is in the channel of its ticker
  failed,   \* the run of the job it is recording has failed
  lastErr,  \* the jobs with an entry in Runner.lastErr
  stopper,  \* where each call of Stop is
  late,     \* history variable: the goroutines launched with stop closed
  lastRun   \* history variable: the jobs whose latest run has failed

startVars == <<started, lock, starter, turn>>
stopVars  == <<stop, stopper>>
loopVars  == <<loop, tick, failed, lastErr, lastRun>>
vars == <<startVars, stopVars, loopVars, late>>

Init ==
  /\ started = FALSE /\ stop = FALSE /\ lock = NoStarter
  /\ starter = [s \in Starter |-> "idle"]
  /\ turn    = [s \in Starter |-> 1]
  /\ loop    = [g \in Loop |-> "unborn"]
  /\ tick    = [g \in Loop |-> FALSE]
  /\ failed  = [g \in Loop |-> FALSE]
  /\ lastErr = {} /\ lastRun = {}
  /\ stopper = [p \in Stopper |-> "idle"]
  /\ late = {}

(* The wait group counts these. *)
Alive(g) == loop[g] \notin {"unborn", "exited"}

-----------------------------------------------------------------------------
(* Start *)

StartFirst(s) ==
  /\ starter[s] = "idle" /\ lock = NoStarter /\ ~started
  /\ started' = TRUE /\ lock' = s
  /\ starter' = [starter EXCEPT ![s] = "launching"]
  /\ UNCHANGED <<turn, stopVars, loopVars, late>>

\* slip: looks at started without the lock
StartedAlreadyUnlocked(s) ==
  /\ starter[s] = "idle" /\ started
  /\ starter' = [starter EXCEPT ![s] = "returned"]
  /\ UNCHANGED <<started, lock, turn, stopVars, loopVars, late>>
StartedAlready(s) ==
  /\ starter[s] = "idle" /\ lock = NoStarter /\ started
  /\ starter' = [starter EXCEPT ![s] = "returned"]
  /\ UNCHANGED <<started, lock, turn, stopVars, loopVars, late>>

(* One turn: wg.Add and the go statement.  The ticker is not new before    *)
(* the goroutine runs, which Tick may delay as it likes.                   *)
Launch(s) ==
  /\ starter[s] = "launching" /\ turn[s] <= JobCount
  /\ loop' = [loop EXCEPT ![<<s, turn[s]>>] = "select"]
  /\ late' = IF stop THEN late \cup {<<s, turn[s]>>} ELSE late
  /\ turn' = [turn EXCEPT ![s] = @ + 1]
  /\ UNCHANGED <<started, lock, starter, stopVars, tick, failed, lastErr, lastRun>>

StartReturns(s) ==
  /\ starter[s] = "launching" /\ turn[s] > JobCount
  /\ starter' = [starter EXCEPT ![s] = "returned"]
  /\ lock' = NoStarter
  /\ UNCHANGED <<started, turn, stopVars, loopVars, late>>

-----------------------------------------------------------------------------
(* The loop of a job *)

(* The ticker drops ticks while one is waiting. *)
Tick(g) ==
  /\ Alive(g) /\ ~tick[g]
  /\ tick' = [tick EXCEPT ![g] = TRUE]
  /\ UNCHANGED <<startVars, stopVars, loop, failed, lastErr, lastRun, late>>

(* The select; with a tick waiting and stop closed it takes either.        *)
TakeTick(g) ==
  /\ loop[g] = "select" /\ tick[g]
  /\ tick' = [tick EXCEPT ![g] = FALSE]
  /\ loop' = [loop EXCEPT ![g] = "running"]
  /\ UNCHANGED <<startVars, stopVars, failed, lastErr, lastRun, late>>

Exit(g) ==
  /\ loop[g] = "select" /\ stop
  /\ loop' = [loop EXCEPT ![g] = "exited"]
  /\ UNCHANGED <<startVars, stopVars, tick, failed, lastErr, lastRun, late>>

(* job.Run returns, with or without an error. *)
JobReturns(g) ==
  /\ loop[g] = "running"
  /\ \E err \in BOOLEAN :
       /\ failed' = [failed EXCEPT ![g] = err]
       /\ lastRun' = IF err THEN lastRun \cup {g[2]} ELSE lastRun \ {g[2]}
  /\ loop' = [loop EXCEPT ![g] = "recording"]
  /\ UNCHANGED <<startVars, stopVars, tick, lastErr, late>>

(* The second section under the mutex. *)
\* slip: a success leaves the old error
RecordErrorsOnly(g) ==
  /\ loop[g] = "recording" /\ lock = NoStarter
  /\ lastErr' = IF failed[g] THEN lastErr \cup {g[2]} ELSE lastErr
  /\ loop' = [loop EXCEPT ![g] = "select"]
  /\ UNCHANGED <<startVars, stopVars, tick, failed, lastRun, late>>
\* slip: a failed job ends its loop
RecordAndReturn(g) ==
  /\ loop[g] = "recording" /\ lock = NoStarter
  /\ lastErr' = IF failed[g] THEN lastErr \cup {g[2]} ELSE lastErr \ {g[2]}
  /\ loop' = [loop EXCEPT ![g] = IF failed[g] THEN "exited" ELSE "select"]
  /\ UNCHANGED <<startVars, stopVars, tick, failed, lastRun, late>>
\* slip: does not unlock after an error
RecordKeepsLock(g) ==
  /\ loop[g] = "recording" /\ lock = NoStarter
  /\ lock' = IF failed[g] THEN g[1] ELSE NoStarter
  /\ lastErr' = IF failed[g] THEN lastErr \cup {g[2]} ELSE lastErr \ {g[2]}
  /\ loop' = [loop EXCEPT ![g] = "select"]
  /\ UNCHANGED <<started, starter, turn, stopVars, tick, failed, lastRun, late>>
Record(g) ==
  /\ loop[g] = "recording" /\ lock = NoStarter
  /\ lastErr' = IF failed[g] THEN lastErr \cup {g[2]} ELSE lastErr \ {g[2]}
  /\ loop' = [loop EXCEPT ![g] = "select"]
  /\ UNCHANGED <<startVars, stopVars, tick, failed, lastRun, late>>

-----------------------------------------------------------------------------
(* Stop, which never takes the mutex *)

StopCalled(p) ==
  /\ stopper[p] = "idle"
  /\ stop' = TRUE
  /\ stopper' = [stopper EXCEPT ![p] = "waiting"]
  /\ UNCHANGED <<startVars, loopVars, late>>

(* wg.Wait *)
\* slip: waits for the jobs that run, not for their loops
StopReturnsBetweenRuns(p) ==
  /\ stopper[p] = "waiting" /\ \A g \in Loop : loop[g] # "running"
  /\ stopper' = [stopper EXCEPT ![p] = "returned"]
  /\ UNCHANGED <<startVars, stop, loopVars, late>>
StopReturns(p) ==
  /\ stopper[p] = "waiting" /\ \A g \in Loop : ~Alive(g)
  /\ stopper' = [stopper EXCEPT ![p] = "returned"]
  /\ UNCHANGED <<startVars, stop, loopVars, late>>

-----------------------------------------------------------------------------
Next ==
  \/ \E s \in Starter : StartFirst(s) \/ StartedAlready(s) \/ Launch(s) \/ StartReturns(s)
  \/ \E g \in Loop : Tick(g) \/ TakeTick(g) \/ Exit(g) \/ JobReturns(g) \/ Record(g)
  \/ \E p \in Stopper : StopCalled(p) \/ StopReturns(p)

Spec == Init /\ [][Next]_vars

(* Goroutines that can go on do, tickers tick, and jobs return.  A select  *)
(* with several ready cases chooses one at random, so a loop that comes to *)
(* its select again and again with stop closed takes that case some time:  *)
(* strong fairness of Exit.  Nobody has to call Start or Stop.             *)
FairSpec ==
  /\ Spec
  /\ \A s \in Starter : WF_vars(Launch(s) \/ StartReturns(s))
  /\ \A g \in Loop : /\ WF_vars(Tick(g)) /\ WF_vars(TakeTick(g)) /\ SF_vars(Exit(g))
                     /\ WF_vars(JobReturns(g)) /\ WF_vars(Record(g))
  /\ \A p \in Stopper : WF_vars(StopReturns(p))

-----------------------------------------------------------------------------
(* Type invariant (Runner, Start, loop, Stop). *)
TypeOK ==
  /\ started \in BOOLEAN /\ stop \in BOOLEAN
  /\ lock \in Starter \cup {NoStarter}
  /\ starter \in [Starter -> {"idle", "launching", "returned"}]
  /\ turn    \in [Starter -> 1 .. JobCount + 1]
  /\ loop    \in [Loop -> {"unborn", "select", "running", "recording", "exited"}]
  /\ tick    \in [Loop -> BOOLEAN]
  /\ failed  \in [Loop -> BOOLEAN]
  /\ lastErr \subseteq Job /\ lastRun \subseteq Job
  /\ stopper \in [Stopper -> {"idle", "waiting", "returned"}]
  /\ late \subseteq Loop

(* However often Start is called, a job has one loop, and so never runs    *)
(* twice at a time (Start).                                                *)
OneLoopPerJob ==
  \A g, h \in Loop : loop[g] # "unborn" /\ loop[h] # "unborn" /\ g[2] = h[2] => g = h

Launched(j) == \E s \in Starter : loop[<<s, j>>] # "unborn"

(* When any call of Start has returned, the first one or not, all jobs     *)
(* have their loops: a second call that finds started set does not outrun  *)
(* the first one's loop (Start, the mutex).                                *)
StartedMeansLaunched ==
  \A s \in Starter : starter[s] = "returned" =>
    \A j \in Job : Launched(j)

(* "Stop signals all jobs to finish and waits for them to exit"            *)
(* (schedule.go:68): once any Stop has returned, nothing runs but what a   *)
(* Start launches that had not launched it when Stop was called.           *)
QuietAfterStop ==
  \A p \in Stopper : stopper[p] = "returned" => {g \in Loop : Alive(g)} \subseteq late

(* LastError tells of the latest run, unless that one is being recorded    *)
(* (loop, LastError).                                                      *)
LastErrIsOfLastRun ==
  \A j \in Job : (\A s \in Starter : loop[<<s, j>>] # "recording") =>
    (j \in lastErr <=> j \in lastRun)

(* The inductive invariant: who holds the mutex and has launched what, and *)
(* what a loop has still to record (Start, loop, Stop).                    *)
StartInv ==
  /\ \A s \in Starter :
       /\ starter[s] = "launching" <=> lock = s
       /\ starter[s] = "idle" => turn[s] = 1
       /\ starter[s] # "idle" => started
       /\ \A j \in Job : loop[<<s, j>>] # "unborn" <=> j < turn[s]
  /\ \A s, t \in Starter : turn[s] > 1 /\ (turn[t] > 1 \/ lock = t) => s = t
  /\ started /\ lock = NoStarter => \A j \in Job : Launched(j)

RecordInv ==
  \A g \in Loop : loop[g] = "recording" => (failed[g] <=> g[2] \in lastRun)

StopInv == \A p \in Stopper : stopper[p] # "idle" => stop

Inductive ==
  /\ TypeOK /\ StartInv /\ RecordInv /\ StopInv
  /\ StartedMeansLaunched /\ QuietAfterStop /\ LastErrIsOfLastRun

(* Stop returns if the jobs do, whatever the tickers do (Stop). *)
StopTerminates == \A p \in Stopper : stopper[p] = "waiting" ~> stopper[p] = "returned"

(* "Runner executes jobs on fixed intervals until Stop" (schedule.go:16):  *)
(* a launched job runs, and runs again, failures or not.                   *)
JobsRepeat ==
  \A g \in Loop : Alive(g) /\ loop[g] # "running" ~> (loop[g] = "running" \/ stop)

=============================================================================
