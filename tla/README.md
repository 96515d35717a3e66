# Verification of port-yard-condition-service

TLA+ models of the Go service under `src/backend`, the TLC configurations that
check them on small instances, and TLAPS proofs of what holds for every
instance. `PROJECT.json` lists the runs, the theorems, the hazards, the findings,
and for every definition the lines of Go it stands for.

    tlc -config OpsRaces.cfg MCOpsRecords.tla      # a run: cfg and module are in PROJECT.json
    tlapm OpsRecordsProofs.tla                     # the proofs of a module

## 1. The system

One process, no database: all state is in memory and gone after a restart.
`main.go` builds four parts and puts an HTTP server in front of them; each request
is a goroutine of its own.

| part | state | operations | made hard by |
|---|---|---|---|
| **operations records** (`ops_*.go`) | `OpsStore.items`, `OpsAudit.events`, `opsAuditSequence`, `OpsStateMachine.history` | create, get, list, update (PUT), delete, transition; snapshot, report, audit queries; audit sweep | a handler makes up to five calls, each under a lock of its own, with a context that may end between any two; optimistic concurrency; ids that are normalized on some paths |
| **yard zones** (`httpapi`, `store`, `validation`, `domain`) | `Store.items` | list, change a status | get, validate, update are three steps |
| **notifications** (`notify`) | the channel, the workers, `Stats`, the ring buffer of `LogSender` | Start, Dispatch, Stop, Snapshot | callers, workers and Stop race on one channel with two nested selects; retries with backoff |
| **readings** (`readings`) | history per zone, alert log, pinned thresholds | record, recent, alerts, summary, sweep | a reading goes through three locks; aggregates over zones that change meanwhile |
| **periodic jobs** (`schedule`) | `started`, the stop channel, `lastErr` | Start, the loops, Stop, LastError | tick against stop |
| **process** (`main.go`, `runtime.go`) | the server and the goroutines of the others | start, signal, shutdown | order of shutdown, ten seconds of grace, `log.Fatal` |
| **queries and reports** (`ops_query.go`, `ops_report.go`) | none of their own: they read `OpsStore.items` | search with filter, order and pages; snapshot; report | a client reads page after page while the list changes; page arithmetic with an `int`; stamps compared as strings |
| rules table (`ops_rules_*.go`) | 112 constants | none: nothing calls `opsRules()` | |
| HTTP helpers, configuration, health, static files | none | pure functions | |

How they interact: HTTP handlers call the services; the jobs of the scheduler call
`OpsAudit.Trim` and `readings.Service.Trim`; `main` starts dispatcher and scheduler
and stops them after the server. Nobody calls `Dispatch`.
The operations records and the yard zones share nothing but the server.

What makes each part correct:

* records: no lost update among guarded writes; a revision number names one
  content; revisions without gaps; transitions along the table; answers that tell
  the truth about the store; an audit trail that matches the writes; every request
  answered;
* yard zones: moves along the table only;
* notifications: no message lost, doubled or invented; counters that add up; Stop
  returns, and nothing happens afterwards; nobody blocks for good;
* readings: a history holds the newest samples; answers and alert log have the alerts
  that the readings imply, whatever has been pinned; a summary is not made up;
* jobs: one loop per job; no run after Stop has returned; a job runs again and again
  until then;
* process: no request finds a part that is not started or already stopped; a clean
  exit leaves nothing running; a signal ends the process, and does not cut off
  requests while `serveHTTP` waits for signals;
* queries: a page is its window of the list; what a client misses or gets twice while
  it reads page after page is explained by writes to other records; the report's
  extremes are extremes.

The hazards behind these, each at its line, are in `PROJECT.json`.

## 2. The modules

| module | models | checked by |
|---|---|---|
| `OpsStateMachine` | statuses and the transition table of `ops_state.go` | through `OpsRecords` |
| `OpsRecords` | the service, store, audit trail and state machine of the operations records | `MCOpsRecords` |
| `OpsContract` | abstract: what a request may do to the map of records | `OpsRecords!ImplementsContract` |
| `OpsRecordsProofs` | theorems about `OpsRecords`: the store, revisions, answers, refinement | TLAPS |
| `OpsTrailProofs` | theorems about `OpsRecords`: what audit trail, history and answers say of a write | TLAPS |
| `OpsQuery`, `OpsQueryProofs` | search, pages, order, report, over a store that changes; its theorems | `MCOpsQuery`, TLAPS |
| `YardZones`, `YardZonesProofs` | the yard-zone API and its theorems | `MCYardZones`, TLAPS |
| `Dispatcher`, `DispatcherProofs` | `notify`: dispatcher, workers, `RetrySender`, `LogSender`, `Stats`; its theorems | `MCDispatcher`, TLAPS |
| `DispatcherContract` | abstract: who receives an accepted message, and until when | `Dispatcher!ImplementsContract` |
| `Readings`, `ReadingsProofs` | `readings`: recording, alerts, thresholds, summary, sweep; its theorems | `MCReadings`, TLAPS |
| `Runner`, `RunnerProofs` | `schedule`: Start, Stop, the loops; its theorems | `MCRunner`, TLAPS |
| `Lifecycle`, `LifecycleProofs` | `main` and `serveHTTP`: composes `Runner` and `Dispatcher` with server and signals; its theorems | `MCLifecycle`, TLAPS |

An MC module holds the values that a cfg cannot write down (functions, records, the
symmetry sets), nothing else.

Definitions marked `\* slip:` are variants of the definition that follows them,
each with one mistake a programmer could make. No specification uses them: each
property of each passing run is checked to fail when the slip takes the place of
the definition (`mutants` in `PROJECT.json`).

### OpsRecords

A `Request` is one HTTP request. `pc[r]` is the method call its handler makes next;
one call of a store, audit or state-machine method is one step, because it holds
its mutex from begin to end, and everything may happen between two calls.

| action | code |
|---|---|
| `Arrive`, `BadRequest` | the handlers of `ops_routes.go` up to the call of the service |
| `Cancel` | the request's context ends: the client is gone or the 3 s of `opsContext` are over |
| `CreatePut` (`PolicyRejects`, `StorePut`) | `OpsService.Create`: policy, `OpsStore.Put` |
| `UpdateWrite`, `UpdateReread` | `OpsService.Update`: policy, `OpsStore.Update`, `OpsStore.Get` |
| `DeleteRemove` | `OpsService.Delete`: `OpsStore.Delete` |
| `TransitionRead`, `TransitionWrite`, `TransitionReread`, `TransitionMove` | `OpsService.Transition`: Get and both checks, Update, Get, Move |
| `AuditAdd` | `OpsAudit.Add`, the last call of all four |
| `AuditSweep` | the scheduled `OpsAudit.Trim` |
| `Recent` (an operator) | `OpsAudit.Recent`, the answer of GET `/api/ops/audit` |

State: `items`, `events`, `auditSeq`, `history` are the fields of the code;
`pc`, `req`, `copy`, `ctxDone`, `outcome` the locals of a handler. Three history
variables are only written, never read by an action's guard: `births` counts the
creations of an id (`inc` in a record says which one it belongs to), `seen` is the
record when the client last looked, `commits` is the set of writes that took place.

Abstractions. An id is a model value, and `Canon` is what `normalizeOpsRecord`
makes of it. Of a record's fields the status and the revision are kept; `created`
and `body` say *who* wrote the rest. A status that is none of the four is `"other"`.
Whether `OpsPolicy.Check` passes depends on fields that are not modelled, so a
create or update may always be refused. The expected revision ranges over
`Expected`, 0 standing for every value that is not positive. The client's last look
is taken to be the arrival of its request: the handler may be delayed after that
without bound, so an earlier look adds no behaviour.

### OpsQuery

`OpsStore.List` takes the lock once, so the whole of `OpsService.Search` is one step,
`ReadPage`; what comes between the calls of a writer is the matter of `OpsRecords`,
and a write is here the one store call that makes it: `Put`, `Update`, `Delete`. The
reader (`StartReading`, `ReadPage`) is a client of the HTTP API: it asks for page 1
and goes on while `has_next` is true. It is not in the code, and all it does is call
`Search`.

| definition | code |
|---|---|
| `Match`, `Matching` | `opsMatch`, the filter of `Search` |
| `Weight`, `Precedes`, `Listed` | `OpsPriority.Weight`, `sortOpsRecords` after the sort by id of `List` |
| `PageOf`, `SizeOf`, `Wrap`, `Bounds`, `Search` | `opsQueryDefaults`, `opsBounds` with an `int` that wraps around, the answer |
| `PageCount` | `opsPageCount` |
| `Text`, `SecondOf` | `OpsClock.Stamp`: RFC3339Nano drops trailing zeros of the fraction, and stamps are compared as strings |
| `OpsReport`, with `Active`, `WithStatus`, `WithPriority`, `TopOwners`, `OldestActive` | `buildOpsReport`, `topOwners` |

A list position is the number of records that precede a record, plus one; that the
sort produces exactly this is `ListProperties` in `OpsQueryProofs`. A subject is the
set of texts it contains. A tick is the least fraction of a second, a second has
`Base * Base` ticks. A write may carry any instant, one earlier than the stamps before
it too: a `Put` is stamped by the service before the call of the store, and an `Update`
under the lock but with `time.Now().UTC()` as text, which follows a clock that is set
back. So there is no clock in the module. History variables: `found`
(what matched when the client began), `touched` (what was written since), `rose` and
`sank` (whether a written record came up in the list, went down in it or left it).

### YardZones

`Arrive`, `BadRequest`, `GetZone`, `Check`, `UpdateStatus` are the stages of
`server.status`. `Overlap` is not in the code: it bounds how many requests clients
have in flight, to say what holds for clients that wait for each answer.

### Dispatcher

A caller is named by the message it dispatches. Steps are channel operations,
selects, atomic adds and loads, and calls of the wrapped sender. `Count`, `Enqueue`,
`GiveUp`, `Cancel` are `Dispatch` and its context; `Receive`, `Wait`, `Exit` the two
selects of `worker`; `SendAccepted`, `SendFailed`, `BackoffEnds` are
`RetrySender.Send`; `CountOutcome` is the end of a turn of `deliver`'s loop;
`Launch`, `Started`, `StopCalled`, `StopReturns` are `Start` and `Stop`; `Load` is
one load of `Snapshot`. The first sender is `LogSender` with its ring buffer (`log`,
at most `LogLimit` entries) and never fails; a sender in `Flaky` may refuse any
attempt. Queue size, log, workers, senders and attempts are constants (in `main`: 128,
1000, 2, 1, 3). `received` is a history variable: how often each sender has
accepted each message.

`DispatcherContract` has neither channel nor workers: a message is accepted or
refused, an accepted one is received at most once by each sender, in the senders'
order, and after a moment of quiet none is received. The mapping takes a caller that
has only counted for one that has not been answered, and quiet for "Stop has
returned".

### Readings

`Arrive` and `BadRequest` are `recordHandler`; then a request is at `StoreAppend`
(`Store.Append`), `Compare`, `ReadLimit`, `RecordThreshold`, `Congestion` (the calls
that `Detect` makes, each under the thresholds' lock) and `Add` (`AlertLog.Add`).
`SweepBegins` and `Trim` are `Service.Trim`; `SummaryBegins`, `SummarizeZone`,
`SummaryReturns` are `Summary`, of which one call runs. A reading is named by its
request, and `sample` has its zone, temperature, occupancy and whether the zone is
refrigerated, as integers. History variables, which no guard reads: `recorded` and
`raised`, all that was ever appended and added, and `begun`, what Summary found.

### Runner

`StartFirst`, `StartedAlready`, `Launch`, `StartReturns` are `Start`, which holds the
mutex all the time (`lock`); `Tick`, `TakeTick`, `Exit`, `JobReturns`, `Record` the
ticker and the loop; `StopCalled`, `StopReturns` are `Stop`, which takes no lock. A
goroutine is named by the call of Start and the job; the wait group is the number
of goroutines `Alive`. What a job does is left to the modules it belongs to; here it
returns, with or without an error. History variables: `late`, `lastRun`.

### Lifecycle

One module for `main` and `serveHTTP`, with the modules `Runner` and `Dispatcher` as
instances: the main goroutine is the one caller of each Start and Stop, and nobody
calls `Dispatch`, as in the code, so the dispatcher's channel is always empty.

| action | code |
|---|---|
| `StartDispatcher`, `StartRunner` | the calls of `Start` in `main`, turn by turn |
| `Serve`, `Notify`, `SelectError`, `SelectSignal` | `serveHTTP` up to its select |
| `ShutdownWaits`, `ShutdownReturns`, `GraceEnds` | `server.Shutdown` under its context of ten seconds |
| `Fatal` | `log.Fatal`, past the deferred calls |
| `StopRunner`, `StopDispatcher` | the deferred calls, the last one first |
| `Listen`, `ServerClosed` | `ListenAndServe` and the goroutine that reports its error |
| `Arrive`, `Answer` | a request; a panic in a handler is an answer too (`recoveryMiddleware`) |
| `Signal` | SIGINT or SIGTERM: kept if there is room in the channel, dropped if not, the end of the process before `signal.Notify` and after `signal.Stop` |
| `JobStep`, `WorkerStep` | the goroutines of `Runner` and `Dispatcher` |

`http.Server` and `os/signal` are external and modelled by what `serveHTTP` relies on.

## 3. The runs

Bounds are in the cfg files. What they must include for the question to be real:

| run | question | why the bound is enough |
|---|---|---|
| `OpsRaces` | what optimistic concurrency gives, and the contract | three requests of any kind on one record: a reader, the one that overtakes it, and one that deletes or creates again. Expected revisions 0 and 1 around a record seeded with revision 1; targets `active` (identity) and `closed` (a real move, and a dead end). Three requests may write three events, for a trail of capacity 2 and a sweep to 1: it is cut in both ways with events left in it whose order counts, and what a client reads of it is checked for every limit |
| `OpsRecreated` | does a guarded write replace the record its caller saw: **violated** | three requests: the stale one, a delete, a create |
| `OpsAnswers` | audit trail, ids, is everyone answered, and who is told that a write did not happen | two requests, all kinds, all five targets, two spellings of one id, expected 0 and the seeded revision 2; capacity 2 and a sweep to 1, so that two events stand side by side, as `AuditMatchesWrites` compares them, and the older one may be swept away |
| `OpsRefused` | a transition that took place and is refused: **violated** | two requests |
| `OpsPaging` | pages, the list as a client sees it, report | three ids for pages of one and two records and two writes: a record can be moved across the border of pages while others stand still. Stamps within one second and across two; an `int` of twelve values, so that the page arithmetic does overflow; two filters that tell the records apart. `TopLimit` is 2: lists of one and of two busiest owners, so that their order counts |
| `YardOverlapping` | what is left of the table with overlap | three requests in flight at once, both seeded zones |
| `YardIllegalMove` | moves with overlap: **violated** | two requests |
| `DispatcherRuns` | no message lost or doubled, counters, log, contract, delivery, Stop, callers on a full channel | two messages for a channel of one place and two workers, a log of one place, two senders of which the second fails now and then, two attempts: the channel is full while a caller waits, the log is full while a message is logged, a worker backs off while the other exits |
| `DispatcherSnapshot` | consistency of `Snapshot`: **violated** | two messages |
| `ReadingsRaces` | histories, answers, alerts, Summary | three readings, capacity 2 and an alert log of 3, while one reading may raise two alerts: both overflow. Two refrigerated readings too warm by different amounts, since a wrong pin shows only between those, and one below zero |
| `RunnerRaces` | Start against Start, against Stop, against the loops | two calls of each, two jobs: one can exit while the other is not launched yet |
| `LifecycleSignals` | start and end of the process | two requests, one answered and one that hangs; two signals, of which the second comes during Shutdown; two workers and a job |

Runs of modules with proofs check the inductive invariant, which contains the type
invariant. Where a run does not name it, the theorem covers the types (`TypeCorrect`,
or `InductiveInvariant`).

Requests, messages and workers are interchangeable, so the runs without liveness
properties use symmetry. Deadlock is checked in the records runs (the sweep never
stops) and in `ReadingsRaces` (likewise); in the other models all requests, messages,
calls or writes may be done, or the process has ended, and their runs say
`CHECK_DEADLOCK FALSE`.

Fairness. `FairSpec` of `OpsRecords`, `Runner`, `Dispatcher` and `Lifecycle` assumes
that a goroutine that can go on does so (weak fairness per handler, worker, caller and
for the main goroutine): the Go scheduler is preemptive, a mutex is held for one call
and never across calls, a timer that is set fires, the ten seconds of Shutdown
included, and a wrapped sender returns. Nothing is assumed of the
environment: nobody has to send a request, cancel, dispatch, stop or signal, no
handler has to return, and a flaky sender may fail for ever. In `Runner` a ticker
ticks, a job returns, and `Exit` is strongly fair: a job that takes longer than its
interval finds a tick waiting each time it comes to its select, next to the closed
stop channel, and the select then chooses at random.

### What the violations show

Each one is a disagreement of the code with its own words, in `findings`:

* `OpsRecreated`: after delete and create the revision is 1 again, and a PUT with
  the old `expected_revision` 1 overwrites a record its caller never saw.
* `OpsRefused`: a transition that is in the store is answered with 422, because
  another request changed the record before the second read.
* `YardIllegalMove`: two overlapping POSTs move a zone backwards or reopen it.
* `DispatcherSnapshot`: a snapshot with more deliveries than dispatches.

Seen while reading, and needing no model checker:

* Every PUT erases `CreatedAt` (`ops_service.go:117-124` builds the record from the
  request, `ops_store.go:82` stores it as it is; in the model, `created` becomes
  `"unset"`), although the comment speaks of the mutable fields.
* PUT `/api/ops/records/OPS-BERTH-01` updates `ops-berth-01` and answers 404, without
  an audit event: the write normalizes the id, the read after it does not. This is the
  first case of `OnlyOvertakenIsDenied`; the second one, a request that was overtaken,
  is the only other in which a write is denied to its caller.
* `Store.Recent` (`readings/store.go:37`) says "newest first" and returns the oldest
  first (lines 46-48).
* `ops_report.go:43` compares a `time.Duration`, in nanoseconds, with 3600: only
  records of the last 3.6 microseconds count as `updated_last_hour`.
* Stamps in RFC3339Nano are compared as strings. Within one second a later stamp may be
  the smaller text, so that an update can move a record *down* the list and hide
  another one from a client that reads page after page, and the oldest active record
  of the report is the oldest up to the second only. `Sinks` and `OldestToTheSecond`
  say exactly this much.
* `OpsPolicy.MaxActive` is set and never read; `opsRules()` has no caller.

## 4. The proofs

The proofs hold for any sets of requests, ids, zones, messages, workers, jobs and
calls, any seed, any limits and any capacity that satisfy the named assumptions of the
modules.

**Records.** `NoLostUpdate` is not inductive: that two guarded writes carry different
revisions follows from what the entry looked like when they were made. `Inductive`
adds, part by part:

* `HandlersInv`: what `pc` says of the other locals, and that a request has written
  exactly when its handler is past its write;
* `LivesInv`: an entry belongs to the latest creation of its id;
* `ChainInv`: each write to one creation replaced a revision of its own, smaller
  than that of the entry, and the one it expected if it expected one;
* `RevisionNamesContent`: a copy is never ahead of its entry, and is the entry if
  their revisions are equal;
* `OwnWriteInv`: a request has one write; until it is answered, that write is of the
  kind and at the id its audit event will name; until its second read, the entry
  is as the request left it unless another request has overtaken it; and what the
  second read finds is of the request's own status or the result of such a write;
* `LastWriteInv`: the entry of an id that has been written is the result of one of the
  writes;
* `StaleInv`: so is an entry that is no longer what a handler has read.

A step touches the locals of one handler (`OthersUntouched`) and is, for the store,
an insertion, a replacement, a removal or nothing (`StepEffect`); so the invariants
about the store have one proof per kind of effect, and those about handlers one case
per action. From `Inductive` follow the invariants of `OpsRaces` but for the audit
trail, three action properties (`ConsecutiveRevisions`, `GuardedTransitions`,
`UnfitTransitions`) and, with the mapping `revisionBar`, `phaseBar`, the refinement of
`OpsContract` (`Refinement`). `GuardedTransitions` is about transitions that carry an
expected revision: they move along the table. `UnfitTransitions` is about all of them:
one that does not move along the table, or that undoes more than the status, stands on
a record that another request has written since the transition read it (`StaleInv`).
`AuditTrail` has an inductive argument of its own: the trail is an unbroken run of
numbers that ends with the last one given (`UnbrokenTrail`), so that for every limit a
client reads the newest events in the order of their numbers and none left out.

`OpsTrailProofs` has what rests on `OwnWriteInv`. A second read that finds the record
gone, or with another status, finds it overtaken, and whoever overtook it is another
request, since no request writes twice (`OwnCommit`): hence `DeniedOnlyIfOvertaken`.
And since the store has the target status after `UpdateStatus`, the second read sees
another one, and a move is entered in the history, only if the other request wrote
between this request's write and its second read; the status the move is entered from
is the one the other request left. That is `HistoryOnlyOfRaces`: a transition that
nobody disturbs leaves no trace in the history. For `TrailMatchesStore`, each event belongs to a request that
has succeeded, of which `HandlersInv` says that it has written and `OwnWriteInv` what;
the sweep and the capacity only cut (`NewestType`), and numbers and successes are
counted together.

**Queries.** The order of the list is a strict total order (`PrecedesIsAnOrder`), and
counting the smaller elements numbers a finite ordered set (`Ranking`, stated once and
used for the list, for the owners of the report and for its oldest record). So each
record has its place (`Places`), `Listed` has it there (`ListProperties`), and a page
is its window as long as the product of page and size fits into an `int`
(`PageProperties`, with `WrapSmall`); that is `Pages`. For the reader, `SeenInv`:
what it has got of records nobody wrote stands at the places read up to as long as
nothing rose, and all that stands there has been got as long as nothing sank. It is
preserved because a write that does not rise lets no place grow (`PlacesDoNotGrow`)
and one that does not sink lets none shrink (`PlacesDoNotShrink`, which needs that a
later second has the greater text, `LaterSecondGreaterText`), and because reading a
page adds each record of its window once (`CountOfPage`). `StillInv` says that while
nobody writes, what has been got is the list up to the place read, in its order, after
as many pages as that takes. The numbers of the report are those of the lists that
the same filters give (`CountsAgree`), and the owners it names are the busiest, for any
length of their list (`TopProperties`, `BusiestProperties`).

**Yard zones.** `NeverBeforeSeed` needs that a handler's copy is no earlier than the
seed, too (`HandlerInv`). For `LegalMoves` the theorem assumes `Overlap = 1`; then a
copy that passed the check is still the status of the zone (`Alone`). With overlap,
`IllegalMovesAreOvertaken`: a handler's copy is the status of the zone unless another
request has updated it since (the history variable `overtakers`).

**Dispatcher.** `OnePlace` says where a message may be and who has received it. To be
kept it needs `WorkersInv`: a worker's state tells whether it holds a message and at
which sender. From both follow `StopIsQuiet` and, with the mapping of
`Dispatcher!Contract`, the refinement of `DispatcherContract`: the step in which a
sender accepts is the abstract `Receive`, the caller's enqueue or its giving up the
abstract `Answer`, the return of Stop `FallQuiet`, and the rest stutters.

`CountersAddUp` says of each counter of which set it is the size, so that each step is
one question: which element it adds. `Count` adds the caller to `Calls`; `SendAccepted`
adds a message and its sender to `Accepted`, and the worker to `Uncounted`;
`CountOutcome` takes the worker out again and adds the message and sender to `Tried`,
which nothing takes out. `OnePlace` says that they were not in the sets before, so the
cardinalities grow by exactly one. The bound of one outcome per sender and call follows,
as `Tried` lies within the product of `Calls` and senders. `LogIsComplete` is inductive
with `OnePlace`: the message that is appended has not been logged, and the ring gives up
an entry only when there are more messages than its limit.

**Readings.** `HistoryIsNewest` needs two facts about the last *n* elements of a
sequence: cutting twice is cutting once (`NewestTwice`, the sweep), and cutting before
and after an append is cutting after it (`NewestAppend`, each `Append`). For
`AnswersAreRight`, `PinsInv` says that nothing but the configured limit is ever
pinned, so every threshold that a request reads is that limit. `RecordedOnce` ties the
histories to the requests: what was recorded for a zone is the readings sent for it,
each once, from their `Append` on.

`NoAlertLost` is about all alerts ever raised, of which the log is the end
(`NewestConcat`, an `Add` of several alerts at once). A request adds its alerts in one
step, behind all others, so they are next to each other (`AddEffect`) and stay where
they are (`AnsweredStays`); that its reading was stored before is `RecordedOnce`.

For `SummaryIsBracketed`, `SummarySoFar` says what a Summary on its way has: the zones
it has counted are those that had readings when it began, but for those to come;
their number of readings lies between what those zones had then and have now, since
appending and cutting to the capacity never makes a history shorter
(`GrownSinceBegun`); and the maximum of each is the temperature of a recorded reading
that no reading retained from then to now exceeds. The last is kept because a history
is always an end of what was recorded, so that a reading that is there when Summary
began and later was there all the time (`SamplesStay`, with `RecordedOnce`). The
greatest element of a finite set is got as the least one of the converse order, by the
library's theorem on minimal elements (`WFMin`), as its induction theorems cannot be
used.

**Runner.** `StartInv` connects mutex, `started` and loops: only one call of Start
ever launches, it has launched the jobs before its `turn`, and when the mutex is
free all of them are. Hence `OneLoopPerJob` and `StartedMeansLaunched`. With one loop
per job, a run being recorded is the latest (`RecordInv`), which gives
`LastErrIsOfLastRun`. A launch after Stop was called is `late` (`StopInv`), hence
`QuietAfterStop`.

**Process.** Each step of the process is a step of `Runner` or leaves it alone
(`RunnerStep`), so `Spec => R!Spec` (`RunnerAsSpecified`), and the invariant of
`Runner` holds in the process by the theorem of `RunnerProofs`, instantiated. Likewise
`Spec => D!Spec` (`DispatcherAsSpecified`). On top of them `PartsInv` says what runs at each stage of `main`, and `ServerInv` what is left
of server and requests; the three safety properties follow. `SignalsAreTaken` is what
they give for signals: none kills the process while `main` waits for one, shuts the
server down or runs out of grace, and a kill before `signal.Notify` or after
`signal.Stop` cuts off requests in two gaps only, between the start of the listener and
`Notify` and right before `log.Fatal`.

Every invariant and every action property of the passing runs is proved, and so are both
refinements.

Only model-checked, as temporal proofs with fairness need ENABLED: `EveryRequestIsAnswered`,
`AcceptedIsHandled`, `DispatchReturns`, `StopTerminates` of dispatcher and scheduler,
`JobsRepeat` and `SignalEndsProcess`. The properties of the violation runs are false.

## 5. Not modelled

* Reads that change nothing (`snapshot`, the audit queries but for `OpsAudit.Recent`,
  averages), except where a client's view matters. Of the report,
  `updated_last_hour` is left out.
* The table of rules: constants that no step changes and nothing reads.
* Waiting for a mutex. A call of the stores is one step that ends, so that
  `EveryRequestIsAnswered` says nothing of a call that starves at a lock.
* More than one entry in the log of `LogSender` at a time: the run has a ring of one
  place, which overflows but cannot hold a message twice; that each is logged once, for
  any limit, is `LogMissesNothing`.
* Stamps of zones and readings; labels of records; HTTP, headers, JSON; the
  configuration, the health check and the static files, which keep no state.
* Panics (the middleware answers 500 and the locks are released by `defer`); a second
  `Stop` of the dispatcher, which would panic and which `main` does not make; the misuse
  of a wait group by a Start that overlaps a Stop.
* The timeouts of `http.Server`: a connection is nothing a property is about.
* Crash and restart: nothing is persisted, so a restart is the initial state.

## 6. Plan

1. What a handler can still do from where it stands, as a measure that each of its steps
   lowers: the safety half of the liveness properties.
2. An abstract specification of the readings (per zone, a bounded log that one reader
   sums up), with the refinement proved from `Inductive`.
3. `Lifecycle` with callers of `Dispatch`, once some part of the program notifies.
