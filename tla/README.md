# A workflow engine in TLA+

This directory specifies `react-go-workflow`: the goroutines that run a workflow graph,
the admission and cancellation of executions, the event bus, those who wait for or
watch an execution, the cron scheduler, the canvas in the database, notifications, and
the editor in the browser. The modules are checked by TLC on small instances and the
safety properties of most of them are proved with TLAPS for every instance.

`PROJECT.json` lists the runs, the lines of source each definition stands for, the
hazards of the code and the properties that look for them, and for each property a
plausible bug that it finds.

1. [The system](#1-the-system)
2. [Modules](#2-modules)
3. [What is checked](#3-what-is-checked)
4. [What is proved](#4-what-is-proved)
5. [Where code and comments disagree](#5-where-code-and-comments-disagree)
6. [What is not modelled](#6-what-is-not-modelled)
7. [Plan](#7-plan)

## 1. The system

A workflow is a graph of steps, stored in PostgreSQL. A request (manual, webhook or
cron) has the executor create a record of an execution and one of each step, and
start a goroutine that runs the graph. The goroutine writes what happens to the
records and publishes it on an event bus in memory. A synchronous webhook and the
WebSocket handlers of browsers subscribe to the bus. When it ends, a goroutine of its
own sends the notifications that the workflow's settings ask for. The editor loads a
canvas (steps, edges, notes), and saves it whole; an admission reads it. Handlers that
change a workflow tell the cron scheduler, which keeps its schedule in memory.

```
 manual ─┐                            ┌──> records (PostgreSQL) <── cancel handler
 webhook ┼─> Execute ─> executeDAG ───┤           ^     ^
 cron ───┘      │          │          └──> event bus ──> WebSocket handler ──> page
                │     one goroutine               └────> WaitForCompletion ──> webhook
             cancels     per step ─ at the end ─> Dispatch ──> notifications, webhooks

 editor ──> SaveCanvas, Delete, Clone ──> canvas (PostgreSQL) <── Execute reads it
 handlers ──> workflows, settings (PostgreSQL)   and then   ──> cron scheduler
```

| Component | State | Operations | What makes it correct |
|---|---|---|---|
| `executeDAG` (`engine/executor.go`) | in-degrees, done and skipped steps, outputs, the error, rows | waves, delivery of results, skips, error edges, retries, the end | a step runs once, after all it depends on; the outcome is explained; it ends |
| `Execute`, `Cancel` (`engine/executor.go`, `execution/handler.go`) | records, the map of cancel functions | admission by policy, registration, cancel, release | what runs can be cancelled; an outcome is final; executions of a workflow that skips do not overlap |
| Event bus (`engine/events.go`) | channels per execution | Subscribe, Unsubscribe, Publish, Cleanup | no panic, no one missed, nobody blocked, order |
| `WaitForCompletion` (`engine/executor.go`, `trigger/webhook.go`) | one subscription | check, subscribe, receive, fetch, time out | answers the outcome; leaves nothing behind |
| WebSocket handler (`engine/ws_handler.go`) | one subscription, what it has read | subscribe, two queries, replay, forward | replay and stream together miss nothing |
| Live view (`web/src/hooks/useExecutionWS.ts`) | the status shown, step statuses | messages, error, close, poll | shows no outcome but the execution's, and that in the end |
| Cron scheduler (`trigger/cron.go`) | entries by workflow, jobs of the library | Start, Sync, Remove, jobs that fire | a workflow runs by the schedule in its row; nothing fires for one without an entry, or once it is deleted |
| Canvas in the database (`workflow/repository.go`, `service.go`) | steps, edges, notes, records | SaveCanvas, Delete, Clone, reads of an admission | a canvas is one save's, other workflows keep theirs; readers see one canvas; no deadlock for good |
| Notifications (`notification/`, `workflow/handler.go`) | settings, notifications | replacement of settings, dispatch, read marks | settings are one update's; who asked is notified, once |
| Canvas editor (`web/src/features/workflows/`) | steps and waits of a page, timer, saves under way, cached copy | load, change, autosave, save, leave | edges keep the order; what is called saved is stored; changes arrive |
| Resolver, context (`engine/resolver.go`, `context.go`) | outputs and secrets of an execution | resolve, extract references | what is referred to is there |
| Runners (`engine/runners/`) | none | one per step type | answers per type |
| Step types, secrets, users, AI, dashboard, database catalogue | single rows or none | CRUD, reads, calls of services | plain data handling |

What is hard here:

* **Order inside one execution.** Completed steps, steps that are skipped and failed
  steps with error edges all change the same in-degrees, in the order in which steps
  and edges happen to be stored. A merge after a condition is reached by both.
* **Goroutines.** The steps of a wave run side by side and write their rows
  themselves; the coordinator must not go on before the last one has returned.
* **A context that ends at any time.** A user's cancel or the workflow timeout ends
  the context; the code reads it at three places after the last wave, and rows are no
  longer written from then on.
* **Errors that are ignored.** No write of the executor is looked at.
* **Check-then-act** without a transaction: the running executions are counted, then
  a record is created, then steps, then the cancel function is kept.
* **Listeners that come late, are slow or go away.** What was published before is
  gone, what a full channel does not hold is dropped.
* **Restarts.** Nothing of the executor outlives the process but the records; the cron
  scheduler starts from the table.
* **A commit, then a call.** A handler commits a row and tells the scheduler later; a
  second handler may do both in between.
* **Transactions at READ COMMITTED.** A DELETE sees what is committed when it begins and
  waits for rows that others hold; saves that delete all and insert all anew may miss
  each other's rows.
* **Keys that cross workflows.** The ids of steps, edges and notes are chosen by pages and
  are keys of whole tables, and an edge may join any step there is: a canvas can be refused
  for, or hold, what belongs to another workflow.
* **Servers that do not answer.** The HTTP client has no timeout, and that of a step or a
  workflow is set only if it is positive.
* **Saves under way.** The editor does not wait for a save before it sends the next, and
  starts from a copy that may be older than what it saved last.

## 2. Modules

| Module | Models | Depends on |
|---|---|---|
| `WorkflowGraph` | steps, normal and error edges, references, initial in-degrees | |
| `DagExecutor` | `executeDAG`, `executeStep`, `failStep`, `skipBranch` | `WorkflowGraph` |
| `DagExecutorInv` | the inductive invariant; `DagExecutor` as an `ExecutionRecord` | `DagExecutor`, `ExecutionRecord` |
| `ExecutionRecord` | abstract: the life of the records of an execution and its last event | |
| `EventBus` | `Subscribe`, `Unsubscribe`, `Publish`, `Cleanup` and the readers | `EventFeed` |
| `EventFeed` | abstract: one channel as its subscriber sees it | |
| `ExecutionEvents` | the engine and one channel of the bus, as readers meet them | `ExecutionRecord` |
| `CompletionWait` | `WaitForCompletion` and the webhook's answer | `ExecutionEvents` |
| `LiveUpdates` | `WSHandler.Handle`, the connection, the hook `useExecutionWS` | `ExecutionEvents` |
| `ExecutionService` | `Execute`, `Cancel`, the cancel handler, restarts | |
| `CronScheduler` | `Start`, `Sync`, `Remove`, jobs, and the handlers that commit and tell | `Schedule` |
| `Schedule` | abstract: one schedule per workflow, and what starts an execution | |
| `CanvasStore` | `SaveCanvas`, `Delete`, `Clone`, admission, statement by statement | |
| `Notifications` | the settings of `Update`, `Dispatch`, read marks | |
| `CanvasEdges` | pure: `computeEdges`, what a page saves and loads | |
| `CanvasEditor` | `WorkflowBuilder`: pages, timer, saves, the cached copy | `CanvasEdges` |
| `ReaderProofs` | theorems about `CompletionWait` and `LiveUpdates`, the readers of one engine | |
| `*Proofs` | theorems about the module of that name | |
| `MC*` | instances for TLC | |

How they fit together: `ExecutionRecord` is what the rest of the system needs to know
about an execution. `DagExecutor`, which runs the graph, implements it
(`KeepsRecords`, checked and proved). `ExecutionEvents` is a second, much coarser
engine, which lets any step run at any time; it implements `ExecutionRecord` too and
is what `CompletionWait` and `LiveUpdates` are composed with, so that these two
need not carry the graph. In the same way its one channel is the one `EventFeed`
describes and each channel of `EventBus` implements. `ExecutionService` takes from
`DagExecutor` that `executeDAG` ends, unless a step waits for ever (`Terminates`), with an
outcome that its context explains (`OutcomeExplained`).

### How state and actions correspond to the code

**`DagExecutor`.** One behaviour is one execution of one workflow, picked in `Init` from
`Workflows`. `inDegree`, `done`, `skipped`, `stepOutputs`, `executionErr` are the variables
of the function; the maps that the code fills and never changes (`normalEdges`,
`errorEdges`, `implicitDownstream`) are the record `wf`. `pc` says where the coordinator is.
A wave is started in one step (`StartWave`), because the loop of lines 343-358 does nothing
but mark and spawn; each goroutine then takes its own steps: `BeginStep` (the row says
running, the config is resolved), `RunAttempt` once per attempt, `CompleteStep` or
`FailStep` (the row, the return). Results are processed one by one in the order of the steps
(`ProcessError`, `ProcessOutput`); a processed output is delivered along one link per step
(`DeliverTaken`, `SkipIgnored`, `SkipDecrement`, `SkipTarget`), `stack` being the recursion
of `skipBranch`. The recursion is split because each skip writes to the database with a
context that may end in between. `owed`, the links still to be delivered, stands for the
position in the loops over edges. At the end `Final`, `DecideStatus` and `DecideReason` are
the three reads of the context. `RunnerOutputs` is what a runner may return: a condition one
of two answers, any other step an output or none, and an error in either case. A step of
`endless` is one whose request has no time limit: it may return, as any other, but need not
(`Waits`). Step records are written with the execution's context (`SaveStep`: nothing once
it has ended), the record of the execution with a fresh one (`SaveExecution`). Delays
between attempts are steps that may be taken at any time.

**`EventBus`.** A channel has a name, a buffer and a client, the goroutine
that reads it. `Subscribe`, `Unsubscribe` and `Cleanup` hold the write lock from first
to last line and are one step each, enabled while no publisher holds the read lock;
`Publish` is `BeginPublish`, a `Send` per channel, `EndPublish`. `Receive` takes no
lock. The order of channels in the slice is left out: `Send` takes any that is left.

**`ExecutionEvents`.** A change is a write (`WriteStep`, `WriteOutcome`) and then an
event (`PublishStep`, `PublishOutcome`), two steps that a reader may come between; a
write may fail. A send to a full channel drops the event; `dropped` remembers the
types of what was, for properties that need to know.

**`CompletionWait`.** The stages of the function: `CheckRecord`, `StartListening`,
`ReceiveEvent`, `FetchRecord`, and `TimeOut`, which the deadline or the caller of the
webhook may bring about at any point of the wait. A deferred Unsubscribe is
part of the action that returns (`Leave`).

**`LiveUpdates`.** `Order` lists the stages of the handler. `net` is "up", "closing" (an
orderly close by the handler, after what is on the wire), "cut" (an orderly close by
something in between, a proxy that shuts down) or "broken". The page's actions are
the handlers of the hook: `OnMessage`, `OnError` (which a browser calls before
`OnClose`, for a broken connection only), `OnClose`, `Poll`, `LeavePage`.

**`ExecutionService`.** An execution has the name of the request that starts it.
`CheckPolicy` or `Refuse`, `CreateExecution`, `CreateStepRecords`, `Register`, `Start` are
the accesses of `Execute` in their order, `AdmissionFails` its error returns. The
goroutine takes `Decide`, `SaveOutcome`, `Forget` (the deferred delete); if a step of it
`hangs`, which `Start` picks, it decides only once its context has ended. A user's
cancel is the check of the record (`AskCancel`) and later the call (`Cancel`). `reached` is
a history: what was decided when a cancel ended the context.
`Restart` drops everything but the records.

**`CronScheduler`.** `rows` is the table; `Commit` changes it and `Tell` remembers what the
handler has still to say (`pc`, `told`): the row that its own commit returned. `Finish` is
the call of `Sync` or `Remove`, under the scheduler's lock, one step. `entries` is the map
of the scheduler, `jobs` what the library holds, with the ids it counts up. `Fire` and
`CallExecute` are the two ends of the goroutine that a job is given. `Start` registers
what the query returns, in any order; `StartFails` is the warning of `main`. `excuses` is
a history: why schedule and row may differ.

**`CanvasStore`.** `Start` gives an operation its list of statements (`Save`,
`DeleteWorkflow`, `Admit`, `Copy`); each later step is one of them. `committed` holds the
rows, `inserted` and `deleted` what an open transaction has done. A row knows the rows it
refers to, so that `CheckReferences` and `InsertRow` can fail by a foreign key or an id
that is there. Ids are keys of a whole table and say nothing of the workflow (`Key`); those
of a canvas come from the page that sends it, those of a clone are its own (`Origin`). An
edge refers to steps by their ids alone (`StepKey`), so that a canvas may join, or try to
add, what the other workflow (`Rest`) has. That one stands still: operations are on `w` and
on its copies. `Blockers` are the operations a statement waits for, `Wait` is the snapshot
of a DELETE that waits: when it goes on, it takes the rows of the snapshot that are still
there (`Found`) and no others. `EndDeadlock` ends one of those who wait in a circle. A
DELETE takes its rows together, and an insert outside a transaction is atomic. How
PostgreSQL behaves is external to the source; `PROJECT.json` marks these definitions.

**`Notifications`.** An update clears the settings (`ClearSettings`) and creates them anew,
one `CreateSetting` per row, which may fail and is not tried again. `Dispatch` is the end of
an execution, its goroutine takes `LoadSettings`, one `Send` per setting, `Return`. Time is
counted in webhooks that do not answer: `Budget` of them use up the 15 seconds.
`MarkRead`, `MarkAllRead`, `DeleteWorkflow` and `Restart` come at any time.

**`CanvasEdges`.** `allEdges` is the map of edges before transitive ones are removed,
`hasIndirectPath` the search of that name, `Before` the reachability it explores, written as a
table so that TLC computes it once. `ToSave` and `Loaded` are what `saveCanvas` is sent and
what a page makes of the answer.

**`CanvasEditor`.** A visit is one mounting of `WorkflowBuilder`. `canvas` is what the page
has rendered last, which is what its timer saves, also after the page is left (nothing
clears the timer). `saves` are the requests under way, first "sent", then "applied";
`ApplySave` takes any of them, `SaveAnswered` is `onSuccess`. `cached` is the browser's copy,
from which a page starts if there is one (`Initialize`, once). `Changed` lists the changes: a
wait added or taken away, a branch, a reference, a step added or removed.

## 3. What is checked

Ten runs pass, two end with a counterexample (section 5). A passing run shows that its
properties hold in every reachable state of the instance; the numbers are distinct
states. No run takes more than three minutes with two workers. The type invariants
(`TypeOK`) are proved, for every instance, instead of being checked; that of `LiveUpdates`
is both.

| Run | Instance | Properties | States |
|---|---|---|---|
| `dag_graphs` | four families of graphs, see below | `DependenciesSettled`, `StuckExplained`, `NothingLeftBehind`, `RowsAgree` | 600 480 |
| `dag_disturbed` | eight small graphs with cancel, timeout, a lost write, retries, retry count -1, a cycle, a step that waits for ever | `NoStrayGoroutines`, `OutcomeExplained`, `KeepsRecords`, `Terminates` | 68 866 |
| `bus` | 2 executions, 2 publishers of 2 events, 2 channels of 1 place | `NeverPanics`, `EveryoneServed`, `KeepsFeeds`, `NeverBlocked` | 489 366 |
| `wait` | 2 steps, 2 places, a log event per step, a failing access | `AnswersOutcome`, `LeavesNothing`, `KeepsRecords`, `HearsOutcome` | 126 301 |
| `live` | 1 step, 2 places, a log event, a failing access, a connection that breaks, is cut or left | `TypeOK`, `ViewConverges`, `ShowsNoOtherOutcome`, `OutcomeShown` | 188 000 |
| `service` | 2 requests, every policy, a failing access, a restart, steps that wait for ever | `CancelsMatch`, `OverlapOnlyByRace`, `CancelledIfAsked`, `RefusedForOne`, `OutcomeFinal`, `EveryExecutionEnds` | 281 851 |
| `cron` | 2 workflows, 2 handlers, 2 changes, an expression, two unusable settings, a restart | `OutOfStepExplained`, `KeepsSchedule`, `SilentOnceDeleted` | 320 586 |
| `canvas` | 3 operations, five combinations, five canvases beside another workflow, a statement that fails; symmetry | `OneSavesCanvas`, `ReadersSeeOneCanvas`, `AloneSucceeds`, `SomebodyGoesOn` | 861 932 |
| `notify` | 1 execution, 2 handlers, 2 updates, four lists, a failing access, a restart | `SettingsOfOneUpdate`, `NotifiedAsAsked`, `NotifiedInTheEnd` | 355 420 |
| `editor` | 3 steps, one a condition, 2 visits, 2 changes, 2 saves, a save that fails or a tab that is closed | `OrderKept`, `ReloadDrawsSame`, `SavedMeansStored`, `EditsArrive` | 327 597 |

### Executions

`dag_graphs` takes every graph of these families (`MCDagExecutor`):

* `Branches`: 3 steps, at most 3 edges, cycles included, one step a condition,
  every labelling of its edges;
* `Diamonds`: every acyclic graph of 4 steps whose first is a condition;
* `References`: references instead of, beside and against edges and error edges, and both
  labels of a condition to one step;
* `Handlers`: one or two error edges and at most two normal ones among 3 steps.

*Bounds.* Every step may fail in every graph. Three steps are enough for each way in
which two links into one step can differ (taken, not taken, reference, error edge),
and for every cycle; four are needed for a branch that parts and merges again below a
condition, where `skipBranch` calls itself and meets a link that was delivered before.
One lost write per execution suffices, because the executor's behaviour does not
depend on the result of a write. The graphs of `dag_graphs` run undisturbed;
interrupts change which rows are written and how an execution ends, not how outcomes
are delivered, and have graphs of their own in `dag_disturbed`: a chain and a fork with
retries, a condition that guards a step with an error edge and a reference, and two steps
on a cycle, which runs if the step before it fails, by its error edge, and never gets ready
otherwise; and three of these with a first step that waits for ever, with a timeout of the
workflow, beside a step that does not wait, and before the cycle.

*What the runs show.* A step starts only when all it depends on has completed or was
skipped, and that outcome was delivered, unless a failure called for it. A step
that is left pending waits for one that failed, or that was left as well; in
an acyclic graph without failures none is. Rows only advance, whatever the order of
skips and results. The outcome published is the one that failures, cancel and
timeout explain, at whichever of the three reads they come. Every execution ends, one
with a cycle too, unless a step waits without any time limit and nobody cancels.

### Event bus

*Bounds.* Two publishers hold the read lock at once, two channels are two turns of the
loop in each, two executions have lists of their own, and a capacity of one makes a full
channel a common case (64 in the code; the proofs are for every capacity).

*What the run shows.* Nobody sends on a channel that is closed and none is closed
twice, a publish reaches all who were subscribed when it began and had room,
each subscriber sees a part of each publisher's events in their order, and a
publish ends although nobody reads.

### Waiting and watching

*Bounds.* Two steps and the execution publish up to seven events (two for each step, one
log each, one of the execution), a step alone up to four: with two places a
channel overflows in some behaviours and holds everything in others, for a reader
that keeps up. The properties that need an event to arrive name what may be lost: an
event that a full channel drops is lost for good (`dropped`), and if it is the one of the
outcome, a page shows the execution as running until it is closed. Two steps beside a
page are more than can be searched with failures; their views do not depend on each
other.

*What the runs show.* A webhook answers the outcome or a timeout, never a record that was
read too early, and always unsubscribes; it is told when the outcome is announced if it
subscribed before that and its channel has room. Whichever way the handler's two queries
fall between the engine's writes and events, the page ends with the last status of
everything. An open page never shows another outcome than the execution's; once the
outcome is announced, a page is shown one unless its channel overflowed, an access failed or
its connection was cut while the execution ran.

### Admission and cancellation

*Bounds.* An overlap takes two requests, and each finds the other at every stage. One
failure and one restart are enough to leave a record behind at every stage; what
comes after meets the same record however it came about. The proofs are for any number.

*What the run shows.* Executions of a workflow that skips overlap only by a race of two
admissions. The executor can cancel exactly what it carries out, before, during
and after a restart. An outcome is the one decided, stays, and is "cancelled" only
if a user asked. A cancel that ended the context is obeyed: the record says "cancelled",
unless the outcome had been decided before (`reached`). A record that stays running, and
refuses all later requests, is left behind only by a failed access or a restart, or by a
step that waits for ever, as long as nothing ends its context.

### Cron scheduler

*Bounds.* Two handlers are enough for a change to be told late or in the wrong order, two
workflows for an entry or a job to be taken for another's, two changes for an update and a
delete of one workflow, or of one after a restart. The initial rows are every table: draft,
active, archived or unused, with and without a usable expression.

*What the run shows.* A workflow runs by the schedule in its row, or for one of six
reasons that `OutOfStepExplained` names, each a behaviour of the code: a handler has not
told yet, two told in any order, a commit went unheard, a workflow was created or cloned
(neither tells the scheduler), an archived one was registered by `Start`, or `Start`
failed. The map and the library's jobs act as one schedule: nothing fires for a workflow
without an entry, so a job that was added twice is found out when its entry goes, and
telling of one workflow changes no other. A deleted workflow is left alone.

### Canvas in the database

*Bounds.* Five combinations of three operations on one workflow, whoever asks for which:
three saves; two saves, a save and a delete or two deletes beside an admission; a save and a
delete beside a clone. The canvases are one without edges and one with an edge, which share a
step, because whether two transactions wait for each other depends on the rows they find; one
of another step whose edge joins two steps of the other workflow; one with an edge to such a
step; and one that takes the id of such a step. One statement fails from outside, at every
place. The run is reduced by the symmetry of the three operations: nothing tells them apart
but what they ask for, and the requests are closed under permutation.

The instance leaves to the proofs, which are for any canvases of both workflows and for any
number of operations, an edge of the other workflow that joins a step of this one, a taken id
of an edge or a note, and the four saves it takes for an unanchored edge to matter (below).
Nothing is done to the other workflow meanwhile, no canvas names an id of a copy, and no step
has the id of zeros that `uuid.Parse` and the clone put in place of one they do not know.
`DagExecutor` takes a workflow whose edges join its own steps.

*What the run shows.* The canvas is what the save committed last has sent, edges, steps and
notes, *unless* two operations met of which one found no edge to delete, or found them gone
when its turn came: its first DELETE then does not reach those of the other, both go on, and
the canvas may have the steps and notes of both, although each was answered with success. If
the edge that was missed joins a step of the workflow, the foreign key stops this; an edge
between steps of another workflow (not `Anchored`) is stopped by nothing. The other workflow
keeps its rows, whatever ids a canvas names. An admission or a clone reads one canvas unless
a save or delete was committed while it read. A clone is a copy of what was read or has
nothing but its own row. An operation that meets nobody succeeds, unless its workflow is
gone, a statement is lost, there is no step to execute, or the keys refuse it: a page sends a
canvas that repeats an id, takes one of the other workflow or has an edge to a step nobody
has (`Acceptable`); an edge of the other workflow holds a step that is to be deleted
(`Held`); a clone has an edge to a step it has not read (`Joined`). Whoever waits is let go
or ended.

### Notifications

*Bounds.* Two handlers can meet; one list has as many webhooks as use up all the time and a
notification behind them, one a channel that does not exist, one is empty. One failing access
and one restart come at every place.

*What the run shows.* Settings are one update's list unless updates met or an access
failed. A notification was asked for, by a setting that was in force when the goroutine
began, and is sent once. Who asked is notified in the end, with the exceptions that
`NotifiedInTheEnd` names: most notably webhooks that do not answer, and an error longer
than the 5000 characters of a message.

### Canvas editor

*Bounds.* Three steps are enough for a path that makes an edge unnecessary. Two visits are
needed for a page that starts while the one before still saves, two changes and two saves for
saves that overtake each other.

*What the run shows.* The edges that are drawn put the steps in the same order as all the
waits and references do, none could be left out, and a reload draws the same ones. A
page that says it is saved shows what the server has, and every change arrives, also when
the page is left at once, *unless* two saves were under way at once, a save failed, or a
page began with an old copy. The exceptions are real: without them TLC finds two autosaves
that are applied in the other order, and a page that is opened again before a save was
answered and takes it back.

### Fairness

* `DagExecutor`: weak fairness of the coordinator, of each goroutine and of the timer of
  the workflow, if it has one. The Go scheduler runs what can run; `Run` being fair says
  that a runner returns, and is not assumed of a step that `Waits`: the HTTP runner uses
  `http.DefaultClient`, which has no timeout (`http_request.go:48`), and the step has one only
  if `timeout_seconds`, which nothing validates, is positive (`executor.go:552`). Such a step
  returns once the context of its request has ended. The other runners compute, sleep for a
  while or stand in for services that are not there yet, and return. Cancels are not assumed.
* `EventBus`: weak fairness of each publisher's own steps only. No reader is assumed to
  receive: that is the point of `NeverBlocked`.
* `CompletionWait`, `LiveUpdates`: weak fairness of the waiter, or of the handler and the
  page (the browser's event loop); not of the engine, which a step may hold up, of the
  deadline, of a break or of leaving the page. Both liveness properties begin when the
  outcome is announced.
* `ExecutionService`: weak fairness of each `Execute` and of each goroutine, the latter
  because of `Terminates`; one that `hangs` is not enabled while its context lives. Requests,
  cancels and timeouts need not come.
* `CronScheduler`: weak fairness of a handler that has committed and of a goroutine that was
  started. A restart, a start or a job that is due need not come.
* `Notifications`: weak fairness of each goroutine of `Dispatch`; its queries and calls
  have deadlines. No update and no reader has to come.
* `CanvasEditor`: weak fairness of the timers and of the requests and their answers, which
  the browser and the server carry out by themselves; nothing the user does is assumed.
* `CanvasStore` has no fairness: `SomebodyGoesOn` is an invariant, and as every operation
  is a bounded list of statements, it says that all are answered.

`CHECK_DEADLOCK FALSE` stands where the system may stop: an execution that is over, with
nobody asking for anything. `DagExecutor` has an explicit `Terminated` instead, so
that its runs check that nothing but the end of the execution stops it.

## 4. What is proved

The eight proof modules are checked by `tlapm` with Z3, Zenon and LS4. Constants are
assumed to be what the ASSUME of each module says: workflows are graphs
(`IsWorkflow`: any number of steps, any edges, cycles, doubled edges and self-loops
included), bounds are natural numbers, capacities are positive, the steps of an execution
that is watched are finitely many, as are the operations on a canvas in the database; a
canvas has links between its steps only, in the editor. In the database a canvas is made of
lists of anything, with edges from anything to anything.

The induction theorems of the library cannot be instantiated here. Where a proof needs an
induction it takes a least counterexample instead (`LeastNumber`: every set of natural
numbers with an element has a least one, from `WFMin`).

**`DagExecutorProofs`**: `TypeCorrect`, `NoStray`, `Dependencies`, `Stuck`, `Outcome`,
`Records`, `LeavesNothingBehind`, `RowsAgreeAtTheEnd`, for every set of workflows and every
number of lost writes. The heart is `CountInv` (in `DagExecutorInv`): *the in-degree of a
step that is not done is the number of links still owed to it, unless a failure made it
ready*. The code keeps no such set, it only counts; the proof needs that each outcome is
delivered along each link exactly once, which is `FlowInv`: what is settled and still owes
something is on the stack of `skipBranch`. That in turn needs `ThreadInv`: results are
there, and are processed, only between two waves. `DependenciesSettled` follows since a set
with no elements is empty; `StuckExplained` needs `ReadyInv`, that the loop ends only with
nothing ready, and the converse, that a positive count has a link. `OutcomeInv` ties the
error and the three reads of the context to what happened; `RowInv` and `RecordInv` tie rows
to goroutines, for the refinement of `ExecutionRecord`. `LeavesNothingBehind` follows from
`StuckExplained`: without a failure what is left behind waits for something else that is,
which a ranking of the graph puts lower, and there is no lowest. `RowsAgreeAtTheEnd` has an
invariant of its own, `AgreeInv`: as long as no write was lost, the row of a step follows
from the state of its goroutine and from where its outcome is.

**`EventBusProofs`**: `BusTypeCorrect`, `NoPanic`, `Served`, `Feeds`, for any number of
executions, publishers, channels and events. `TargetsInv` says that a publisher in
its loop holds only channels that are registered, since the lock keeps the others out;
`RegisteredInv` that registered channels are open; `OrderInv` that what a publisher
sends next is later than all of its events anywhere. `KeepsFeeds` is shown step by
step for each channel.

**`ReaderProofs`**, of the webhook that waits: `WaitTypeCorrect`, `RightAnswer`, `NothingLeft`,
`EngineKeepsRecords`, for any steps, capacity and failures. `BufferInv` says that
an event in the channel that ends an execution comes after the outcome was
decided; `WaitInv` that the waiter fetches only then.

Of the live view: `LiveTypeCorrect`, `NoOtherOutcomeShown`, `ViewsConverge`, for any
finite set of steps, any capacity and any failures. A page sees events twice, and old ones
after newer ones; the invariant therefore does not look at what it shows but at what it will
show: `Tells(q, s, v, st)` says that who shows `v` of a step `s` and receives the queue `q`
ends with `st`. `ToldInv` says that this is the status the engine gave the step, unless it
is still to be published, with `q` the channel while the rows are read, and the
connection followed by the channel afterwards; for the outcome likewise. It is needed only
while nothing was lost (`Intact`). `Known` says that no event tells of an outcome that was not
decided, which is `NoOtherOutcomeShown`.

**`ExecutionServiceProofs`**: `ServiceTypeCorrect`, `Cancellable`, `NoOtherOverlap`,
`CancelledRecords`, `RefusedForGoodReason`, `OutcomesStay`, for any requests, policies,
failures and restarts. `reached` remembers whether the outcome was decided when a cancel ended
the context, so that `CancelledRecords` can tell the two orders apart. `RunningInv` says that
a running record is of an execution in flight, as long as nothing failed. `FoundInv` is the
reason for `OverlapOnlyByRace`: under skip, whatever had a record when a request was admitted
was over, and stays so.

**`CronSchedulerProofs`**: `CronTypeCorrect`, `ScheduleExplained`, `KeepsOneSchedule`, for any
workflows, handlers, expressions, changes and restarts. `OutOfStepExplained` is not
inductive: that telling the scheduler brings schedule and row together needs `PendingInv`,
that where no handlers met and no answer was lost there is one handler to tell, and what
it tells is what the row says. `JobInv` (entries and jobs name each other) gives the
refinement of `Schedule`, `DownInv` and `UnusedInv` what holds before a start and before a
workflow exists.

**`NotificationsProofs`**: `NotificationsTypeCorrect`, `SettingsAreOfOneUpdate`,
`NotifiesAsAsked`, for any executions, handlers, lists, updates, failures and restarts.
`ListsLeft` says that what an update has still to create is the end of its list,
`AloneUpdates` that of an update that met nobody the rows created are those before it.
`NotesOfSenders` ties a notification to the goroutine that sent it: what is left to look
at has not been sent, so nothing is sent twice.

**`CanvasEditorProofs`**: `EdgesKeepOrder`, `ReloadKeepsEdges`, `SavedIsStored`, for any
steps, links, visits, changes and saves. `BeforeIsClosure` shows that paths doubled as often
as there are steps are all paths, since as long as some are missing every doubling reaches
further; it is where the number of steps has to be finite. Leaving out a link that a path
goes around loses no path in a graph without cycles: of the pairs that lost theirs
`FilteredKeeps` takes one with the fewest steps in between, and finds it still joined. That
nothing else can be left out is `FilteredNeeds`, and that a second reduction takes nothing
more away `FilteredAgain`, from which a canvas that is loaded draws what was saved.
`SavedIsStored` needs `OwnInv`, that unless the races it excuses occur all timers and saves
are those of one page and there is one save at a time, and `SentInv`, that what is under way
is what the page shows unless a timer will send again.

**`CanvasStoreProofs`**: `SavesDoNotMix`, `NobodyWaitsForever`, `AloneIsNotRefused` and
`ReadersGetOneCanvas`, for any finite number of operations, any canvases and any failures.
The comment of `repository.go:188` promises that a save replaces the canvas; nothing in the
code locks it, so the proof has to say what stands in for a lock. It is the first DELETE, of
the edges. Who finds an edge that another deletes waits for the other to end, and finds it
gone; hence `ChainInv`: *of two operations, one deletes or waits for every edge the other
does, of those that are still there*. Who goes on after that may still not have seen what
was committed while it waited. `ClearedInv` says what becomes of it: either it has met a
save of which it or that one found no edge, or that sent an edge joining no step of the
workflow, which is the exception of `OneSavesCanvas`; or there is no such row; or the edges
it has not seen refer to a step that will be deleted (`Attached`), and the foreign key makes
the operation fail (`EdgesDoomed`). `AwareInv` says so of the edges that come while it
waits: they are attached, unless it met a save that sent others. The last case needs
`ReferencesInv`, that the foreign keys hold of what is committed and of what everybody sees,
while a check is still to be made (`Checking`). `TxInv` keeps what an operation has done and
the list of what it has still to do in step: a save has added, or will add, exactly its
canvas. `NobodyWaitsForever` needs of all this only that who is over holds nothing: then, if
everybody waits, a smallest set of operations of which each waits for another of them is a
circle as `Deadlocked` has it, for one that nobody waits for could be left out.

`ReadersGetOneCanvas` rests on a second invariant, `SInv`, beside the first. `FormInv` says
that every row is one the code writes, by whom it is, and what it refers to. `ReadInv` says
that the tables read so far are what is committed, as long as no save or delete was
committed since the first read (`stale`). `ExecInv` adds that each step read has its record
or a statement that will add it, and that the notification comes last; `CopyInv` that the
rows a copy has added and those it has still to add are the rows read, under names of its
own, and that of a copy not committed there is no more than its workflow.

`AloneIsNotRefused` rests on a third, `AInv`. A key is that of one row only, of those
committed and of those anybody sees or adds (`UniqueInv`), which nothing but the key itself
provides, since pages choose the ids. A list of statements is `Feasible` for who sees certain
rows if each DELETE finds nothing left that refers to its rows, and each INSERT a free key and
the rows it refers to, given what the statements before it have done. The lists of a delete, a
save, an admission and a copy are feasible when they begin (`DeleteFeasible`, `SaveFeasible`,
`AdmitFeasible`, `CopyFeasible`), and what is left is feasible after each step
(`FeasibleDeleted`, `FeasibleInserted`); `AloneInv` says so of whoever has met nobody,
`AloneRefused` of whoever was refused that it was for one of the reasons listed. The
assumptions of the four lemmas are the exceptions of the property: a save is feasible if its
canvas is `Acceptable`; a save or a delete if no edge of the other workflow joins a step of
this one, which is true from the beginning or never, since the other stands still and its
edges hold what they join; a copy if the edges that were read are `Joined`.

Only model-checked: liveness (`Terminates`, `NeverBlocked`, `HearsOutcome`, `OutcomeShown`,
`EveryExecutionEnds`, `SilentOnceDeleted`, `NotifiedInTheEnd`, `EditsArrive`), for which TLAPS
lacks the rules of fairness.

## 5. Where code and comments disagree

Each of these runs ends with a counterexample to what a comment, a message or the README
says. `PROJECT.json` quotes them.

| Run | What the code does |
|---|---|
| `dag_v_skip` | a merge step is skipped although a predecessor completed and its link was taken, if the link not taken is delivered last |
| `editor_v_branch` | the edge from a condition to a step on one branch is removed and not saved, because a path through the other branch leads there |

Others were met while modelling and have no run of their own. These are behaviours of
the models:

* A cancel between two reads of the context (`executor.go:423-432`) is recorded as a timeout,
  also of a workflow that has none (`executor.go:196` sets one only if there is one).
* An execution that ends between the check of its record and the subscription is waited for
  until the deadline; `executor.go:78` says that fast executions are taken care of.
* `ws_handler.go:147` returns when its channel is closed, "execution done"; nothing but a
  test calls `Cleanup`, which would close it. A handler whose page is gone waits for ever.
* Two requests that both look for running executions before either has created its record
  are both let in (`executor.go:125`; README.md:54 promises to skip).
* A cancel before the cancel function is kept (`executor.go:176`) is answered
  "cancellation requested" (`execution/handler.go:57`) and lost.
* A handler that creates or clones a workflow does not tell the cron scheduler, and `Start`
  registers archived workflows; `cron.go:70` asks to be called after any update.
* `cron.go:49` loads "all active cron workflows"; it loads all there are.
* Two saves that meet may leave a mixture of their canvases (section 3), and a copy may be one
  of two canvases.
* An edge to a step of another workflow is accepted (`handler.go:389`, `repository.go:246`;
  the foreign key is of `steps.id` alone) and holds that step: the other workflow can be
  neither saved nor deleted until the edge is gone. `repository.go:123` says that deleting
  children before parents satisfies the foreign keys. A workflow with such an edge cannot be
  cloned.
* A canvas is refused if it names the id of a step, an edge or a note of another workflow.
* A step without a timeout, in a workflow without one, waits for a server for ever, and the
  execution runs until somebody cancels it (`http_request.go:48`).
* An e-mail setting is accepted (`notificationsetting.go:25`) but `dispatch.go:39` has no
  sender for it; a cancelled execution notifies only those who asked for all.
* A channel that does not exist passes the validation of the handler; its row is refused by
  the client after the old rows were deleted.
* Saves of the editor overtake each other, and a page that is opened again may start from an
  old copy (section 3). A save that is answered clears "Unsaved changes" although there were
  changes since (`WorkflowBuilder.tsx:601`).
* `computeEdges.ts:49` says a reference is kept over a dependency, line 71 the opposite, which
  is what the code does.
* An error handler that no other edge leads to runs in the first wave, before anything
  has failed (`executor.go:213` says error edges are followed on failure).
* An error edge suppresses the dependency of a reference over it (`executor.go:262`);
  line 237 says that the step referred to must complete first.
* The policy queue behaves as allow: `Blocked` looks at skip only (`executor.go:125`).
* A failed admission leaves a running record behind, which refuses all later requests of
  a workflow that skips; `RefusedForOne` says when.
* `onerror` of the hook shows a broken connection as a failed execution and the poll of
  the comment at `useExecutionWS.ts:64` is not made; a connection that is cut is
  followed by one poll only, which may find the execution running.
* `WorkflowBuilder.tsx:173` does not count cancelled among the statuses that end an
  execution.

## 6. What is not modelled

* Data: outputs, configs, messages and errors are values of small sets. What a config
  refers to is part of the graph; the scanners of the resolver and of
  `extractStepReferences`, the comparison of the condition runner and the transformations of
  the other runners compute on strings and JSON that no modelled property tells apart.
* Time: deadlines may pass at any point, delays take no time; of the 15 seconds of `Dispatch`
  only the webhooks that use them up are counted.
* `src/ent`, most of the source, is generated by ent from `src/ent/schema`: builders,
  predicates and mutations for every column. What its statements and transactions do to the
  rows of a canvas is `CanvasStore`; elsewhere a call of it is one atomic access. The share
  of source lines that `PROJECT.json` maps is low because of it.
* Versions of workflows, and the reads behind lists, dashboard and pagination: nothing else
  depends on them.
* A panic of a runner: it ends the process, as `Restart` does.
* Duplicate step names, which make one reference mean another step.
* Step types, secrets, users, AI, catalogue, the other pages: single rows, calls of outside
  services or presentation (see the components in `PROJECT.json`).
* Memory-model races: shared maps are guarded by locks or by `WaitGroup`.

## 7. Plan

Done: the execution, its admission, the bus and its readers; the cron scheduler, the
canvas, the notifications and the editor. Proved: all safety properties.

Next, in this order:

1. A composition of `ExecutionService` with `ExecutionRecord`: the records of several
   executions as instances of one abstract specification.
2. The editor beside a second browser, each with its own copy of the workflow.
