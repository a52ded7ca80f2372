# A TLA+ model of AgentHub

These modules describe the parts of AgentHub whose correctness depends on
interleaving, crashes and retries: the processes and their commands, the child
processes, the instances of an agent, the cron scheduler, the checkpointed
pipeline runs, the social monitor with its delivery to Kan, the ingestion of
scraped rows, the SIGE sessions, the workflows and the health alerts. TLC checks
every module on small instances. For every value of the constants TLAPS proves
their safety properties as these are stated: several hold only until something
happens that the code does not prevent (two calls of the orchestrator's API that cross,
two starts of a monitor that race, a memory that is stored and not acknowledged), and the
property names it. The exemptions are listed at the end of section 5, and two theorems of
KanDelivery have a hypothesis (section 4). All paths below are relative to `src/AgentHub/src/`
unless they begin with `src/`.

1. [The system](#1-the-system)
2. [The modules](#2-the-modules)
3. [The runs](#3-the-runs), their bounds and the fairness they assume
4. [The proofs](#4-the-proofs)
5. [Where the code and its documentation disagree](#5-where-the-code-and-its-documentation-disagree)
6. [What is not modelled](#6-what-is-not-modelled)
7. [The plan](#7-the-plan)

## 1. The system

AgentHub is a set of operating-system processes around one PostgreSQL database.
The core process (`entries/core.ts`) runs the orchestrator, which starts a child
for every entry of the manifest: `web`, `cron`, `sige`, `ingestion`, one process
per scraper and one per agent. The children never talk to each other directly.
They meet in tables, above all `process_registry` (who is alive),
`process_commands` (what should be done), `cron_jobs`, `cron_deliveries`,
`pipeline_runs` with `pipeline_steps`, `social_monitor_runs`, `social_kan_queue`,
`sige_sessions` and the tables of the scrapers.

Every process is single-threaded TypeScript. What makes it concurrent are the
awaits: between two database calls any other handler or timer of the process may
run, and any other process may write the tables. There are almost no
transactions. A step of the models is therefore what runs between two awaits.

The processes that are started outside the hub (the Python crawlers under
`src/Crawler/`, the memory service `src/AgentHub/mem0-server`) meet it in files,
tables and HTTP calls.

### Inventory

| component | state | operations | interacts with | hard behaviour | what makes it correct |
|---|---|---|---|---|---|
| process commands (`process/commands.ts`, `process/supervisor.ts`) | `process_commands`; per process: running flag, timers, hooks | send, claim a batch, acknowledge, sweep by age, poll, drain the hooks, exit | senders in web, agents and core; consumers in every child, two of them in the cron process | two instances of a name during a takeover, overlapping polls, a crash with a claimed batch, shutdown during a poll | a command is handed out once, runs at most once and where addressed, does not stay pending; a draining process exits |
| orchestrator (`process/orchestrator.ts`, `process/child-lifecycle.ts`) | one ChildState per manifest entry: process, status, backoff timer, strikes, restarts in the window | reconcile, spawn, exit, backoff, ping cycle, kill with escalation, stop/start/restart calls, shutdown | the children, the internal API, the registry | continuations that resume after a kill of up to 10 s, passes of the 5 s timer and calls that begin meanwhile, timers that fire late, hung children | at most one live process per child, which the orchestrator knows; a stopped child stays down, a wanted one comes up |
| registry and instance guard (`process/registry.ts`, `instance-guard.ts`, `health.ts`, `parent-watchdog.ts`) | `process_registry` | register, heartbeat, unregister, take over a stale row, sweep orphans, exit with the parent | every process | stale rows, reused pids, two instances of a name | a name belongs to one live instance, a live instance is not swept |
| cron scheduler and executor (`cron/scheduler.ts`, `executor.ts`, `store.ts`, `schedule.ts`) | `cron_jobs`, `cron_runs`; in memory the tick mutex, the cached due time, the runs in flight | tick, launch, save the next time, run by hand, add/edit/remove/toggle jobs | process commands, pipeline runs, web routes, agents' tools | ticks that overlap runs, a crash before the next time is saved, tables written by other processes | scheduled runs of a job do not overlap, no appointment is lost, the cache hides none |
| cron delivery (`cron/delivery-store.ts`, `delivery-poller.ts`) | `cron_deliveries` | enqueue, poll, send, mark delivered | the executor, the health monitor, channels | a crash between sending and marking, overlapping polls | every result is delivered, and once where the channel allows |
| pipeline runs (`pipelines/store.ts`, `resume.ts`, `reaper.ts`, `active-runs.ts`, `ideas/pipeline.ts`, `ideas/pipeline-runner.ts`) | `pipeline_runs`, `pipeline_steps`, `generated_ideas`; in memory the active runs | run, checkpoint a step, heartbeat, resume at boot and by hand, reap, start from cron | web process, cron process, operator | a crash at any step, an executor that is alive in another process, deadlines whose work goes on | ideas stored once, no row of a dead executor left running, every run settles |
| social monitor runs (`web/routes/social.ts`, `store/social-monitor.ts`) | `social_monitor_runs`; in memory the controllers of the live loops | start, stop, poll, recover after a restart, clean up orphans | web page, Kan delivery | check-then-insert, lists of live runs that are stale when used, restarts in the middle of a recovery | one monitor at a time, a live run is not taken for dead, a stop ends the run, monitoring comes back |
| Kan delivery (`pipelines/social/kan-delivery.ts`, `autonomous-monitor.ts`, `integrations/kan/client.ts`) | `social_kan_queue`, the route in the settings | push a candidate, search duplicates, dispatch to each channel, record, retry pending rows | Kan | one channel of several fails, answers are lost, a crash before the row is written, routes edited during a pass | what is recorded as delivered was posted, a sent row is complete, a retry forgets nothing, a pending row is sent |
| social discovery and fusion (`pipelines/social/dedupe.ts`, `radar.ts`, `china-relevance.ts`, `fusion.ts`) | `social_events` | collect, score, cluster, fuse | model calls | thresholds | duplicates are found symmetrically |
| ingestion (`ingestion/*.ts`, `entries/ingestion.ts`, `sige/knowledge/mem0-client.ts`) | a cursor per source, the day's count, `sige_ingest_dedup`, the memory store | cycle over the sources: batch, gate, duplicate, cap, store, record, save | scrapers' tables, mem0 | a cursor that is a single mark under rows read newest first, a failing store, requests that are repeated although they were carried out, a crash before the cursor or the count is saved | a content is stored once, the cap is kept, every source is caught up with |
| SIGE sessions (`sige/store.ts`, `run.ts`, `cancel-watcher.ts`, `auto/run-guard.ts`, `entries/sige.ts`) | `sige_sessions`, an advisory lock | claim, resume, cancel, finish, the automatic run slot | web routes, model calls | two claimers, cancellation against failure, a lock on a pooled connection | one executor per session, cancelled stays cancelled |
| workflow engine (`workflows/engine.ts`, `validation.ts`, `store/workflows.ts`) | `workflows`, `workflow_executions`, steps | edit, delete, validate, run in topological order, branch, skip | web routes, agents, tools | joins behind conditions, an abort that is only seen between steps, edits that overlap, a restart |
| cron triggers of workflows (`workflows/triggers.ts`) | a cron job per workflow | synchronise after a save | nobody: the web app gives its routes no cron store | never runs (section 5) | | a node runs iff a taken path leads to it, every execution ends |
| health monitor (`monitor/*.ts`) | active alerts in memory, `monitor_alerts` | check, alert, resolve | cron delivery | check cycles that overlap, failing checks, restarts that empty the memory | memory, table and operator agree; no alert within its cooldown; a lasting condition is reported |
| router, rate limiter, send queue (`router/*.ts`, `channels/telegram/send-queue.ts`) | token buckets, a queue of sends | allow, evict, send with retry | channels, agents | eviction of a bucket that is in use, retries in order | limits hold, order is kept |
| memory index (`memory/*.ts`) | rows, full-text and vector index | index, search, evict | Qdrant, Ollama | two stores that are written one after the other | both hold the same chunks |
| agent loop and tools (`agent/*`, `agents/*`, `tools/*`) | sessions, running sub-agents | chat, tool call, spawn | model services | model-driven control | limits on loops, time and output |
| scrapers (`sources/*`, `entries/scraper.ts`, `src/Crawler/*`) | a table each | fetch, parse, upsert | web sites | rate limits, deadlines of passes | each row once |
| web server, internal server, configuration, stores, daemon | settings and tables | one query per handler | all | none beyond single queries | parsing |

The hazards of these components are in `PROJECT.json`, each at its line.

## 2. The modules

| module | models | kind |
|---|---|---|
| `AtMostOnceCommands` | what the command table promises its senders: a command is posted, taken, and done or lost; it is never done twice | abstract |
| `ProcessCommands` | the command table, its pollers in supervisor and scheduler, both shutdown paths | detailed, implements the abstract one |
| `ProcessCommands_proofs` | | theorems |
| `Orchestrator` | one supervised child, under the passes over the manifest and the calls of the API | detailed |
| `Orchestrator_proofs` | about Orchestrator and Workflows | theorems |
| `KanDelivery` | the push of stories to the channels of a route | detailed |
| `KanDelivery_proofs` | | theorems |
| `SocialMonitor` | the rows and loops of the monitor runs | detailed |
| `SocialMonitor_proofs` | | theorems |
| `CronScheduler` | jobs, tick and runs of the cron process | detailed |
| `CronScheduler_proofs` | about CronScheduler and HealthAlerts | theorems |
| `PipelineRuns` | the runs of the ideas pipeline in two processes | detailed |
| `Ingestion` | the ingestion cycle | detailed |
| `Ingestion_proofs` | about Ingestion and PipelineRuns | theorems |
| `SigeSessions` | the SIGE sessions and the process that plays them | detailed |
| `SigeSessions_proofs` | | theorems |
| `Workflows` | one workflow, the requests that edit it, and one execution of its graph | detailed |
| `HealthAlerts` | the cycles of the health monitor and what it has told | detailed |
| `AgentInstances` | the instances of an agent, their registry row and their outbox | detailed |
| `AgentInstances_proofs` | | theorems |
| `MC<module>` | the values of the constants for TLC | instances |

Every module has its state as variables named after the code's tables and fields,
one action per handler or per part of a handler between two awaits, a type
invariant, and its properties at the end. Variables that only remember the past
for a property are marked "history". An operator with the comment "Mutant of X"
is X with a plausible bug; no specification uses it. It is there so that it can be put
in X's place, which must break the property that guards X (`PROJECT.json`,
"mutants").

The invariant `Inv` of a module is the conjunction of its named parts: the type
invariant and the facts about single states that belong together. Each part has
its own definition and comment; a run checks `Inv` as a whole. HealthAlerts,
PipelineRuns and Workflows are extended by a module of theorems together with another
component, so that their common names carry the component's: `AlertsSound`,
`RunsSound` and `FlowsSound` are their `Inv`, `RunsNext` is the next-state relation of
PipelineRuns, and so on.

### ProcessCommands

`table` is the life of each row (`unsent`, `pending`, `claimed`, `deleted`),
`cmd` its target and action. `handlers` holds the polls in flight: what
`pollCommands` (supervisor), `processCommands` (scheduler) or a signal handler
has claimed and where it is. `Claim` is the single `UPDATE ... RETURNING` of
`consumePendingCommands`, which takes every pending row of a target at once;
rows of an action that the caller does not know are dropped. `SupervisorPoll`,
`HandleProcessCommand`, `DrainHooks`, `ExitProcess` follow `supervisor.ts`,
`TickStart`, `SchedulerPoll`, `RunJobCommand`, `TickEnd` the second half of the
scheduler's tick. `CleanupOldCommands` deletes by age, read or not. `Crash`,
`Boot` and `DbError` may come at any time; a second instance of a name may boot
while the first one is alive. `AtMostOnceCommands` is instantiated with the
phase of each command computed from these variables.

### Orchestrator

The children do not interact, so one of them is modelled, with its successive
ChildState objects (`kids`), the one in the map (`entry`), the processes spawned
for it (`ps`, `owner`), the calls suspended in `killChild` (`waiting`), and the
microtask queue (`micro`): a promise that settles puts its continuation in the
queue, and the queue is empty before the next timer or call runs. This order is
part of the code's correctness, since `killChild` clears `state.proc` in one
continuation and its caller goes on in the next. Status, strikes, the restart
window and the timer are as in the code; times are not, so a timer may fire at any
point after it was armed.

Passes over the manifest (`ReconcileTick`), calls and `stop()` may begin at any time, kills
in flight or not. The code does not keep them apart, and not every overlap is
harmless, so the history `tangled` records that one of four has happened (`Crosses`
at the action that begins the second call):

- the child is started or restarted while a kill is awaited;
- it is stopped, or removed by a pass, while a restart is awaited;
- a pass creates it again while its removal is awaited;
- `stop()` arrives before `start()` has returned.

After one of these the code really can have two live processes, or one that nobody knows
(section 5). All other overlaps are covered: several passes that remove the same child,
stops beside removals, a shutdown beside any kill, exits and timers during all of them.

### KanDelivery

`queue` is `social_kan_queue` with, per row, the status and the set of channels
its payload records as served; `posted` is what Kan has really accepted. `job`
holds the local variables of a monitor's loop: the rows a retry pass has
listed, the route it has read, and the dispatch of one story channel by channel.
`PostFail(x, c, arrives)` is a failed call, whether Kan took the message or not.
Stories are classes of events that `compareSocialFusionDedupeFingerprints` calls
duplicates.

### SocialMonitor

`runs` are the rows, `task` and `controllers` the memory of the web process.
The recovery (`ensureContinuousMonitorRecovery`) goes through its queries one step
at a time with the locals it has read; the start handler waits, checks and
inserts; the stop handler cleans orphans. A restart empties the memory. The insert
of a run (`CreateRun`) and the registration of its loop (`Launch`) are two steps of the
recovery and of a start, since the code awaits in between: there the row is in the
table and no controller is in the memory, so a recovery or a stop takes the run for an
orphan and closes its row. The history `raced` records that a start has passed its check
while another start, or a recovery that is about to create a run, was between check
and insert. Starters in `Once` ask for a run that is not continuous.

### CronScheduler

`jobs` is the table, `tick` the tick in flight (mutex, list of due jobs, batch of
commands), `cache` the cached earliest due time, `runs` the runs in flight with
the schedule they have read. `RunSaves` writes the next time or removes a
one-shot job. `AddJob`, `Reschedule`, `Toggle`, `RemoveJob` and `RunNow` are the
writes of other processes.

### PipelineRuns

`runs` are the rows, `done` the checkpoints, `execs` the executions with the step
each is at and the row of that step; a dead execution is kept as long as its row
is still marked running. `boot`, `manual` and `reaper` are the loops of
`resumeInterruptedRuns`, `resumeRunById` and `reapStuckRuns`, one query at a
time; `cron` is the guard of a scheduled run that has said yes and not yet
inserted. The pipeline has `LastStep` steps of which the last one stores the
ideas. Time is counted in windows of the heartbeat's 60 s.

### Ingestion

A row is its place in the order of its source, `content` what it says. `cycle`
holds the locals of `runIngestionCycle` and `ingestSource`: the cursor the batch
was read with, the mark so far, the rows to look at and those held back, and the
budget. `NextDay` is midnight; a cycle that spans it writes its count under the
date it began with. `AddMemory` is one request of the memory client, which makes up to
`Attempts` of them while the answer is a 429 or a 5xx, whether the store has taken the
row or not. `slips` counts, for each content, the faults that may cost a second copy.

### SigeSessions

`row` is `sige_sessions`: status, kind, whether the resume context is set, and
which artifact columns are. `run` holds the locals of `pollAndProcess` and
`runSession`; a stage is entered with a guarded status write (`check`, `mark`: two
queries, since `updateSessionStatus` reads and then writes), works, and is left
with a guarded write of its artifact (`recheck`, `save`). The expert game has a
step more, `LastRound`: the signal is looked at after its third round and not in the
fourth, so that a run aborted there is saved and goes on. `Skips` is the test of
the held artifacts with which a resumed run leaves out what is there. The web
routes count and insert, or read and cancel, in two queries as well, and so does
the automatic scheduler. `Watch` is the cancel watcher, `TimeOut` the wall clock of
a seedless run, `Throw` any failing call. Of the work of a stage the lasting
effects are kept: how often the ideas of a session were scored, cross-written and
written back to the memory service.

### Workflows

`wf` is the graph in the workflow's row, or that it was deleted; `edits` the PUT
requests between their two queries: `updateWorkflow` reads the row, merges, and writes all
of it. An execution keeps the graph it was begun with. It is begun by hand: the cron
job of a trigger would be added by `syncWorkflowTriggers`, which no route of the running
program reaches (section 5). `exec` holds the locals of `runExecution`: the queue of the
topological order, the pruned nodes, the step count, the attempt, the abort of the
timer. `step` and `output` are the rows of the steps. `AfterError` is where the
execution goes when a query fails, catch blocks included. The graphs are
constants, so the same module plays executable graphs and such that validation
must refuse. What the two searches of validation visit, breadth first from the
trigger and by Kahn's algorithm, is defined by its result: `Reach` and `Sorted` are
the least sets that are closed under the step of the search. So is the subtree that
`markSubtreeUnreachable` prunes.

### HealthAlerts

`entry` is the deduplicator with the age of each key; a key is a title, and most
titles contain the measured value, so a key is a check with a reading. `cycle`
holds the locals of `runChecks`, of which several may be in flight: checks that
have not returned, results, keys to resolve and to announce. `open` is
`monitor_alerts`. `told` is what the operator was told last.

### AgentInstances

`inst` are the processes of one agent name in the order in which they boot, by
hand on a host or under the orchestrator; `row` is the single row of
`process_registry`, `term` the signals on their way. `GuardKills`, `VictimLeft`,
`VictimKilled`, `Register` follow `instance-guard.ts` and `supervisor.ts`, `Sweep`
the orphan sweep of the orchestrator, `Heartbeat` the upsert that inserts the row
again. `delivery` is `cron_deliveries` and `poll` the polls of
`delivery-poller.ts` in flight; the poller starts before the guard and its
timer is cleared by SIGTERM, so instances that overlap share the outbox. A poll begins
when the channel is connected (`link`): a connection is lost and found again
(`LinkDrops`, `Reconnects`), and after more than twenty conflicts in a row, which two
instances with one token cause, the Telegram client gives up until its process ends
(`LinkGivesUp`). Pids are reused; a stranger is a process that is no instance.

## 3. The runs

Each run is a configuration file and a module `MC...`. Times are for two workers.

| run | configuration | time | shows |
|---|---|---|---|
| `commands` | one command; an old and a new cron instance, one agent; one failing call | 40 s | nothing is run twice or in the wrong process, pending commands are taken, draining instances exit, the table implements the channel |
| `child` | 2 processes, 2 state objects, 1 restart in the window, 2 strikes, 3 calls or changes of the manifest, 2 waiting kills, every policy and call | 2.5 min | until two calls cross, the child has one live process, which is tracked, a finished shutdown leaves none, and a wanted child comes up; stop and crash loop hold and kills return in any case |
| `kan` | 1 monitor, 1 story, 2 channels, 3 rows, batches of 1, 2 route edits, 1 crash | 1 min | the record is true, complete and monotonic, and pending rows are sent |
| `monitor` | 2 starters, one of them not continuous, 2 starts, 1 stop, 1 restart, 5 rows | 2.5 min | one monitor until starts race; a loop whose row is closed is told to end, stops end runs, monitoring comes back |
| `cron` | 2 jobs, an `at` and an `every` schedule, 2 time steps, 2 runs in flight; one write, command, restart and failing query each | 1 min | runs of a job stay apart, appointments stand and are kept, the cache is sound |
| `pipeline` | 1 run, 2 steps, 2 executions, 1 resume attempt, 1 crash, 1 manual resume, 1 failing query | 2 min | ideas are stored once, no ghost rows, the run settles |
| `ingestion` | 2 sources, 3 rows in all, 2 contents, batches of 2, cap 1, 2 faults | 1 min | contents are stored once, plus once for each fault that may repeat one; the cap is kept, sources are caught up with |
| `sige` | 2 sessions of any kind, 2 games to a seedless one, 1 pending, 1 fault (cancel request, restart, timeout or failing call) | 1 min | outcomes are final, completed sessions are whole, ideas are scored once, a game aborted before its last look at the signal publishes nothing, sessions settle |
| `workflows` | 5 executable graphs, 3 invalid ones, 2 requests, 3 steps, 1 retry, 2 faults | 1 min | a node runs with its inputs and iff no branch cut it off, steps are closed, executions settle, while the workflow is edited and deleted |
| `alerts` | 2 checks with 1 and 2 readings, 2 cycles, 1 fault | 2 min | books agree, nothing false is told, a lasting condition is reported |
| `agents` | 2 instances, 2 polls each, 2 messages, 1 fault, a lost channel among them | 2 min | marks are true, repetitions have a reason, the outbox empties, the row comes back to a sole owner |
| `agents_reused_pid` | 2 instances, 1 poll, 1 message, 2 faults | violation | a recycled pid is signalled (section 5) |

Two of the type invariants, those of ProcessCommands and KanDelivery, and
`HandedOutOnce` of ProcessCommands are in no run, since they are proved.

### Why the bounds are enough

- `commands`: the interesting case is the overlap of two instances of one name
  with one command that both could claim. More commands add batches; what
  a batch does to the others in it (lost with a crash, handled one after the
  other) is covered by the theorems, which hold for any number of commands and
  instances. With two commands the safety properties were also found to hold
  while the module was written; the liveness run is kept small because of its cost.
- `child`: two state objects are needed for a child that is removed and comes
  back; two processes for one that is dying or not yet reaped beside one that runs.
  `MaxRestarts = 1` reaches the crash loop, `HungStrikesMax = 2` distinguishes a missed
  ping from a hung child, two waiting kills is the least that overlap, and three
  commands remove a child, bring it back and call it. All of them may begin
  while a kill is awaited. The inductive invariant of the proof was checked by TLC
  with three processes and three waiting kills (13.6 million states).
- `kan`: two channels are needed for a partial success, three rows for a pending
  row behind others with a batch of one, two edits for a channel that is removed
  and added again. Stories do not interact except through the limits of the
  batch and the search; the theorems cover any number.
- `monitor`: two starts are the least that race; one restart cuts off a loop, a
  recovery or a run between its insert and its launch, and what follows is a recovery
  from all of them. Any number of starters, restarts and rows is covered by the theorems.
- `cron`: two jobs with concurrency two let a short run and a long one be in
  flight, and one of the jobs be due before the cached time of the other.
- `pipeline`: a run has at most an executor per process; the third execution
  the bound excludes would be a second resume of a run that is resumed already.
  Two steps are one that is replayed and one that stores. There is one run, so
  that the cron guard, which asks about other runs, never refuses one.
- `ingestion`: a store that answers late twice, or once before a failing record, needs
  two faults. Three rows over two sources let a batch be cut by the cap, by the
  batch size and by the arrival of a row; two contents are a duplicate and a new
  one.
- `sige`: two sessions are one that is played and one that waits, is created
  meanwhile or is brought back by the resume query. Two games are the least with a
  game that begins on a session its predecessor has completed; the default of
  `maxDeepFrontiers` is one. One fault is enough for each hazard of the module. With
  `MaxFrontiers = 1` and `MaxFaults = 2`, where a cancel meets a restart or a failure,
  all four properties hold as well (2 min), and the theorems cover any number of
  sessions, games and faults.
- `workflows`: the graphs are the smallest with a chain, a diamond, a condition
  inside a branch, a branch that is empty, and a join with a node outside the
  condition; the limit of three steps is met by the larger of them. Two requests
  are the least that overlap, two faults the least that leave an execution behind
  without a crash: the failing query, and the write that should record it.
- `alerts`: a key that is alone and two keys of one check, between which a
  condition can move; two cycles are the least that overlap. One fault of each
  kind at a time: the exemptions are stated per kind.
- `agents`: takeover, crash and orphan sweep concern two instances. Two messages
  let a poll be cut off between them, two polls of one instance overlap.

Deadlock is checked only in the runs of `KanDelivery` and `Ingestion`, whose
systems never stop within their bounds. In the others the bounds on crashes,
calls and writes end every behaviour that has used them up, and processes may be
shut down for good.

### Fairness

Assumed are only what the runtime gives (timers fire, settled promises
continue, the database answers in the end, an operating-system process that
received SIGKILL is gone) and, where a property is about recovery, that the
restart policy restarts a process that died. No crash, call, edit or failing
query is ever forced. In particular:

- `ProcessCommands`: the poll timer, the drain (it is a race against a 10 s
  timer) and the exit, per instance. Not the scheduler's tick: a run in it may
  take arbitrarily long.
- `Orchestrator`: timers, exits, continuations, the passes of the reconcile interval
  and the timeout of a kill; no call, no pong, no death of a process.
- `KanDelivery`: strong fairness of a successful post per channel: a channel that
  is asked again and again answers at last. Without it no retry could succeed.
  The loop itself is weakly fair, which is what the continuous mode does.
- `SocialMonitor`: the page polls (recovery is driven by it), the handlers'
  queries are answered, a row nobody updates becomes stale (strong, since other
  rows are touched meanwhile), a loop that is told to stop notices.
- `CronScheduler`: clock, tick and runs; a run ends, since model calls have
  deadlines (`agent/llm-timeout.ts`).
- `PipelineRuns`: steps have deadlines (`withStepDeadline`), the orchestrator
  restarts a process, the reaper's timer fires.
- `Ingestion`: cycles follow each other and days pass.
- `SigeSessions`: the run's next step (each model call and query has a deadline),
  the exit of a terminating process and its restart by the orchestrator. Not the
  watcher, the scheduler or the requests.
- `Workflows`: the execution's next step. Not the timer: without it an agent
  node still ends through its own deadline.
- `HealthAlerts`: the steps of each cycle, the interval's tick among them. A check
  that hangs for ever is outside this (section 5).
- `AgentInstances`: the steps of an instance, the heartbeat timer, and the polls; a
  channel lost to a passing error is connected again, one that has given up is not.
  `PendingIsDelivered` and `SoleOwnerHoldsRow` say in their premise that an instance
  stays up, the former that it has not given up its channel: one that has is
  live, beats, and delivers nothing.

## 4. The proofs

### ProcessCommands

For any sets of commands and instances. The inductive invariant `IInv` is the
type invariant, `HandedOutOnce`, `HeldByOneHandler`, `RunsOnceWhereAddressed`
and two facts that TLC's small instance makes look obvious: `Untouched` (a row
that is not claimed has never been handed out, run or dropped) and
`TicksHoldNothing` (a tick that has not claimed holds no commands).
`HandedOutOnce` alone is not inductive: that a claim raises the count to one and
not to two needs the count of a pending row to be zero, and a command that was
`deleted` while it was in a batch must still not come back. `HeldByOneHandler`
carries the argument for `RunsOnceWhereAddressed`: a command in a batch has not
run, so running it makes its set of instances a singleton.

`ImplementsChannel` proves that the table with its pollers, crashes and sweeps
implements `AtMostOnceCommands`, the refinement that the run `commands` checks
with one command. `MayDo` says what a step may do to one command under the
invariant, and each possibility is a step or a stutter of the channel.

### KanDelivery

For any stories, channels, rows and limits. `IInv` is the type invariant with

- `DeliveredWasPosted`, the property itself;
- `HeldWasPosted`: what a loop holds in its local variables, read from a row or made by a
  post of its own, is true as well. Without it the property is not inductive,
  since a row is written from those variables long after they were read;
- `RouteIsCovered`: until a post has failed, each channel of the route is served,
  done or still to do. It is what makes a row "sent" complete, and it holds of
  the route as it was read, not of the one in the settings.

This gives `TypeCorrect`, `NothingIsLost` and `SentIsComplete` for any number of
monitors at a time, which no run shows. `CandidateNeverRepeats` and
`RecordsOnlyGrow` are proved for monitors that take turns (`OneAtWork`, a hypothesis about
every state of the behaviour; `SoleMonitor` draws the case of one monitor). `SoloInv`
adds `PassIsFresh`: what a pass holds is what the queue still says, and between its cycles
a loop holds nothing. With two monitors at work the two do not hold:
each writes the row from its own reading, and the later one forgets what the
earlier has recorded. That monitors take turns is what `AtMostOneMonitor` of SocialMonitor
says of their runs, with its exemptions; the two modules are not composed.

### Orchestrator

For any numbers of processes, state objects, restarts, missed pings, waiting
calls and commands, any policies and calls. The inductive invariant is
`ChildInv`, that is `LooseInv` always and `Tidy` until two calls cross:

- `LooseInv` says what is fit to be in each structure: of every state object (`KidFits`)
  that one a user stopped has no respawn armed, and one in crash-loop is down; of a kill
  that it is of an object (`CallsFit`); of a process that it has an owner (`LinksFit`); of
  the phases that there is no child before the first pass (`ModeFits`);
- `UpFits`, before a shutdown: an object that is not the entry has neither process nor
  timer (`Others`), what lives is the entry's process, and each kill that waits or goes on
  fits the entry (`CallFits`, `WaitFits`, `GoFits`): that of a pass removes the entry or
  comes after its removal, that of a restart is of the entry and `Alone`, and a kill of
  the entry finds no respawn armed and no process but its own. So several passes and
  stops may wait at once, which is what the continuations that clear `state.proc`
  and delete the entry must survive;
- `DownFits`, in a shutdown: what lives is one process, and a kill waits for it.

`AtMostOneLive` alone is not inductive: a spawn is only safe since the entry knows
whatever lives. The provisos are as narrow as `Crosses`; no pass of the timer,
exit or verdict of the ping cycle is excluded. `Tidy` is not inductive across any of the
four crossings, and two of them are shown to break the properties in section 5.

`NoRespawnIsLeft` needs no proviso and rests on `LooseInv` alone. The queue's filter is
`Only`, written with a function, since the library's `SelectSeq` is recursive;
`OnlyIn`, that the elements it chooses are elements of the sequence, is proved by counting.

### SocialMonitor

For any number of starters, stops, restarts and rows. `MonitorInv` is the type invariant
with `LaunchesOpen` (a run that is yet to be launched has its row open, or its
cancellation on record), `LaunchesApart` (no run is launched twice), `RowsMarked` (a
continuous row marked as an orphan is stopped) and `ClosedRowEndsLoop`. The row of a run may
well be closed between its insert and its launch, by a recovery that finds no controller;
that its loop starts and works on is prevented only since the closing records a
cancellation too, which the loop reads. This is `ClosedRowsEndTheirLoops`.

`OneMonitorWorks` adds `Single`, until a user stops a run or starts race: the open row is
the newest and nobody has asked it to stop, `RecoveryIsSafe` (where the
recovery creates a run no row is open, and it marks no continuous run as an orphan but
the one it replaces) and `StartsAreSafe` (a start that inserts is alone, no row is
open, and no recovery is about to create one). The last is what `raced` records the end
of. There is no hypothesis about the number of starters: two starts that
overlap without passing the check together are covered.

### CronScheduler

For any jobs, schedules, writes of other processes, commands, restarts and
failing queries. `CronInv` has `OneTickLaunches` (only a tick at its launch
has runs of its own in flight, and none for a job that it has still to start),
which is what makes `ScheduledRunsApart` inductive; `SavedWasWorked` for
`AppointmentStands`; and for `CacheIsSound`, as long as no other process writes:
`SchedulesRead` (what a run has read of a schedule is what the table says) and
`TimesComputed` (a job's next time was computed from its schedule at some past time).
The cache is sound because a later computation never yields an earlier
appointment, the lemma `NextRunLater`.

### Ingestion

For any sources, rows, contents, caps, batches and faults. `RowsHaveArrived` says
where a cycle can be and with what in hand; `BudgetIsSpent` ties what was really
stored on a day to the count in memory, which lags by one between the store and
the record, and to the saved count, which today's cycle takes as its start;
`StoredIsHashed` says that of the copies of a content each has cost a slip but for one,
whose hash is recorded, or is about to be. From these follow `CapIsKept` (`CapStands`) and
`StoredOnce` (`NothingTwice`). Both keep their exemptions: a count lost in a crash, in a
failing save or with the answer of a request that was carried out; a copy for each fault
that may repeat a row (`slips`: a search or a record that fails, a crash before the
record, a lost answer). `CapIsKept` bounds nothing more on a day whose count was lost.

### HealthAlerts

In `CronScheduler_proofs`, with the other loop of the cron process.

For any checks, readings, overlapping cycles and faults. `AlertsInv` is the type
invariant and, while the monitor is calm, `CalmInv`: there is one cycle at a time and

- `InStep`: memory, table and messages differ by what the cycle has in hand, and by
  nothing else; what it has in hand depends on where it is;
- `AllInHand`: each active key was seen in this cycle or is to be resolved, and of
  the keys to announce none is fresh;
- `AlertsAreFresh`: a key with a recent alert is fresh in memory, or about to be;
- `SeenOrLeft` and `OthersLeft`: what is active or was seen still measures so or
  was left since, and what a cycle that saw all is going to resolve was left.

`BooksAlwaysAgree` states `AlertsSound`: without `InStep` the books need only agree between
cycles, which no step preserves. `NothingFalseIsTold` states the action property
`ToldTruly`.

### PipelineRuns

In `Ingestion_proofs`, with the other process that stores what it has worked out.

For any runs, steps, executions, attempts, crashes, resumes and failing queries.
`RunsInv` is the type invariant with

- `ExecFits`: what an execution has behind it, where its row can be marked running,
  and that its run exists; `LoopsFit`: the loops of the web process are at runs that
  exist, and the boot has read no fewer attempts than the run has now, so that
  counting one more stays within `MaxAttempts`;
- `OneInProcess`, from `beginRun`, and `OneProcess`, `NoneBeside`: a run that was not
  doubled has its executions in one process, and no dead execution beside them;
- `WorkIsOpen`: a run at work is not completed. With it a crash leaves no row
  marked running behind a run that has ended, which is `NoGhosts`;
- `IdeasAt` and `LastIsStored`: where the ideas of a regular run are at each stage of
  its last step, and that the checkpoint of that step says they are stored once.

The argument is `SoleExecutor`: a regular run is written by one execution, next to
which there are only calls that `beginRun` will turn away. `doubled` and `irregular`
are what it depends on, and section 5 shows that both happen. `NoGhostIsLeft` states
`RunsSound`, `IdeasAreStoredOnce` states `IdeasOnce`.

### AgentInstances

For any instances, overlapping polls, messages and faults. The outbox part of
`AgentInv` speaks of what each poll holds: `HeldOnce` (two polls hold a message
only with an excuse), `HeldIsDue` (what a poll holds alone is pending, and not
posted before its mark), `PostedIsMarked` (what is posted and pending is about to be marked
by a poll, or excused). `TwiceIsExcused` follows, since a send without an excuse is of a
message that nobody has posted. The theorem is about `Inv`, which covers the registry
by its type only; who holds the row is the liveness property `SoleOwnerHoldsRow`.

### SigeSessions

For any number of sessions, cancel requests, restarts and failures. The inductive
invariant `CInv` is the type of the rows and of the run, with

- `IdsInOrder`: sessions that exist are numbered 1..n, so that a new one takes the
  place of none;
- `InHand`: what is being cancelled or played exists;
- `StageInHand`: an artifact is only saved in a stage that has one;
- `GuardHolds`: a session that was cancelled while the run holds a verdict that
  allows a write is one of those `raced`. It carries the argument: the write that
  follows the guard's read looks at no status, so what it may overwrite must be
  known from the time of the read.

`CancellationStands` is proved from `CInv`; a step of the proof is an action of the
module, and `StepHolds` collects what each must show.

`AbortStands` states `AbortStopsGame`. Its invariant `RunInv`
has `Placed` (where a run is in its stages, given the artifacts it holds) and `Barred` (a run
that was aborted before its expert game's last look at the signal is still aborted,
does not hold that game's artifact and is not past that look), which is what keeps it from
getting past the game in any later step. A run aborted in the fourth round or later is
not covered: its game is saved, scored and published (section 5).

`SessionsAreWhole` states `Inv`. `SInv` adds to the above

- `RowOk` of every session: artifacts and scores come after the context, and a
  completed session that was scored has them all;
- `Settled` of a session that is not played: it was scored and cross-written at most
  once, or by several games, and if it was, the artifact says so or the session is over;
- `Fits`, `InPlay` and `InScore` of the one that is in its first game: the run's copy of the
  artifacts is ahead of the row only when the session was cancelled, and then
  nothing is written any more. A resumed run starts from the row, so that this is
  what prevents a second scoring;
- `Later` of the one that is in a further game: the session was completed by an earlier
  one, or cancelled since. The guard refuses the running statuses (`q.at` is at no
  allowed write but the last, `completed` over `completed`), so that the row keeps the
  artifacts of the first game, and a session that is played to `completed` is still whole;
- `GamesInv`: whether there is a further game at all was decided when the frontiers were
  discovered, and a seeded session has none (`PlaysOnce`);
- `AutoInv`: unless a count failed, two unfinished sessions of the scheduler are
  one, and there is none while a tick that has counted is on its way.

No theorem limits the number of games. The properties say what a further game changes:
`ScoredOnce` is about sessions with one game (`PlaysOnce`), since each game scores its own
ideas, and by `OutcomesStand` a completed session may be left in two ways, by a cancel
request that had found it unfinished and by the failure of a further game.

### Workflows

In `Orchestrator_proofs`, as what the supervised processes carry. For any finite graphs,
requests, retries, crashes and failing queries.

`FlowInv` is the type invariant with the fact that failed queries are counted among
the faults, and `EngineInv`. The execution keeps the graph it was begun with, so no edit
disturbs it; a deletion takes its rows away under it. `EngineInv` says:

- `SourcesFirst` and `QueueFits`: what was seen is closed under sources, and the queue
  holds the nodes that are freed and not seen, each once. An empty queue therefore means
  that what was seen frees nothing more, so by `Valid` that everything was seen:
  `topologicalSort` leaves no node of a valid graph out;
- `NodeFits`: the node that is worked on has its sources behind it and its targets ahead;
- `StepsFit`: the pruned nodes are what is reached from the edges not followed so far
  (`Cut`), and of the nodes that were passed the pruned ones are skipped and all others
  completed. `PrunedIs` is the lemma it rests on: pruning stops at nodes that are
  pruned already, and still yields all that is reached from the old and the new cut;
  and it takes nothing that was seen;
- `NothingLeft` and `EndedIsSettled`: a deleted execution has no steps, one that has ended
  without a failing query has none open and one failed at most.

`FlowsAreSound` states `FlowsSound`, `BranchesAreExact` states `ExactBranches`. The inputs of a
node (`InputsReady`) follow from `StepsFit`, since a node with a source that was skipped,
or behind an edge that was not followed, is itself pruned (`NodeHasInputs`).

### Out of the prover's reach

Liveness under fairness and ENABLED, induction over data, and what recursive
operators compute. No module declares a recursive operator. Liveness properties
are only model-checked. That the searches of `validation.ts` and `engine.ts` visit the
least closed set, where Workflows starts from, is not proved either.

## 5. Where the code and its documentation disagree

One with a run of its own:

- `agents_reused_pid`. The comment at `process/supervisor.ts:38-41` says that the
  guard tells a live instance from "a recycled PID that merely collides (never
  kill)". On a host it compares the instance ids of the row and of the booting
  process, which always differ after a crash, and never who holds the pid; the
  process that got the pid is sent SIGTERM and SIGKILL. The orphan sweep
  (`process/orchestrator.ts:129-135`) signals the pid of a stale row without any
  check.

Seven with a property that the modules state and no run checks. To see the
counterexample, put the property in place of the invariants and properties of
the configuration named (`HollowIsReplayed`, `HeldRowsResume` and `WatcherHeedsCancels`
as a PROPERTY, the others as an INVARIANT), with the constants given here and without fairness
(`SPECIFICATION Spec`, in PipelineRuns.cfg `RunsSpec`):

- `SkippedStaysPending` (ProcessCommands.cfg, `MaxDbErrors = 0`). "Only handle
  process-level commands; skip app-specific ones" (`process/supervisor.ts:59`):
  the supervisor of the cron process claims all commands of its target, so those
  it skips are acknowledged by then and never reach the scheduler.
- `OneLive` (Orchestrator.cfg, `Policies = {"always"}`, `Calls = {"restart"}`,
  `MaxCommands = 2`). "At most ONE live process per child spec"
  (`process/child-lifecycle.ts:129`) does not survive two passes that remove a child at
  the same time, since its kill lasts longer than the interval of 5 s, when the
  manifest takes the child back: the first kill returns, the next pass spawns, the
  second kill's continuation deletes the new entry (`process/orchestrator.ts:112`), and a
  further pass spawns a second process. No call of the API takes part. Two overlapping
  restarts do it as well, because `killChild` clears `state.proc` after its await,
  whatever it is by then.
- `AllTracked` (Orchestrator.cfg, the same). A restart whose kill is awaited when a pass
  removes the child spawns after the entry is gone: a process that nobody knows, which
  `stop()` leaves behind. TLC's shortest trace has two overlapping restarts, the second of
  which finds `state.proc` cleared by the first.
- `NeverDoubled` (PipelineRuns.cfg, `MaxManual = 0`, `MaxErrors = 0`). "At boot every
  'running' run was left by the now-dead prior process" (`pipelines/resume.ts:108`)
  is not so of runs that the cron process executes.
- `HollowIsReplayed` (PipelineRuns.cfg, the same). The guard against hollow replays
  (`pipelines/ideas/pipeline.ts:613`) finds the checkpoints its own execution has
  just written.
- `HeldRowsResume` (Ingestion.cfg, `Sources = 1`, `MaxRows = 2`, `MaxFaults = 0`). Rows
  held back by the daily cap do not "stay in the backlog" (`ingestion/cycle.ts:169`):
  a batch is read newest first and the stored cursor is above them.
- `WatcherHeedsCancels` (SigeSessions.cfg, `MaxSessions = 1`, `MaxFaults = 0`). The watcher
  is to abort a run on "a terminal status set externally" (`sige/cancel-watcher.ts:10-12`),
  and with several frontiers the status transitions "repeat (one cycle per frontier)"
  (`sige/run.ts:405-408`). Each game of a session ends with the write of `completed`; the
  guard of `updateSessionStatus` then refuses the running statuses of the next game, whose
  artifacts are not saved, and the watcher, which cannot tell who wrote the status,
  aborts it. The session ends as failed, or as completed without that game. (The
  comment also says "capped at 3 by config"; `config/schema.ts:2968` allows 8.)

Met while modelling. The models contain each of these behaviours unless the line
says otherwise; the properties exempt them by name or do not speak of them.

Processes and monitors:

- A stop that is recorded just before the web process dies does not end
  monitoring: the recovery starts a new run in place of the stopped one
  (`web/routes/social.ts:75` does not look at the requested stop).
- The cached due time of the scheduler (`cron/scheduler.ts:92`) hides a job that
  another process adds with an earlier time, until the cached time or a run.
- The next time of a job is computed from the schedule its run has read; a
  schedule edited during the run is overwritten (`cron/executor.ts:250`).
- A `stop()` of the orchestrator during the orphan sweep of `start()` is
  ineffective: `start()` goes on, spawns the children and installs the intervals (one of
  the four crossings of Orchestrator).
- Two overlapping calls of `POST /social/monitor/start` both pass the check for an
  active run (`raced`), and two monitors work. Afterwards a row that a restart left
  stopping stays so as long as the newer run has its loop, and a newest run that is not
  continuous keeps the recovery from replacing the other.
- Between the insert of a run and the registration of its controller
  (`web/routes/social.ts:343`, `:354`) a recovery or a stop closes its row as an
  orphan. The loop starts, reads the cancellation, and ends: the user's start has come to
  nothing.
- A step of a pipeline run that meets its deadline is failed while its work goes
  on and may still store (`pipelines/ideas/pipeline-runner.ts:156`; its comment
  accepts this).
- The autonomous pipeline registers no active run and its steps do not beat, so
  the reaper (`web-index.ts:201`) fails a live one after 300 s. Not in the model.
- The registry row of a name is deleted by whoever unregisters
  (`process/registry.ts:51`), and a heartbeat that is on its way inserts it again:
  a signal does not stop the timer. Rows of dead names are never deleted.
- When the query of the unregistration fails during a shutdown, the process stays
  up, beats, and no longer polls.
- The Telegram client gives up for good after 21 conflicts in a row
  (`channels/telegram/client.ts:87`), as two instances with one token cause them. The
  instance stays live in the registry, and its poller delivers nothing
  (`cron/delivery-poller.ts:24`) until the process ends.
- The memory client repeats a POST that was answered with a 429 or a 5xx up to three times
  (`sige/knowledge/mem0-client.ts:281`), whether it was carried out or not: one row may
  be stored three times, and the day's count knows of one.
- A poller starts before the guard of `entries/agent.ts`, so two instances share
  the outbox during a takeover. A Telegram send that failed after the message was
  posted is repeated as plain text; a shutdown between a send and its mark repeats
  a message in the next instance; a row that fails does not hold up the later ones.

SIGE sessions:

- The cancelled status is not sticky as `sige/store.ts:258-278` says: the guard
  reads and the write follows in a second query, so a cancellation in between is
  overwritten (`raced`).
- The expert game looks at the signal last after its third round
  (`sige/simulation/expert-game.ts:185`). A run aborted during the fourth, in which an agent
  that meets the aborted signal counts as failed, returns a game, which is saved, scored
  and published.
- An abort after the expert game does not stop scoring, cross-write and report:
  the simulation returns what it has (`sige/simulation/social-sim.ts:374`) and no
  later stage looks at the signal. A truncated simulation is saved as an artifact and
  kept by the resumed session.
- A crash after the scores were saved and before the cross-write loses the
  cross-write: the resumed session skips the stage with both.
- The advisory lock of the scheduler (`sige/auto/run-guard.ts`) is taken on one
  pooled connection and may be released on another; two SIGE processes would both
  claim an interrupted session. Not in the model, which has one process.

Workflows:

- A node where two branches of a condition join is skipped with the branch not
  taken (`workflows/engine.ts:566-580`); `ExactBranches` states what the engine does.
- The cron trigger of a workflow is never synchronised: the routes do so `if
  (deps?.cronStore)` (`web/routes/workflows.ts:142`, `:184`), and the web app gives them no
  cron store (`web/app.ts:429-437`). The executor of such jobs refuses them besides when it
  has no engine (`cron/executor.ts:286`). So `workflows/triggers.ts` is not modelled.
- Of two overlapping updates the later write takes back the earlier one's fields, since each
  writes the whole row as it has read it.
- A crash, or a failing write of the final status, leaves an execution running for
  ever. The route that starts one by hand ignores `enabled`.
- The timer of an execution interrupts no node that is at work, tools included.

Health alerts:

- A check that fails contributes no results, which looks like a condition that is
  gone: the operator reads that the condition "has returned to normal" (`monitor/formatter.ts:24`).
- Titles contain the measured percentage: a reading that moves bypasses the
  cooldown, and announces the old one as resolved.
- A restart empties the deduplicator and leaves the rows open; a failing query
  between `markResolved` and the message loses the message.
- A check that hangs silences its cycle (`checks.ts`, `df`).

The exemptions are spelled out in the properties: `AtMostOneLive`, `LiveIsTracked`,
`ShutdownLeavesNoChild` and `WantedComesUp` until calls of the orchestrator cross
(`tangled`); `AtMostOneMonitor` until a user stops a run or starts race (`raced`), and
`UserStopEnds` and `MonitorComesBack` in part from then on; `AppointmentStands` of jobs nobody
else has written; `CacheIsSound` as long as no other process writes; `IdeasOnce`
of runs that were not executed twice at a time (`doubled`) and had no late store
or unread checkpoint (`irregular`); `NoGhosts` of runs not `doubled`; `RunSettles` of runs not
`Stuck`; `StoredOnce` but for the copies that faults account for (`slips`); `CapIsKept`
unless a fault has lost the count; `OutcomesAreFinal` of sessions not `raced`;
`ScoredOnce` unless the session was `torn` between scores and artifact;
`OneAutomaticSession` as long as no count failed (`miscounted`); `StepsClosed`,
`NoGhost` and `ExecutionSettles` unless queries failed (`failures`) or the process
`crashed`; `AbortStopsGame` of runs aborted `early`; `BooksAgree` and `ToldTruly`
as long as the monitor is `calm`, and of resolutions in cycles that are not `blind`;
`TwiceIsExcused` unless sending or marking was cut short or two polls overlapped
(`excused`); `PendingIsDelivered` while an instance is up whose channel has not given up
(`link`).

## 6. What is not modelled

`PROJECT.json` lists every component with its status and reason. In short: what
the pipeline's steps, the SIGE games and the agents compute (prompts, scores,
model calls), scrapers and parsers, the user interface, configuration and
single-query stores. These are most of the repository's lines: views of the user
interface, scrapers of single sites, the schema of the configuration, prompts and
formatting. They keep no state that two actors share, or compute a value from one
input; a model of them would repeat them line by line. The modules therefore cover a
small share of the lines and most of the places where two processes, timers or
requests meet.

Inside the modelled components:

- Orchestrator: the registry rows of children, among them the mark of a crash loop; the orphan
  sweep appears only as an exit that may come at any time (`AgentInstances` has it).
- SocialMonitor: what a cycle does, apart from its end.
- CronScheduler: `cron_runs`; occurrences beyond the horizon; `timeoutSeconds` of a
  payload (the executor does not enforce it). The delivery of results is in
  `AgentInstances`.
- PipelineRuns: the marking of consumed signals, `resumeAllInterrupted`, and the
  autonomous pipeline, which registers no active run.
- Ingestion: rows of one second that arrive late with a smaller id, the
  operator's change of the cap, normalisation of contents, the breaker of the memory client
  (while it is open a row is not taken, which is an answer `AddMemory` has).
- SigeSessions: a second SIGE process with the advisory lock, and the routes that
  only read.
- Workflows: templates, prompts, the stream of progress; other workflows than the
  one, which share nothing with it; the cron triggers, which nothing runs.
- HealthAlerts: the queries of the checks (a check is its reading), levels and texts,
  the cron jobs that `deep-check.ts` and `hooks-health-check.ts` insert at boot.
- AgentInstances: the walk up the ancestors of a pid (nothing in the model is an
  ancestor), the parent watchdog (a crash of the child), several agents (each has
  its own row and channel).

## 7. The plan

Done, in this order: ProcessCommands with its abstract channel and proofs,
Orchestrator, KanDelivery with its proofs, SocialMonitor, CronScheduler,
PipelineRuns, Ingestion; then SigeSessions with its proofs, Workflows, HealthAlerts,
AgentInstances (registry, guard and outbox).

Proved since: `Inv` and `AppointmentStands` of CronScheduler, `Inv` and `StoredOnce` of
Ingestion, `Inv` and `AtMostOneMonitor` of SocialMonitor, `Inv` of AgentInstances, `Inv`
and `AtMostOneLive` of Orchestrator, `AbortStopsGame`, `OutcomesAreFinal` and `Inv` of
SigeSessions with any number of games, `AlertsSound` and `ToldTruly` of HealthAlerts,
`RunsSound` and `IdeasOnce` of PipelineRuns, `FlowsSound` and `ExactBranches` of Workflows. With these, every invariant and every
action property of a passing run is a theorem; what is left to TLC is the liveness.

Next theorems, each an inductive invariant that TLC agrees with first: what the
hypothesis `OneAtWork` (KanDelivery) leaves out, and what is left of `AtMostOneLive` after each of
the four crossings.

Next models, each in place of something a theorem has made unnecessary, so that
the number of runs stays small:

1. The rate limiter and the send queue, with the pure functions (bucket refill,
   backoff of `infra/retry.ts`, dedupe of `pipelines/social/dedupe.ts`) checked
   against reference definitions.
2. A composition of SocialMonitor and KanDelivery: two monitors that come to
   exist through starts that race, and what they do to the queue.
3. The parent watchdog and the autonomous pipeline with its reaper.
