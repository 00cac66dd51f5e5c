# DPS verification

TLA+ models of the DPS platform: the platform back end that gives each account
a runtime of its own, and the agent harness that runs inside the runtimes. The
models are written from the source, which is the reference for every
definition; `PROJECT.json` maps each definition to the lines it stands for.

## The system

The repository is a TypeScript monorepo of three layers.

**Platform** (`services/`, `db/`, `ops/`, `docker/`). `platform-bff` signs
users in, lets administrators manage accounts, and proxies a signed-in user to
the harness in the user's slot. `model-gateway` forwards model calls of a slot
upstream and records their usage. Both keep their state in PostgreSQL; the
scripts in `ops/` work on the containers and the database from outside.

**Harness core** (`packages/core`, `jobs`, `session`, `llm`). An *agent* has an
inbox, a session log and a driver that runs turns; a turn is a sequence of
steps, a step a model call and the tool calls it asks for. Everything an agent
does is an event of its *session*; persistence writes the events behind it.
Long-running tools become *jobs* in a process-wide registry. Plugins observe
and veto through publications and waterfalls of the cordis framework.

**Features** (the other `packages/`, `apps/`): tools, subagents, goals,
schedules, workflows, settings, protocol servers, the browser client.

| component | state | operations | what makes it correct |
|---|---|---|---|
| agent driver (`core/agent-loop/src/agent.ts`) | phase, abort signal, wake latch, turn and step numbers, the promise of the current activity | send/followup/steer/inject, cancel, runMaintenance, kick/turn/preStep/step, whenIdle | one driver at a time; waking input is served or deliberately left; an abort ends the turn; `whenIdle` means idle and returns |
| inbox (`core/agent/src/inbox.ts`) | two ordered queues | splice, claim, remove, clear | each message has exactly one fate |
| tool-call scheduler (`core/agent-loop/src/tool-calls.ts`) | pool, slots, commit and start counters, abort and failure flags | group, start, settle, commit, skip, drain | the log can be replayed; exclusive calls are alone; nothing runs on after the step |
| write-behind (`session-persistence/src/write-behind.ts`) | queue, timer, write slot, barrier, two flags | enqueue, flush, deadline, retain | order and single write; a flush that succeeds was durable; nothing waits for ever |
| coordinator (`session-persistence/src/coordinator.ts`) and preparations (`preparations.ts`) | per id: cursor and owner, the chain of operations, retirements, one entry of the pool | prepare, inspect, commit and repair, attach, initialise, append, retire, reload | one history per id; what was written stays; only cold logs are repaired; every caller is answered |
| job registry (`jobs-local/src/index.ts`) | records, waiter counts, owner cleanups, listeners | start, read, kill, wait, settle, dispose | each outcome is given to the model once; disposal ends and drains |
| accounts and slots (`platform-bff/src/index.ts`) | users, bindings, sessions, audit | create, enable/disable, promote/demote; release by script | a slot has one user; an account has a slot; an administrator remains |
| model gateway (`model-gateway/src/index.ts`) | usage rows | forward, capture, record | usage belongs to who caused it |
| request retry (`llm-retry/src/index.ts`) and overflow recovery (`compaction-basic/src/index.ts`) | active recoveries; the counter of one is in the log, of the other in memory | recover, back off, compact, dispose | budgets add and no more; silent after an abort; drained by disposal |
| JSON-lines store (`session-persistence-jsonl/src/`) | one file per session, plain or in frames | materialize, append, roll back, read, repair, read raw | acknowledged events survive; a restart finds what was accepted, in order |
| storage domain (`storage-domain/src/`, `storage-json/src/`) | records in memory, write chain, unit, one file | open, put, delete, update, close | an atomic, durable map with one writer |
| schedules (`schedule/schedule/src/`) | a fold of the log, queue, timer | create, list, delete, drive, dispatch | each occurrence once; nothing due is forgotten; the log can be replayed |
| goals and goal rounds (`goal/goal/src/`, `goal-round-driver/src/`) | a fold of the log and an activation in memory; per agent an attempt, three flags, one task | create, edit, pause, resume, complete, block, clear; drive, check before a step, unload | only the next round of the goal as it is enters; what was cancelled stays so; a pursued goal comes to its end |
| approvals, subagents, … | see `PROJECT.json` | | |

How they interact. A user's message, a job's completion notice, a goal or a
schedule reaches an agent through `send`; the driver appends to the session,
whose events reach the write-behind controller synchronously; the step calls
the model through the retry policy, and the tools through the scheduler, whose
result contexts go back into the inbox; a tool may start a job, and the job's
settlement calls listeners that send to the agent again. Disposal runs the
other way: owner, agent (`cancel`, `whenIdle`), jobs, session flush.

What is hard. The harness is one JavaScript process: no two statements run at
once, but every `await`, and every publication that runs listeners in the
middle of an operation, is a place where anything else may happen. The platform
is concurrent at the database. `PROJECT.json` lists the hazards by line, each
with the properties that would notice it going wrong.

## The modules

| module | models | composes with |
|---|---|---|
| `AgentDriver` | one agent: driver, inbox, maintenance, disposal | |
| `ToolCalls` | one step's tool calls over the registry's stages | the *step* of `AgentDriver` |
| `SessionCoordinator` | one session id between callers, live Sessions and the store | uses a controller as `WriteBehind` models it |
| `WriteBehind` | the write-behind controller under the coordinator's flush | implements `DurableLog` |
| `DurableLog` | abstract: what persistence promises to the rest | |
| `JobRegistry` | jobs, waits, owners, service disposal | |
| `PlatformAccounts` | handlers, pool connections, transactions, locks | |
| `JsonlFormat` | what a reader makes of any content of a log file | |
| `JsonlLog` | one session's log file: appends, rollback, crash, repair | uses `JsonlFormat`; implements `CrashSafeLog` |
| `CrashSafeLog` | abstract: what a store promises across crashes | |
| `StorageDomain` | one domain over the JSON backend: facility, chain, unit, file | implements `AtomicMap` |
| `AtomicMap` | abstract: a durable map with atomic writes | |
| `RequestRetry` | the request loop of a step, retry policy, overflow compaction | the *step* of `AgentDriver` |
| `ScheduleRuntime` | reminders: log, tools, queue, owner, timer | the idle phase of `AgentDriver`, coarsely |
| `GoalRounds` | a goal, the driver of its rounds, the agent as they see it | the phases and inbox of `AgentDriver`, coarsely |
| `AgentDriverProofs`, `ToolCallsProofs`, `WriteBehindProofs`, `JobRegistryProofs`, `PlatformAccountsProofs`, `StorageDomainProofs`, `RequestRetryProofs`, `SessionCoordinatorProofs` | theorems about the module of that name | |

`MC*` modules and their `.cfg` files are the instances that TLC checks.

An action of a harness module is what runs between two awaits or publications;
where a synchronous handler publishes half way, it is two actions and only what
a listener may do can happen in between. Definitions named as variants in a
comment (`DecideOnce` beside `Decide`) are the plausible mistakes that the
properties are tested against: with one in place of the other, the property
named with it in `PROJECT.json` fails.

### AgentDriver

`phase`, `aborted`, `wakeRequested` and `step` are the fields of `this.phase`;
`pc` is the place of the driver, the await that `kick`, `turn`, `preStep` or
`step` is at, or the publication its next statement follows: each splice of a
claim (`claimSteps`, `claimPrompt`), `step/start` and the step's messages, logged
one by one (`opening`), and `turn/end` (`closing`). A listener may cancel at any
of them. `nextTurn` and `nextStep` are the inbox. `delivery` is the rest
of a `send` after its splice was published, `unwinding` the rest of a retiring
driver after it published idle. `settled` says whether `activityDone` is
resolved, `waiter` is one caller of `whenIdle` and whether the promise it
awaits is still the current one. Messages end up `entered` (logged as input of
a step) or `gone`. History variables remember which messages were sent waking,
which of them were left in the queue on purpose (`parked`: a cancel that keeps
the inbox, a rejected, failed or empty turn, input sent to a disposed
activity), and which met a driver that had looked for the last time (`late`).

Abstracted: what a step does (it ends, fails or is aborted), who listens (a
listener may do what other code may), and the values of messages. A session
refuses an append from within another append, so listeners of the driver's own
events do not touch the queues: they cancel with `keepInbox`, or when nothing is
pending, and a plain cancel there that would have to clear the inbox throws
before it aborts and is left out, as is such a disposal. At most one send
is between its splice and its wake.

`AbortStopsTurn` says what a cancel stops at once: no claim begins and no step
opens. It does not say that nothing is logged: a listener that cancels at
`step/start` or between the splices of a claim has the step's messages logged,
or the prompt claimed and dropped, all the same; the step then ends without a
model call, as the repository's own tests demand (`cancel.spec.ts:637-700`).

### ToolCalls

`mode` is what `executionMode` answers for each call now; it may change at any
time, which stands for tools that are registered, replaced and removed. `at`
is where each call is, `pc` the await of `runGroup`, `last` the end of the
group, `stop` and `failed` its `aborted` and `schedulerFailure`; `log` holds
the `tool/call` and `tool/result` events. `inFlight` are the keys of the map
of that name: a dispatch stays there until `Promise.race` returns it. Which of
several settled dispatches the race returns is left open. Result contexts and
the flag that concludes a turn follow the commits and are left out.

### SessionCoordinator

`log` and `torn` are what the backend holds under the id, `state` and
`retiring` the id's entries in `states` and `retirements`, `entry` its entry in
the preparations, `chain` the operations `serialize` has queued, with `step`
the await the running one is at. `call` is where each caller of `prepare` or
`inspect` is, and what it carries across the await; `ses` are the Sessions
published under the id one after the other, each with its initialisation and
its write controller, of which only the pending events, the write under way and
the pause after a failure matter here. An event is who wrote it and whether it
opens a turn, closes one, marks the end of a seed or none of these.

Promise jobs run in any order, with two exceptions that the job queue's order
gives: the next operation of the chain starts before the caller of the previous
one goes on, and a callback that is several jobs away (`Drain` of a controller
whose write just failed) comes after those that are one away. Backend answers
are tasks and wait until no job is left. `Crash` may happen anywhere and leaves
a part of what was being appended; `Reload` replaces the coordinator under live
Sessions, after a flush that may fail half way and fail to be rolled back;
`Foreign` is another process, which writes only while this one tracks nothing,
as the package's README asks; `Evict` is the pool's limit. A mishap may also be
a read, a revision check or a repair that fails (`LoadFails`, `CheckFails`, `CommitFails`, `CreatedFails`).

Left out: the public `create` and `append`, `load`, `readFrom`, working
directories, format versions and the import of older records.

### WriteBehind and DurableLog

`pending`, `timer`, `active`, `barrier`, `deadlineExpired` and
`automaticPaused` are the controller's fields; the stages of `active` and
`barrier` say which callback is due. Timers and storage answers are tasks,
which start only when no promise job is left (`Quiet`). `DurableLog` knows only
accepted events, the durable prefix and the callers of `flush`; `Commit` makes
any oldest part of the rest durable. The refinement maps the controller's
variables of the same names and folds the stages of a flush together.

### JobRegistry

`status`, `owner`, `reported`, `waiters` and `store` are the records; `wait` is
each caller of `wait`, from registration through time-out, release or
rejection to its return; `cleanup` the effect on an owner's scope; `awaited`
what a disposal waits for. `noticed` counts the announcements that carried an
unreported outcome, the ones that become a notice to the model; `told` are
jobs whose outcome a caller was given. A `cancel` may throw; a running job may
run for ever. Callers are those the access fence admits, and starters,
producers and listeners do not call back into the registry.

### PlatformAccounts

`row` is the committed state of an account: its `users` row, whose `id` is the
request that made it, and its `user_runtimes` row. `tx` is each pool
connection's session: whether a transaction is open or has failed, the users
rows it wrote, the runtimes it bound and the slots it locked. `idle` is the
pool's idle list, `req` the handlers with the connection each one has. A
`pool.query` is two actions: taking a connection, and the statement. Statements
see committed rows and their own connection's, wait for row and unique-key
locks, and fail in a failed transaction, which keeps neither its writes nor its
locks. The choice of a slot reads first and waits for the slot's row lock after
that, so the slot it comes back with may have been taken meanwhile; the unique
key refuses it then. An account found by a later statement is the row with the
id the request knows. The pool gives out the connection that became idle last
and closes one that is idle for long, which happens only while every handler
waits for the database. PostgreSQL and the pool are external: they are modelled
as the handlers rely on them.

A PATCH may set the activity, the role, or both (`change`); what each part asks
for is checked in the order of the handler.

Sessions, passwords, audit records and the proxy are left out; start-up is the
initial state. An operator releases slots between requests (`ByHand`), because
the script that should do it never gets that far (see Seen while modelling).

### JsonlLog, JsonlFormat and CrashSafeLog

`JsonlFormat` describes the file as tokens: the body of an event row, its
newline, and in a compressed log the marks of a frame's start and end. A write
cut short is cut between tokens. `scanLog` is the scanner with its three ways to
stop (an incomplete row, a row that does not parse, a gap in the sequence, which
refuses the log if a turn ends behind it); `Readings` is what a cold read may
answer, a set because what the decoder yields of a torn frame is not known.

In `JsonlLog` an action is one call of the file system. `file` is what a read
returns, `synced` what was last synced, `lingering` contents that were truncated
away without a sync. When the process dies the file stays as readers saw it, no
more durable than before. When the power fails any of these contents may be
left, cut anywhere behind what they have in common, and a directory entry that
was not synced may be gone. `trusted` says that a restart has taken for stored
what is not durable: an intact log is read back without a sync.
`at` and `job` are the operation under way, of which the coordinator runs one at
a time; `acked` and `pending` are the coordinator's stored events and the ones
it retains; `reader` is the raw read, which nothing serializes. The first batch
is published by a link of a synced temporary file; the header is part of it and
left out. `leftover` remembers that a rejected batch stayed in the file, because
its rollback failed or because the close failed after its sync, and whether its
bytes were built upon (`buried`), and that a power failure took what a restart
had trusted (`lost`): only then do the properties promise nothing, and neither
does `CrashSafeLog`, whose `sound` it is. `RetriesCleanly` and `TrustsDurable`
say that neither happens, and do not hold (see Seen while modelling). The
abstract log knows acknowledged and waiting events, whole batches, and a restart that keeps all of the former and
some of the latter in order, with one closing event.

### StorageDomain and AtomicMap

`facility`, `reserved`, `backend`, `opening` and `slots` are the fields of
the two plugins' objects, `orphans` the handles of a facility that was unmounted
before. A handle is one opened domain: `phase` its life, `memory` what callers
read, `chain` the jobs queued on it, `unit` and `state` the unit below. `file`
is what a reader of the file gets and `stable` what a crash may fall back to
until the directory is synced. The global value is a record that is only put.
The abstract map's `map` is the memory of the open domain, and the file when
none is; a rejected write may have reached the file (`Reach`), where a reopen
would find it. Change events and the SQLite backend are left out.

### RequestRetry

`loop` is where the step's request loop stands, `recovery` where the waterfall
of `agent/request-error` does: captured and not called yet, waiting for the rest
of the waterfall as its tail or before anything else (mode *always*), waiting
for the delay, or run without the plugin. A route stands for a provider and its
policy, and is resolved anew for each request. `log` holds the events the
counter is read from, `overflow` the compaction's counter. Delays are instants.
A compaction that meets an abort may still be committed; it grants no request
then, and what it does to the log's contents is left out.

### ScheduleRuntime

The durable log is kept as what it folds to (`stored`) and the events that are
not durable as a sequence (`pending`); `foldScheduleEvents` folds both. `queue`
and `stage` are the transactions of `runScheduleTransaction` and the await the
first one is at; `run`, `requested`, `timer`, `idleWait` and `faulted` are the
owner's fields. Claiming the idle phase, queueing the follow-up and appending
the dispatches happen in one synchronous run and are one action. The agent is
idle or busy; a busy one may call tools, a follow-up makes it busy. A disposal
awaits the drive and the idle wait, and a tool that is still queued goes on
behind it. After a crash or a disposal, once the queue is empty and the agent
idle, the session is resumed from what is stored.

### GoalRounds

`goal` is the fold of the log with the activation, `driver` one `DriverState`,
`agent` the phase and the inbox as far as goals depend on them. Listeners run
inside what they listen to: a mutation publishes `goal/changed`, the driver may
then queue a round, and an idle agent claims it, all before the first await.
The operators that say what follows therefore map a world (goal, driver, agent)
to the next one, and an action applies the whole chain. `run` is the await the
driver's task is at; `at` is the agent's: the listeners before the driver's, those
inside it (`deciding`), those around it (`approved` or `refused`), the step. It is
also at the publications of `turn/start`, `step/start` and `turn/end`, whose
listeners may cancel, and at the gap between a turn's last look at the inbox and
the idle status (`stopped`), in which whatever is sent waits.

Revisions number the changes of all goals of the session, which identifies a
goal as well as its id does. A round that the fold does not accept leaves the
goal `broken`: every later read throws. History variables remember the messages
sent and what became of them, cancelled work, and whether the goal has changed
since the driver's second look. Left out: disposal of the agent, a resumed
session, a follow-up that fails, the goal's text.

## What is checked

| run | instance | distinct states | shows |
|---|---|---|---|
| `agent_driver` | 3 messages, 1 step more than asked | 550,272 | no message is lost or doubled; no wake lost except as stated; no claim or step begins after an abort; waking input is served; `whenIdle` means idle and returns |
| `tool_calls` | 3 calls, pool of 2 | 512,432 | replayable log, answers for all, exclusive calls alone, nothing left behind; aborts stop calls and a step's calls end |
| `write_behind` | 2 callers, 3 events | 8,830 | order, single write, flush promise, refinement of `DurableLog`; flushes are answered, events become durable if storage recovers |
| `coordinator` | 2 callers, 2 Sessions, logs of 4 events, 1 mishap | 4,274,946 | one history per id, what was written stays, reservations stay true, an id is prepared or live, only cold logs are repaired |
| `coordinator_live` | 2 callers, 1 Session, logs of 3 events, 1 mishap | 200,770 | once calls cease, every prepare and inspect is answered and every retirement ends |
| `job_registry` | 2 jobs, 1 owner and the unowned bucket, 2 waiters, limit 1 | 700,903 | outcomes given once, exact counts, disposal drains; waits return, disposals end, only settled jobs are dropped |
| `platform_accounts` | 3 accounts, 3 slots, 2 requests, 2 connections | 1,803,300 | a slot has one user under all interleavings; the other promises hold while requests come one at a time |
| `jsonl_log` | both encodings, 2 events beside closers, 3 processes, 2 failing calls | 735,394 | every crash is survived but for the two exemptions, the raw reader sees a whole log, refinement of `CrashSafeLog` |
| `storage_domain` | 2 handles, 2 clients, 1 record of 2 values, 3 busy at once | 387,594 | one writer of the file; nothing waits for ever; refinement of `AtomicMap` |
| `request_retry` | 3 routes (limited, unlimited, without policy), 2 retries, 1 compaction, 2 steps, 4 requests | 1,080,390 | the counter in the log is right, budgets bound the requests, nothing after an abort, disposals and aborted steps end |
| `schedule_runtime` | 1 tool call at a time, 2 reminders, 4 instants, 1 mishap | 641,522 | the log can be replayed, no occurrence twice, what is due is served, calls are answered, disposals end |
| `goal_rounds` | 1 message, a limit of 2 rounds, mutations up to revision 3 | 864,244 | what passed the fence is the next round of the goal, a turn cancelled before its `turn/end` stays cancelled, others' messages are kept; a pursued goal comes to its end, the unload ends |

A property of several parts is one definition (`Inv`, `Served`, `StepEnds`,
`GivenOnce`, `Concludes`, `PromisesAlone`, `Drains`, `Continues`), and the part
that says what is hard has a name and a comment of its own. `Inv` includes the
type invariant.

**Bounds.** Three messages let two wait in one queue while a third is sent to
the other, which is what claims, reroutes and clears tell apart; one further
step per turn reaches every boundary and the loop back. Three calls over a pool
of two meet replenishing, a barrier within a group, and a settled call behind
an unsettled one. Three events put one in a write, one behind it and one
arriving while the first is put back; the order of events does not depend on
how many there are, and the proofs cover any number. Two jobs and two waiters
make a wait that is aborted, one that has timed out and a settlement meet on
one record; one limit and one owner beside the unowned bucket suffice as
buckets do not interact. Two requests over two connections are what the race of
two handlers needs, and two connections let one be inside the other's
transaction; larger instances only add requests of the same kinds. Symmetry is
used for messages, callers and requests, in runs without liveness properties.
Two callers are what an entry is shared and fought over by; two Sessions, one
draining while the next is published; four events are an interrupted turn, its
closer, the marker and one event more. One mishap is combined with everything
else; two of them would mostly be the same twice, a crash forgetting all but
the store. The liveness run needs only one Session, because one id's Sessions
wait for each other only through the chain and the map of retirements. In
`JsonlLog` two events are a batch that stands and one that fails, or a batch of
two cut in between; three processes are a crash and another in the repair of
the first; two failing calls are a write and its rollback. In `StorageDomain`
two handles are one that closes and one that opens; two clients queue two
writes. In `ScheduleRuntime` the clock ends a little after the latest reminder,
so that the end of time is met, too. In `GoalRounds` two rounds are one that
follows another and reaches the limit; three revisions a goal that is set,
stopped and resumed, or edited twice; the revisions that the driver adds are
not bounded. One prompt that a cancel keeps (`MaxKept`), and none that waits when
maintenance starts (`MaxWaiting`), bound what queues up beside the rounds.

**Fairness.** JavaScript's job queue runs every continuation that is due, and
timers fire: weak fairness of the continuations. Beyond that: a model call, a
policy, a listener or a maintenance task settles (`AgentDriver`); bodies
settle, which the tool contract demands even after an abort (`ToolCalls`);
storage answers, and for durability stops failing (`WriteBehind`); a producer
that was told to stop does, unless its cancel threw (`JobRegistry`). Nobody is
obliged to send, cancel, flush, kill or dispose. `WhenIdleReturns` makes an
exception for maintenance tasks that keep being started, because each replaces
the promise that is awaited. In `SessionCoordinator` a backend answer is a
task, so it waits whenever a promise job is due; its fairness, and that of the
caller whose turn it is to take an entry, is strong, as the event loop serves
both in the order they were queued. Callers that come, abort and come again for
ever can keep one another from the entry, so the promise is made for when calls
cease. In `StorageDomain` there is no fairness: `NeverStuck`, a part of `Inv`,
says that some step of the runtime may be taken while anything is outstanding,
and only finitely many follow without a caller. It says so with the guards the
actions start with (`MayDrain`, `Running` and their like), which is what makes it
provable; that a guard holds just when its action is enabled is `GuardsAreEnabled` of
`MCStorageDomain`, which TLC confirms when it is added to the configuration. In `RequestRetry` timers fire
and the policies below settle, and the provider is promised nothing of. In
`ScheduleRuntime` storage answers, promise jobs and timers run and time passes;
a turn ends although it calls tools again and again, which needs strong
fairness as each call disables its end. In `GoalRounds` steps and their
listeners, maintenance and the driver's task go on, and nobody starts
maintenance for ever; the unload is woken in the promise job that makes the
agent idle, before a task could start it again (strong fairness). `Continues`
excepts what is `Muted`: a goal whose round was cancelled, or that gives way to
a message, while no wake is latched; the agent's next idleness ends that. The
other fairness is weak.

## What is proved

Eight `*Proofs` modules prove with TLAPS, for every value of the constants,
that the invariants of the runs named in the table below hold in every
reachable state, the action properties of every step, and two refinements. Each
has the same plan: an inductive invariant, which TLC was given first; one lemma
per conjunct or per group of actions that says it is kept, with one step per
action; and theorems that read the properties off it. What lies beyond the
small instances: any number of messages, calls, events, jobs, waiters, users,
connections, handles, routes, callers and Sessions, and logs, chains and queues
of any length.

| theorem | states |
|---|---|
| `WriteBehindProofs`: `TypeCorrect`, `OrderCorrect`, `SlotCorrect`, `OneWriteCorrect`, `FlushCorrect`, `Implements` | `EventsInOrder`, `FlushPromise`, `OneWriteAtATime`, `Refinement` of the run |
| `AgentDriverProofs`: `MessagesCorrect`, `WakeCorrect`, `AbortCorrect`, `IdleCorrect` | `Inv`, `NoLostWake`, `AbortStopsTurn`, and `WhenIdleMeansIdle` of `Served` |
| `ToolCallsProofs`: `NothingLeft`, `OrderCorrect`, `AnswersCorrect`, `ExclusiveCorrect`, `AbortCorrect` | `Inv`, `LogInOrder`, `EveryCallAnswered`, `ExclusiveAlone`, and `AbortStopsCalls` of `StepEnds` |
| `JobRegistryProofs`: `CountsCorrect`, `GivenCorrect`, `DropsCorrect` | `Inv`, `GivenOnce`, and `DropsOnlySettled` of `Concludes` |
| `PlatformAccountsProofs`: `SlotsCorrect`, `AloneCorrect` | `Inv`, `PromisesAlone` |
| `StorageDomainProofs`: `ProgressCorrect`, `WriterCorrect`, `Implements` | `Inv`, and of it `TypeOK` and `OneWriter`; `Refinement` |
| `RequestRetryProofs`: `NumbersCorrect`, `BudgetCorrect`, `StopCorrect` | `Inv`, `RequestsBounded`, `QuietAfterStop` |
| `SessionCoordinatorProofs`: `PreparedOrLiveCorrect`, `HistoryCorrect`, `WrittenCorrect`, `ReservationCorrect`, `ColdRepairCorrect` | `Inv`, `OneHistory`, `WrittenStays`, `ReservationHolds`, `ColdRepairOnly` of the run `coordinator` |

**Assumptions** are those the modules declare, and TLC evaluates them: bounds
are natural numbers (positive for the pool of calls, the limit of jobs and the
like); `Waiter`, `Client`, `User` and `Route` are finite, since
what is proved counts their members; markers such as `NoJob` are not members of
the set they mark the absence from, nor `"untracked"` and `"closer"` of the
Sessions and preparations beside which they stand; the founders fit into the slots.

**Why the invariants need strengthening.**

- *WriteBehind.* `EventsInOrder` says that the durable log, the batch of an
  outstanding write and the queue are together the accepted events. It survives
  a failed write only if the slot holds exactly the batch that was taken, which
  is `WriteSlot`'s agreement of barrier, timer and slot. `FlushPromise` needs
  that a waiting flush's mark lies within what its barrier still has to drain.
- *AgentDriver.* `NoLostWake` speaks of an idle agent only. What carries it
  there is `WakesServed`: at any time a queued waking message that has no excuse
  has a driver under a live signal that will look again, or a send or a
  retirement that has yet to call `wakeDriver`, or a latch behind maintenance or
  a user's abort. A driver past its last look serves nobody, which is why a
  message sent there counts as `late`. That no message is lost needs that claimed
  messages are held only from a claim to the end of the step's opening, as the
  next claim overwrites them.
- *ToolCalls.* The log is in order because of where the calls are: answered up
  to `committed`, planned behind `started`, every dispatch held by the pool. An
  exclusive call is alone because it ends its group and nothing before it is
  uncommitted.
- *JobRegistry.* That an outcome is given once rests on which job may be
  reported before it is terminal (only a stopped one), and on where each wait
  stands when its job settles; that disposal drains, on its awaiting every
  record it will drop.
- *PlatformAccounts.* `SlotsExclusive` must hold of what open transactions have
  bound as well (`Bindings`): no other connection and no committed row has the
  slot or the account. The promises of handlers that run alone need that the
  pool then has a single connection, whose transaction is at the handler's own
  statement; the last administrator, that the count was taken with nobody else
  in flight.
- *StorageDomain.* A unit that could publish has the backend's slot, and of the
  handles outside the orphans one at most is not closed. The refinement needs
  that the unit's state differs from memory by exactly the write under way. That
  nothing outstanding is ever stuck needs to know who will answer it
  (`OnTheWay`): a write without an answer stands in the chain of its handle, a
  handle the unmount waits for is on its way to closed, and a slot of the
  backend has a unit that is open or closed already.
- *RequestRetry.* The number of the next retry is read from the log, so the
  newest retry of each group must be the one that was scheduled last; the
  budget holds because every request is paid by the step, by a completed wait or
  by a granted compaction, and at most one of those is unspent.
- *SessionCoordinator.* None of the four invariants is inductive, since what an
  operation of the chain may count on was found out by an earlier one, or by a
  caller before it queued the operation. `IInv` adds what makes that safe: the
  order of the chain, and how long each answer stays true. No initialization and
  no commit stands behind the read of an entry that is still loading, and none
  but its own behind an entry that is ready or taken (`EntryOrder`); a commit in
  the chain has the entry, or a source shorter than the log, which its revision
  check refuses. Of the Sessions that wait to be initialized only the last one
  is live, and it is the owner of the state when that is live (`ChainOrder`,
  `OwnerAlone`). What the running operation has seen stays so until it ends,
  because only it may write (`Steps`). A source extends a prefix of the log, by
  a closer if a turn was open in it, and what a commit established stays true
  while its entry is in the pool (`Callers`). The events a
  Session has beyond the log were never made up by a repair, so the log grows by
  a closer only in a repair, which has met neither a state nor a live Session.

**Only model-checked, and why.** Liveness (`Drains`, `Served`, `StepEnds`,
`Concludes`, `Settles`, `Continues`, `WaitersServed`): fairness is out of the
prover's reach; the action properties that these runs check with them are proved
where the table says so. `ScheduleRuntime`, `GoalRounds` and `JsonlLog` have no
proofs, because what they say is about folds over sequences of any length, and
needs induction over data, which the installed provers cannot instantiate: a
pending change is legal after the fold of those before it, and its due time,
which `RemindedOnce` turns on, is a result of that fold; a claimed batch of
rounds takes the goal to the fold of its admissions; and what a torn file stands
for is what `JsonlFormat`'s scan makes of it, a recursion over the tokens.

## Seen while modelling

Behaviours of the code that a comment or a promise of the repository does not
lead one to expect. Each is a definition of the model that TLC refutes when it
is added to the run's configuration; no run lists it.

| definition | what happens |
|---|---|
| `AgentDriver!NoStrandedWake` | waking input sent between `turn()`'s last look at the inbox and the idle status stays in the queue until the next send |
| `AgentDriver` | a user's cancel before a disposal lets teardown wait for a replayed turn, against the comment at `agent.ts:176`, because the first cause of an abort stays |
| `ToolCalls!ExclusiveBodyAlone` | classification is not repeated after the await of pre-execute policy: a tool replaced meanwhile runs beside its siblings although exclusive |
| `PlatformAccounts!LastAdminKept` | concurrent requests remove the last administrators |
| `PlatformAccounts!CreateAllOrNothing` | the creation's transaction is not one connection's |
| `PlatformAccounts` | a released slot is offered again, its row still occupies the unique column, and the administrator is told that the e-mail address exists (`platform-bff/src/index.ts:345`) |
| `SessionCoordinator!FinalDrain` | `prepare` looks up the retirement before its await; a Session disposed of meanwhile can lose its last batch to the reservation. The state stays owned by the failed retirement, so the prepare fails as well, and the batch waits for the backend's teardown |
| `JsonlLog!FirstBatchRetriable` | a first batch whose directory sync failed meets its own log when it is retried and is refused until the next start, although `index.ts:598-600` says this cannot happen |
| `JsonlLog!RetriesCleanly` | an append whose `close` fails after its sync (`index.ts:678`) is rejected although its bytes stay; the retry writes the batch again behind them, and the log repeats its sequence numbers |
| `JsonlLog!TrustsDurable` | a restart takes an intact log for stored without a sync (`coordinator.ts:950`); a power failure after the death of the process that wrote it may take events that were counted as durable |
| `StorageDomain!NoDivergence` | a publish that fails after its rename leaves the rejected write in the file, although `domain.ts:5-7` says there is no divergence; a reopened domain reads it |
| `RequestRetry` | the package's README speaks of a closed step and a fresh numbered turn; a retry continues in the open step (`agent.ts:389`) |
| `GoalRounds!Admissible` without `fenced` | listeners around the driver's await after its second look (in the default composition `agent-instructions` and `tool-skill`, registered before it in `bundle/base/cordis.patch.yml`); if the goal changes there, the round enters although the fold refuses it, and every later read of the goal throws (`fold.ts:325-329`) |
| `GoalRounds` | a trigger during maintenance takes the queued attempt for a finished one (`goal-round-driver/src/index.ts:156`) and queues a second round; the fence refuses one of the two, and an edit then ends in a pause nobody asked for |
| `GoalRounds` | a round queued during maintenance survives the plugin's unload, which cancels only a running agent (`:434`), and enters later without a fence |
| `GoalRounds!CancelPauses` | a cancel between `turn/end` and the idle status ends no turn aborted, so the driver does not hear of it and goes on with the next round, although its README says that a cancelled turn pauses the goal |
| `GoalRounds!Muted` | a cancel during maintenance, where no idle status follows, leaves an armed goal unpursued until the agent's next activity; a message claimed with a refused round waits for the next wake |

Seen while reading, outside the models: `ops/release-runtime.ps1` compares
`active::text` with `'f'`, and PostgreSQL writes `'true'` or `'false'`, so it
refuses every user; the operator's release in `PlatformAccounts` is what it is
meant to do.

## Not modelled

Operating-system and protocol I/O (files, shells, terminals, sandboxes, MCP,
LSP, ACP, model streams), configuration, presentation and the browser client
have little shared state; the vendored framework is taken as the code uses it.
Inside the modelled parts, the simplifications are named above: one send in
flight at a time, no starters or listeners that call back into the job
registry, no failures of the inbox's own appends, no sign-in.

## Plan

Done: the agent's driver, the tool calls of its steps, the write-behind
controller with its abstract specification, the coordinator with its
preparations, the job registry, the platform's accounts, the JSON-lines store,
the storage domain, request retries, schedules, goals and their rounds.

Next, in this order:

1. `SessionCoordinator`: an abstract specification (one history per id, of
   which the store holds a prefix) that it and `WriteBehind` implement together.
2. `AgentLifecycle`: creation, resumption and disposal by id, composed with an
   abstract driver; the registries hold one live agent per id.
3. `UserApproval`, `Subagent`: the other features with state that outlives an
   await.
4. `ModelGateway`: attribution of usage across a release.
5. Composition: a job's completion notice into an agent (`JobRegistry` with
   `AgentDriver`), and an agent's log through `WriteBehind`.

Proofs: of `JsonlLog`, what does not depend on the fold over a file's tokens:
that the steps of the file system which leave the readings alone implement
stutters of `CrashSafeLog`.
