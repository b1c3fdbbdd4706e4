# A verification of wf-builder's scheduler and workflow engine

The repository holds two programs:

- `n8n-master/`, the n8n workflow automation platform, a monorepo of some
  twenty-five thousand files. What is a protocol in it, run by several processes
  or callbacks against each other, is modelled here: the **durable scheduler**
  (`packages/@n8n/scheduler` with its statements in `packages/@n8n/db` and its
  callers in `packages/cli`) from the rules of a trigger node to the execution
  of its workflow, the **concurrency control** of a main, and the **leader
  election** among mains.
- `workflow-builder-main/`, a small Next.js application in which a workflow of
  webhook, code and response nodes is drawn, stored in Postgres and run by the
  **webhook engine** inside the request that calls it.

An occurrence of a schedule passes through the models in this order:

    JobProvisioner   a trigger node's rules become jobs        (scheduled_job)
    Materializer     due jobs become occurrences               (scheduled_task)
    TaskExecutor     an occurrence is claimed, fired, settled  (scheduled_task)
    LeaseReaper      ... or taken from an owner that vanished
    ScheduleTriggerRuns   its handler inserts an execution     (execution_entity)
    ActiveExecutions      which waits for capacity and runs

## 1. Inventory

### n8n

| component | state | operations | interacts with |
| --- | --- | --- | --- |
| scheduled-task store (`scheduled-task.repository.ts`) | one `scheduled_task` row per occurrence: status, attempts, claimedBy, leaseEpoch, leaseExpiresAt, runAt, startedAt, dispatchedAt | claim a batch, begin dispatch, mark dispatched, complete, fail, reschedule, release; find expired leases, reclaim, dead-letter, complete expired; record and prune rows | every part of the scheduler, one statement at a time |
| executor (`executor.ts`, `precision-timer.ts`, `task-handler.ts`, `backoff.ts`) | the timers it has armed, the map of claims still in hand, a stopping flag; nothing is persisted | claim and schedule, fire, stop | claims rows from the store, calls the handler of the row's type, is called back by it through `dispatched()` |
| lease reaper (`reap.ts`) | the rows of the sweep under way | sweep | the store only |
| scheduled-job store (`scheduled-job.repository.ts`) | one `scheduled_job` row per rule: schedule, nextRunAt; row locks | claim due jobs, insert, redefine, delete, advance | materializer, provisioning |
| materializer (`materialize.ts`, `plan.ts`) | the transaction under way | claim jobs, plan their occurrences, record them, advance the jobs, in one transaction | both stores, recurrence |
| provisioning and the registrar (`provision.ts`, `provisioner.ts`, `schedule-trigger-node-registrar.ts`) | the rules collected from a trigger node | insert, redefine, withdraw, seed the first window; remove a workflow | both stores, materializer |
| recurrence (`recurrence/`) | none | next run of a cron, every-N, interval or one-off schedule | pure |
| retention (`prune.ts`) | none | delete old rows in batches | store |
| pass loop (`loop.ts`, `timeline.ts`) | slots, passes under way | start passes at their slots, abandon a pass at its timeout, stop | runs materializer, executor, reaper and retention |
| schedule trigger handler (`schedule-trigger-task-handler.ts`, `execution-persistence.ts`) | deduplication keys of executions | turn an occurrence into an execution of its workflow | handler of the executor, active executions |
| concurrency control and active executions (`concurrency-queue.ts`, `concurrency-control.service.ts`, `active-executions.ts`) | a counter of slots, a line of waiting calls, the list of active executions; statuses of `execution_entity` | add, reserve, release, stop, shut down | workflow runner, wait tracker, execution service, startup |
| leader election (`multi-main-setup.ee.ts`, `leader-election-client.ts`) | one key with a time to live in Redis; the role of each main | init, check every interval, shut down | decides which main registers triggers and runs housekeeping |

### Workflow builder

| component | state | operations | interacts with |
| --- | --- | --- | --- |
| webhook engine (`app/api/webhooks/[id]`) | webhooks, execution histories, execution snapshots of nodes and edges, execution rows | answer a request: snapshot the workflow, walk it node by node, record each execution | graph tables, code runner |
| code runner (`services/CodeNodeServices.ts`) | one worker thread per code node | run code, with a timeout | engine |
| graph editing (`app/api/workflows`) | workflows, nodes, edges, webhooks | add, delete and rewire nodes, change node data | same tables as the engine, with no transaction around several statements |
| front end (`app/store.ts`, `hooks.ts`) | the graph on screen | sends the requests above | graph editing |

The rest of n8n - the node interpreter, the expression runtime, nodes, agents,
the editor - interprets data or talks to the outside. `PROJECT.json` lists every
component with the reason for what is left out.

### What is hard about it

Processes run the same code over the same rows, or calls over the same
counter, and everything one of them decides on was read before an `await`.
Claims arrive after the tick that asked for them was abandoned, timers fire
late, a marker write races the outcome of the handler that asked for it, a sweep
acts on rows that have been refreshed, settled or claimed anew since it read
them; two mains register the same node while a pass plans its jobs; a slot is
taken by a call that is then stopped, refused or cut short; replies of Redis
arrive after the key has expired. Writes fail, processes stop or die and come
back under the same name. What should hold nevertheless:

- one lease has one holder, a handler starts at most once per lease, and an owner
  whose lease has not run out keeps its row;
- every start is brought to an outcome or paid for with an attempt, outcomes are
  final, and every recorded occurrence is settled in the end;
- every instant a schedule names is recorded, once, for the definition that is
  current, whatever pass aborts and whoever registers the rule again;
- an occurrence delivered twice starts its workflow once, and none counts as done
  without an execution that began;
- a slot of the concurrency limit is given back once, and outlives its call only
  on the paths that are known to keep it; the line is fair and moves, and an
  execution is not run by two calls at once;
- two mains lead at once only where one is past its time to live, and leadership
  settles.

In the workflow builder every route is a sequence of statements with no
transaction around them, and nothing in the server checks the graph it stores:
saves, additions, deletions and calls interleave between any two statements,
and each statement may reject with the earlier ones already done.

- The stored graph is one the editor lets a user draw, so that a walk that
  never looks where it has been comes to an end;
- a call is answered, and the answer agrees with what was recorded of it;
- no execution stays open in a run that is closed, and a node that stops a run
  is the last one executed.

`PROJECT.json` lists the hazards one by one, at the line where each bites, with
the properties that watch it.

## 2. Plan

1. **Claim to outcome** (done): `ScheduledTaskStore`, `TaskExecutor`,
   `LeaseReaper`, `DurableScheduler` over the abstract `OccurrenceLifecycle`;
   safety, action properties and the refinement proved.
2. **Webhook engine and graph editing** (done, safety proved): `WorkflowGraph`,
   `WebhookEngine`, `WorkflowBuilder`.
3. **Jobs to occurrences** (done, safety proved): `Recurrence`,
   `ScheduledJobStore`, `Materializer`, `JobProvisioner`, `JobScheduling`.
4. **From occurrence to execution** (done, safety proved): `ScheduleTriggerRuns`
   over `DurableScheduler`.
5. **Concurrency control** (done, safety proved): `ConcurrencyQueue`,
   `ActiveExecutions`.
6. **Leader election** (done, safety proved): `LeaderElection`.
7. **To come, models**: the task broker (offers, requests, acceptance with a
   deadline); the pass loop (slots, abandoned passes, concurrency limit);
   retention (batch budgets); in the builder a registry of the paths and methods
   of two workflows, and the race of message, error, exit and timeout in the
   code runner.
8. **To come, proofs**: an abstract specification of one occurrence of a job (due,
   recorded, withdrawn, fired) that `JobScheduling` implements, in the way
   `OccurrenceLifecycle` stands above the executor; action properties of the
   job tables; whatever the models of item 7 need. Liveness stays with TLC.

## 3. Modules

| module | models | state |
| --- | --- | --- |
| `ScheduledTaskStore` | the table of occurrences and every statement of the executor and the reaper | `task` |
| `TaskExecutor` | the executor of every main | `inflight`, `fires`, `claimedTaskById`, `stopping`, `faults` |
| `LeaseReaper` | the sweep of every main | `sweep` |
| `DurableScheduler` | their composition; properties, fairness, the inductive invariant | all of these |
| `OccurrenceLifecycle` | what is promised of one occurrence, with no mains, leases or clocks | `stage`, `tries` |
| `Recurrence` | next and first runs, the walk and the plan of a schedule, and a reference for them | none |
| `ScheduledJobStore` | the table of jobs, its row locks, the statements on both tables | `now`, `job`, `task`, `lock`, `lastId`, `faults` |
| `Materializer` | the claim-plan-record-advance transaction of every pass | `pass` |
| `JobProvisioner` | the registration of a node's rules by several mains, and removal | `registration`, `begun`, `raced` |
| `JobScheduling` | both over one database, with time, clocks that differ, damaged rows and starts | all of these, `ran`, `behind` |
| `ScheduleTriggerRuns` | the handler of Schedule Trigger occurrences inside `DurableScheduler` | `execution`, `handoff`, `launches` |
| `ConcurrencyQueue` | the queue of one main and its reservations | `capacity`, `queue`, `isEnabled`, `held` |
| `ActiveExecutions` | the life of executions: add, check, run, put to wait, save, finalize, stop, time out, shut down, restart | `step`, `exec`, `status`, `cancels`, `entry`, `waits`, `attached`, `stopping`, `rerun`, ... |
| `LeaderElection` | the key in Redis and the checks of all mains | `key`, `ttl`, `role`, `command`, `reply`, `timer`, `lease`, ... |
| `WorkflowGraph` | the rows of one workflow, the routes that edit them, the drafts of the browser tabs | `nodes`, `edges`, `hooked`, `fresh`, `draft`, `saving`, `adding`, `deleting`, `faults` |
| `WebhookEngine` | the request that calls a webhook: copy, walk, record, answer | `pc`, `copy`, `next`, `currentNode`, `executions`, `history`, `answer`, ... |
| `WorkflowBuilder` | both, interleaved; properties and fairness | all of these |
| `DurableSchedulerProofs`, `SchedulerRefinementProofs`, `JobSchedulingProofs`, `ScheduleTriggerProofs`, `ActiveExecutionsProofs`, `LeaderElectionProofs`, `WorkflowGraphProofs`, `WorkflowBuilderProofs` | theorems and proofs | |
| `MCJobScheduling`, `MCActiveExecutions` | instances for TLC | |
| `MaterializerClaims`, `MCActiveExecutions`, `ScheduleTriggerClaims` | statements of comments that the code does not keep | |

### Claim to outcome

**A row is a record, a statement is a guard and a new row.** `runGuardedUpdate`
takes effect if `Owns` holds (status, owner and epoch, `repository.ts:547`),
`runReaperUpdate` if `ReaperOwns` does (epoch, lease still expired, marker as
read, 579); otherwise they touch no row, as an `UPDATE` whose `WHERE` matches
nothing. A claim takes any batch the `ORDER BY ... LIMIT` may return.

**One action per await.** A claim commits in `ClaimTick`; its rows reach the main
in `ScheduleClaimed` or, if the tick was abandoned or the main stopped
meanwhile, in `HandBackClaims`. A fire is a claim and the place where its code
has got to; each of its awaited statements is an action. The marker write that
`dispatched()` kicks off without awaiting it is a field of the fire (`mark`), so
that it settles at any time between the call and the outcome, which waits for
it.

**Time is relative.** A row holds the ticks left until `runAt` and
`leaseExpiresAt`; `Tick` counts both down and nothing else depends on the
clock. Timers are armed against the clock of the instance, which may differ
from the database's, and an event loop may be blocked: a timer goes off at any
time after it was armed.

**Faults** are a write that rejects (before or after it took effect, where the
code treats both alike), an aborted sweep, an abandoned tick, `stop()` and a
crash. All share one budget. A restarted process has lost its memory but not
its name.

Left out of the executor: the branch for a task type with no handler at fire
time (handlers are registered once and never removed, and a claim asks only for
registered types), and the reporting of errors.

### Jobs to occurrences

**A transaction is two or more actions**: it locks, keeps what it read, and takes
effect when it commits. `ClaimDueJobs` is the `FOR UPDATE SKIP LOCKED` of
`claimDue`; `RecordAndAdvance` everything between it and the commit;
`AbandonPass` an abort checkpoint, a failed statement or a crash.
`FindExisting` reads without a lock, `Write` takes the locks of the rows it
writes, `CommitRegistration` is the seed - a materializer pass over the rows just
written, on the time read before - and the commit. The unique index on names is
a lock on the name: a second insert of it waits. What the first main inserted
meanwhile is kept (`orIgnore`) and seeded all the same, without a lock, which
may set its clock back; that this leaves no gap is part of `NothingSkipped`.

**A rule is its schedule.** Its name carries a fingerprint of the schedule
(`schedule-identity.ts`), so a stored row differs from a rule of the same name
only when its columns are damaged (`Corrupt`), which is what redefinition
repairs. Versions of a workflow register different sets of rules (`RuleSets`).

**The calendar is abstracted to residues.** A cron expression matches one residue
of its cycle, a period of an every-N rule is a span of equal instants; parsing,
time zones and daylight saving are the libraries'. What the code adds to them -
the cadence, the first run, the walk, the batch that ends it - is modelled and
compared with a definition that does not walk (`ReferenceFires`).

**Three clocks.** `now` is the database's, on which jobs are due, windows are
sized and seeds are planned. The registrar computes first runs on `new Date()`
of its main (`Collect`), and the executor starts an occurrence on a timer of its
instance (`Start`); each of those shows any reading within `MaxSkew` of `now`
(`ClockReadings`), another one at every use, since `clock-skew.ts` reports a
difference and corrects none. `MaxSkew < PlanRetry` is assumed: a clock that is
an hour off, the default of `planRetry`, is beyond it. A rule whose recurrence
interval is not positive (`Degenerate`) is registered with no first run.

A seed row that another main deleted (`Gone`) makes the commit fail where its plan
has an occurrence to insert, and is passed over otherwise.

`since`, `def`, `ran`, `raced` and `behind` are history: the instant a clock was
last set by hand, how often a rule was redefined, what was started, the rules
removed while a registration was under way, and the rules registered on a clock
that had not reached an instant they had fired. The walk of a schedule is a
recursive function and no RECURSIVE operator, so that the modules stay within
the prover's reach.

### From occurrence to execution

`ScheduleTriggerRuns` refines the handler of `TaskExecutor`, which there is one
interval between `executing` and its end, into the steps of
`schedule-trigger-task-handler.ts`: the lookup of a tombstone, the delete and
insert in one transaction, the wait for capacity and the mark, the start, the
report, the return. Everything else of `DurableScheduler` runs around it. An
execution is `new` until it was marked, `started` afterwards; which delivery
inserted it is kept because a mark writes by id and misses a row that was
replaced. A process that restarts loses its handoffs and keeps the row.

### Executions

A call is a caller of `WorkflowRunner.run`: of a new execution (`Create`), of one
that waits and is resumed by its timer or its webhook (`Resume`), or of one found
enqueued at startup (`Rerun`). Its `step` follows it through `add` and the run to
its end. What is synchronous in the code is one action: `enqueue` takes a slot or
joins the line, `dequeue` gives one back *and* resolves the first in line, `remove`
takes a call out of the line and raises the counter. A resolved call continues in a
microtask and is in `held` from then on, until its `ConcurrencyCapacityReservation`
is released.

**The list of active executions is keyed by execution.** `entry` says which call
is listed for each; `Register` takes the place of whatever was there, and
`finalizeExecution`, `stopExecution` and `PutToWait` find whoever is listed by
then, which need not be the call that asks. `settle` is what follows when the
promise of an entry settles: the slot goes back, and the entry is removed unless
it waits.

**The end of a run is several steps.** A node may put the execution to wait
(`PutToWait`), the hook saves the row (`Save`, or `SaveRejects`, after which the
engine runs the hook once more), and `Finalize` comes some awaits later. A
waiting row can be resumed in between. A stop or a timeout settles the promise
and cancels the run, which goes on until its current node returns (`cancelled`),
with no slot; one that was stopped before it was attached runs to its end.

**Errors** meet a call at each of its awaits. In `add` the slot is released
(`MarkRunningFails`). A check before the run saves a failed run and finalizes it
(`CheckFails`; `processError` finalizes first and saves then, which is the same
to the slots). An error in reading the static data, in `getBase`, in
`setRunning` or in the hooks of a failed check rejects `run()` with nobody to
settle the entry (`RunFails`): the call is `cut` and keeps its slot.

`Stop` reads the row and `StopQueued` or `StopListed` act on it later, as
`ExecutionService.stop` awaits in between, and write `canceled` later still
(`cancels`, `WriteCanceled`). `Shutdown` disables the queue; `Exit` comes when the
listed executions have ended or `forceShutdownTimer` goes off; `Boot` keeps of
everything only the statuses, marks what ran as crashed and collects what is `new`.

`removals`, `stopped`, `crossed` and `resaved` are history, for the properties
to name what the code does not close: calls removed from the line, executions
stopped or timed out while listed, executions listed again before their earlier
call was settled, and runs whose first save was answered by an error.

### Leader election

Each command is two steps, its effect in Redis (`Execute`) and the handling of
its reply (`Handle`), and either may be lost. A check that finds the previous
one still under way does nothing. Time is in check intervals: `Tick` counts down
the time to live, the timers, and the *lease* of each main - how much is left of
its last set or renewal, a history of what Redis was told - and a command still
under way when it happens is a slow one and costs a fault. `Ends` is the end of
a process, whose successor has the same name in a container (`key` stays) and
another one elsewhere (`Gone`). A leader that shuts down while a renewal is
under way which finds the key missing still sends its `SET NX`, before or after
the deletion (`ReclaimLate`).

### Workflow builder

**One action per statement.** `SaveClears`, `SaveCreates` and `SaveEnds` are the
statements of `updateNodeAndEdges`; `AddNode` and `AddNodeEnds` those of
`addNode`; `DeleteUnlinks`, `DeleteFinds`, `DeleteUnhooks` and `DeleteRemoves`
those of `deleteNode`; the engine's actions carry the names of what the handler
does between one `await` and the next. Requests of one tab interleave too:
only the save button waits for a save, and a node is not deleted twice at once.

**Keys are kept by the database.** An edge needs both its nodes and exists once
(its id is made of its source and target); a node with an edge or a webhooks row
cannot be deleted; a node has one webhooks row. A statement that would break
this rejects, in the model as in Postgres, and the route ends as its `catch`
block says. `deleteNode` passes over the webhooks row of a node whose stored
data has no path or method (`DeleteFinds`); the form of the editor does not let
a user save such data, the route does not check it. Apart from that a statement
may reject as a fault, without effect.

**A tab** reads nodes and edges one after the other and then keeps a draft that
no one refreshes. What may be connected is what `customHandle.tsx` allows. A
tab that is reloaded or loses its connection is a new tab.

**Order of rows.** The walk follows the first outgoing edge in the order the
database returned, which is any: `CopyGraph` chooses for each node one of its
targets (`next`). `getValidConnectedNodes` keeps exactly the nodes the walk can
come to - an edge that leads to a node gives it an incoming edge - so the
condition at `route.ts:193` never holds and does not appear.

**Outputs** are known by the row they belong to. References to earlier outputs in
code and responses are data; what remains of them is that reading them may
fail. A response node whose parameters were never saved (`BareNodes`) cannot be
parsed, and cannot be answered with: both throw, in different `catch` blocks.
The creation of the copy's rows is one step: nobody else reads them, and a
rejection anywhere in it has the same consequence.

**One run is enough**: runs share nothing but the stored graph, which they only
read. A crash ends every run of the process.

`executions` may have at most `MaxRows` rows. A walk that would go round for ever
stops at this bound for lack of a step, and `EventuallyAnswered` would report it.

## 4. Runs

| run | instance | question |
| --- | --- | --- |
| `scheduler_safety` | 2 mains, 1 occurrence, 2 attempts, lease of 2 ticks, 2 faults; 864,776 states | all safety and action properties, the inductive invariant, that `DurableScheduler` implements `OccurrenceLifecycle`, and that every occurrence is settled in the end |
| `jobs` | 2 mains and 1 pass; a cron rule, an interval rule and a degenerate one; 2 registrations, 4 ids, 1 fault, 3 instants, clocks up to one off; 909 thousand states | what is recorded is what the schedules fire, without a gap, for the current definition, once but for the two kinds of rules that are excepted, and no due job is forgotten |
| `trigger` | 2 mains, 1 occurrence, 2 attempts, lease of 1 tick, 3 faults; 1.26 million states | redelivery starts no workflow twice and drops none |
| `executions` | 3 calls, 2 slots, a stop or timeout, an error, a shutdown or crash; 850 thousand states up to symmetry | slots add up and come back, and nothing is resumed twice, where a waiting execution can be resumed before its first call ended |
| `executions_line` | 3 calls, 1 slot, a stop or timeout, an error; 193 thousand states | who runs beyond the limit, that the line is fair, and that whoever waits is served |
| `leader` | 3 mains, time to live of 2 intervals, 2 faults, 1 shutdown or crash | a fresh leader has the key; leadership settles |
| `builder_editing` | 1 tab; a webhook, a code and a response node; 1 fault; 3.1 million states | the stored graph stays drawable whatever interleaves or breaks off |
| `builder_runs` | 1 run over every drawable graph of 5 nodes, 2 code nodes (one stops on error) and 2 response nodes (one bare), 2 faults | record, answer and end of a run |
| `builder_calls` | 1 tab and 1 run, a webhook and a code node, no faults | a call is answered while the graph is edited under it |
| `claim_real_fires`, `claim_startup_reruns`, `claim_tombstone` | the instances above, smaller | the disagreements of section 6 |

**Bounds of the scheduler.** Two mains give every race between an owner and another
party; a third adds a second copy of one of them. Two attempts make one that is
not the last and one that is. A lease of two ticks can be refreshed, run down in
part and expire; the lookahead of one tick with a backoff of up to two lets a row
be claimed before, at and after its time. `MaxEpoch = 6` leaves room for every
claim and reclaim that two attempts and the faults allow, so that the bound in
the guards of `claimDueTasks` and `reclaimExpired` stops nothing that matters.
Two faults allow a fault in the recovery from a fault. There is one
row: rows meet only in a batch that is claimed, swept or handed back together,
and a second one multiplies the states by more than a run can take with the
rest. That one row of a batch does no harm to another is left to the theorems,
which hold for any number of tasks.

**Bounds of the other n8n runs.** In `jobs` two registrations are a first and a
redefining, one and another after a removal, or two that race; four ids leave
enough for a name that was deleted and inserted again; a batch of one makes jobs
wait for each other; a lookahead longer than the window is the configuration
`createScheduler` only warns of. With clocks up to one unit off, the executor's
may be one ahead where the registrar's is one behind: two instants apart, enough
to fire one and to register the rule before it. Passes skip each other's locks,
so a second pass adds only the case that its rows are skipped, which a
registration's locks give as well. The plan of each schedule is compared with its
reference once, for every first run up to 5, time up to 9 and batch up to 4,
which covers a walk of several periods. `trigger` needs three faults for a crash,
its recovery's crash and a lost marker.
In `executions` two slots and three calls let an execution be resumed while its
first call still holds a slot and a third call waits for one; in
`executions_line` one slot and three calls make a line of two, in which somebody
is overtaken if somebody can be, and a slot that is kept is all there are. Both
have one stop, one error and, in `executions`, one restart, each of which can
meet every step of the others. Three
mains are a leader, a successor and a rival.

**Bounds of the builder.** Three nodes are enough for every way edges can share an
end or a save and a deletion can meet on a node; five nodes give walks with a
stop, a failure that continues, a skipped node, a response and a bare response in
any order. `builder_editing` and `builder_runs` fit together: the first shows that
what is stored can be drawn, the second takes any graph that can be drawn.
`builder_calls` adds what neither has, a graph that changes between the reading
of its nodes and of its edges; a node that can be entered from itself is the
smallest circle, so two nodes suffice for it.

`CHECK_DEADLOCK` is off where calls, requests, registrations and workflows end
and nobody has to make another. In the scheduler's runs, `trigger` and `leader`
it is on. The last step of every behaviour of the scheduler is `Settled`, an
explicit stutter when all rows are terminal: a state in which an unfinished row
had nobody left to work on it would be a deadlock unless the clock can still
move.

`StoredIsDrawable` is checked for **one** tab because it does not hold for two:
each of two saves clears the edges before either creates its own, and the
mixture may enter a node twice or close a circle, on which a call never ends.
The server has no rule against it. In the same way `WorkflowGraph` reaches, with
one tab and no fault, a webhook node without its webhooks row - deleted while a
save puts an edge back, so that the row goes and the node stays - and two
response nodes, dropped before the first was answered. Those are states that
`builder_runs` and `builder_calls` start from or pass through, not violations of
their properties.

**`Prompt`** in `trigger` says that a handler takes less than a tick of the
database clock, which holds where no concurrency limit makes it wait: its steps
are a few statements, and the lease is a minute by default. With it off the two
properties fail, as `claim_tombstone` shows: a second delivery replaces the row
of a living first one. The executor around it still stops and crashes at every
step.

**Fairness** is weak throughout. *Scheduler*: the loops of a main that is not
stopping run again and again (`loop.ts`), so claims and sweeps happen as long as
there is something for them; promises settle (statements have timeouts);
handlers end; the clock runs; a stopped process is started again. *Jobs*: passes
start for ever, and a transaction that holds locks ends, by commit or rollback
(its statements have timeouts); nobody has to register anything. *Executions*: a
call in `add` goes on, a workflow ends, a shutdown exits. *Leader election*:
mains are started again, check in every interval and get answers; the clock
runs. *Builder*: a call that can take its next step takes it (statements come to
an end, and `runJsScript` ends code by its timeout); nobody has to edit, to
call, or to finish a save. Nothing is assumed about faults anywhere: all may
happen, up to the budget.

**Every property can be broken**: each is run against a change of the code's
statements or conditions under which it is violated - an epoch that starts anew
with every claim, a fence without the status, a reaper that does not ask again
whether the lease is expired, a claim that does not lock, a clock advanced
outside its transaction, a retry that empties the clock, any row taken for a
tombstone, a slot given back twice or kept by who waits, a first run at the very
instant it is registered, a key set without expiry, a save that does not clear,
a stop that does not stop. These changed operators stand before the ones they
replace, marked "a bug to detect".

## 5. Proofs

Everything below holds for any number of mains, tasks, calls and faults and any
value of the other constants within the named assumptions.

| theorem | module | says |
| --- | --- | --- |
| `Invariance` | `DurableSchedulerProofs` | `Spec => []IInv` |
| `TypeCorrect` | | `[]TypeOK` |
| `LeaseHasOneHolder` | | `[]SingleOwner` |
| `HandlerStartsOnce` | | `[]DispatchMutex` |
| `BudgetIsKept` | | `[]RetryBudget` |
| `HandoverIsClean` | | `[]CleanHandover` |
| `DispatchedIsNotFailed` | | `[]DispatchedNotFailed` |
| `StartsCost` | `SchedulerRefinementProofs` | `StartsAreCounted`, an action property |
| `OutcomesAreFinal` | | `OutcomeIsFinal`, an action property |
| `DispatchedIsKept` | | `ReaperKeepsDispatched`, an action property |
| `OwnersKeepTheirLease` | | `LeaseHonoured`, an action property |
| `LifecycleIsImplemented` | | `ImplementsLifecycle`: the scheduler refines `OccurrenceLifecycle` |
| `SlotInvariance` | `ActiveExecutionsProofs` | `[]SlotInv` |
| `ExecutionsTypeCorrect` | | `[]TypeOK` |
| `SlotsAlwaysAddUp` | | `[]SlotsAddUp` |
| `SlotsReturned` | | `[]SlotsComeBack` |
| `OverrunBounded` | | `[]OverrunOnlyByStops` |
| `NobodyWaitsForAFreeSlot` | | with a line, at least `Limit` reservations are held |
| `ServedInOrder` | | `FirstComeFirstServed`, an action property |
| `ExecutionsRunOnce` | | `[]ResumedOnce` |
| `LeadershipInvariance` | `LeaderElectionProofs` | `[]LeaderInv` |
| `ElectionTypeCorrect` | | `[]TypeOK` |
| `LeadersHoldTheKey` | | `[]FreshLeaderHoldsKey` |
| `OneLeaderAtATime` | | two leaders within their time to live are one |
| `JobInvariance` | `JobSchedulingProofs` | `[]JobInv` |
| `JobTypeCorrect` | | `[]TypeOK` |
| `PendingOfCurrentDefinition` | | `[]PendingIsCurrent` |
| `OneInstantOneFire` | | `[]NoDoubleFire`, on clocks up to `MaxSkew` off |
| `AgreeingClocksFireOnce` | | with `MaxSkew = 0`, without its second exception |
| `PlansRecordTheFires` | | `planOccurrences` agrees with its reference for every schedule it can plan, first fire, time, window and batch |
| `PlansAgree` | | `[]PlansMatchReference` |
| `NoInstantFallsThrough` | | `[]NothingSkipped`, if each period of an every-N rule holds a match |
| `HandlersFitTheScheduler` | `ScheduleTriggerProofs` | `TriggerSpec => Spec`: with its handlers, the scheduler is still the scheduler |
| `TriggerInvariance` | | `[]TriggerInv` |
| `TriggerTypeCorrect` | | `[]TriggerTypeOK` |
| `WorkflowsStartOnce` | | `[]StartedAtMostOnce` |
| `NoneDoneUnstarted` | | `[]SucceededHasExecution` |
| `GraphTypeCorrect` | `WorkflowGraphProofs` | `[]GraphTypeOK`, for any number of tabs |
| `OneTabStoresDrawable` | | `[]StoredIsDrawable`, for one tab |
| `BuilderTypeCorrect` | `WorkflowBuilderProofs` | `[]TypeOK` |
| `CompletedRunsAreSettled` | | `[]CompletedIsSettled` |
| `AnswersMatchTheRecord` | | `[]AnswerMatchesRecord` |
| `StoppingEndsTheWalk` | | `[]StopEndsTheWalk` |
| `TheLastOutputAnswers` | | `[]LastOutputAnswers` |
| `NoNodeTwiceWhileEdited` | | `[]NoNodeTwice` while one tab edits the graph |
| `NoNodeTwiceOverDrawn` | | `[]NoNodeTwice` over any graph that can be drawn |

Every invariant and every action property that a passing run checks is stated by
one of these; what the runs add to them is liveness.

**Assumptions**: those the modules name. In the scheduler, `Nobody` is no main,
the budgets and times are naturals, the attempts, lease and batch size not zero,
and a backoff stays below its cap (`BackoffAssumption`, since exponentiation is
not something the provers compute with). Of executions, that the calls are
finitely many, that `NoCall` is none of them, that the limit is positive and the
budgets naturals. Of the election, that the time to live is longer than a check
interval and that `Nobody` and `Gone` name no main. Of jobs, that there are
finitely many names, each the name of a schedule that `toSchedule` can make,
that `Null` is no number, no row and no registration, that a version of a
workflow registers at least one rule, that degenerate rules are names, and that
clocks differ by less than the deferral of a retry (`SkewAssumption`). Of the
builder, that the distinguished nodes are nodes of their kinds, that faults are
a natural and that a run may record at least one row.

Four theorems have a hypothesis beside these, which the runs fulfil. `OneTab`: one
browser tab edits (with two, `StoredIsDrawable` is false, see section 4); the
remaining theorems of the builder hold for any number. `Prompt`: a handler is
done within a tick of the database's clock (without it they are false, see
`claim_tombstone`); all theorems of `ScheduleTriggerProofs` but the first take
it. `AllCadenced`, of `NoInstantFallsThrough`: a rule every N periods matches in
each period. `PlansAgree` asks the same, or a one-off, of the schedules whose
plans the run compares. Outside of it is a rule that names the thirty-first day
of every N months: some periods hold no match, the code then counts from the
next one that does, and no theorem speaks of where it goes.

**The scheduler's invariant.** `DispatchMutex` speaks of fires that own their
row. To preserve it through `ScheduleClaimed` one must know that a claim *on its
way* finds its row unstarted; to know that, that no other party holds its epoch;
to know that, that no one remembers an epoch the row has not reached yet.
`RetryBudget` must survive `RecordOutcome`, which decides on the attempts of the
claim and not on those of the row. `IInv` therefore says what each party that
remembers a row - a fire, a claim on its way, a sweep - knows about it *as long
as its fence would let it write*:

- `SingleOwner` and `EpochsReached` make fences exclusive and let a bump of the
  epoch shut out everyone who remembers an older one;
- `MemoriesAgree`: the attempts a party remembers are the row's; a claim's row
  is unstarted; a fire's row is started exactly when its handler was;
  the marker is on the row only if the fire's write of it has settled;
- `RowConsistent`: what the statements keep of a row whoever runs them;
- `TrackedIsArmed`: an entry of `claimedTaskById` is for a timer that is armed
  (without it, `Stop` could turn a running fire into a releasing one).

The proof has one lemma per action. Those of the fires share three: `FireWrites`
(an owned row gets a new value, and only its owner could have cared),
`FireMoves` and `FireEnds` (the same with the fire going on or ending);
`ReaperWrites` is their counterpart for the sweep, `BatchBecomesFires` for claims
that turn into fires, and `ClaimedRow`, `UnclaimedRow`, `RetriedRow`,
`SettledRow`, `CountdownRow` say that each way of writing a row keeps it well
typed and consistent.

**Action properties and refinement.** `NextTableStep` classifies, from `IInv`, what
any step does to the table: nothing but the countdown, a batch of claims, or to
one row one of a handful of things - a dispatch begins, the marker is set, an
outcome, a release, a retry, a sweep's verdict - each with what it needs to have
found there. The four action properties and the refinement are read off this
classification, and none of them looks at an action of the scheduler again. The
refinement maps a row to its stage (queued, held, started, dispatched, succeeded,
failed) and its attempts; each kind of row step is a step of
`OccurrenceLifecycle` or a stutter.

**The slots.** `SlotsAddUp` alone is not inductive: `resolveNext` takes the head of
the line and assumes that it waits. `SlotInv` adds that the line holds calls that
are reserving, each once and none with a slot (`Lined`, `StepsOfSlots`), and that
whenever there is a line the counter and its length add up to at most zero
(`LineShort`), so nobody waits beside a slot that is free. The lemmas
on counting (`CountGains`, `CountLoses`) and on the line (`LineGrows`,
`LineShrinks`, `RemoveAtKeepsOrder`) carry it; `FirstComeFirstServed` follows from
what each operation does to the order of the line.

None of this says that a slot comes back. That rests on who is listed, since a run
that ends settles whoever is listed for its execution. `OwnInv` says of executions
that nobody stopped and that were not listed again too early that a call of
theirs which is under way holds a slot, is listed itself and was not cancelled
(`Backed`), and that an entry is listed under its own execution (`EntriesFit`): so
the run that ends settles its own promise, which is `SlotsComeBack`, and each
execution under way is one of the reservations, whose number `SlotInv` bounds,
which is `OverrunOnlyByStops`. Both speak of a queue that is enabled: in a
shutdown nothing is given back on purpose.

`ResumedOnce` needs an invariant of its own (`ResInv`), which relates each call's
step to the status of the row it works on - a call past the mark is the one that
moved the row out of `waiting`, and the row waits again only when its run has
saved it - and what a restart finds.

**The election.** `FreshLeaderHoldsKey` does not survive a step of Redis on its own,
since the reply that makes a main a leader comes later. `LeaseIsBacked` says it
of everybody who was granted the key, whatever it has heard of it: the key
names it for at least as long as it may count on it. `LeavingClears` says who
may still delete the key: the command under way of a main is a deletion, or the
claim that follows one, exactly while that main shuts down, so no reply makes a
main a leader that is on its way out.

**The jobs.** Nothing here is held by one actor from beginning to end: a pass and a
registration act on rows they read before, some under a lock and some without.
`JobInv` says for each of them what its knowledge is worth:

- what a pass or a registration has locked nobody else changes, so it commits
  what it planned on (`PassesHold`, `MainsHold`);
- what a registration read without a lock is, when it comes to write, unchanged
  or recognisably another row, by its id (`FreshFound`, `FreshWritten`,
  `ReservedUnseen`);
- what a removed job fired lies before everything that may still start under its
  name (`RetiredBefore`), unless the rule is one that `NoDoubleFire` excepts: what
  is registered anew starts after the reading of its main's clock, and a rule that
  had fired at a later instant than that reading is in `behind`.

`PendingIsCurrent` and `NoDoubleFire` are conjuncts of it.

*Plans.* What the walk of a schedule computes is proved without an induction
over data: a walk is a function of the number of its steps, and the first step
at which it would leave the fires of the reference, if there were one, is a
least number, whose predecessor contradicts it. `NextFire` says that one step
goes from a fire to the next one with none between, `WalkFires` that so does a
walk, `PlanFires` that a plan stops where the window or the batch ends and
leaves the clock at the first fire it did not record.

*Nothing skipped.* `SkipInv` adds to `JobInv` that every fire before a row's clock
has its occurrence (`StoreCovered`), and that this is so of the rows a
registration will seed, though it computes their window on the time and the
clock it read before (`SeedCovered`, `WrittenAnew`). Occurrences are removed only
with the job they name, by id; that ids of rows in use and of rows about to be
written differ (`StoredIdsDiffer`, `ReservedIdsDiffer`) keeps such a removal away
from everybody else's.

**Occurrence to execution.** `HandlersFitTheScheduler` carries every theorem of the
scheduler over: each step of a handler is a step of the scheduler or leaves its
state alone. `TriggerInv` relates the delivery that is inside a handler to the
row in `execution_entity`: under `Prompt` no tick falls into a handler, so the
delivery owns its task's row with time left on its lease, and no second delivery
can come between its insert and its start. Whoever finds a row that has not been
started is then looking at a delivery that ended, and may replace it; whoever
finds one that has been started leaves it. A task that succeeded does so only
behind one or the other.

**The graph.** Whether the stored edges can be drawn is not kept by a save, which
empties them and puts them back one by one. `GraphInv` says of one tab that the
stored edges together with those the save still has in hand can be drawn, as can
what the tab shows: a save starts from nothing and its edges come from the
drawing, and a deletion in between only takes edges away.

**The engine.** `EngineInv` is local to a run, so that no step of another run or
of an editor can disturb it: where the walk stands, what its last row records,
when rows are settled, what a stopped node implies, and which output was the
latest one. `RouteInv`, for `NoNodeTwice`, says that in the copy no node is
entered from two, and that every node the run has passed through was entered
from one of them other than the node at hand, whose successor is therefore new;
the two theorems differ in where that comes from, the invariant of the graph
while it is edited or the graph the run starts with.

**Model-checked only**: liveness (`EventuallySettled`, `EventuallyServed`,
`EventuallyRecorded`, `EventuallyOneLeader`, `EventuallyAnswered`), which rests
on fairness and `ENABLED` and is beyond the prover.

## 6. Where comments and code disagree

Three are properties that a run finds violated.

- **`OccurrencesAreFires`** (`claim_real_fires`). `next-run.ts:83` asks that the walk of
  an every-N schedule start at a real fire. A job whose planning failed once gets
  the instant of its retry as its next run (`materialize.ts:181`), and the pass
  that heals it records that instant as an occurrence.
- **`EnqueuedRunsAtStartup`** (`claim_startup_reruns`). `start.ts:529` says that an
  execution found enqueued runs or is queued. Its row is `new`, `add` resumes only
  a row that is `waiting` (`active-executions.ts:129`), and it is refused; nothing
  awaits the promise, and the execution stays `new`.
- **`ReclaimedIsAbandoned`** (`claim_tombstone`). `execution-persistence.ts:151` says that
  a tombstone asserts an effect that never happened. In regular mode under a
  concurrency limit the row of a living delivery that waits for capacity looks
  the same; a delivery after its lease deletes it, and both start the workflow.

Others were met while modelling. The models reproduce the code's behaviour; no run
is kept for these.

- `task-handler.ts:24` says that once a handler has called `dispatched()` the
  occurrence must not be retried even if the rest of `execute` throws.
  `executor.ts` consults the marker only on the last attempt (278); with attempts
  left it reschedules (298) and clears the marker.
- `executor.ts:65` says that an owner that is alive keeps its refreshed lease, so
  that no second handler overlaps it. The lease is refreshed once, when dispatch
  begins (231); a handler longer than its lease is reaped and the next claim
  starts another beside it. What does hold is `LeaseHonoured`.
- `executor.ts:329` says that `stop()` releases the claims whose timers it cancels.
  `claimedTaskById` is keyed by task id alone: if a main's claim was reaped while
  its timer was armed and the main claims the same occurrence again, the older
  timer's firing deletes the newer entry (191), and `stop()` releases nothing;
  the row waits for its lease to expire.
- `schedule-trigger-task-handler.ts` says that a delivery that finds its execution
  already there reports no dispatch "and the executor writes no marker".
  `executor.ts:310` writes it for every handler that returns, as
  `task-handler.ts:48` says.
- A stop that arrives between the reservation and the run is lost: the row is
  cancelled, and `runMainProcess` marks it as running again
  (`workflow-runner.ts:387`). If the call was listed by then its slot is given back
  and its workflow runs without one.
- An error before the `try` of `runMainProcess` (`workflow-runner.ts:337`, 368, 387)
  or in the hooks of `failExecution` rejects `run()` and settles nothing: the slot
  is held for the life of the process. With as many of them as the limit nobody
  is served any more, which `EventuallyServed` excepts.
- `finalizeExecution` and `stopExecution` look up the entry by execution. A waiting
  execution that is resumed between the save of its row and the end of its first
  call is listed anew (`active-executions.ts:155`); the first call then settles the
  second one's promise, whose slot goes back while it runs, and keeps its own.
- A stop of an execution that waits deletes its entry and settles nothing
  (`active-executions.ts:228`); if its run had not been finalized yet, its slot is
  kept.
- A stop or a timeout of a running execution gives its slot back at once
  (`active-executions.ts:233`), while its current node still runs. `SlotsComeBack`
  and `OverrunOnlyByStops` except the executions of these last three (`stopped`,
  `crossed`), and `ResumedOnce` those whose run saved twice (`resaved`).
- `executions.config.ts:20` of `@n8n/config` calls the limit the "max production
  executions allowed to run concurrently". Stopping an execution that waits in line
  wakes the next one with no slot to give it (`concurrency-queue.ts:52`): one more
  runs than the limit, which `OverrunOnlyByStops` counts (`removals`).
- A call taken out of the line by a stop is never answered: its promise neither
  resolves nor rejects (`concurrency-queue.ts`, `remove`).
- At shutdown the queue is disabled before `removeAll` is called, which does
  nothing on a disabled queue (`active-executions.ts`).
- A leader that shuts down deletes the key whoever it names
  (`multi-main-setup.ee.ts:73`, which says so as a TODO). `cleared` marks the main
  this happens to; both properties of the election except it.
- `clock-skew.ts` calls a difference between clocks a matter of firing early or late.
  A rule that fired on a clock ahead of the registering main's, and is removed and
  registered again, has its first run at the instant it has fired already, under
  a new id: it fires twice (`schedule-trigger-job-registrar.ts:187`).
  `NoDoubleFire` excepts such a rule (`behind`).
- A leader that shuts down with a renewal under way may set the key after it
  deleted it (`multi-main-setup.ee.ts:157`); nobody leads until it expires.
- A rule removed while another main registers the same node may be inserted again
  and fire a second time for one instant; `NoDoubleFire` excepts such a rule
  (`raced`).
- Workflow builder: the catch block of the walk marks a run whose node failed with
  onError STOP as FAILED (`app/api/webhooks/[id]/route.ts:283`); the statement
  behind the loop (297) then marks it COMPLETED, and the caller gets a success.
- After a failure that lets the run continue, the catch block moves to the next
  node (287) and the loop, which starts with "Move to next node" (184), moves
  again: one node is neither executed nor recorded.
- With respondType IMMEDIATELY, the default, the caller is told "Workflow Started"
  (168); the handler returns there, nothing is executed, and the run stays
  PENDING.

## 7. Not modelled

**Scheduler.** Retention (it deletes settled rows that nothing reads again) and the
queries of the insights; the pass loop, of which the models take the effect on a
pass - an abandoned tick hands its claims back, an aborted sweep or transaction
ends where it is; the clock-skew probe, which reports the skew
the models have and changes nothing; tracing and
metrics; SQLite's serial claim, which returns a subset of what the Postgres
claim modelled here may return; the scan cap of an every-N rule; two rules of
one schedule in one node.

**Executions.** Queue mode: the queue is a library whose contract the repository
does not state. The evaluation queue, which is a second instance of the same
class; response promises, streaming, manual runs, sub-workflows and retries of
executions.

**Other parts of n8n.** The task broker and its runners are next in the plan. The
node interpreter depends on node code and item data; the expression runtime,
nodes, agents and the editor are data transformation, integration and user
interface. They make up nearly all of the repository's lines: what is modelled
here is a small share of the code, and most of what in it is concurrent.

**Workflow builder.** Paths and methods of webhooks and their conflicts between
workflows; the text of code, references and responses (the answer of a response
node is its stored text, `route.ts:312`, while its row records the text with
references replaced); the settings `retryOnFail`, which the engine ignores, and
`timeout`, which no form saves; several webhook nodes in one workflow; runs left
PENDING by a crash, which nothing looks for again.
