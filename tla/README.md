# Verification of the HiveWright dispatcher

HiveWright runs "hives" of AI workers. The owner states goals; a supervisor
agent plans each goal in sprints of tasks; a dispatcher process claims the
tasks, runs an agent for each, and wakes the supervisor when a sprint has
settled. Everything durable is in PostgreSQL. Everything else (timers, claim
loops, child processes, wake-ups) lives in the dispatcher and is lost when it
dies. The behaviour that is hard to get right, and that unit tests hardly reach,
is what happens when those activities interleave on the same rows: it is what
this directory models in TLA+, checks with TLC and, for the most important
properties, proves with TLAPS.

Paths are relative to the repository root, which is mounted at `src/`;
`PROJECT.json` maps every definition to the lines it models.

## 1. Inventory of the system

### 1.1 Parts that carry the core logic

**Task claiming** (`src/src/dispatcher/task-claimer.ts`). State: the `tasks`
rows (status, `dispatcher_pid`, `retry_after`), per-role advisory transaction
locks. Operations: `claimNextTask` (candidate roles, one try-lock per role, a
count-and-update with `FOR UPDATE SKIP LOCKED`), `releaseTask`, `completeTask`,
`blockTask`, `failTask`. Hard: two dispatchers or two loops count the active
tasks of a role at once. Correct when no role exceeds its `concurrency_limit`
and no task is given to two processes.

**Dispatcher process** (`src/src/dispatcher/index.ts`, `listener.ts`,
`bundle-watcher.ts`). State: `activeTasks`, `claimingTask`, `drainRequested`,
`shuttingDown`, about twenty timers, NOTIFY listeners. Operations: the claim
loop `processNextTask`, `executeTask`, the watchdog loop, the goal lifecycle
poll, comment handling, drain and shutdown. Handlers are not serialised: each
`await` lets another one run. Hard: flags tested before an `await` and set
after it, slots given back in `finally` handlers, work started during a drain.
Correct when slots are neither lost nor duplicated, the cap is respected up to
a known overrun, and the loop never stops for ever.

**Watchdog and startup recovery** (`src/src/dispatcher/watchdog.ts`). State: the
heartbeat and start time of a row, the PID probe. Operations:
`recoverInterruptedActiveTasks`, `findStuckTasks`,
`recoverDiskPressureBlockedTasks`. Hard: recovery acts on rows it selected
earlier; a PID may have been reused; a timed-out execution keeps running.
Correct when no task has two executions unless somebody rewrote its row, and no
row stays active for ever with nobody working on it.

**Goal lifecycle and supervisor wakes** (`src/src/dispatcher/goal-lifecycle.ts`,
`supervisor-wake-reconciliation.ts`). State: `goals.session_id`,
`last_woken_sprint`, `updated_at`, the per-goal wake lock, the in-memory
`inFlight` and `fired` sets. Operations: detection of new goals, settled
sprints, stale starts, orphaned wakes, reconciliation candidates; claim and
revert of a sprint wake; the wake lock; the queue of owner comments. Hard:
three detectors and a boot sweep act on one mark, from lists that can be hours
old. Correct when one supervisor runs per goal, a wake has one owner, and no
settled sprint is forgotten.

**Supervisor start guard and runs** (`src/src/goals/supervisor-start-guard.ts`,
`supervisor.ts`, `supervisor-codex.ts`, `supervisor-openclaw.ts`). State: the
session claim and the durable progress since it. Operations: claim, finalise,
release a start; run, terminate. Hard: a start that fails half way.

**Goal completion** (`src/src/goals/completion.ts`): closes a goal, clears its
session and cancels its open tasks. Called by the supervisor's own tools while
the dispatcher holds the wake lock for that run.

**Failure handling and doctor** (`failure-handler.ts`, `mark-unresolvable.ts`,
`src/src/doctor/`, `environment-fix.ts`). State: `tasks.status`, `retry_count`,
`doctor_attempts`, the child tasks `[Doctor]` and `[Env fix]`, the recovery
budget of the failure family. Operations: retry with backoff, giving up, parking
a task behind an environment repair, a diagnosis (rework, fix, escalate, split),
the fallback doctor, the watchdog's rescue of blocked tasks, the cancel route.
Hard: the watchdog and an execution handle the same failure, every statement is
a commit of its own, a dispatcher dies between two of them. Correct when retries
and doctors are bounded, a blocked task is taken up again, and every task comes
to rest.

**Quality review** (`qa-router.ts`, `quality/`). State: the task's row, its
`[QA]` children, `[Replan]` tasks, decisions of the owner. Operations: routing
to review, applying a verdict, the cap, two rescues by the watchdog, the owner's
answer. Hard: the task and its review are closed by different statements, and a
released row can be delivered twice. Correct when what is completed is what was
reviewed, rework is bounded, and no task waits in review for ever.

**Recovery loop guard and runtime replan** (`runtime-replan.ts`,
`recovery-loop-guard.ts`, `recovery/`): bounds how often a failed goal plans
its own repair. Correct when every chain of recoveries ends.

**Pipelines** (`src/src/pipelines/service.ts`). State: `pipeline_runs` (status,
`current_step_id`), `pipeline_step_runs`, one task for each step. Operations:
start, completion with advance, failure, drift checks and retries. Hard: the
completion of a step, its failure and its review race in transactions that lock
the same three rows. Correct when a step runs after its predecessor only, a run
ends once, and the transactions never wait for each other.

**External actions** (`src/src/actions/`). State: one row of
`external_action_requests` for an idempotency key, the decisions that ask for
its approval. Operations: request, approve, reject, execute. Hard: repeated
calls and repeated clicks; most statements go by id and hold nothing. Correct
when the connector acts once, only with leave, and an outcome stays.

**Output streaming** (`task-log-writer.ts`, the stream routes of tasks and
goals, `live-activity-panel.tsx`). State: `task_logs`, the notifications, the
endpoint's buffer, what the panel has seen. Operations: write and notify,
listen, replay, drain, forward, reconnect. Hard: writes overlap, ids commit out
of order, notifications are lost, connections break. Correct when no line is
shown twice and none is passed over while nothing goes wrong.

**Execution runs and capsules** (`execution-runs/`, `execution-capsules.ts`),
**schedules** (`schedule-timer.ts`), **decisions** (`decisions/`,
`decision-escalation.ts`), **budgets** (`budget-policy.ts`): protocols with a
status column. Correct when each effect happens once and a closed item is not
reopened by a late answer.

### 1.2 Parts without a protocol of their own

The concurrency controller is arithmetic over metrics. The initiative engine,
operating loops and the hive supervisor create or inspect work on a timer.
Adapters and model routing are external processes. Memory, notifications,
credentials and connectors are I/O. The dashboard is views, except the routes
that change a task or a goal. They are listed in `PROJECT.json` with the reason.

### 1.3 How the parts interact

- *Through rows.* Claimer, watchdog, recovery, routes and executions all update
  `tasks.status`; poll, immediate check, reconciliation, boot sweep and
  supervisor tools all update `goals`. Some updates are guarded by the expected
  old value (claim, recovery, sprint claim and revert), some go by id only
  (completion, failure, block, the decision route).
- *Through advisory locks.* `hivewright:task-claim-role:<role>` for one claim
  transaction; `hivewright:goal-supervisor-wake:<goal>` for one supervisor run.
- *Through memory of one process.* `activeTasks`, `claimingTask`, `inFlight`,
  `fired`. Two dispatchers (an old one draining, a new one starting) share none.
- *Through row locks.* The pipeline transactions take the step run, the run and
  the task in this order; a claim takes the task and then its step run.
- *Through child tasks.* A doctor, a review, a replan or a repair is a task of
  its own; what it does to its parent is written when it ends, and most of these
  writes do not look at what happened to the parent meanwhile.
- *Through NOTIFY.* New tasks, comments and log lines are announced; a
  notification can be missed, so each has a poll or a replay beside it.
- *Through calls.* `executeTask` ends with the immediate sprint check and then
  calls `processNextTask` again when the slot is free.

## 2. Modules

| module | what it is |
| --- | --- |
| `TaskQueue` | abstract: a queue that leases its tasks within the limits of their roles |
| `TaskClaim` | claim path, executions, recovery, watchdog, process life cycle |
| `TaskClaimProofs` | type correctness, the role cap, the refinement of `TaskQueue`, proved |
| `SprintMark` | abstract: a mark that whoever raised it alone moves |
| `GoalWake`, `GoalWakeProofs` | starts and wakes of the supervisor of one goal |
| `CommentWake`, `CommentWakeProofs` | the queue of comments that wake the supervisor of one goal |
| `OutputLog` | abstract: a log whose reader sees each line once, in order while it is calm |
| `OutputStream`, `OutputStreamProofs` | log rows, notifications, the stream endpoint and the panel |
| `FailureFlow`, `FailureFlowProofs` | one failing task: handlers, doctors, repair, watchdog, cancellation |
| `ReviewedWork` | abstract: a task that is made and judged in turn |
| `QualityReview`, `QualityReviewProofs` | one task under review: deliveries, verdicts, rescues, the owner |
| `OneAction` | abstract: an action that is answered once, acts at most once, and ends |
| `ExternalAction`, `ExternalActionProofs` | one external action: calls with one key, the owner's answers |
| `StepLine` | abstract: steps that are done one after the other |
| `PipelineRun`, `PipelineRunProofs` | one pipeline run: its steps' tasks, transactions and row locks |
| `MC...` | the instance of each for TLC: constants, constraints, symmetry |

Each module models one task, goal, action or run where these share nothing with
another one but what is named as such; `TaskClaim` has several tasks because
roles and slots are shared. The modules meet in the statuses of a task row and
in the locks: `OtherTakes` in `CommentWake` is a call of `GoalWake`, a claim in
`FailureFlow`, `QualityReview` and `PipelineRun` is one step where `TaskClaim`
has seven (and is shown to be one step, `QueueImplemented`), a failure in
`PipelineRun` and `QualityReview` is `FailureFlow`'s.

### 2.1 `TaskClaim`

A task is a natural number, its place in the claim order. `status`, `owner` and
`ready` are the row: `owner` is `dispatcher_pid`, `ready` stands for the other
conditions of the claim's WHERE clause (`retry_after`, paused hive, goal
status). A dispatcher process is `phase`, `pid`, `halt` (drain or shutdown),
`activeTasks`, `claimingTask`; an execution is a count in `runs` until its last
row write and in `ending` until its promise settles.

One invocation of `processNextTask` is a pair of a dispatcher and a call. It
moves through `pc`, one step for each `await` after which something else may
have happened:

    idle -Enter-> cap -ReadCap-> disk -DiskRecover-> loop
    loop -BeginClaim-> roles -TryRoleLock-> update -UpdateRole-> commit
    commit -Commit-> gate -GateAllow or GateBlock-> loop -LoopExit-> idle

`Enter` tests `claimingTask`, `ReadCap` sets it: the `await` of
`getLiveMaxConcurrent` lies between, so calls overlap. A claim counts in
`UpdateRole` what is committed then (`READ COMMITTED`), and its own change is
visible at `Commit` only; the role lock is held from `TryRoleLock` until then.
Row locks appear as `RowLocked`: other writers wait for the commit, the claim's
own `SKIP LOCKED` passes on. An exception (`ClaimThrows`) can end a call at
every `await` and rolls its transaction back.

`ExecWrite` is the last write of an execution, by id and without a guard, as in
the code; so an execution that the watchdog has given up can still overwrite a
row that was claimed again. `overridden` is a history variable: the tasks whose
row somebody rewrote (watchdog, cancel, decision answer) while it could be
running. `Exit` is both an orderly exit and a crash. A start has a fresh PID;
`RecoverScan` chooses which old numbers now belong to unrelated processes.
A refused claim (`GateBlock`) is blocked for disk pressure, which `DiskRecover`
undoes, or because the check itself failed, which it does not. `StepTasks` are the
tasks of pipeline steps: once over the retry limit of its step, `releaseTask`
returns without touching the row (`Release`'s last case; what it does to the run
is in `PipelineRun`).

`TaskQueue` is what all this is worth to the rest of the system: `waiting` and
`leased`, one atomic step each, no dispatchers, locks, snapshots or
transactions. The refinement (`Queue`, property `QueueImplemented`) takes the
committed pending rows for `waiting` and the committed active ones for `leased`;
a lease happens at `Commit`.

### 2.2 `GoalWake`

One goal: `goal` (its status: active; parked, when an answered decision opens it
again; over), `session`, `lastWoken`, and `quiet` for an `updated_at` older than
ten minutes. Its sprints are `none`, `open` (some task can still
change) or `settled`. Four kinds of calls act on it: polls, immediate checks at
the end of an execution, reconciliation passes, comment handlers. Each has a
step `pc` and the sprint `target` it read and now acts on:

    poll:           Poll, Discover, [LockForStart, StartSupervisor, StartEnds],
                    FindSprint, ClaimWake, TryLock, Wake, WakeSucceeds, Compact
    immediate:      FindSprint, ClaimWake, TryLock, Wake, WakeSucceeds
    reconciliation: Reconcile, ReconcileNext, TryLock, Wake, WakeSucceeds
    comment:        Comment, TryLock, Wake, WakeSucceeds

`TryLock` may find the lock taken: the wake counts as done (`coalesced`) and
the mark stays. A wake that fails releases the lock and then, in a step of its
own, takes the mark back (`Revert`). Reading a list and acting on its entry are
separate steps because a poll waits for the supervisor runs of other goals in
between; a single goal is enough because goals share nothing else. The
supervisor acts through its tools while its run lasts (`Plan`, `WriteDoc`,
`CloseGoal`); every tool call proves the session of the goal. `progressed`
records what a start is judged by when it ends (`hasProgressed`). `saw` and
`informed` are history: which settlements a successful run could see.

The goal row has writers that know nothing of this protocol, and `edits` bounds
them: `Respond` (an answered decision clears the session and opens a parked
goal, whoever is running), `Stop` (a budget pause, an abandonment), `WakeGoal`
(the hive supervisor sets `last_woken_sprint` to 0), `Reopen` (an answer puts a
task back). `GoalTouched` stands for all updates that only move `updated_at`.
`rearmed` is history: the last sprint whose mark `WakeGoal` has lowered.

The boot sweep is two steps (`BootScan`, `BootRevert`) that take no lock, and
run beside the first poll, as `Dispatcher.start` fires both without waiting.

`SprintMark` is what `last_woken_sprint` is for: a mark and its owners, without
polls, locks, lists or sweeps. The refinement (`Mark`, property
`MarkImplemented`) takes for an owner a call that has claimed its sprint and has
neither finished nor taken the mark back (`Owned`), and `rearmed` for the resets.

### 2.3 `CommentWake`

A comment row is `status` (`supervisor_wake_status`), `token` and `old` (claimed
more than ten minutes ago). The code identifies a claim by the time it was made:
`releaseGoalCommentWakeClaim` and `markGoalCommentWakeProcessed` compare the
column with the `Date` the claim returned. The column has microseconds and a
`Date` has milliseconds, so the two are equal only when the microseconds happen
to be zero. `token` says whose copy matches: the handler's, or nobody's
(`Unmatched`). A call of `handleNewGoalComment` starts from a notification
(`Deliver`) or from the fallback poll (`Poll`) and takes these steps:

    Read -> Skip
    Read -> Claim -> TryLock -> RunSucceeds -> Mark
                     TryLock or RunFails -> Release
    any query -> Throws -> Caught

`lock` is the wake lock of the goal; `OtherTakes` and `OtherFrees` are its users
in `GoalWake`, so the two modules meet in that lock and in the session. A crash
loses the notifications and the copies of the claim times, not the rows.

### 2.4 `OutputStream`

A write of a task's output is an INSERT, which takes an id, a commit, which makes
the row visible, and a `pg_notify` in a statement of its own. The adapters do
not wait for one write before the next, so each write in flight has a lane. The
endpoint's handler (`conn`) listens, queries the rows after the client's
`Last-Event-ID`, sends them, drains the notifications that arrived in the
meantime (`pending`) except those the replay has covered (`lastId`), and then
forwards. The panel keeps `seen` across reconnects. `endpoint` says whether the
stream closes on a done row (a task's) or not (a goal's). `calm` is history: no
fault, no two writes in flight together, no second execution of the task.
`OutputLog` is what a reader may rely on; `ShowsTheLog` takes the committed rows
for its lines and the panel's lines for what is shown.

### 2.5 `FailureFlow`

One task without a goal. `at` is the next statement of a handler
(`handleTaskFailureAndDoctor`, from an execution or from a watchdog):

    run -> read -> retry                     (attempts and retries left)
                -> giveup                    (none left)
                -> budget -> fail -> find -> insert   (agent failure: a doctor)
                          -> park                     (budget spent)
                -> block -> findfix -> insertfix      (environment failure)

Each arrow is a statement of its own, so a crash leaves whatever was written. `doctor` is the
row of each doctor task together with the next statement of its execution.
`fallback` marks the doctors made by the runtime fallback, which does not ask
the budget; `repair` is the environment repair child, whose end hands the task
back; `left` counts the sub-tasks a split has not inserted yet. The cancel route
is two statements (`CancelCheck`, `CancelWrite`).

Two things block the task without a failure. The runtime guard stops an execution
and opens a decision (`Interrupt`, `guarded`); while the decision is open the
watchdog leaves the task alone, and of the answers to it only PATCH
/api/decisions/[id] puts the task back (`CloseGuard`). The disk gate refuses a
claim (`Refuse`): the status "disk" is `blocked` with the reason that
`recoverDiskPressureBlockedTasks` (`DiskRecover`) and `findStuckBlockedTasks` look
for, the one to release such a task, the other to leave it out; a check that
failed gives a plain `blocked`. `FindBlocked` has the conjuncts of that query.
The shim for doctors without a JSON block compares `retry_count` with a 3 of its
own (index.ts:1745), `LegacyRetries`, not with `config.maxRetries`.

### 2.6 `QualityReview`

`version` counts deliverables, `subject` says which one a review looks at, and
`passed` remembers the last one whose pass was applied: this is how the model
tells "completed" from "completed by a verdict on something else". `step` is the
next statement of a review's execution or of the watchdog (`Handlers` includes
`Watchdog`). `calm` is history: no crash, no row released under its execution or
its review, no dead review
revived by a doctor.

`ReviewedWork` is what the rest of the system sees of it: a deliverable is made,
judged, and accepted, returned or put to the owner. The refinement (`Work`,
property `WorkImplemented`) maps the row's status to a stage (`StageOf`). While
calm, the writes that do not look at the status find the one they have seen.

### 2.7 `ExternalAction`

`state`, `policy` and `link` are the row; `decision` the decisions that ask for
approval, by status and option, `words` their `owner_response`. Two routes write
them. The respond route resolves a decision once and then acts on the request;
clicked again, it repeats what the option or the words record. PATCH
/api/decisions/[id] (`Patch`) resolves, or rewords what is resolved, sets no
option and does not touch the request ("closed"). `step` is the next statement
of a call: `insert`, `link` for a request that needs a decision, `approve`,
`reject`, `load` for an answer, then `claim`, `check`, `invoke`, and `ok` or
`bad` for the result. Only the claim and the rejection test the state they
replace; all other updates go by id. `said` is history: what the policies have
answered. `Agreed` says that they answered the same each time. Without it the
module's properties do not hold: a second request whose policy answer differs
links a fresh decision to the row and puts it back to `awaiting_approval` while
the first one is at work or done.

`OneAction` is what a caller may rely on: all calls with one key are one action.
The refinement (`One`, property `OneActionImplemented`) takes a policy that
allows or blocks, the option of a decision, or the row's rejection where there is
none, for the answer, the three states before the claim for `open`, and drops the
calls and their retries. A yes can be taken back until it is carried out, since a
decision that was approved and then reworded to a rejection rejects the request.
Requests in the sales queue, approved and sent by hand, are outside.

### 2.8 `PipelineRun`

One run over steps `1..N`. `run`, `current` and `step` are the pipeline's rows,
`task` and `retries` those of the steps' tasks. A call is an execution, a review
or the watchdog's handling of a row; it moves through `pc`. The row is in review
before its `[QA]` child exists (`RouteToQa`, `Submit`), and a verdict is applied
before the child is completed (`Pass` or `Reject`, `Close`). A transaction
takes its locks one by one (`LockOrder`, `got`); the last lock and the commit are
one step. `seen` is what its `SELECT ... FOR UPDATE` read of the step and run:
the code decides by it, and returns without a word when the step or the run is
not open any more. A crash releases all locks and includes the recovery at the
next boot.

`StepLine` is what an operator is shown: a current step, the steps given out, the
steps done. The refinement (`Line`, property `LineImplemented`) says that a step
is given out when it has a task and has handed on when its row is complete, so
the completion of a task, of its step, and the start of the next is one step of
the line. A task that is taken from a completed step by a late failure
(section 3.1) is a delivery taken back; the line itself does not move.

## 3. Runs

Passing runs (every invariant and property of the cfg holds):

| run | asks | instance |
| --- | --- | --- |
| `ClaimLoop` | `OverrunBound`, `SlotsCounted`, `RoleCapRespected`, `NothingLeftBehind`, `QueueImplemented` | one dispatcher, two overlapping calls, three tasks of two roles, limit 1, one restart, executions that finish or throw, a gate that blocks what was claimed |
| `ClaimRestart` | `RunningIsOwned` | two dispatchers, recovery, watchdog, owner's routes, executions that finish or release, the row of a pipeline step |
| `ClaimLive` | `OrphanRequeued`, `ClaimMakesProgress` | one dispatcher, a restart, a task of its own and a pipeline step's, under `Fairness` |
| `WakeCallers` | `OneSupervisor`, `ReconcileOnce`, `WakeOwned`, `NothingLeftBehind`, `MarkImplemented` | a poll, an immediate check, two reconciliation passes, a comment, an edit from outside, a crash and its boot sweep, a sprint that settles, is opened again and settles |
| `WakeLive` | `SettledSeen` | poll and reconciliation, two sprints in sequence, a crash, under `Fairness` |
| `CommentQueue` | `CommentHeard`, `ReclaimIdle`, `TerminalFinal` | one comment, two overlapping handlers, other wakes on the lock, a crash, under `Fairness` |
| `StreamPanel` | types, `DoneIsComplete`, `NoLineTwice`, `ReplayReaches`, `ShowsTheLog` | both endpoints, two writes in flight, two executions, every fault, two broken connections |
| `FailFlow` | types, `RetryBound`, `DoctorBound`, `Settles`, `BlockedResolved` | an execution and a watchdog, three doctors, every category and diagnosis, one crash, cancellation, interruption or refused claim, under `Fairness` |
| `ReviewFlow` | `CompletedReviewed`, `DeliveriesPaid`, `WorkImplemented`, `ReviewAnswered` | a goal's task or a direct one, two executions, three deliveries, every verdict, one fault, one answer |
| `ActionFlow` | `RunsOnce`, `RunsAllowed`, `OneActionImplemented`, `ApprovalCarriedOut` | two callers, two owners, two decisions, every policy, decisions closed or reworded by PATCH, two faults |
| `PipelineSteps` | `StepsInOrder`, `CompletedHandsOn`, `NoLockCycle`, `LineImplemented`, `RunEnds` | two steps, the second reviewed, two calls at a time, one upset |

One run in which TLC finds the repository's own statement violated:

| run | statement | what happens |
| --- | --- | --- |
| `ReviewOwner` | `AwaitsOwner` (watchdog.ts:234: a task it releases has no "resolving doctor or owner-decision child task in flight") | a direct task past the cap is blocked behind a decision for the owner; the watchdog's query leaves out decisions of kind `runtime_guard` only, and this one is of kind `decision`, so the task is released while the owner is still asked. index.ts:1939-1941 says the rescue is also meant for "owner-decision tasks that never resolved"; this one may still be |

The overrun of the cap is bounded, and `OverrunBound` says by how much: one
task for each further call that overlaps. `SlotsCounted` shows that the clamp
at zero in the `finally` handler never hides a lost slot. `DoneIsComplete` and
`ShowsTheLog` hold while the stream is `calm`; `NoLineTwice` and `ReplayReaches`
hold always. `CompletedReviewed` and `DeliveriesPaid` hold while the review is
`calm`, the properties of `ExternalAction` while the policies agree: what these
words stand for is in section 2, and the negation of each is a way the code does
break the property.

### 3.1 Statements the code does not keep

Each of these is written in a comment, a document or a test, is defined in the
module named, and is violated by the module that follows the code. TLC finds the
violation when the definition is put into the cfg named, with the change given
(an invariant or a property, as the definition is).

| definition | statement | to reproduce | what happens |
| --- | --- | --- | --- |
| `TaskClaim!CapRespected` | task-claimer.ts:49 "still bounds total in-flight work" | `ClaimLoop.cfg` | two notifications arrive before `claimingTask` is set; both loops pass the slot test |
| `TaskClaim!NoStartWhileDraining` | index.ts:786 "we must NOT start any new work" | `ClaimLoop.cfg` | the drain arrives while `claimNextTask` is awaited; the claimed task is started |
| `GoalWake!NoParallelPlanning` | index.ts:1842 "prevents ... paths from planning the same next sprint in parallel" | `WakeCallers.cfg` | the poll restarts the supervisor after compaction without the wake lock (index.ts:2287), beside the wake of an immediate check |
| `GoalWake!SettledSeen` | goal-lifecycle.ts:541 "Wake up whenever all tasks have settled" | `WakeLive.cfg` with `MaxEdits = 1` | an answered decision reopens a settled sprint; when it settles again `last_woken_sprint` hides it from the poll and `fired` from reconciliation |
| `CommentWake!WokenOnce` | tests/dispatcher/goal-lifecycle.test.ts:551, a processed comment cannot be claimed again | `CommentQueue.cfg` | the mark compares microseconds with milliseconds (goal-lifecycle.ts:363) and matches no row; ten minutes later the comment is claimed again |
| `FailureFlow!FailedIsTended` | failure-handler.ts:274 "creates a doctor task if needed" | `FailFlow.cfg` | the task fails again while its doctor, whose diagnosis is already applied, is not closed yet: the guard takes it for the doctor of this failure |
| `FailureFlow!SplitWhole` | doctor/index.ts:189 "can no longer happen" | `FailFlow.cfg` | the dispatcher dies between the update of the parent and the inserts of a split |
| `FailureFlow!OnlyLiveCancelled` | cancel/route.ts:82 "cannot be cancelled" | `FailFlow.cfg` | the task ends between the route's test and its update |
| `OutputStream!NoGaps` | docs/STREAMING.md "No gaps" | `StreamPanel.cfg` | a row commits after one with a greater id was sent; the replay asks for greater ids only |
| `OutputStream!DoneIsLast` | index.ts:1303 the done row "is always the last row" | `StreamPanel.cfg` | a write that is still in flight, or the next execution of the task |
| `OutputStream!NoLineTwice` | docs/STREAMING.md:212 "Clients never receive duplicate or out-of-order chunks" | `StreamPanel.cfg` with `Panel = FALSE` | without the panel's `seen`, a notification that arrives late repeats a replayed row |
| `PipelineRun!CompletedStays` | service.ts "completion-vs-failure races serialize on pipeline_step_runs" | `PipelineSteps.cfg` with `Spec` | a failure handled late writes the task by id after its step was completed |
| `PipelineRun!EndedIsIdle` | nobody's, and expected of a run | `PipelineSteps.cfg` with `Spec` | an answer puts the failed task of an ended run back |

The last two meet: a task that is put back after its step was completed runs
once more, and when it fails with the retries of its step used up, but not those
of a task, `failPipelineRunFromTask` finds nothing eligible and `releaseTask`
returns. The row stays active, and counts against the `concurrency_limit` of its
role, until the run ends: the watchdog finds it again and again and each time
comes to the same return.

Two more follow from what the code does and contradict no line of it. A task
whose dispatcher dies between `in_review` and the insert of the `[QA]` child waits
in review for a verdict that nobody was asked for, and its pipeline run with it
(`PipelineRun!Unreviewed`). And an external action whose decision was closed by
PATCH can not be approved any more: the respond route answers 409, or repeats an
approval that the execution refuses because `selected_option_key` is not set; it
can still be rejected if the words say so.

### 3.2 Bounds

- `Tasks` (1 to 3), `Roles` 2, `Limit` 1 or 2: the smallest sets in which a
  role fills up, another has room, and the order of tasks matters.
- `Calls` of `TaskClaim` (1 or 2): two invocations are the least that overlap;
  each further one only adds another slot to the overrun.
- `MaxCap` bounds the value the live cap takes at each entry.
- `MaxStarts` (1 to 3): a start, a crash and a recovery by the next process; two
  processes at once when there are two dispatchers.
- `Outcomes`, `Paused`, `Watched`, `Touched` choose what may happen to which
  task, so that each run explores the writers its question is about. `StepTasks`:
  one row of a pipeline step in `ClaimRestart` and `ClaimLive`, none in `ClaimLoop`,
  where nothing is released.
- `MaxSprint` 1 or 2: a sprint and the next one, which is what an old list,
  a revert and a sweep can confuse. `WakeCallers` has one sprint and all five
  kinds of calls; what the owners of two sprints could do to each other (an old
  revert against a later claim) is left to `WakeOwnedHolds` and `MarkHolds`,
  which hold for any number.
- `MaxEdits` 0 or 1: one write to the goal from outside the protocol;
  `CompactAfter` 1 to 3 (the code compacts after a threshold of completed
  sprints; the choice decides whether a run reaches it).
- `Overlap`: may the supervisor plan a sprint before the last one settled? The
  code does not stop it; the safety run allows it.
- `Comments` 1, `Handlers` 2: handlers of different comments meet only in the
  wake lock, where `Other` stands for the second one; two handlers of the same
  comment are what a token is for. The proofs cover any number of both.
- `Lanes` 2, `MaxRows` 3: two writes that overtake each other and a third row to
  notice it by. `MaxRuns` 2: a task that is run again after its done row.
  `MaxDrops` 2: a reconnect whose replay is cut off too.
- `Executors` 1, `Watchdogs` 1: two failures of one task handled at once, the
  execution's and the watchdog's. That is what `RetryBound` needs; two
  executions, whose doctors are counted by both before either inserts one, are
  covered by `DoctorBoundHolds` only. `Doctors` 3, `DoctorLimit` 2: those of the
  budget and a fallback; a doctor that asks for a repair needs room for one
  more. `MaxRetries`, `LegacyRetries`, `MaxAttempts`, `DecisionLimit` 1: each
  limit is met, and overrun by a handler that tested it earlier (the code's
  `LegacyRetries` is 3; that it may exceed `MaxRetries` is left to
  `RetryBoundHolds`). `MaxUpsets` 1 of `FailureFlow`: one crash, cancellation,
  interruption or refused claim. `SplitSize`, `ReplaceLimit` 1: one split fits,
  two do not, and one can stop before its insert.
- `MaxReviews` 3, `RetryCap` 1: the cap is passed. `MaxAnswers` 1, `MaxFaults` 1.
- `MaxCalls` 5, `MaxDecisions` 2, `MaxFaults` 2 of `ExternalAction`: two requests
  and two clicks, one of them repeated, or a PATCH instead of one; a second decision is one too many.
- `N` 2, `Reviewed` the second step, `StepRetries` 0, `MaxRetries` 1: a hand-over
  and an end; a step that may not be retried although its task may. `Calls` 2: a
  completion against a failure, a claim or a review. `MaxUpsets` 1: one crash,
  cancellation, question or answer. The proofs are for any of these.

### 3.3 Fairness

`TaskClaim`: the poll timer calls `processNextTask` again and again and awaits
return (weak fairness of the steps of a call); a claim step that fails is
retried at the next poll and does not fail for ever (strong fairness of the
transaction's steps); systemd restarts the service (`Restart=always` in
`src/hivewrightv2-dispatcher.service`); the watchdog timer sees every active
row in the end, since a row without a heartbeat, or one that runs for two
hours, is selected. Nothing makes an execution end. `OrphanRequeued` leaves out
the rows of pipeline steps, which the watchdog's handling may leave active (3.1).

`GoalWake`: timers keep firing, awaits return, a run ends (`runCodex` kills it
after four hours) and, if runs never stop, one of them succeeds. Tasks need not
settle and owners need not comment. `SettledSeen` further assumes a bounded
number of crashes, sprints planned in sequence (`Overlap` FALSE) and no reopened
sprint. Both assumptions are needed: section 3.1 shows the second, and with
`Overlap` a coalesced wake can be followed by a late update of an earlier
sprint's task, after which reconciliation, which looks at the task updated last,
does not find the settled sprint any more.

`CommentWake`: the fallback poll comes back to every candidate, awaits return
and runs end; the other users of the lock give it back and in the end leave it
free (`OthersEnd`: a goal has finitely many sprints, each woken a bounded number
of times); and a comment that is tried again and again meets working queries and
a run that succeeds (`Tried`, strong fairness for each comment, not for each
handler). Nothing keeps a handler alive. `CommentHeard` speaks of a comment that
is pending or claimed on an active goal with a session: one that was skipped
because its goal had stopped is not waiting.

`OutputStream`: a write that was started commits and notifies, the panel
reconnects, the handler's query returns, notifications and frames arrive. Nothing
makes an agent write.

`FailureFlow`: claims are made, executions end, the statements of a handler and
of a doctor follow each other, a repair ends, the watchdog's timer fires. Its
search for blocked tasks is strongly fair: a task can be blocked and released
again and again by others, and the timer meets it blocked at last. Nobody need
answer the guard's decision, and the disk need not become healthy; `Settles`
leaves these two ways out, and a third: nothing counts the environment repairs.
`BlockedResolved` excepts the open decision of the guard and speaks of `blocked`
without the disk's reason.

`QualityReview`: the same, weakly: calls continue, the timers fire. Owners need
not answer. `ReviewAnswered` leaves out a direct task whose review died, since
the watchdog's query asks for a goal.

`ExternalAction`: a call that has begun goes on unless it dies. Nobody need call.

`PipelineRun`: a call that waits for a lock gets it if it is free again and again
(strong fairness: PostgreSQL queues the waiters of a row), and so do the pick-ups
(`ClaimTask`, `BeginReview`, `FlagDeadEnd`), each one condition over all calls and
steps: somebody claims, not a given call. `RunEnds` leaves out a run whose current
task was blocked, cancelled or given up, since nothing tells the run (`Parked`),
and one whose current task is in review without a review, since no sweep looks
for it (`Unreviewed`, which needs a dispatcher that died or an insert that failed).

## 4. Theorems

Proved for every value of the constants that satisfies the named assumption of
the module (finite sets of actors, numeric limits; `TaskAssumption`,
`GoalAssumption`, `CommentAssumption`, `StreamAssumption`, `FailureAssumption`,
`DoctorsAssumption`, `ReviewAssumption`, `ActionAssumption`,
`PipelineAssumption`). Each module has its type invariant proved; the runs also
check those of `OutputStream` and `FailureFlow` and leave the others to the
proofs. Six components are shown to implement an abstract one (`TaskQueue`,
`SprintMark`, `OutputLog`, `ReviewedWork`, `OneAction`, `StepLine`): the initial
states map to initial states, each action to a step or a stutter.

**`TaskClaimProofs`.** `RoleCapHolds`: the invariant is not inductive, because a
claim counts committed rows and its own change is visible later. The
strengthening (`CapInv`) counts the uncommitted claims with the active rows
(`TakenWithinLimit`) and says that a call between its count and its commit owns
the lock of its role (`LocksHeld`). Then nobody else takes a row of that role
between the two, and the count still holds at the commit. Writers other than the
claim only take rows out of the active set. `ClaimImplementsQueue`: the initial
state maps to the queue's, and every action to one of its steps or to a stutter;
the commit is the lease, and the room for it is what `CapInv` says.
`RunningIsOwnedHolds`: a row that says "active under process p" excludes everyone
but p only if a number is one process. `OwnInv` adds that (`PidsDistinct`: the
numbers of the processes that are up differ, are not above the number of starts,
and a process that is down runs nothing) and that a number which recovery found
dead stays dead until recovery writes (`FoundDead`), since other processes start
between its scan and its update. `PickedPending` gives the rest: what a claim
commits was pending, so nobody worked on it, or had been rewritten.
`OverrunHolds` counts the invocations between the loop test and the increment
with the slots. `SlotsCountedHolds`: `Executions` is the set of the pairs of a
task and one of its executions in a process, so that a start and an end change it
by one element and a sum over the tasks is a cardinality (`Counted`, `OneMore`,
`OneLess`); that the set is finite is part of the invariant.
`NothingLeftHolds`: what makes other calls turn away belongs to a call at work.
A flag left set would end all claiming of the process, a role's lock left behind
all claims of the role. The proof goes by what one call does to its own
(`CallLeaves`): it keeps flag and lock and goes on, or gives them back; another
call may clear the flag under it, which leaves nothing behind. It is the safety
under `ClaimMakesProgress`.

**`GoalWakeProofs`.** `OneSupervisorHolds`, from `LockHeld`: a call in a locked
step holds the lock. `WakeOwnedHolds`: the mark is raised only
to a sprint above it, so at most one claimant owns a sprint and a revert,
which tests that the mark is still its own, touches nobody else's. The boot
sweep is the difficult case, since it takes no lock: `SweepSafe` says that
while the sweep has not read, a quiet goal has no owner, so the sweep selects
no sprint that is owned, and that the owners that come after its selection
have claimed sprints above it. `wake_goal` puts the mark back under an owner;
ownership is therefore counted for sprints above `rearmed`, and everything at
or below it is excluded in one piece, because `wake_goal` lowers the mark to
zero. The proof rests on one assumption about time, stated in `GoalAges`: the
sweep reads within ten minutes of the start. `ReconcileOnceHolds`, from
`InFlightHeld`: a pass that works on a sprint has it in `inFlight`.
`NothingLeftHolds` is the converse of the two: the wake lock and every entry of
`inFlight` belong to a call at work, whatever fails, throws or dies, which is the
safety under `SettledSeen`. The inductive
invariant (`WakeInv`) is proved once, one step for each action.
`MarkHolds` adds what the invariant does not say, who moves the mark: a claim
raises it and makes the claimant its owner (`MarkClaim`), a revert lowers it by
one and is its owner's (`MarkRevert`), the sweep lowers it when it has no owner
or when it stands no higher than the last reset (`MarkBootRevert`), and every
other action leaves it alone, the end of an owner's wake included.

**`CommentWakeProofs`.** `ReclaimIdleHolds`: a claim that was
taken over was stale, so the lock was free; and a handler that runs the
supervisor holds the lock (`Placed`). `TerminalFinalHolds`: each of the
six writes to the status tests it in its WHERE clause; the theorem says that
the tests together are enough, whatever the handler has read before.

**`OutputStreamProofs`.** `NoLineTwiceHolds`: with the panel (`Panel`), every
shown line is in `seen`, and a line is appended only when it is not.
The rest comes from one invariant, `StreamInv`. `ReplayReachesHolds` needs its
part for every behaviour: a row of the last replay is shown or still on the wire,
in its place (`BatchOnWire`, which needs that the frames of a set of rows list
exactly that set, in order: `InOrderLists`). The other parts hold while the
stream is calm. One write at a time is between its number and its notification
(`WriterInv`), so the rows below a committed one are committed. What was notified
and what is on the wire continue what has been seen without a hole (`GapFree`,
`InboxInv`, `PendingInv`): the replay takes over where the panel stopped, the
drain filter removes what the replay already had, and the queue keeps the order
of the writes. A row that was announced before the end row is seen or ahead of it
on the wire (`LiveInv`, `DoneInv`), which is `DoneIsCompleteHolds`.
`LogImplemented`: a commit of a line is the log's `Write`, the panel's receipt of
a new line its `Show`, everything else a stutter. `StreamInv` gives what the log
asks of the two: a line is written above the ones before it, and the line shown
is the least that was not.

**`FailureFlowProofs`.** `RetryBoundHolds`, `DoctorBoundHolds`: a counter
overruns its limit by at most the handlers between its test and its increment.
The invariants count those with the rows; each handler is in one of the two
positions at a time, so the cardinalities move by one. The limit of `RetryBound` is
the greater of the two that are compared with `retry_count` (`RetryLimit`).

**`QualityReviewProofs`.** `CompletedReviewedHolds`: `ReviewInv` says that, while
calm, at most one execution and one review are at work, never both, that an open
review looks at the current deliverable, and that the current one is fixed from
its routing to its verdict.
`DeliveriesPaidHolds` adds `PaidInv`: `retry_count` together with the answers that
have reached the task pays for the deliveries, a task that waits for its next one
has paid for it, and the count a rework is about to write is the one it read.
Without `ReviewInv` the last part fails: another writer could count in between.
`WorkHolds` needs more than who holds the task (`FlowInv`): who works on it agrees
with the row (`InReview`), a review that has failed leaves a row that waits in
review or has been given up (`DeadEnded`), and the watchdog and the replan are
between two statements only while the row waits or has been given up, since only
a direct task has a decision whose answer could move it (`OneWay`). Then an
execution or a review that ends is alone (`ExecutionAlone`, `ReviewAlone`), and
its write is the stage the abstract task goes to.

**`ExternalActionProofs`.** `RunsOnceHolds`, `RunsAllowedHolds`,
`OutcomeFinalHolds`, `OneActionHolds`, from one invariant under `Agreed`: the row's policy is the
one that was said (`RowInv`), at most one call is past the claim, and then the
row is executing (`CallInv`), the effects are those of a finished or unfinished
execution (`EffectInv`), and who is past the claim had leave (`AllowedInv`).
The refinement also needs that a request has one decision, which is open only
while the row waits for it and is the one the row links to, that an answer
precedes what is done about it, a refusal included, and that a call reports
success only after the connector has acted (`AnswerInv`). To close a decision
without an option approves nothing and takes no approval back.

**`PipelineRunProofs`.** `StepsInOrderHolds`, `CompletedHandsOnHolds`,
`OutcomeStaysHolds`, `NoLockCycleHolds`, `LineHolds`. `RunInv` adds to the properties that one
transaction at a time has the run's row, that what it read of the step and the
run is still so when it commits (`LockInv`), and that a call at work is at work
on a step that has begun (`BegunInv`). The last one is what excludes a lock cycle
although a claim locks the task before the step: it waits for the step only while
the step has not begun, and then no transaction is on that step. For the line,
`Offered` says that a step's row exists exactly if its task does; then the commit
that completes the current step is `HandOn` (`LineHandOn`), and no other action
creates a task or completes a step.

Only model-checked: the liveness properties (fairness and ENABLED are out of the
prover's reach), among them the fair part of `ShowsTheLog`; its safety part is
`LogImplemented`. Every invariant and every action property of the passing runs
is a theorem.

## 5. What is left out

- What an agent, a model provider, a connector or a browser does: an execution
  is a step that ends, throws or never ends.
- Wording, prompts, evidence texts, metrics, notifications, logs.
- Clocks: a timeout is a step that may happen (`WatchdogFlag`, `GoalAges`,
  `TasksAge`); heartbeats against timers are not modelled.
- Columns that no decision reads (results, summaries, durations, usage).
- Stream connections whose client has gone away while the handler waits, and the
  removal of old log rows.
- The connection pool: a locked wake holds one connection and needs another
  (goal-lifecycle.ts:151), so as many wakes as connections wait for each other.
  The pool's size is a deployment's choice.

Not modelled. The modules follow the dispatcher, its
goals, pipelines, actions and streams, the part of the code where several actors
write the same rows. By lines that is a small share of the repository: most of it
is pages and components of the dashboard, connectors to external services,
prompts, memory and embeddings, seeds and scripts. These read, format, or make one
request; they have no states between which anything could be interleaved.
Of the rest, execution runs and capsules, the schedule timer's catch-up, the
budget sum and the initiative engine have a protocol of their own, small ones, and
come next; their hazards with the others are in `PROJECT.json`, with the
properties that cover them or the reason why none does.

## 6. Plan

1. `GoalBudget`: all writers of `goals.status` (completion, abandonment, answers,
   the budget evaluation that writes back a status it read earlier). Which
   stale write revives a finished goal, and which the code excludes.
2. `ScheduleRun`: due schedules, two dispatchers, catch-up after a stop; a period
   fires once.
3. Execution runs and capsules: the lease of a run against its late result.
4. A pipeline start against a second start and against an edit of its template.
5. Proofs: an abstract recovery for `FailureFlow` to implement, and an abstract
   queue of comments for `CommentWake`.
