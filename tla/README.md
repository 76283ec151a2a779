# TLA+ models of the fission-workflows engine

These are TLA+ models of the workflow engine's execution core in `src/`, with TLC runs and TLAPS proofs:

- the per-invocation controller loop, its sensors and executor, and the engine restarting under it;
- an abstract specification of an invocation, which the controller refines;
- the Fission runtime's `Invoke` and `Notify`;
- the bundle's process lifecycle.

Every definition that stands for code is listed with its source lines in `PROJECT.json` under `"map"`. Definitions marked `spec_modelled` stand for code that is not under `src/`. That code is the event store, the scheduler, the executor and the task API, and those definitions follow `spec.md`.

## 1. The system and its parts

| Part | Source | State | Operations | Interacts with |
|---|---|---|---|---|
| Invocation controller | `src/pkg/controller/invocation.go` `InvocationController` | `sheduledTasks`, `startedTasks` (written, never read), `errorCount` (never incremented) | `Eval` (one evaluation of a snapshot), `execTask` (run one task) | executor, scheduler, task API, invocation API |
| Meta-controller | same file, `InvocationMetaController` | control system of per-invocation controllers, sensors | controller factory, `Run`, `Close` | control system, sensors |
| Sensors | same file | none of their own | notification sensor (subscription → eval queue), store poll sensor (refresh, skip terminal, submit), staleness sensor | cache, eval queue, control system |
| Evaluation queue | not in `src/` (control system) | per-key queue | submit (ignored if the key is queued), take | sensors, controllers |
| Event store, projection, cache | not in `src/` | per-aggregate event log, projected invocation, bounded subscription buffer | append (refused once terminal), project, publish | task API, invocation API, sensors |
| Scheduler | not in `src/` | pure | `Evaluate(snapshot, sheduledTasks)` → run, prepare, abort | controller |
| Local executor | not in `src/` | bounded queue of jobs keyed by TaskID | `Submit` (dedup, reject when full), workers | controller |
| Fission runtime | `src/unnamed/part_002` `FunctionEnv` | metrics gauges | `Invoke` (transport error, FAILED, SUCCEEDED), `Notify` (timed tap), `Resolve` | task API |
| Bundle | `src/cmd/fission-workflows-bundle/bundle/bundle.go` | `Processes`, closers | `Run`, `Processes.Start`, `Processes.Close`, `Register` | all of the above |
| Map-reduce example, deploy script | `src/unnamed/part_000`, `part_001`, `src/examples/...`, `src/recompile.sh` | none | string handlers, build script | nothing of the engine |

### Hard behaviours

Several actors run concurrently:

- sensors submitting evaluations;
- `Eval` deciding on snapshots that lag the log;
- executor workers running jobs later than they were decided;
- the clock passing the deadline.

Failures come from many places:

- the runtime may fail or return transport errors;
- input expressions may fail to resolve;
- the executor may reject submissions;
- the subscription buffer may drop notifications;
- the backend refuses appends after the invocation is terminal.

In the bundle, one goroutine per process reports errors on a shared channel.

### What correctness means

- A task starts only after every task its inputs read has succeeded.
- A task is not run twice at once.
- An invocation completes only when all its tasks succeeded.
- It fails only for a recorded cause.
- It always ends.
- A process error never crashes the bundle, and no goroutine leaks blocked on the error channel.

## 2. Modules

### `InvocationController.tla`

This module models one invocation, whose workflow is present.

| Variable | Code |
|---|---|
| `log` | the invocation's events in the backend. Snapshot `k`, the invocation as it stood after the first `k` events, is what `Eval` is handed. |
| `notes` | the subscription buffer: the snapshots whose notifications are not yet forwarded. It is bounded by `SubBuffer`, and the newest notification is dropped when it is full. |
| `queued` | the evaluation queue's entry for the invocation (0 when empty). |
| `registered` | whether the control system holds a controller. |
| `sheduledTasks` | `InvocationController.sheduledTasks`. |
| `jobs` | the executor's queued and running jobs, as `<<kind, task>>` TaskIDs. |
| `expired` | whether `time.Now()` is past the deadline. |

| Action | Code |
|---|---|
| `Eval` with `EvalDone`, `EvalDeadline`, `EvalFinished`, `EvalSchedule` | `Eval` lines 63-230, in the code's order: terminal → Done, deadline → fail job, all finished → success or fail job, otherwise schedule. The prewarm closure's target is any task of its own or a later loop iteration (the captured range variable). Every run task is marked in `sheduledTasks` before any Submit. |
| `ControllerSheduledTasks` | the factory's fresh controller, for an invocation the control system does not hold. |
| `ExecTaskStart` | `execTask` up to `Invoke`: a failing input expression (`ResolveInputsFails`) returns an error and leaves the task scheduled. |
| `ExecTaskEnd` | `Invoke`'s result (`InvokeResults`, from `FunctionEnv.Invoke`), the outcome append, and `delete(sheduledTasks)` at line 319. A transport error returns without the delete. |
| `PrewarmRun`, `FinishRun` | the prewarm and fail/success closures. |
| `NotificationSensor`, `StorePoll`, `StalenessPoll` | the three sensors. The staleness sensor submits only when the controller is **not** registered (lines 753-756). |
| `Expire` | time passing. |

The end of the module maps the controller onto `InvocationSpec` (below): `Abs == INSTANCE InvocationSpec WITH ...` and `AbsSpec == Abs!Spec`.

Each step of the model is atomic, so the data race on `sheduledTasks` (read at line 175 and written at line 210 by `Eval`, deleted from at line 319 by a worker, with no lock) is below the model's granularity. It is recorded as a hazard from reading the code, not checked. `ExecTaskEnd` merges the outcome append, the `delete` at line 319 and the job leaving the executor into one step; in the code the job's TaskID stays in the executor until `execTask` returns. `StalenessPoll` may fire for any unregistered, non-terminal invocation, including one with no controller stats; the code ranges only over controller stats and skips recently evaluated controllers (lines 748-752). This only adds behaviours, and no spec assumes the staleness sensor fair.

### `MCInvocationController.tla`

This module holds the dependency graphs used by the cfgs: `ChainDeps` (task 2 reads task 1) and `FanOutDeps` (tasks 2 and 3 read task 1).

### `Processes.tla`

This module models `Processes.Start` and shutdown.

| Definition | Code |
|---|---|
| `StartLoop` | the spawn loop. |
| `RunReturns`, `SendErr` | a goroutine's `Run` and its send on `errC`. A send panics once the channel is closed; that needs a second process, and the bundle registers only one (`bundle.go:277`), so no property is stated about it. |
| `StartReceive`, `StartDefault` | the non-blocking `select`. The channel is closed after the first error. |
| `Shutdown` | `<-ctx.Done(); ps.Close()` in `Run`, after which every process's `Run` returns. |

### `InvocationSpec.tla`

This is the abstract specification of one invocation, with what the engine promises (spec 3, 4.9). A task run starts only once the tasks its inputs read have succeeded and no other run of it is in flight. A run ends succeeded or failed. The invocation completes only once every task has succeeded, and fails only after a failure or the deadline. Runs may repeat.

The refinement mapping from `InvocationController`:

| Abstract | Concrete |
|---|---|
| `status[t]` | `TaskState(Len(log), t)`, the projection of the whole log |
| `succeeded`, `failed` | the tasks with a `TaskSucceeded` / `TaskFailed` event anywhere in the log (`EverIs`) |
| `result` | `"completed"` / `"failed"` once the log holds `InvocationCompleted` / `InvocationFailed` |
| `late` | `expired` |

Every controller step is an abstract step or a stutter. Eval, the sensors and prepare jobs are stutters. `ExecTaskStart` is `Start`, `ExecTaskEnd` is `Finish`, and the `.success` and `.fail` jobs are `Complete` and `Fail`.

### `InvocationControllerRestart.tla`, `MCInvocationControllerRestart.tla`

These modules cover the engine process restarting. `Restart` (bounded by `MaxRestarts`) keeps the event log and the clock, and loses everything held in memory:
- the subscription buffer;
- the queue entry;
- the controller with its `sheduledTasks`;
- the executor's jobs.

This is what `NewInvocationMetaController` and `run` rebuild from nothing (lines 540-604). `RestartSpec` assumes the same `Fairness` as the liveness run: the restarted process runs the same tickers, queue, workers and clock. Keeping the log assumes a durable (NATS) backend; with the in-memory backend the log is lost with the process.

### `FissionFunctionEnv.tla`, `MCFissionFunctionEnv.tla`

These modules cover the Fission runtime (`src/unnamed/part_002`). Concurrent `Invoke` calls (one per function in `Fns`) and the prewarm `Notify` calls ahead of a call expected at `ExpectedAt` run against a nanosecond clock. `Tick` jumps the clock to the next due instant (a tap, the expected calls, a response) once the pool has run every tap that was due.

| Definition | Code |
|---|---|
| `InvokeStart` | validation and `FormatRequest` (an early error return), then `timeStart`, `FnActive.Inc` and the deferred `FnExecTime.Observe` |
| `InvokeDo` | `client.Do`: a transport error returns before `FnActive.Dec`; otherwise `Dec`, then parse (error, FAILED or SUCCEEDED). Every return runs the deferred Observe. |
| `Notify` | `getFnURL` failing, or the tap submitted for `expectedAt - provisionDuration` |
| `TapFires` | the timed execution pool (not in `src/`, `spec_modelled`) |

`provisionDuration` is `500 - Millisecond` in nanoseconds, as `time.Duration(500) - time.Millisecond` is.

### Proof modules

These modules hold the TLAPS proofs. Each extends the module it proves things about and adds the strengthened invariants and lemmas the proof needs.

| Module | Extends | Proves |
|---|---|---|
| `InvocationControllerProofs.tla` | `InvocationController`, `TLAPS` | type correctness and the dependency order |
| `InvocationOutcomeProofs.tla` | `InvocationControllerProofs` | the invocation's outcomes |
| `InvocationRunsProofs.tla` | `InvocationOutcomeProofs` | no overlapping runs |
| `InvocationRefinementProofs.tla` | `InvocationRunsProofs` | the refinement of `InvocationSpec` (safety) |
| `ProcessesProofs.tla` | `Processes` | type correctness, and `SendNeverBlocks` |
| `FissionFunctionEnvProofs.tla` | `FissionFunctionEnv` | type correctness, the `FnActive` gauge, and `FnExecTime` observations |

## 3. Runs

| Run | cfg | Instance | Properties | Result |
|---|---|---|---|---|
| core_safety | `MCChain.cfg` | chain {1,2}, transport errors, `MaxQueue`=2, `SubBuffer`=1 | TypeOK, DependenciesBeforeStart, CompletedOnlyIfAllSucceeded, FailureHasCause, NoOverlappingRuns | pass, 2,499,315 states, about 1 min |
| liveness | `MCLiveness.cfg` | chain, `MaxQueue`=1, `SubBuffer`=1, FairSpec | EventuallyTerminal, AbsSpec (refinement of `InvocationSpec`) | pass, 79,041 states |
| backpressure | `MCBackpressure.cfg` | chain, `MaxQueue`=1 | ScheduledTaskIsDispatched | violated |
| expression_error | `MCExprError.cfg` | chain, task 2 in `BadExpr` | ExprErrorRecordsFailure | violated |
| prewarm_target | `MCPrewarm.cfg` | fan-out {1,2,3}, `MaxQueue`=3 | PrewarmTargetsNamedTask | violated |
| processes | `MCProcesses.cfg` | 3 processes, 2 failing | TypeOK, SendNeverBlocks | pass, 133 states |
| restart | `MCRestart.cfg` | chain, one restart, transport errors, `MaxQueue`=1, `SubBuffer`=1, `RestartSpec` | EventuallyTerminal | pass, 115,546 states |
| fnenv | `MCFnEnv.cfg` | 3 functions, calls at 1 s, 2 ms requests | TypeOK, GaugeNeverUnderCounts, ObservedOnce | pass, 42,103 states |
| notify_timing | `MCFnEnvNotify.cfg` | same | TapBeforeCall | violated |

The restart run shows that a restart in any state, losing the controller, the queue, every job and the subscription, still leaves an invocation that reaches a terminal state: the store poll sensor finds it again and an `Eval` past the deadline fails it. A run in flight at the crash stays `InProgress` (the policy never re-issues a started task), so for such an invocation the deadline is the only way out.

A finished task may run again when an evaluation queued before its outcome arrives after the `delete` at line 319; spec 1 makes exactly-once execution a non-goal, so no property claims otherwise. `NoOverlappingRuns` checks what is claimed: never a second run while one is in flight.

What the violated runs show (details in `PROJECT.json` → findings):

- **backpressure.** A run job rejected by a full executor stays marked scheduled and is never retried. The spec says a rejected submission is retried next cycle.
- **expression_error.** An expression error is not recorded as a task failure. The task hangs until the deadline.
- **prewarm_target.** The loop-variable capture makes prewarm jobs prepare the wrong task.
- **notify_timing.** `provisionDuration` is 500 ns minus 1 ms. The tap therefore fires about 1 ms after the expected call, instead of 500 ms before it (spec 8, scenario 6). The `fnenv` run checks the same instance's other properties, so the instance does reach the tap.

### Bounds

- **Why two tasks in a chain are enough.** They give every interaction of one dependency edge with the rest:
  - a dependency in progress (prewarm);
  - a dependency succeeded or failed;
  - a rerun after a stale snapshot;
  - a completion job racing a fail job.
- **Why `MaxQueue`=2 and `SubBuffer`=1.** `MaxQueue`=2 lets a prewarm job and a run job compete for the queue. `SubBuffer`=1 makes drops happen on the second event.
- **Why the prewarm run has three tasks.** The capture needs two prepare-eligible tasks in one schedule, so the fan-out instance is used there.
- **Why larger instances are not used.** A three-task join with `MaxQueue`=2 was too large for the run budget.
- **Why these `FissionFunctionEnv` values.** Three functions let calls return in every order around each other's gauge updates. A 1 s lead makes `Notify` happen well ahead of the call, and 2 ms responses put the tap's real instant (1 s + 0.9995 ms) inside a request.
- **Why `MaxRestarts`=1.** One restart while a run is in flight already strands it, and a second restart only repeats the state. `MaxQueue`=1 keeps the restart run's liveness check within the run budget; with two slots it takes 9 minutes.
- **Why `CHECK_DEADLOCK FALSE`.** A terminal invocation is skipped by every sensor, and a shut-down bundle has nothing left to do, so these systems really stop.

### Fairness

The liveness run assumes weak fairness of:

- the evaluation queue;
- each executor worker (one per TaskID);
- the notification sensor;
- the store poll sensor;
- the clock.

The code justifies these:

- the poll sensors run on tickers (`ctrl.NewPollSensor(interval, ...)`);
- the executor's workers drain its queue;
- the deadline is a fixed point in time (`createdAt + 10 min` by default).

The staleness sensor is not assumed fair in the liveness run. Its filter is inverted (it submits only unregistered invocations, lines 753-756), and the store poll sensor already covers the invocation.

The restart run assumes the same fairness: the restarted process starts the same tickers, queue and workers, and the deadline fixed at creation (line 123) is checked by every `Eval`.

## 4. Proofs

The theorems hold for every value of the constants allowed by the named `ASSUME`s. Those assumptions are:

- tasks are positive naturals;
- `Deps` is a function from tasks to sets of tasks;
- the queue depth and buffer size are positive;
- for `Processes`: at least one process, with the failing ones among them;
- for `FissionFunctionEnv`: a finite, nonempty set of functions, a natural expected time and a positive request time.

### `TypeCorrect == Spec => []TypeOK`

This is proved by induction over `Next`. There is one lemma per group of actions (`EvalTypeOK`, `WorkerTypeOK`, `SensorTypeOK`). Two helper lemmas are also used:

- `AppendTyped`: appending keeps the log, the buffer and their relation typed, and only extends the log;
- `MkJobTyped`.

### `DependenciesRespected == Spec => []DependenciesBeforeStart`

`DependenciesBeforeStart` is not inductive by itself. A run job decided on an old snapshot starts a task later, so the invariant must also say something about the jobs still in the executor.

The strengthening is `DepsInv == TypeOK /\ DependenciesBeforeStart /\ RunJobsReady`. `RunJobsReady` says that every run job's dependencies already have a `TaskSucceeded` event in the log. It was checked with TLC on the core_safety instance before it was proved.

The argument:

- `Eval` appends nothing. A run job it submits is for a task whose dependencies are `Succeeded` in snapshot `k`. Lemma `SucceededHasEvent` turns that projected status into a `TaskSucceeded` event among the first `k ≤ Len(log)`.
- A worker appends `TaskStarted` only for a run job, whose readiness `RunJobsReady` gives (`AppendKeepsDeps`).
- Every append keeps old witnesses (`AppendKeepsEvent`), so the jobs that remain stay ready (`JobsKeepReady`).

### `OutcomesJustified == Spec => [](CompletedOnlyIfAllSucceeded /\ FailureHasCause)`

This theorem is in `InvocationOutcomeProofs.tla`. The corollaries `CompletionJustified` and `FailureJustified` state the two properties one at a time.

Neither property is inductive by itself. `Eval` decides the `.success` or `.fail` job on a snapshot, and a worker runs it later, so the invariant must also cover the completion jobs still in the executor.

The strengthening is `OutInv == TypeOK /\ CompletedOnlyIfAllSucceeded /\ FailureHasCause /\ FinishJobsJustified`. `FinishJobsJustified` says:
- a `.success` job exists only when every task has a `TaskSucceeded` event in the log;
- a `.fail` job has reason `tasksFailed` with a `TaskFailed` event in the log, or reason `deadline` once the deadline has passed.

It was checked with TLC on the core_safety instance (2,499,315 states) before it was proved.

The argument:

- `Eval` appends nothing.
  - A `.success` job comes from `allTasksSucceeded(k)`; `SucceededHasEvent` turns it into events among the first `k`.
  - A `.fail`/`tasksFailed` job comes from `allTasksFinished(k) /\ ~allTasksSucceeded(k)`, so some task is `Failed`; `FailedHasEvent` gives the event.
  - A `.fail`/`deadline` job comes only with `expired`.
  - The scheduler's jobs are run and prewarm jobs.
- A worker appends a terminal event only from a completion job, whose justification is already in the log (`AppendKeepsOutcomes`).
- Appends keep old events, and `expired` never goes back, so the remaining jobs stay justified (`JobsKeepJustified`).

### `RunsNeverOverlap == Spec => []NoOverlappingRuns`

This theorem is in `InvocationRunsProofs.tla`. Three mechanisms in the code prevent overlapping runs:

- `sheduledTasks`: `Eval` skips a marked task;
- the executor's TaskID dedup: at most one run job per task;
- the `delete` at line 319: a task is unmarked only after its outcome is appended.

No single one of them suffices. The strengthening `RunsInv` adds:

- `UnregisteredEmpty`: a controller the control system does not hold has no marks. The factory's fresh controller is empty, like the one `EvalDone` drops.
- `OneRunJob`: one run job per task.
- `RunJobScheduled`: a run job's task is marked in the live controller, unless the invocation is terminal.
- `InProgressScheduled`: a task with a run in flight stays marked until its outcome is recorded.
- `RunJobPhase`: a queued run job is for a task with no run in flight, and an invoking one is that run.

`RunsInv` was checked with TLC before it was proved:

- on the core_safety instance (2,499,315 states);
- with task 2 in `BadExpr` (9,810 states).

The argument:

- `Eval` submits run jobs only for unmarked tasks. By `InProgressScheduled`, those tasks have no run in flight.
- `ExecTaskStart` appends `TaskStarted` only for a queued job, so no run is in flight (`AppendKeepsNoOverlap`). The task is still marked (`RunJobScheduled`).
- `ExecTaskEnd` unmarks a task that, by `OneRunJob`, no other run job holds.
- A terminal log refuses every append (`TerminalAppend`). That is what makes `EvalDone` safe: it drops the controller's marks.

Lemmas used:

- `TaskStateAppendSelf` and `TaskStateAppendOther`: what an append does to the projection;
- `OutcomeAfterStart`: what a status other than `InProgress` says about the log.

### `Refinement == Spec => AbsSpec`

This theorem is in `InvocationRefinementProofs.tla`. It proves the safety part of the refinement: `AbsSpec` is `InvocationSpec`'s `Init /\ [][Next]_avars`, which has no fairness.

The invariant is `RefInv == RunsInv /\ DepsInv /\ OutInv`, the three strengthenings above. `InitRef` maps the initial state. `StepRef` maps every step:

- `Eval`, the notification, poll and staleness sensors, and prewarm jobs leave the log and the clock alone (`LogKeptStutter`).
- `Expire` is `Pass`.
- `ExecTaskStart` is `Start`:
  - `RunJobPhase` says the task is not `InProgress`;
  - `RunJobsReady` says its dependencies succeeded.
- `ExecTaskEnd` is `Finish`, by `RunJobPhase` for the invoking job.
- `.success` is `Complete` and `.fail` is `Fail`, by `FinishJobsJustified`.
- An append refused by a terminal log is a stutter.

Lemmas used: `EverIsAppend`, `StatusAppend`, `StatusAppendNoTask` and `ResultAppend` compute the mapped state after an append.

### `SendsNeverBlock == Spec => []SendNeverBlocks`, `ProcessesTypeCorrect`

These theorems are in `ProcessesProofs.tla`. They hold for every number of processes and every set of failing ones.

`SendNeverBlocks` is not inductive, because it speaks only of a goroutine about to send. The strengthening `RoomInv` adds:

- `IdleUnspawned`: goroutines the loop has not reached are idle;
- `ErrCRoom`: `errC + |Unsent| <= len(p)`, where `Unsent` are the goroutines that have not sent yet.

Every step either keeps `Unsent` and the buffer, takes a goroutine out of `Unsent`, or adds one error as it takes its sender out (lemma `RoomKept`). A sender is in `Unsent`, so `|Unsent| >= 1` and the buffer has room.

### `FnEnvTypeCorrect`, `GaugeNeverUnder`, `ObservedExactlyOnce`

These theorems are in `FissionFunctionEnvProofs.tla`. They hold for every set of functions, expected time and request time.

The strengthening `FnInv` adds:

- `CallShape`: a waiting call has no `timeStart`, and a requesting one has a natural `timeStart`;
- `PoolAt`: every tap is due at `ExpectedAt - provisionDuration`;
- `GaugeBounds`: `|Requesting| <= FnActive <= |Started|`.

A transport error skips the `Dec`, so the gauge may stay above the calls in flight. It never counts a call that never started, and that gives the `0..|Fns|` bound of `TypeOK`.

`Tick` moves the clock to `Min` of the due instants. `MinNat` shows, through `WFMin` and `NatLessThanWellFounded`, that a nonempty set of naturals has its `Min` in it. `DueTimesNat` shows the due instants are naturals. Together they keep the clock a natural number.

### What stays with TLC

- Liveness is out of the provers' reach, because it needs ENABLED and fairness reasoning. That covers:
  - `EventuallyTerminal`;
  - the fair part of the liveness run;
  - the restart run.
- The violation runs' properties are claims the code breaks, so there is nothing to prove.

## 5. Not modelled

- The entity-type, invocation-id, missing-workflow and unparsable-deadline checks of `Eval`. They are configuration errors of a single invocation.
- The dead `errorCount` branch.
- The scheduler's Abort. The default policy never aborts.
- The append conflicts of the backend.
- Output expressions.
- Metrics, logging and tracing, except `FnActive` and `FnExecTime` in `FissionFunctionEnv`.
- `App.Close`, `Register`'s typed-nil check, and the API servers' wiring.
- The map-reduce example handlers and `recompile.sh`. They are stateless string processing and a build script.

## 6. Plan

The next steps, in order:

1. **Action properties as theorems.** Examples: a terminal log never changes, and a TaskStarted is appended only for a task with no run in flight. `RunsInv` already contains the second.
2. **The restart model's safety**: `RunsInv` under `Restart`, where the executor's jobs and the controller are lost together.
3. **The staleness sensor alone**: a liveness run without the store poll sensor's fairness, to show what the inverted filter costs.
4. **A failed dependency**: spec 8 scenario 3 wants a task failure to fail the invocation. The code waits until no task can run, which needs the scheduler modelled from the code rather than from the spec.
