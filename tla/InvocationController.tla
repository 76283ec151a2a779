------------------------- MODULE InvocationController -------------------------
(***************************************************************************)
(* One workflow invocation driven by its InvocationController               *)
(* (src/pkg/controller/invocation.go) through the event log, the           *)
(* notification, poll and staleness sensors, the per-key evaluation queue   *)
(* and the LocalExecutor that runs the jobs Eval submits.                  *)
(*                                                                         *)
(* The event log is the only durable state.  Every snapshot the controller *)
(* evaluates is the projection of a prefix of that log: snapshot k is the  *)
(* invocation as it stood after the first k events.  Data (inputs,         *)
(* outputs, error messages) is abstracted away; what is kept is which      *)
(* events happen, in which order, and who decides on which snapshot.       *)
(***************************************************************************)
EXTENDS Naturals, FiniteSets, Sequences

CONSTANTS
    Tasks,          \* task ids of the workflow (ordered, as the scheduler breaks ties by id)
    Deps,           \* Deps[t]: the tasks whose outputs t's input expressions reference
    BadExpr,        \* tasks whose input expressions fail to resolve (expr.Resolve error)
    TransportErrors,\* whether the runtime may fail outside of its control (Invoke returns err)
    MaxQueue,       \* executor queue depth: queued plus running jobs
    SubBuffer       \* invocation subscription buffer: notifications not yet forwarded

ASSUME TasksAssumption == Tasks \subseteq Nat \ {0}
ASSUME DepsAssumption == Deps \in [Tasks -> SUBSET Tasks]
ASSUME BadExprAssumption == BadExpr \subseteq Tasks
ASSUME TransportAssumption == TransportErrors \in BOOLEAN
ASSUME MaxQueueAssumption == MaxQueue \in Nat \ {0}
ASSUME SubBufferAssumption == SubBuffer \in Nat \ {0}

NoTask == 0

-----------------------------------------------------------------------------
(* Events of the invocation aggregate and the jobs of the executor.        *)

EventTypes == {"InvocationCreated", "TaskStarted", "TaskSucceeded", "TaskFailed",
               "InvocationCompleted", "InvocationFailed"}
TerminalEvents == {"InvocationCompleted", "InvocationFailed"}
OutcomeEvents == {"TaskSucceeded", "TaskFailed"}

\* Why Eval failed the invocation: deadline exceeded, or some task failed.
Reasons == {"none", "deadline", "tasksFailed"}

Event == [type : EventTypes, task : Tasks \cup {NoTask}, reason : Reasons]

\* The executor.Task units Eval submits; <<kind, task>> is their TaskID
\* ("<id>.run.<t>", "<id>.prewarm.<t>", "<id>.fail", "<id>.success").
JobKinds == {"run", "prewarm", "fail", "success"}
Job == [kind : JobKinds, task : Tasks \cup {NoTask}, target : Tasks \cup {NoTask},
        phase : {"queued", "invoking"}, reason : Reasons]

JobId(j) == <<j.kind, j.task>>

VARIABLES
    log,            \* the invocation's events in the backend, in append order
    notes,          \* the subscription buffer: snapshots of the notifications not yet forwarded
    queued,         \* 0, or the snapshot (log prefix length) of the queued evaluation
    registered,     \* whether the control system holds a controller for the invocation
    sheduledTasks,  \* InvocationController.sheduledTasks
    jobs,           \* the executor's queued and running jobs
    expired         \* whether time.Now() is past the invocation's deadline

vars == <<log, notes, queued, registered, sheduledTasks, jobs, expired>>

-----------------------------------------------------------------------------
(* Projection of a log prefix: what the invocation projector folds.         *)

TaskIdx(k, t) == {i \in 1..k : log[i].task = t}

\* The latest event of task t among the first k is of the given type.
LastIs(k, t, type) ==
    \E i \in TaskIdx(k, t) : log[i].type = type /\ \A j \in TaskIdx(k, t) : j <= i

\* The status of task t in snapshot k: that of its latest event.
TaskState(k, t) ==
    CASE TaskIdx(k, t) = {}               -> "None"
      [] LastIs(k, t, "TaskSucceeded")    -> "Succeeded"
      [] LastIs(k, t, "TaskFailed")       -> "Failed"
      [] OTHER                            -> "InProgress"

InvTerminal(k) == \E i \in 1..k : log[i].type \in TerminalEvents

Terminal == InvTerminal(Len(log))

\* Mutant: a subscription without a buffer bound.
AppendEventUnbounded(e) ==
    IF Terminal
    THEN UNCHANGED <<log, notes>>
    ELSE /\ log' = Append(log, e)
         /\ notes' = Append(notes, Len(log'))

\* The backend refuses events for an aggregate that is already terminal.  An
\* appended event is published to the cache's subscription, whose buffer
\* discards the newest notification when full.
AppendEvent(e) ==
    IF Terminal
    THEN UNCHANGED <<log, notes>>
    ELSE /\ log' = Append(log, e)
         /\ notes' = IF Len(notes) < SubBuffer THEN Append(notes, Len(log')) ELSE notes

-----------------------------------------------------------------------------
(* The helpers Eval calls on a snapshot.                                    *)

\* Mutant: a started task counted as finished.
allTasksFinishedStarted(k) == \A t \in Tasks : TaskState(k, t) # "None"

allTasksFinished(k) == \A t \in Tasks : TaskState(k, t) \in {"Succeeded", "Failed"}

\* Mutant: determineTaskOutput not checking that each task was successful.
allTasksSucceededFinished(k) == allTasksFinished(k)

\* determineTaskOutput: the invocation succeeds iff every task succeeded.
allTasksSucceeded(k) == \A t \in Tasks : TaskState(k, t) = "Succeeded"

\* Mutant: a dependency that merely started counted as satisfied.
RunTasksStarted(k, sched) ==
    {t \in Tasks : /\ TaskState(k, t) = "None"
                   /\ t \notin sched
                   /\ \A d \in Deps[t] : TaskState(k, d) # "None"}

\* The default scheduler: run the tasks whose dependencies all succeeded and
\* that neither started nor were scheduled already ...
RunTasks(k, sched) ==
    {t \in Tasks : /\ TaskState(k, t) = "None"
                   /\ t \notin sched
                   /\ \A d \in Deps[t] : TaskState(k, d) = "Succeeded"}

\* ... and prewarm those whose dependencies are under way but not all done.
PrepareTasks(k, sched) ==
    {t \in Tasks : /\ TaskState(k, t) = "None"
                   /\ t \notin sched
                   /\ \A d \in Deps[t] : TaskState(k, d) \in {"InProgress", "Succeeded"}
                   /\ \E d \in Deps[t] : TaskState(k, d) = "InProgress"}

-----------------------------------------------------------------------------
(* LocalExecutor.Submit: a job whose TaskID is in the executor is dropped   *)
(* as a duplicate, one that finds the queue full is rejected.               *)

Fresh(J, cands) == {c \in cands : \A j \in J : JobId(j) # JobId(c)}

\* Eval submits the prewarm jobs, then the run jobs, each in task-id order.
SubmitsBefore(c, d) ==
    \/ c.kind = "prewarm" /\ d.kind = "run"
    \/ c.kind = d.kind /\ c.task < d.task

\* The jobs of one Eval the executor accepts: the fresh ones submitted while
\* the queue still had room.
Accepted(J, cands) ==
    {c \in Fresh(J, cands) :
        Cardinality({d \in Fresh(J, cands) : SubmitsBefore(d, c)})
            < MaxQueue - Cardinality(J)}

SubmitJob(j) ==
    jobs' = IF Fresh(jobs, {j}) # {} /\ Cardinality(jobs) < MaxQueue
            THEN jobs \cup {j} ELSE jobs

MkJob(kind, t, target, reason) ==
    [kind |-> kind, task |-> t, target |-> target, phase |-> "queued", reason |-> reason]

-----------------------------------------------------------------------------
(* InvocationController.Eval on snapshot k, with the controller's           *)
(* sheduledTasks sched (empty when the factory has just created it).        *)

\* The invocation is terminal: Done, and the control system drops the controller.
EvalDone(k) ==
    /\ InvTerminal(k)
    /\ registered' = FALSE
    /\ sheduledTasks' = {}
    /\ UNCHANGED jobs

\* Mutant: the fail job submitted without the deadline check.
EvalDeadlineUnchecked(k, sched) ==
    /\ ~InvTerminal(k)
    /\ SubmitJob(MkJob("fail", NoTask, NoTask, "deadline"))
    /\ registered' = TRUE /\ sheduledTasks' = sched

\* The deadline has passed: submit the fail job.
EvalDeadline(k, sched) ==
    /\ ~InvTerminal(k)
    /\ expired
    /\ SubmitJob(MkJob("fail", NoTask, NoTask, "deadline"))
    /\ registered' = TRUE /\ sheduledTasks' = sched

\* Every task finished: complete or fail the invocation.
EvalFinished(k, sched) ==
    /\ ~InvTerminal(k) /\ ~expired
    /\ allTasksFinished(k)
    /\ SubmitJob(IF allTasksSucceeded(k)
                 THEN MkJob("success", NoTask, NoTask, "none")
                 ELSE MkJob("fail", NoTask, NoTask, "tasksFailed"))
    /\ registered' = TRUE /\ sheduledTasks' = sched

\* Otherwise ask the scheduler, submit the prewarm jobs, mark the run tasks
\* scheduled and submit their run jobs.  A prewarm closure reads the loop
\* variable `action` when it runs, so its target is the task of its own
\* iteration or of any later one.
EvalSchedule(k, sched) ==
    /\ ~InvTerminal(k) /\ ~expired
    /\ ~allTasksFinished(k)
    /\ LET run == RunTasks(k, sched)
           prep == PrepareTasks(k, sched)
       IN \E target \in [prep -> Tasks] :
            /\ \A p \in prep : target[p] \in {q \in prep : q >= p}
            /\ LET cands == {MkJob("prewarm", p, target[p], "none") : p \in prep}
                              \cup {MkJob("run", t, t, "none") : t \in run}
               IN jobs' = jobs \cup Accepted(jobs, cands)
            /\ sheduledTasks' = sched \cup run
    /\ registered' = TRUE

\* The sheduledTasks of the controller that evaluates: the control system's
\* factory creates a fresh controller, with an empty map, for an invocation
\* it does not hold.
ControllerSheduledTasks == IF registered THEN sheduledTasks ELSE {}

\* The evaluation queue hands the queued snapshot to the controller.
Eval ==
    /\ queued # 0
    /\ LET k == queued
           sched == ControllerSheduledTasks
       IN \/ EvalDone(k)
          \/ EvalDeadline(k, sched)
          \/ EvalFinished(k, sched)
          \/ EvalSchedule(k, sched)
    /\ queued' = 0
    /\ UNCHANGED <<log, notes, expired>>

-----------------------------------------------------------------------------
(* Executor workers running the submitted jobs.                             *)

\* resolveInputs: building the scope succeeds, and resolving the inputs in
\* priority order stops at the first expression that fails.
ResolveInputsFails(t) == t \in BadExpr

\* Mutant: the task released from sheduledTasks when its run starts.
ExecTaskStartEarlyRelease(j) ==
    /\ j.kind = "run" /\ j.phase = "queued"
    /\ IF ResolveInputsFails(j.task) \/ Terminal
       THEN /\ jobs' = jobs \ {j}
            /\ UNCHANGED <<log, notes>>
       ELSE /\ AppendEvent([type |-> "TaskStarted", task |-> j.task, reason |-> "none"])
            /\ jobs' = (jobs \ {j}) \cup {[j EXCEPT !.phase = "invoking"]}
    /\ sheduledTasks' = sheduledTasks \ {j.task}
    /\ UNCHANGED <<queued, registered, expired>>

\* execTask up to the runtime call: resolve the inputs, then the task API
\* appends TaskStarted.  An input that fails to resolve, or a refused
\* append, ends the job with an error and t stays in sheduledTasks.
ExecTaskStart(j) ==
    /\ j.kind = "run" /\ j.phase = "queued"
    /\ IF ResolveInputsFails(j.task) \/ Terminal
       THEN /\ jobs' = jobs \ {j}
            /\ UNCHANGED <<log, notes>>
       ELSE /\ AppendEvent([type |-> "TaskStarted", task |-> j.task, reason |-> "none"])
            /\ jobs' = (jobs \ {j}) \cup {[j EXCEPT !.phase = "invoking"]}
    /\ UNCHANGED <<queued, registered, sheduledTasks, expired>>

\* FunctionEnv.Invoke: a failed request or an unparsable response is
\* returned as an error (a transport failure); a status of 400 or more is a
\* failed task run, any other a succeeded one.
InvokeResults == OutcomeEvents \cup (IF TransportErrors THEN {"error"} ELSE {})

\* The runtime returns.  The task API appends the run's succeeded or failed
\* status and, Invoke having returned nil, execTask deletes t from
\* sheduledTasks; a transport error, or a refused append, returns an error
\* and leaves it.
ExecTaskEnd(j) ==
    /\ j.kind = "run" /\ j.phase = "invoking"
    /\ jobs' = jobs \ {j}
    /\ \E r \in InvokeResults :
          IF r \in OutcomeEvents /\ ~Terminal
          THEN /\ AppendEvent([type |-> r, task |-> j.task, reason |-> "none"])
               /\ sheduledTasks' = sheduledTasks \ {j.task}
          ELSE UNCHANGED <<log, notes, sheduledTasks>>
    /\ UNCHANGED <<queued, registered, expired>>

\* A prewarm job asks the runtime to prepare its target; purely advisory.
PrewarmRun(j) ==
    /\ j.kind = "prewarm"
    /\ jobs' = jobs \ {j}
    /\ UNCHANGED <<log, notes, queued, registered, sheduledTasks, expired>>

\* The fail and success jobs call invocationAPI.Fail and .Complete.
FinishRun(j) ==
    /\ j.kind \in {"fail", "success"}
    /\ AppendEvent([type |-> IF j.kind = "fail" THEN "InvocationFailed"
                                               ELSE "InvocationCompleted",
                    task |-> NoTask, reason |-> j.reason])
    /\ jobs' = jobs \ {j}
    /\ UNCHANGED <<queued, registered, sheduledTasks, expired>>

-----------------------------------------------------------------------------
(* Sensors.  A submission for a key that is already queued is ignored.      *)

SubmitEval(k) == queued' = IF queued = 0 THEN k ELSE queued

\* The notification sensor forwards the oldest buffered notification, which
\* carries the invocation as projected after its event.
NotificationSensor ==
    /\ notes # <<>>
    /\ notes' = Tail(notes)
    /\ SubmitEval(Head(notes))
    /\ UNCHANGED <<log, registered, sheduledTasks, jobs, expired>>

\* Mutant: the poll sensor's terminal-state filter inverted.
StorePollInverted ==
    /\ Terminal
    /\ SubmitEval(Len(log))
    /\ UNCHANGED <<log, notes, registered, sheduledTasks, jobs, expired>>

\* The store poll sensor refreshes the cache and submits a non-terminal invocation.
StorePoll ==
    /\ ~Terminal
    /\ SubmitEval(Len(log))
    /\ UNCHANGED <<log, notes, registered, sheduledTasks, jobs, expired>>

\* The staleness sensor submits a non-terminal invocation whose controller
\* the control system does not hold.
StalenessPoll ==
    /\ ~registered
    /\ ~Terminal
    /\ SubmitEval(Len(log))
    /\ UNCHANGED <<log, notes, registered, sheduledTasks, jobs, expired>>

\* Time passes the invocation's deadline.
Expire ==
    /\ ~expired
    /\ expired' = TRUE
    /\ UNCHANGED <<log, notes, queued, registered, sheduledTasks, jobs>>

-----------------------------------------------------------------------------

Init ==
    /\ log = <<[type |-> "InvocationCreated", task |-> NoTask, reason |-> "none"]>>
    /\ notes = <<1>>
    /\ queued = 0
    /\ registered = FALSE
    /\ sheduledTasks = {}
    /\ jobs = {}
    /\ expired = FALSE

\* A worker runs the job with TaskID <<kind, t>>.
Worker(kind, t) ==
    \E j \in jobs : /\ JobId(j) = <<kind, t>>
                   /\ \/ ExecTaskStart(j) \/ ExecTaskEnd(j)
                      \/ PrewarmRun(j) \/ FinishRun(j)

Next ==
    \/ Eval
    \/ \E kind \in JobKinds, t \in Tasks \cup {NoTask} : Worker(kind, t)
    \/ NotificationSensor
    \/ StorePoll
    \/ StalenessPoll
    \/ Expire

\* Sensors poll on timers, workers drain the executor, the evaluation queue
\* is served and time advances: each is weakly fair.
Fairness ==
    /\ WF_vars(Eval)
    /\ \A kind \in JobKinds, t \in Tasks \cup {NoTask} : WF_vars(Worker(kind, t))
    /\ WF_vars(NotificationSensor)
    /\ WF_vars(StorePoll)
    /\ WF_vars(Expire)

Spec == Init /\ [][Next]_vars

FairSpec == Spec /\ Fairness

-----------------------------------------------------------------------------
(* Properties.                                                              *)

TypeOK ==
    /\ log \in Seq(Event)
    /\ Len(log) >= 1
    /\ notes \in Seq(1..Len(log))
    /\ Len(notes) <= SubBuffer
    /\ queued \in 0..Len(log)
    /\ registered \in BOOLEAN
    /\ sheduledTasks \subseteq Tasks
    /\ jobs \subseteq Job
    /\ expired \in BOOLEAN

IsEvent(i, type, t) == log[i].type = type /\ log[i].task = t

\* Data flow (the scheduler, on whatever snapshot Eval is handed): a task is
\* started only after every task its input expressions read has succeeded.
DependenciesBeforeStart ==
    \A i \in 1..Len(log) : log[i].type = "TaskStarted" =>
        \A d \in Deps[log[i].task] : \E k \in 1..(i - 1) : IsEvent(k, "TaskSucceeded", d)

\* Every run job in the executor was decided on a snapshot in which each
\* task its inputs read had succeeded: what makes DependenciesBeforeStart
\* survive the delay between Eval and the worker's execTask.
RunJobsReady ==
    \A j \in jobs : j.kind = "run" =>
        \A d \in Deps[j.task] : \E k \in 1..Len(log) : IsEvent(k, "TaskSucceeded", d)

\* A ".success" job in the executor was decided on a snapshot in which every
\* task had succeeded, and a ".fail" job on one with a failed task or past
\* the deadline: what makes the invocation's outcome survive the delay
\* between Eval and the worker's Complete or Fail.
FinishJobsJustified ==
    \A j \in jobs :
        /\ j.kind = "success" =>
              \A t \in Tasks : \E k \in 1..Len(log) : IsEvent(k, "TaskSucceeded", t)
        /\ j.kind = "fail" =>
              /\ j.reason \in {"deadline", "tasksFailed"}
              /\ j.reason = "tasksFailed" =>
                    \E k \in 1..Len(log), t \in Tasks : IsEvent(k, "TaskFailed", t)
              /\ j.reason = "deadline" => expired

\* Eval completes the invocation (the ".success" job) only after every task
\* has succeeded, although the job runs later than the snapshot it was
\* decided on.
CompletedOnlyIfAllSucceeded ==
    \A i \in 1..Len(log) : log[i].type = "InvocationCompleted" =>
        \A t \in Tasks : \E k \in 1..(i - 1) : IsEvent(k, "TaskSucceeded", t)

\* Eval fails the invocation with "one or more tasks have failed" only when
\* some task's failure was recorded, and for "deadline exceeded" only once
\* the deadline has passed.
FailureHasCause ==
    \A i \in 1..Len(log) : log[i].type = "InvocationFailed" =>
        /\ log[i].reason = "tasksFailed" =>
              \E k \in 1..(i - 1), t \in Tasks : IsEvent(k, "TaskFailed", t)
        /\ log[i].reason = "deadline" => expired

\* sheduledTasks keeps Eval from dispatching a task again while its run is in
\* flight: a task is started again only after its previous run's outcome was
\* recorded.
NoOverlappingRuns ==
    \A i, j \in 1..Len(log) :
        (i < j /\ log[i].type = "TaskStarted" /\ IsEvent(j, "TaskStarted", log[i].task))
            => \E k \in (i + 1)..(j - 1) :
                  log[k].task = log[i].task /\ log[k].type \in OutcomeEvents

\* The sensors, the queue and the executor drive every invocation to a
\* terminal state (by the deadline if by nothing else).
EventuallyTerminal == <>Terminal

\* A task Eval marked scheduled has a run job in the executor, or has
\* started: a submission the executor rejected is retried by a later cycle.
ScheduledTaskIsDispatched ==
    \A t \in sheduledTasks :
        \/ \E j \in jobs : j.kind = "run" /\ j.task = t
        \/ TaskState(Len(log), t) # "None"
        \/ Terminal

\* A task whose input expression fails to resolve is recorded as failed once
\* its run job is done.
ExprErrorRecordsFailure ==
    \A t \in BadExpr \cap sheduledTasks :
        (~\E j \in jobs : j.kind = "run" /\ j.task = t)
            => \E i \in 1..Len(log) : IsEvent(i, "TaskFailed", t)

\* Each prewarm job prepares the task the scheduler named for it.
PrewarmTargetsNamedTask ==
    \A j \in jobs : j.kind = "prewarm" => j.target = j.task

-----------------------------------------------------------------------------
(* Refinement: the controller, the sensors and the executor implement the  *)
(* abstract invocation of InvocationSpec.  The abstract state is read off  *)
(* the event log: each task's latest status, the tasks that ever succeeded *)
(* or failed, and the invocation's terminal event.                         *)

EverIs(type) == {t \in Tasks : \E i \in 1..Len(log) : IsEvent(i, type, t)}

InvocationResult ==
    IF ~Terminal THEN "running"
    ELSE IF \E i \in 1..Len(log) : log[i].type = "InvocationCompleted"
         THEN "completed" ELSE "failed"

Abs == INSTANCE InvocationSpec WITH
    status <- [t \in Tasks |-> TaskState(Len(log), t)],
    succeeded <- EverIs("TaskSucceeded"),
    failed <- EverIs("TaskFailed"),
    result <- InvocationResult,
    late <- expired

\* Every behaviour of the controller, however stale the snapshots it
\* decides on and however late the executor runs its jobs, is a behaviour
\* of the abstract invocation.
AbsSpec == Abs!Spec

=============================================================================
