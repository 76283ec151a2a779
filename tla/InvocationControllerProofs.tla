--------------------- MODULE InvocationControllerProofs ---------------------
(***************************************************************************)
(* Machine-checked proofs about InvocationController, for every set of     *)
(* tasks, every dependency relation, every executor queue depth and every  *)
(* subscription buffer size.                                               *)
(***************************************************************************)
EXTENDS InvocationController, TLAPS

USE TasksAssumption, DepsAssumption, BadExprAssumption, TransportAssumption,
    MaxQueueAssumption, SubBufferAssumption

-----------------------------------------------------------------------------
(* Appending to the log keeps the log, the subscription buffer and their    *)
(* relation typed, and only extends the log.                                *)

LEMMA AppendTyped ==
    ASSUME TypeOK, NEW e \in Event, AppendEvent(e)
    PROVE  /\ log' \in Seq(Event)
           /\ Len(log') >= 1
           /\ notes' \in Seq(1..Len(log'))
           /\ Len(notes') <= SubBuffer
           /\ Len(log) <= Len(log')
           /\ \A i \in 1..Len(log) : log'[i] = log[i]
<1>1. CASE Terminal
  BY <1>1 DEF AppendEvent, TypeOK
<1>2. CASE ~Terminal
  <2>1. log' = Append(log, e)
    BY <1>2 DEF AppendEvent
  <2>2. notes' = IF Len(notes) < SubBuffer THEN Append(notes, Len(log')) ELSE notes
    BY <1>2 DEF AppendEvent
  <2>3. Len(log') = Len(log) + 1 /\ log' \in Seq(Event)
    BY <2>1 DEF TypeOK
  <2>4. \A i \in 1..Len(log) : log'[i] = log[i]
    BY <2>1 DEF TypeOK
  <2>5. notes \in Seq(1..Len(log')) /\ Len(log') \in 1..Len(log')
    BY <2>3 DEF TypeOK
  <2>6. notes' \in Seq(1..Len(log')) /\ Len(notes') <= SubBuffer
    <3>1. CASE Len(notes) < SubBuffer
      <4>1. notes' = Append(notes, Len(log'))
        BY <2>2, <3>1
      <4>2. QED
        BY <4>1, <2>5, <3>1 DEF TypeOK
    <3>2. CASE ~(Len(notes) < SubBuffer)
      BY <2>2, <2>5, <3>2 DEF TypeOK
    <3>3. QED
      BY <3>1, <3>2
  <2>7. QED
    BY <2>3, <2>4, <2>6 DEF TypeOK
<1>3. QED
  BY <1>1, <1>2

\* A job built by MkJob from typed fields is a Job.
LEMMA MkJobTyped ==
    ASSUME NEW kind \in JobKinds, NEW t \in Tasks \cup {NoTask},
           NEW target \in Tasks \cup {NoTask}, NEW reason \in Reasons
    PROVE  MkJob(kind, t, target, reason) \in Job
BY DEF MkJob, Job

-----------------------------------------------------------------------------
(* Type correctness.                                                        *)

LEMMA InitTypeOK == Init => TypeOK
<1> SUFFICES ASSUME Init PROVE TypeOK
  OBVIOUS
<1>1. [type |-> "InvocationCreated", task |-> NoTask, reason |-> "none"] \in Event
  BY DEF Event, EventTypes, Reasons, NoTask
<1>2. log \in Seq(Event) /\ Len(log) = 1
  BY <1>1 DEF Init
<1>3. notes \in Seq(1..Len(log)) /\ Len(notes) <= SubBuffer
  BY <1>2 DEF Init
<1>4. queued \in 0..Len(log) /\ jobs \subseteq Job /\ sheduledTasks \subseteq Tasks
  BY <1>2 DEF Init
<1>5. registered \in BOOLEAN /\ expired \in BOOLEAN
  BY DEF Init
<1>6. QED
  BY <1>2, <1>3, <1>4, <1>5 DEF TypeOK

LEMMA EvalTypeOK == TypeOK /\ Eval => TypeOK'
<1> SUFFICES ASSUME TypeOK, Eval PROVE TypeOK'
  OBVIOUS
<1> DEFINE k == queued
           sched == ControllerSheduledTasks
<1>1. sched \subseteq Tasks
  BY DEF TypeOK, ControllerSheduledTasks
<1>2. UNCHANGED <<log, notes, expired>> /\ queued' = 0
  BY DEF Eval
<1>3. SubmitJob(MkJob("fail", NoTask, NoTask, "deadline")) => jobs' \subseteq Job
  BY MkJobTyped DEF SubmitJob, TypeOK, JobKinds, Reasons, NoTask
<1>4. SubmitJob(MkJob("success", NoTask, NoTask, "none")) => jobs' \subseteq Job
  BY MkJobTyped DEF SubmitJob, TypeOK, JobKinds, Reasons, NoTask
<1>5. SubmitJob(MkJob("fail", NoTask, NoTask, "tasksFailed")) => jobs' \subseteq Job
  BY MkJobTyped DEF SubmitJob, TypeOK, JobKinds, Reasons, NoTask
<1>7. jobs' \subseteq Job /\ registered' \in BOOLEAN /\ sheduledTasks' \subseteq Tasks
  <2>1. CASE EvalDone(k)
    BY <2>1 DEF EvalDone, TypeOK
  <2>2. CASE EvalDeadline(k, sched)
    BY <2>2, <1>1, <1>3 DEF EvalDeadline
  <2>3. CASE EvalFinished(k, sched)
    BY <2>3, <1>1, <1>4, <1>5 DEF EvalFinished
  <2>4. CASE EvalSchedule(k, sched)
    <3>1. RunTasks(k, sched) \subseteq Tasks /\ PrepareTasks(k, sched) \subseteq Tasks
      BY DEF RunTasks, PrepareTasks
    <3>2. PICK target \in [PrepareTasks(k, sched) -> Tasks] :
              jobs' = jobs \cup Accepted(jobs,
                         {MkJob("prewarm", p, target[p], "none") : p \in PrepareTasks(k, sched)}
                         \cup {MkJob("run", t, t, "none") : t \in RunTasks(k, sched)})
      BY <2>4 DEF EvalSchedule
    <3> DEFINE cands == {MkJob("prewarm", p, target[p], "none") : p \in PrepareTasks(k, sched)}
                        \cup {MkJob("run", t, t, "none") : t \in RunTasks(k, sched)}
    <3>5. cands \subseteq Job
      BY <3>1 DEF MkJob, Job, JobKinds, Reasons, NoTask
    <3>6. Accepted(jobs, cands) \subseteq cands
      BY DEF Accepted, Fresh
    <3>3. jobs' \subseteq Job
      BY <3>2, <3>5, <3>6 DEF TypeOK
    <3>4. QED
      BY <2>4, <3>1, <3>3, <1>1 DEF EvalSchedule
  <2>5. QED
    BY <2>1, <2>2, <2>3, <2>4 DEF Eval
<1>8. QED
  BY <1>2, <1>7 DEF TypeOK

LEMMA WorkerTypeOK ==
    ASSUME TypeOK, NEW kind \in JobKinds, NEW t \in Tasks \cup {NoTask}, Worker(kind, t)
    PROVE  TypeOK'
<1> PICK j \in jobs : /\ \/ ExecTaskStart(j) \/ ExecTaskEnd(j)
                         \/ PrewarmRun(j) \/ FinishRun(j)
  BY DEF Worker
<1>1. j \in Job
  BY DEF TypeOK
<1>2. CASE ExecTaskStart(j)
  <2>1. CASE ResolveInputsFails(j.task) \/ Terminal
    BY <1>2, <2>1 DEF ExecTaskStart, TypeOK
  <2>2. CASE ~(ResolveInputsFails(j.task) \/ Terminal)
    <3>1. [type |-> "TaskStarted", task |-> j.task, reason |-> "none"] \in Event
      BY <1>1 DEF Job, Event, EventTypes, Reasons
    <3>2. AppendEvent([type |-> "TaskStarted", task |-> j.task, reason |-> "none"])
          /\ jobs' = (jobs \ {j}) \cup {[j EXCEPT !.phase = "invoking"]}
      BY <1>2, <2>2 DEF ExecTaskStart
    <3>3. [j EXCEPT !.phase = "invoking"] \in Job
      BY <1>1 DEF Job
    <3>4. /\ log' \in Seq(Event) /\ Len(log') >= 1
          /\ notes' \in Seq(1..Len(log')) /\ Len(notes') <= SubBuffer
          /\ Len(log) <= Len(log')
      BY <3>1, <3>2, AppendTyped
    <3>5. UNCHANGED <<queued, registered, sheduledTasks, expired>>
      BY <1>2 DEF ExecTaskStart
    <3>6. queued' \in 0..Len(log')
      BY <3>4, <3>5 DEF TypeOK
    <3>7. jobs' \subseteq Job
      BY <3>2, <3>3 DEF TypeOK
    <3>8. QED
      BY <3>4, <3>5, <3>6, <3>7 DEF TypeOK
  <2>3. QED
    BY <2>1, <2>2
<1>3. CASE ExecTaskEnd(j)
  <2>0. PICK r \in InvokeResults :
            IF r \in OutcomeEvents /\ ~Terminal
            THEN /\ AppendEvent([type |-> r, task |-> j.task, reason |-> "none"])
                 /\ sheduledTasks' = sheduledTasks \ {j.task}
            ELSE UNCHANGED <<log, notes, sheduledTasks>>
    BY <1>3 DEF ExecTaskEnd
  <2>1. CASE r \in OutcomeEvents /\ ~Terminal
    <3>1. AppendEvent([type |-> r, task |-> j.task, reason |-> "none"])
          /\ sheduledTasks' = sheduledTasks \ {j.task}
      BY <2>0, <2>1
    <3>2. [type |-> r, task |-> j.task, reason |-> "none"] \in Event
      BY <1>1, <2>1 DEF Job, Event, EventTypes, Reasons, OutcomeEvents
    <3>3. /\ log' \in Seq(Event) /\ Len(log') >= 1
          /\ notes' \in Seq(1..Len(log')) /\ Len(notes') <= SubBuffer
          /\ Len(log) <= Len(log')
      BY <3>1, <3>2, AppendTyped
    <3>4. UNCHANGED <<queued, registered, expired>> /\ jobs' = jobs \ {j}
      BY <1>3 DEF ExecTaskEnd
    <3>5. queued' \in 0..Len(log') /\ jobs' \subseteq Job
      BY <3>3, <3>4 DEF TypeOK
    <3>6. sheduledTasks' \subseteq Tasks
      BY <3>1 DEF TypeOK
    <3>7. QED
      BY <3>3, <3>4, <3>5, <3>6 DEF TypeOK
  <2>2. CASE ~(r \in OutcomeEvents /\ ~Terminal)
    BY <2>0, <2>2, <1>3 DEF ExecTaskEnd, TypeOK
  <2>3. QED
    BY <2>1, <2>2
<1>4. CASE PrewarmRun(j)
  BY <1>4 DEF PrewarmRun, TypeOK
<1>5. CASE FinishRun(j)
  <2>1. [type |-> IF j.kind = "fail" THEN "InvocationFailed" ELSE "InvocationCompleted",
         task |-> NoTask, reason |-> j.reason] \in Event
    BY <1>1 DEF Job, Event, EventTypes, NoTask
  <2>2. QED
    BY <1>5, <2>1, AppendTyped DEF FinishRun, TypeOK
<1>6. QED
  BY <1>2, <1>3, <1>4, <1>5

LEMMA SensorTypeOK ==
    TypeOK /\ (NotificationSensor \/ StorePoll \/ StalenessPoll \/ Expire) => TypeOK'
<1> SUFFICES ASSUME TypeOK, NotificationSensor \/ StorePoll \/ StalenessPoll \/ Expire
             PROVE TypeOK'
  OBVIOUS
<1>1. CASE NotificationSensor
  <2>1. notes # <<>> /\ notes' = Tail(notes) /\ Head(notes) \in 1..Len(log)
    BY <1>1 DEF NotificationSensor, TypeOK
  <2>2. Tail(notes) \in Seq(1..Len(log)) /\ Len(Tail(notes)) <= SubBuffer
    BY <2>1 DEF TypeOK
  <2>3. QED
    BY <1>1, <2>1, <2>2 DEF NotificationSensor, SubmitEval, TypeOK
<1>2. CASE StorePoll \/ StalenessPoll
  <2>1. SubmitEval(Len(log)) /\ UNCHANGED <<log, notes, registered, sheduledTasks, jobs, expired>>
    BY <1>2 DEF StorePoll, StalenessPoll
  <2>2. queued' \in 0..Len(log)
    BY <2>1 DEF SubmitEval, TypeOK
  <2>3. QED
    BY <2>1, <2>2 DEF TypeOK
<1>3. CASE Expire
  BY <1>3 DEF Expire, TypeOK
<1>4. QED
  BY <1>1, <1>2, <1>3

\* The executor, the controller and the sensors keep every variable typed.
THEOREM TypeCorrect == Spec => []TypeOK
<1>1. Init => TypeOK
  BY InitTypeOK
<1>2. TypeOK /\ [Next]_vars => TypeOK'
  <2> SUFFICES ASSUME TypeOK, [Next]_vars PROVE TypeOK'
    OBVIOUS
  <2>1. CASE Eval
    BY <2>1, EvalTypeOK
  <2>2. CASE \E kind \in JobKinds, t \in Tasks \cup {NoTask} : Worker(kind, t)
    BY <2>2, WorkerTypeOK
  <2>3. CASE NotificationSensor \/ StorePoll \/ StalenessPoll \/ Expire
    BY <2>3, SensorTypeOK
  <2>4. CASE UNCHANGED vars
    BY <2>4 DEF vars, TypeOK
  <2>5. QED
    BY <2>1, <2>2, <2>3, <2>4 DEF Next
<1>3. QED
  BY <1>1, <1>2, PTL DEF Spec

-----------------------------------------------------------------------------
(* Dependencies before start.                                               *)

\* The inductive strengthening: the type invariant, the property, and that
\* every run job still in the executor is ready.
DepsInv == TypeOK /\ DependenciesBeforeStart /\ RunJobsReady

\* A task whose projected status is Succeeded in snapshot k has a
\* TaskSucceeded event among the first k: what the scheduler reads is backed
\* by the log.
LEMMA SucceededHasEvent ==
    ASSUME NEW k \in Nat, NEW d, TaskState(k, d) = "Succeeded"
    PROVE  \E i \in 1..k : IsEvent(i, "TaskSucceeded", d)
<1>1. LastIs(k, d, "TaskSucceeded")
  BY DEF TaskState
<1>2. QED
  BY <1>1 DEF LastIs, TaskIdx, IsEvent

\* An append keeps every event that was there: a witness in the old log is a
\* witness in the new one.
LEMMA AppendKeepsEvent ==
    ASSUME TypeOK, NEW e \in Event, AppendEvent(e), NEW type, NEW t,
           \E k \in 1..Len(log) : IsEvent(k, type, t)
    PROVE  \E k \in 1..Len(log') : log'[k].type = type /\ log'[k].task = t
<1>1. Len(log) <= Len(log') /\ \A i \in 1..Len(log) : log'[i] = log[i]
  BY AppendTyped
<1>2. QED
  BY <1>1 DEF IsEvent

\* A step that leaves the log alone keeps DependenciesBeforeStart.
LEMMA LogUnchangedDeps ==
    ASSUME DependenciesBeforeStart, log' = log
    PROVE  DependenciesBeforeStart'
<1> SUFFICES ASSUME NEW i \in 1..Len(log'), log'[i].type = "TaskStarted",
                    NEW d \in Deps[log'[i].task]
             PROVE  \E k \in 1..(i - 1) : log'[k].type = "TaskSucceeded" /\ log'[k].task = d
  BY DEF DependenciesBeforeStart, IsEvent
<1>1. i \in 1..Len(log) /\ log[i].type = "TaskStarted" /\ d \in Deps[log[i].task]
  OBVIOUS
<1>2. \E k \in 1..(i - 1) : IsEvent(k, "TaskSucceeded", d)
  BY <1>1 DEF DependenciesBeforeStart
<1>3. QED
  BY <1>2 DEF IsEvent

\* Appending an event keeps DependenciesBeforeStart when a TaskStarted event
\* is appended only for a task whose dependencies have succeeded already.
LEMMA AppendKeepsDeps ==
    ASSUME TypeOK, DependenciesBeforeStart, NEW e \in Event, AppendEvent(e),
           e.type = "TaskStarted" =>
               \A d \in Deps[e.task] : \E k \in 1..Len(log) : IsEvent(k, "TaskSucceeded", d)
    PROVE  DependenciesBeforeStart'
<1>1. CASE Terminal
  <2>1. log' = log
    BY <1>1 DEF AppendEvent
  <2>2. QED
    BY <2>1, LogUnchangedDeps
<1>2. CASE ~Terminal
  <2>1. log' = Append(log, e)
    BY <1>2 DEF AppendEvent
  <2>2. /\ Len(log') = Len(log) + 1
        /\ \A m \in 1..Len(log) : log'[m] = log[m]
        /\ log'[Len(log) + 1] = e
    BY <2>1 DEF TypeOK
  <2> SUFFICES ASSUME NEW i \in 1..Len(log'), log'[i].type = "TaskStarted",
                      NEW d \in Deps[log'[i].task]
               PROVE  \E k \in 1..(i - 1) : log'[k].type = "TaskSucceeded" /\ log'[k].task = d
    BY DEF DependenciesBeforeStart, IsEvent
  <2>3. CASE i \in 1..Len(log)
    <3>1. log[i].type = "TaskStarted" /\ d \in Deps[log[i].task]
      BY <2>2, <2>3
    <3>2. PICK k \in 1..(i - 1) : IsEvent(k, "TaskSucceeded", d)
      BY <3>1, <2>3 DEF DependenciesBeforeStart
    <3>3. QED
      BY <3>2, <2>2, <2>3 DEF IsEvent
  <2>4. CASE i = Len(log) + 1
    <3>1. e.type = "TaskStarted" /\ d \in Deps[e.task]
      BY <2>2, <2>4
    <3>2. PICK k \in 1..Len(log) : IsEvent(k, "TaskSucceeded", d)
      BY <3>1
    <3>3. QED
      BY <3>2, <2>2, <2>4 DEF IsEvent, TypeOK
  <2>5. QED
    BY <2>2, <2>3, <2>4 DEF TypeOK
<1>3. QED
  BY <1>1, <1>2

\* Eval appends nothing, and a run job it submits is for a task whose
\* dependencies succeeded in the snapshot it evaluated, which is a prefix of
\* the log.
LEMMA EvalDeps == DepsInv /\ Eval => DependenciesBeforeStart' /\ RunJobsReady'
<1> SUFFICES ASSUME DepsInv, Eval PROVE DependenciesBeforeStart' /\ RunJobsReady'
  OBVIOUS
<1> DEFINE k == queued
           sched == ControllerSheduledTasks
<1>1. log' = log /\ k \in 1..Len(log)
  BY DEF Eval, DepsInv, TypeOK
<1>2. DependenciesBeforeStart'
  BY <1>1 DEF DepsInv, DependenciesBeforeStart, IsEvent
<1>3. RunJobsReady'
  <2> SUFFICES ASSUME NEW j \in jobs', j.kind = "run", NEW d \in Deps[j.task]
               PROVE  \E m \in 1..Len(log) : IsEvent(m, "TaskSucceeded", d)
    BY <1>1 DEF RunJobsReady, IsEvent
  <2>1. CASE j \in jobs
    BY <2>1 DEF DepsInv, RunJobsReady
  <2>2. CASE j \notin jobs
    <3>1. CASE EvalDone(k)
      BY <3>1, <2>2 DEF EvalDone
    <3>2. CASE EvalDeadline(k, sched)
      BY <3>2, <2>2 DEF EvalDeadline, SubmitJob, MkJob
    <3>3. CASE EvalFinished(k, sched)
      BY <3>3, <2>2 DEF EvalFinished, SubmitJob, MkJob
    <3>4. CASE EvalSchedule(k, sched)
      <4>1. PICK target \in [PrepareTasks(k, sched) -> Tasks] :
                jobs' = jobs \cup Accepted(jobs,
                           {MkJob("prewarm", p, target[p], "none") : p \in PrepareTasks(k, sched)}
                           \cup {MkJob("run", t, t, "none") : t \in RunTasks(k, sched)})
        BY <3>4 DEF EvalSchedule
      <4>2. j \in {MkJob("prewarm", p, target[p], "none") : p \in PrepareTasks(k, sched)}
                  \cup {MkJob("run", t, t, "none") : t \in RunTasks(k, sched)}
        BY <4>1, <2>2 DEF Accepted, Fresh
      <4>3. PICK t \in RunTasks(k, sched) : j = MkJob("run", t, t, "none")
        BY <4>2 DEF MkJob
      <4>4. TaskState(k, d) = "Succeeded"
        BY <4>3 DEF RunTasks, MkJob
      <4>5. \E i \in 1..k : IsEvent(i, "TaskSucceeded", d)
        BY <4>4, <1>1, SucceededHasEvent
      <4>6. QED
        BY <4>5, <1>1
    <3>5. QED
      BY <3>1, <3>2, <3>3, <3>4 DEF Eval
  <2>3. QED
    BY <2>1, <2>2
<1>4. QED
  BY <1>2, <1>3

\* A worker step that leaves the log or appends to it, and leaves only jobs
\* of the kind and task of a job that was there, keeps the run jobs ready.
LEMMA JobsKeepReady ==
    ASSUME TypeOK, RunJobsReady,
           log' = log \/ \E e \in Event : AppendEvent(e),
           \A j2 \in jobs' : \E j1 \in jobs : j1.kind = j2.kind /\ j1.task = j2.task
    PROVE  RunJobsReady'
<1> SUFFICES ASSUME NEW j2 \in jobs', j2.kind = "run", NEW d \in Deps[j2.task]
             PROVE  \E m \in 1..Len(log') : log'[m].type = "TaskSucceeded" /\ log'[m].task = d
  BY DEF RunJobsReady, IsEvent
<1>1. PICK j1 \in jobs : j1.kind = j2.kind /\ j1.task = j2.task
  OBVIOUS
<1>2. \E m \in 1..Len(log) : IsEvent(m, "TaskSucceeded", d)
  BY <1>1 DEF RunJobsReady
<1>3. CASE log' = log
  BY <1>2, <1>3 DEF IsEvent
<1>4. CASE \E e \in Event : AppendEvent(e)
  <2>1. PICK e \in Event : AppendEvent(e)
    BY <1>4
  <2>2. QED
    BY <2>1, <1>2, AppendKeepsEvent
<1>5. QED
  BY <1>3, <1>4

\* Workers start a task only from a ready run job, and otherwise append no
\* TaskStarted event.
LEMMA WorkerDeps ==
    ASSUME DepsInv, NEW kind, NEW t, Worker(kind, t)
    PROVE  DependenciesBeforeStart' /\ RunJobsReady'
<1>0. PICK j \in jobs : ExecTaskStart(j) \/ ExecTaskEnd(j) \/ PrewarmRun(j) \/ FinishRun(j)
  BY DEF Worker
<1>6. TypeOK /\ DependenciesBeforeStart /\ RunJobsReady /\ j \in Job
  BY DEF DepsInv, TypeOK
<1>1. CASE ExecTaskStart(j)
  <2>1. CASE ResolveInputsFails(j.task) \/ Terminal
    <3>1. log' = log /\ jobs' = jobs \ {j}
      BY <1>1, <2>1 DEF ExecTaskStart
    <3>2. DependenciesBeforeStart'
      BY <3>1, <1>6, LogUnchangedDeps
    <3>3. QED
      BY <3>1, <3>2, <1>6, JobsKeepReady
  <2>2. CASE ~(ResolveInputsFails(j.task) \/ Terminal)
    <3> DEFINE e == [type |-> "TaskStarted", task |-> j.task, reason |-> "none"]
    <3>1. AppendEvent(e) /\ jobs' = (jobs \ {j}) \cup {[j EXCEPT !.phase = "invoking"]}
          /\ j.kind = "run"
      BY <1>1, <2>2 DEF ExecTaskStart
    <3>2. e \in Event
      BY <1>6 DEF Job, Event, EventTypes, Reasons
    <3>3. \A d \in Deps[e.task] : \E k \in 1..Len(log) : IsEvent(k, "TaskSucceeded", d)
      BY <3>1, <1>6 DEF RunJobsReady
    <3>4. DependenciesBeforeStart'
      BY <3>1, <3>2, <3>3, <1>6, AppendKeepsDeps
    <3>5. \A j2 \in jobs' : \E j1 \in jobs : j1.kind = j2.kind /\ j1.task = j2.task
      BY <3>1, <1>6 DEF Job
    <3>6. QED
      BY <3>1, <3>2, <3>4, <3>5, <1>6, JobsKeepReady
  <2>3. QED
    BY <2>1, <2>2
<1>2. CASE ExecTaskEnd(j)
  <2>0. PICK r \in InvokeResults :
            IF r \in OutcomeEvents /\ ~Terminal
            THEN /\ AppendEvent([type |-> r, task |-> j.task, reason |-> "none"])
                 /\ sheduledTasks' = sheduledTasks \ {j.task}
            ELSE UNCHANGED <<log, notes, sheduledTasks>>
    BY <1>2 DEF ExecTaskEnd
  <2>1. jobs' = jobs \ {j}
    BY <1>2 DEF ExecTaskEnd
  <2>2. CASE ~(r \in OutcomeEvents /\ ~Terminal)
    <3>1. log' = log
      BY <2>0, <2>2
    <3>2. DependenciesBeforeStart'
      BY <3>1, <1>6, LogUnchangedDeps
    <3>3. QED
      BY <2>1, <3>1, <3>2, <1>6, JobsKeepReady
  <2>3. CASE r \in OutcomeEvents /\ ~Terminal
    <3>1. AppendEvent([type |-> r, task |-> j.task, reason |-> "none"])
      BY <2>0, <2>3
    <3>2. [type |-> r, task |-> j.task, reason |-> "none"] \in Event
      BY <1>6, <2>3 DEF Job, Event, EventTypes, Reasons, OutcomeEvents
    <3>3. DependenciesBeforeStart'
      BY <2>3, <3>1, <3>2, <1>6, AppendKeepsDeps DEF OutcomeEvents
    <3>4. QED
      BY <2>1, <3>1, <3>2, <3>3, <1>6, JobsKeepReady
  <2>4. QED
    BY <2>2, <2>3
<1>3. CASE PrewarmRun(j)
  <2>1. log' = log /\ jobs' = jobs \ {j}
    BY <1>3 DEF PrewarmRun
  <2>2. DependenciesBeforeStart'
    BY <2>1, <1>6, LogUnchangedDeps
  <2>3. QED
    BY <2>1, <2>2, <1>6, JobsKeepReady
<1>4. CASE FinishRun(j)
  <2> DEFINE e == [type |-> IF j.kind = "fail" THEN "InvocationFailed" ELSE "InvocationCompleted",
                   task |-> NoTask, reason |-> j.reason]
  <2>1. AppendEvent(e) /\ jobs' = jobs \ {j}
    BY <1>4 DEF FinishRun
  <2>2. e \in Event
    BY <1>6 DEF Job, Event, EventTypes, NoTask
  <2>3. DependenciesBeforeStart'
    BY <2>1, <2>2, <1>6, AppendKeepsDeps
  <2>4. QED
    BY <2>1, <2>2, <2>3, <1>6, JobsKeepReady
<1>5. QED
  BY <1>0, <1>1, <1>2, <1>3, <1>4

\* The sensors append nothing and submit no job.
LEMMA SensorDeps ==
    DepsInv /\ (NotificationSensor \/ StorePoll \/ StalenessPoll \/ Expire)
        => DependenciesBeforeStart' /\ RunJobsReady'
<1> SUFFICES ASSUME DepsInv, NotificationSensor \/ StorePoll \/ StalenessPoll \/ Expire
             PROVE  DependenciesBeforeStart' /\ RunJobsReady'
  OBVIOUS
<1>1. log' = log /\ jobs' = jobs
  BY DEF NotificationSensor, StorePoll, StalenessPoll, Expire
<1>2. DependenciesBeforeStart'
  BY <1>1, LogUnchangedDeps DEF DepsInv
<1>3. RunJobsReady'
  BY <1>1 DEF DepsInv, RunJobsReady, IsEvent
<1>4. QED
  BY <1>2, <1>3

LEMMA InitDeps == Init => DepsInv
<1> SUFFICES ASSUME Init PROVE DepsInv
  OBVIOUS
<1>1. TypeOK
  BY InitTypeOK
<1>2. DependenciesBeforeStart
  BY DEF Init, DependenciesBeforeStart
<1>3. RunJobsReady
  BY DEF Init, RunJobsReady
<1>4. QED
  BY <1>1, <1>2, <1>3 DEF DepsInv

LEMMA NextDeps == DepsInv /\ [Next]_vars => DepsInv'
<1> SUFFICES ASSUME DepsInv, [Next]_vars PROVE DepsInv'
  OBVIOUS
<1>0. TypeOK
  BY DEF DepsInv
<1>1. CASE Eval
  BY <1>0, <1>1, EvalTypeOK, EvalDeps DEF DepsInv
<1>2. CASE \E kind \in JobKinds, t \in Tasks \cup {NoTask} : Worker(kind, t)
  <2>1. PICK kind \in JobKinds, t \in Tasks \cup {NoTask} : Worker(kind, t)
    BY <1>2
  <2>2. QED
    BY <1>0, <2>1, WorkerTypeOK, WorkerDeps DEF DepsInv
<1>3. CASE NotificationSensor \/ StorePoll \/ StalenessPoll \/ Expire
  BY <1>0, <1>3, SensorTypeOK, SensorDeps DEF DepsInv
<1>4. CASE UNCHANGED vars
  <2>1. log' = log /\ jobs' = jobs
    BY <1>4 DEF vars
  <2>2. DependenciesBeforeStart'
    BY <2>1, LogUnchangedDeps DEF DepsInv
  <2>3. RunJobsReady'
    BY <2>1 DEF DepsInv, RunJobsReady, IsEvent
  <2>4. TypeOK'
    BY <1>4 DEF vars, DepsInv, TypeOK
  <2>5. QED
    BY <2>2, <2>3, <2>4 DEF DepsInv
<1>5. QED
  BY <1>1, <1>2, <1>3, <1>4 DEF Next

\* InvocationController never starts a task before every task whose output
\* its inputs read has succeeded, although Eval decides on stale snapshots
\* and the executor runs the job later: for every workflow, queue depth and
\* buffer size.
THEOREM DependenciesRespected == Spec => []DependenciesBeforeStart
<1>1. DepsInv => DependenciesBeforeStart
  BY DEF DepsInv
<1>2. QED
  BY <1>1, InitDeps, NextDeps, PTL DEF Spec

=============================================================================
