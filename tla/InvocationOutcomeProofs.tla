--------------------- MODULE InvocationOutcomeProofs ---------------------
(***************************************************************************)
(* Machine-checked proofs that InvocationController ends an invocation     *)
(* only for a reason: it completes only after every task succeeded, and    *)
(* fails only after a task failed or the deadline passed.  Both hold       *)
(* although the ".success" and ".fail" jobs run later than the snapshot    *)
(* Eval decided them on.                                                    *)
(***************************************************************************)
EXTENDS InvocationControllerProofs

\* The inductive strengthening: the type invariant, the two properties, and
\* that every completion job still in the executor is justified by the log.
OutInv == TypeOK /\ CompletedOnlyIfAllSucceeded /\ FailureHasCause /\ FinishJobsJustified

\* A task whose projected status is Failed in snapshot k has a TaskFailed
\* event among the first k.
LEMMA FailedHasEvent ==
    ASSUME NEW k \in Nat, NEW d, TaskState(k, d) = "Failed"
    PROVE  \E i \in 1..k : IsEvent(i, "TaskFailed", d)
<1>1. LastIs(k, d, "TaskFailed")
  BY DEF TaskState
<1>2. QED
  BY <1>1 DEF LastIs, TaskIdx, IsEvent

\* A step that leaves the log alone, and does not take back the deadline,
\* keeps both outcome properties.
LEMMA LogUnchangedOutcomes ==
    ASSUME CompletedOnlyIfAllSucceeded, FailureHasCause, log' = log, expired => expired'
    PROVE  CompletedOnlyIfAllSucceeded' /\ FailureHasCause'
BY DEF CompletedOnlyIfAllSucceeded, FailureHasCause, IsEvent

\* Appending an event keeps both outcome properties when a terminal event is
\* appended only with its justification already in the log.
LEMMA AppendKeepsOutcomes ==
    ASSUME TypeOK, CompletedOnlyIfAllSucceeded, FailureHasCause,
           NEW e \in Event, AppendEvent(e), expired' = expired,
           e.type = "InvocationCompleted" =>
               \A t \in Tasks : \E k \in 1..Len(log) : IsEvent(k, "TaskSucceeded", t),
           e.type = "InvocationFailed" =>
               /\ e.reason = "tasksFailed" =>
                     \E k \in 1..Len(log), t \in Tasks : IsEvent(k, "TaskFailed", t)
               /\ e.reason = "deadline" => expired
    PROVE  CompletedOnlyIfAllSucceeded' /\ FailureHasCause'
<1>1. CASE Terminal
  <2>1. log' = log
    BY <1>1 DEF AppendEvent
  <2>2. QED
    BY <2>1, LogUnchangedOutcomes
<1>2. CASE ~Terminal
  <2>1. log' = Append(log, e)
    BY <1>2 DEF AppendEvent
  <2>2. /\ Len(log') = Len(log) + 1
        /\ \A m \in 1..Len(log) : log'[m] = log[m]
        /\ log'[Len(log) + 1] = e
    BY <2>1 DEF TypeOK
  <2>3. CompletedOnlyIfAllSucceeded'
    <3> SUFFICES ASSUME NEW i \in 1..Len(log'), log'[i].type = "InvocationCompleted",
                        NEW t \in Tasks
                 PROVE  \E k \in 1..(i - 1) : log'[k].type = "TaskSucceeded" /\ log'[k].task = t
      BY DEF CompletedOnlyIfAllSucceeded, IsEvent
    <3>1. CASE i \in 1..Len(log)
      <4>1. PICK k \in 1..(i - 1) : IsEvent(k, "TaskSucceeded", t)
        BY <3>1, <2>2 DEF CompletedOnlyIfAllSucceeded
      <4>2. QED
        BY <4>1, <3>1, <2>2 DEF IsEvent
    <3>2. CASE i = Len(log) + 1
      <4>1. PICK k \in 1..Len(log) : IsEvent(k, "TaskSucceeded", t)
        BY <3>2, <2>2
      <4>2. QED
        BY <4>1, <3>2, <2>2 DEF IsEvent, TypeOK
    <3>3. QED
      BY <3>1, <3>2, <2>2 DEF TypeOK
  <2>4. FailureHasCause'
    <3> SUFFICES ASSUME NEW i \in 1..Len(log'), log'[i].type = "InvocationFailed"
                 PROVE  /\ log'[i].reason = "tasksFailed" =>
                             \E k \in 1..(i - 1), t \in Tasks :
                                log'[k].type = "TaskFailed" /\ log'[k].task = t
                        /\ log'[i].reason = "deadline" => expired'
      BY DEF FailureHasCause, IsEvent
    <3>1. CASE i \in 1..Len(log)
      <4>1. /\ log[i].reason = "tasksFailed" =>
                 \E k \in 1..(i - 1), t \in Tasks : IsEvent(k, "TaskFailed", t)
            /\ log[i].reason = "deadline" => expired
        BY <3>1, <2>2 DEF FailureHasCause
      <4>2. QED
        BY <4>1, <3>1, <2>2 DEF IsEvent
    <3>2. CASE i = Len(log) + 1
      <4>1. /\ e.reason = "tasksFailed" =>
                 \E k \in 1..Len(log), t \in Tasks : IsEvent(k, "TaskFailed", t)
            /\ e.reason = "deadline" => expired
        BY <3>2, <2>2
      <4>2. QED
        BY <4>1, <3>2, <2>2 DEF IsEvent, TypeOK
    <3>3. QED
      BY <3>1, <3>2, <2>2 DEF TypeOK
  <2>5. QED
    BY <2>3, <2>4
<1>3. QED
  BY <1>1, <1>2

\* A step that leaves the log or appends to it, does not take back the
\* deadline, and adds only run and prewarm jobs keeps the completion jobs
\* justified.
LEMMA JobsKeepJustified ==
    ASSUME TypeOK, FinishJobsJustified,
           log' = log \/ \E e \in Event : AppendEvent(e),
           expired => expired',
           \A j \in jobs' : j \in jobs \/ j.kind \in {"run", "prewarm"}
    PROVE  FinishJobsJustified'
<1> SUFFICES ASSUME NEW j \in jobs'
             PROVE  /\ j.kind = "success" =>
                          \A t \in Tasks : \E k \in 1..Len(log') :
                             log'[k].type = "TaskSucceeded" /\ log'[k].task = t
                    /\ j.kind = "fail" =>
                          /\ j.reason \in {"deadline", "tasksFailed"}
                          /\ j.reason = "tasksFailed" =>
                                \E k \in 1..Len(log'), t \in Tasks :
                                   log'[k].type = "TaskFailed" /\ log'[k].task = t
                          /\ j.reason = "deadline" => expired'
  BY DEF FinishJobsJustified, IsEvent
<1>1. CASE j.kind \in {"run", "prewarm"}
  BY <1>1
<1>2. CASE j \in jobs /\ j.kind \notin {"run", "prewarm"}
  <2>1. /\ j.kind = "success" =>
              \A t \in Tasks : \E k \in 1..Len(log) : IsEvent(k, "TaskSucceeded", t)
        /\ j.kind = "fail" =>
              /\ j.reason \in {"deadline", "tasksFailed"}
              /\ j.reason = "tasksFailed" =>
                    \E k \in 1..Len(log), t \in Tasks : IsEvent(k, "TaskFailed", t)
              /\ j.reason = "deadline" => expired
    BY <1>2 DEF FinishJobsJustified
  <2>2. CASE log' = log
    BY <2>1, <2>2 DEF IsEvent
  <2>3. CASE \E e \in Event : AppendEvent(e)
    <3>1. PICK e \in Event : AppendEvent(e)
      BY <2>3
    <3>2. Len(log) <= Len(log') /\ \A i \in 1..Len(log) : log'[i] = log[i]
      BY <3>1, AppendTyped
    <3>3. QED
      BY <2>1, <3>2 DEF IsEvent
  <2>4. QED
    BY <2>2, <2>3
<1>3. QED
  BY <1>1, <1>2


\* Eval appends nothing.  The ".success" job it submits was decided on a
\* snapshot in which every task had succeeded, the ".fail" job on one with
\* a failed task or past the deadline, and the snapshot is a prefix of the
\* log; the scheduler's jobs are run and prewarm jobs.
LEMMA EvalOutcomes == OutInv /\ Eval => OutInv'
<1> SUFFICES ASSUME OutInv, Eval PROVE OutInv'
  OBVIOUS
<1> DEFINE k == queued
           sched == ControllerSheduledTasks
<1>0. TypeOK /\ FinishJobsJustified
  BY DEF OutInv
<1>1. log' = log /\ expired' = expired /\ k \in 1..Len(log)
  BY <1>0 DEF Eval, TypeOK
<1>2. CompletedOnlyIfAllSucceeded' /\ FailureHasCause'
  BY <1>1, LogUnchangedOutcomes DEF OutInv
<1>3. FinishJobsJustified'
  <2> SUFFICES ASSUME NEW j \in jobs'
               PROVE  /\ j.kind = "success" =>
                            \A t \in Tasks : \E m \in 1..Len(log) : IsEvent(m, "TaskSucceeded", t)
                      /\ j.kind = "fail" =>
                            /\ j.reason \in {"deadline", "tasksFailed"}
                            /\ j.reason = "tasksFailed" =>
                                  \E m \in 1..Len(log), t \in Tasks : IsEvent(m, "TaskFailed", t)
                            /\ j.reason = "deadline" => expired
    BY <1>1 DEF FinishJobsJustified, IsEvent
  <2>1. CASE j \in jobs
    BY <2>1, <1>0 DEF FinishJobsJustified
  <2>2. CASE j \notin jobs
    <3>1. CASE EvalDone(k)
      BY <3>1, <2>2 DEF EvalDone
    <3>2. CASE EvalDeadline(k, sched)
      <4>1. j = MkJob("fail", NoTask, NoTask, "deadline") /\ expired
        BY <3>2, <2>2 DEF EvalDeadline, SubmitJob
      <4>2. QED
        BY <4>1 DEF MkJob
    <3>3. CASE EvalFinished(k, sched)
      <4>1. allTasksFinished(k)
        BY <3>3 DEF EvalFinished
      <4>2. CASE allTasksSucceeded(k)
        <5>1. j = MkJob("success", NoTask, NoTask, "none")
          BY <3>3, <4>2, <2>2 DEF EvalFinished, SubmitJob
        <5>2. \A t \in Tasks : \E m \in 1..k : IsEvent(m, "TaskSucceeded", t)
          BY <4>2, <1>1, SucceededHasEvent DEF allTasksSucceeded
        <5>3. QED
          BY <5>1, <5>2, <1>1 DEF MkJob
      <4>3. CASE ~allTasksSucceeded(k)
        <5>1. j = MkJob("fail", NoTask, NoTask, "tasksFailed")
          BY <3>3, <4>3, <2>2 DEF EvalFinished, SubmitJob
        <5>2. PICK t \in Tasks : TaskState(k, t) = "Failed"
          BY <4>1, <4>3 DEF allTasksFinished, allTasksSucceeded
        <5>3. \E m \in 1..k : IsEvent(m, "TaskFailed", t)
          BY <5>2, <1>1, FailedHasEvent
        <5>4. QED
          BY <5>1, <5>3, <1>1 DEF MkJob
      <4>4. QED
        BY <4>2, <4>3
    <3>4. CASE EvalSchedule(k, sched)
      <4>1. PICK target \in [PrepareTasks(k, sched) -> Tasks] :
                jobs' = jobs \cup Accepted(jobs,
                           {MkJob("prewarm", p, target[p], "none") : p \in PrepareTasks(k, sched)}
                           \cup {MkJob("run", t, t, "none") : t \in RunTasks(k, sched)})
        BY <3>4 DEF EvalSchedule
      <4>2. j \in {MkJob("prewarm", p, target[p], "none") : p \in PrepareTasks(k, sched)}
                  \cup {MkJob("run", t, t, "none") : t \in RunTasks(k, sched)}
        BY <4>1, <2>2 DEF Accepted, Fresh
      <4>3. j.kind \in {"run", "prewarm"}
        BY <4>2 DEF MkJob
      <4>4. QED
        BY <4>3
    <3>5. QED
      BY <3>1, <3>2, <3>3, <3>4 DEF Eval
  <2>3. QED
    BY <2>1, <2>2
<1>4. TypeOK'
  BY <1>0, EvalTypeOK
<1>5. QED
  BY <1>2, <1>3, <1>4 DEF OutInv

\* The sensors and the clock append nothing and submit no job; the deadline
\* once passed stays passed.
LEMMA SensorOutcomes ==
    OutInv /\ (NotificationSensor \/ StorePoll \/ StalenessPoll \/ Expire) => OutInv'
<1> SUFFICES ASSUME OutInv, NotificationSensor \/ StorePoll \/ StalenessPoll \/ Expire
             PROVE  OutInv'
  OBVIOUS
<1>1. log' = log /\ jobs' = jobs /\ (expired => expired')
  BY DEF NotificationSensor, StorePoll, StalenessPoll, Expire
<1>2. CompletedOnlyIfAllSucceeded' /\ FailureHasCause'
  BY <1>1, LogUnchangedOutcomes DEF OutInv
<1>3. FinishJobsJustified'
  BY <1>1, JobsKeepJustified DEF OutInv
<1>4. TypeOK'
  BY SensorTypeOK DEF OutInv
<1>5. QED
  BY <1>2, <1>3, <1>4 DEF OutInv


\* Workers append no terminal event except from a ".success" or ".fail" job,
\* whose justification is already in the log, and add only run jobs.
LEMMA WorkerOutcomes ==
    ASSUME OutInv, NEW kind \in JobKinds, NEW t \in Tasks \cup {NoTask}, Worker(kind, t)
    PROVE  OutInv'
<1>0. PICK j \in jobs : ExecTaskStart(j) \/ ExecTaskEnd(j) \/ PrewarmRun(j) \/ FinishRun(j)
  BY DEF Worker
<1>6. /\ TypeOK /\ CompletedOnlyIfAllSucceeded /\ FailureHasCause /\ FinishJobsJustified
      /\ j \in Job /\ TypeOK'
  BY WorkerTypeOK DEF OutInv, TypeOK
<1>7. expired' = expired
  BY <1>0 DEF ExecTaskStart, ExecTaskEnd, PrewarmRun, FinishRun
<1>1. CASE ExecTaskStart(j)
  <2>1. \A j2 \in jobs' : j2 \in jobs \/ j2.kind \in {"run", "prewarm"}
    <3>1. j.kind = "run" /\ [j EXCEPT !.phase = "invoking"].kind = "run"
      BY <1>1, <1>6 DEF ExecTaskStart, Job
    <3>2. jobs' \subseteq jobs \cup {[j EXCEPT !.phase = "invoking"]}
      BY <1>1 DEF ExecTaskStart
    <3>3. QED
      BY <3>1, <3>2
  <2>2. CASE ResolveInputsFails(j.task) \/ Terminal
    <3>1. log' = log
      BY <1>1, <2>2 DEF ExecTaskStart
    <3>2. QED
      BY <3>1, <2>1, <1>6, <1>7, LogUnchangedOutcomes, JobsKeepJustified DEF OutInv
  <2>3. CASE ~(ResolveInputsFails(j.task) \/ Terminal)
    <3> DEFINE e == [type |-> "TaskStarted", task |-> j.task, reason |-> "none"]
    <3>1. AppendEvent(e)
      BY <1>1, <2>3 DEF ExecTaskStart
    <3>2. e \in Event
      BY <1>6 DEF Job, Event, EventTypes, Reasons
    <3>3. QED
      BY <3>1, <3>2, <2>1, <1>6, <1>7, AppendKeepsOutcomes, JobsKeepJustified DEF OutInv
  <2>4. QED
    BY <2>2, <2>3
<1>2. CASE ExecTaskEnd(j)
  <2>0. PICK r \in InvokeResults :
            IF r \in OutcomeEvents /\ ~Terminal
            THEN /\ AppendEvent([type |-> r, task |-> j.task, reason |-> "none"])
                 /\ sheduledTasks' = sheduledTasks \ {j.task}
            ELSE UNCHANGED <<log, notes, sheduledTasks>>
    BY <1>2 DEF ExecTaskEnd
  <2>1. \A j2 \in jobs' : j2 \in jobs
    BY <1>2 DEF ExecTaskEnd
  <2>2. CASE ~(r \in OutcomeEvents /\ ~Terminal)
    <3>1. log' = log
      BY <2>0, <2>2
    <3>2. QED
      BY <3>1, <2>1, <1>6, <1>7, LogUnchangedOutcomes, JobsKeepJustified DEF OutInv
  <2>3. CASE r \in OutcomeEvents /\ ~Terminal
    <3> DEFINE e == [type |-> r, task |-> j.task, reason |-> "none"]
    <3>1. AppendEvent(e)
      BY <2>0, <2>3
    <3>2. e \in Event /\ e.type \in OutcomeEvents
      BY <1>6, <2>3 DEF Job, Event, EventTypes, Reasons, OutcomeEvents
    <3>3. QED
      BY <3>1, <3>2, <2>1, <1>6, <1>7, AppendKeepsOutcomes, JobsKeepJustified
         DEF OutInv, OutcomeEvents
  <2>4. QED
    BY <2>2, <2>3
<1>3. CASE PrewarmRun(j)
  <2>1. log' = log /\ \A j2 \in jobs' : j2 \in jobs
    BY <1>3 DEF PrewarmRun
  <2>2. QED
    BY <2>1, <1>6, <1>7, LogUnchangedOutcomes, JobsKeepJustified DEF OutInv
<1>4. CASE FinishRun(j)
  <2> DEFINE e == [type |-> IF j.kind = "fail" THEN "InvocationFailed" ELSE "InvocationCompleted",
                   task |-> NoTask, reason |-> j.reason]
  <2>1. AppendEvent(e) /\ j.kind \in {"fail", "success"} /\ \A j2 \in jobs' : j2 \in jobs
    BY <1>4 DEF FinishRun
  <2>2. e \in Event
    BY <1>6 DEF Job, Event, EventTypes, NoTask
  <2>3. e.type = "InvocationCompleted" =>
            \A u \in Tasks : \E k \in 1..Len(log) : IsEvent(k, "TaskSucceeded", u)
    <3>1. e.type = "InvocationCompleted" => j.kind = "success"
      BY <2>1 DEF e
    <3>2. QED
      BY <3>1, <1>6 DEF FinishJobsJustified
  <2>4. e.type = "InvocationFailed" =>
            /\ e.reason = "tasksFailed" =>
                  \E k \in 1..Len(log), u \in Tasks : IsEvent(k, "TaskFailed", u)
            /\ e.reason = "deadline" => expired
    <3>1. e.type = "InvocationFailed" => j.kind = "fail" /\ e.reason = j.reason
      BY <2>1 DEF e
    <3>2. QED
      BY <3>1, <1>6 DEF FinishJobsJustified
  <2>5. CompletedOnlyIfAllSucceeded' /\ FailureHasCause'
    BY <2>1, <2>2, <2>3, <2>4, <1>6, <1>7, AppendKeepsOutcomes
  <2>6. FinishJobsJustified'
    BY <2>1, <2>2, <1>6, <1>7, JobsKeepJustified
  <2>7. QED
    BY <2>5, <2>6, <1>6 DEF OutInv
<1>5. QED
  BY <1>0, <1>1, <1>2, <1>3, <1>4

LEMMA InitOutcomes == Init => OutInv
<1> SUFFICES ASSUME Init PROVE OutInv
  OBVIOUS
<1>1. TypeOK
  BY InitTypeOK
<1>2. log = <<[type |-> "InvocationCreated", task |-> NoTask, reason |-> "none"]>>
      /\ jobs = {}
  BY DEF Init
<1>3. CompletedOnlyIfAllSucceeded /\ FailureHasCause /\ FinishJobsJustified
  BY <1>2 DEF CompletedOnlyIfAllSucceeded, FailureHasCause, FinishJobsJustified
<1>4. QED
  BY <1>1, <1>3 DEF OutInv

LEMMA NextOutcomes == OutInv /\ [Next]_vars => OutInv'
<1> SUFFICES ASSUME OutInv, [Next]_vars PROVE OutInv'
  OBVIOUS
<1>1. CASE Eval
  BY <1>1, EvalOutcomes
<1>2. CASE \E kind \in JobKinds, t \in Tasks \cup {NoTask} : Worker(kind, t)
  BY <1>2, WorkerOutcomes
<1>3. CASE NotificationSensor \/ StorePoll \/ StalenessPoll \/ Expire
  BY <1>3, SensorOutcomes
<1>4. CASE UNCHANGED vars
  <2>1. log' = log /\ jobs' = jobs /\ expired' = expired
    BY <1>4 DEF vars
  <2>2. TypeOK'
    BY <1>4 DEF vars, OutInv, TypeOK
  <2>3. QED
    BY <2>1, <2>2, LogUnchangedOutcomes DEF OutInv, FinishJobsJustified, IsEvent
<1>5. QED
  BY <1>1, <1>2, <1>3, <1>4 DEF Next

\* InvocationController completes an invocation only after every task has
\* succeeded and fails it only after a task failed or past the deadline,
\* although Eval decides the ".success" and ".fail" jobs on stale snapshots
\* and the executor runs them later: for every workflow, queue depth and
\* buffer size.
THEOREM OutcomesJustified == Spec => [](CompletedOnlyIfAllSucceeded /\ FailureHasCause)
<1>1. OutInv => CompletedOnlyIfAllSucceeded /\ FailureHasCause
  BY DEF OutInv
<1>2. QED
  BY <1>1, InitOutcomes, NextOutcomes, PTL DEF Spec


\* Eval's ".success" job (invocationAPI.Complete) never completes an
\* invocation before every one of its tasks has succeeded.
THEOREM CompletionJustified == Spec => []CompletedOnlyIfAllSucceeded
BY OutcomesJustified, PTL

\* Eval's ".fail" job (invocationAPI.Fail) fails an invocation for "one or
\* more tasks have failed" only after a task failure was recorded, and for
\* "deadline exceeded" only past the deadline.
THEOREM FailureJustified == Spec => []FailureHasCause
BY OutcomesJustified, PTL

=============================================================================
