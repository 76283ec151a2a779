----------------------- MODULE InvocationRunsProofs -----------------------
(***************************************************************************)
(* Machine-checked proof that InvocationController never overlaps two     *)
(* runs of a task: sheduledTasks, the executor's TaskID dedup and the      *)
(* controller's lifetime together keep a second TaskStarted from being     *)
(* appended while the first run has no outcome.                            *)
(***************************************************************************)
EXTENDS InvocationOutcomeProofs

\* A controller the control system does not hold has no scheduled tasks.
UnregisteredEmpty == ~registered => sheduledTasks = {}

\* The executor holds at most one run job per task (its TaskID).
OneRunJob ==
    \A j1, j2 \in jobs : j1.kind = "run" /\ j2.kind = "run" /\ j1.task = j2.task => j1 = j2

\* A run job's task is marked in the live controller's sheduledTasks.
RunJobScheduled ==
    \A j \in jobs : j.kind = "run" => (j.task \in sheduledTasks /\ registered) \/ Terminal

\* A task with a run in flight stays marked until its outcome is recorded.
InProgressScheduled ==
    \A t \in Tasks : TaskState(Len(log), t) = "InProgress" /\ ~Terminal =>
        t \in sheduledTasks /\ registered

\* A queued run job is for a task with no run in flight; an invoking one is
\* the run in flight.
RunJobPhase ==
    \A j \in jobs : j.kind = "run" /\ ~Terminal =>
        (TaskState(Len(log), j.task) = "InProgress" <=> j.phase = "invoking")

\* The inductive strengthening of NoOverlappingRuns.
RunsInv ==
    /\ TypeOK /\ NoOverlappingRuns /\ UnregisteredEmpty /\ OneRunJob
    /\ RunJobScheduled /\ InProgressScheduled /\ RunJobPhase

-----------------------------------------------------------------------------
(* The projection after an append.                                          *)

\* Appending an event of another task leaves a task's projected status as
\* it was.
LEMMA TaskStateAppendOther ==
    ASSUME TypeOK, NEW e \in Event, log' = Append(log, e), NEW u, e.task # u
    PROVE  TaskState(Len(log), u)' = TaskState(Len(log), u)
<1> DEFINE n == Len(log)
<1>1. Len(log') = n + 1 /\ log'[n + 1] = e /\ \A i \in 1..n : log'[i] = log[i]
  BY DEF TypeOK
<1>2. TaskIdx(Len(log), u)' = TaskIdx(n, u)
  BY <1>1 DEF TaskIdx
<1>3. \A type : LastIs(Len(log), u, type)' <=> LastIs(n, u, type)
  BY <1>1, <1>2 DEF LastIs, TaskIdx
<1>4. QED
  BY <1>2, <1>3 DEF TaskState

\* Appending an event of task t makes t's projected status that of the
\* event.
LEMMA TaskStateAppendSelf ==
    ASSUME TypeOK, NEW e \in Event, log' = Append(log, e), NEW t, e.task = t
    PROVE  /\ e.type = "TaskStarted" => TaskState(Len(log), t)' = "InProgress"
           /\ e.type = "TaskSucceeded" => TaskState(Len(log), t)' = "Succeeded"
           /\ e.type = "TaskFailed" => TaskState(Len(log), t)' = "Failed"
<1> DEFINE n == Len(log)
<1>1. Len(log') = n + 1 /\ log'[n + 1] = e /\ \A i \in 1..n : log'[i] = log[i]
  BY DEF TypeOK
<1>2. n + 1 \in TaskIdx(Len(log), t)' /\ \A i \in TaskIdx(Len(log), t)' : i <= n + 1
  BY <1>1 DEF TaskIdx, TypeOK
<1>3. \A type : LastIs(Len(log), t, type)' <=> type = e.type
  <2>1. TaskIdx(Len(log), t)' \subseteq 1..(n + 1)
    BY <1>1 DEF TaskIdx
  <2>2. ASSUME NEW type, LastIs(Len(log), t, type)'
        PROVE  type = e.type
    <3>1. PICK i \in TaskIdx(Len(log), t)' : log'[i].type = type
                  /\ \A j \in TaskIdx(Len(log), t)' : j <= i
      BY <2>2 DEF LastIs
    <3>2. i = n + 1
      BY <3>1, <2>1, <1>2 DEF TypeOK
    <3>3. QED
      BY <3>1, <3>2, <1>1
  <2>3. ASSUME NEW type, type = e.type
        PROVE  LastIs(Len(log), t, type)'
    BY <2>3, <1>1, <1>2 DEF LastIs
  <2>4. QED
    BY <2>2, <2>3
<1>4. QED
  BY <1>2, <1>3 DEF TaskState

\* A task whose projected status is not InProgress has recorded an outcome
\* after each of its TaskStarted events.
LEMMA OutcomeAfterStart ==
    ASSUME TypeOK, NEW t, TaskState(Len(log), t) # "InProgress",
           NEW i \in 1..Len(log), IsEvent(i, "TaskStarted", t)
    PROVE  \E k \in (i + 1)..Len(log) : log[k].task = t /\ log[k].type \in OutcomeEvents
<1> DEFINE n == Len(log)
<1>1. i \in TaskIdx(n, t)
  BY DEF TaskIdx, IsEvent
<1>2. LastIs(n, t, "TaskSucceeded") \/ LastIs(n, t, "TaskFailed")
  BY <1>1 DEF TaskState
<1>3. PICK m \in TaskIdx(n, t) : log[m].type \in OutcomeEvents
                               /\ \A j \in TaskIdx(n, t) : j <= m
  BY <1>2 DEF LastIs, OutcomeEvents
<1>4. m # i /\ i <= m
  BY <1>1, <1>3 DEF IsEvent, OutcomeEvents
<1>5. QED
  BY <1>3, <1>4 DEF TaskIdx, TypeOK

\* An append to a terminal invocation is refused; any other append keeps it
\* terminal exactly when the event is terminal.
LEMMA TerminalAppend ==
    ASSUME TypeOK, NEW e \in Event, AppendEvent(e)
    PROVE  /\ Terminal => log' = log /\ Terminal'
           /\ ~Terminal => log' = Append(log, e) /\ (Terminal' <=> e.type \in TerminalEvents)
<1>1. CASE Terminal
  <2>1. log' = log
    BY <1>1 DEF AppendEvent
  <2>2. QED
    BY <1>1, <2>1 DEF Terminal, InvTerminal
<1>2. CASE ~Terminal
  <2>1. log' = Append(log, e)
    BY <1>2 DEF AppendEvent
  <2>2. Len(log') = Len(log) + 1 /\ log'[Len(log) + 1] = e
        /\ \A i \in 1..Len(log) : log'[i] = log[i]
    BY <2>1 DEF TypeOK
  <2>3. Terminal' <=> e.type \in TerminalEvents
    <3>1. 1..Len(log') = (1..Len(log)) \cup {Len(log) + 1}
      BY <2>2 DEF TypeOK
    <3>2. ~\E i \in 1..Len(log) : log'[i].type \in TerminalEvents
      BY <1>2, <2>2 DEF Terminal, InvTerminal
    <3>3. Terminal' <=> \E i \in 1..Len(log') : log'[i].type \in TerminalEvents
      BY DEF Terminal, InvTerminal
    <3>4. (\E i \in 1..Len(log') : log'[i].type \in TerminalEvents) <=> e.type \in TerminalEvents
      <4>1. \A i \in 1..Len(log') : log'[i].type \in TerminalEvents => i = Len(log) + 1
        BY <3>1, <3>2
      <4>2. Len(log) + 1 \in 1..Len(log')
        BY <2>2 DEF TypeOK
      <4>3. QED
        BY <4>1, <4>2, <2>2
    <3>5. QED
      BY <3>3, <3>4
  <2>4. QED
    BY <1>2, <2>1, <2>3
<1>3. QED
  BY <1>1, <1>2

\* A snapshot that shows the invocation terminal is a prefix of a terminal log.
LEMMA SnapshotTerminal ==
    ASSUME NEW k \in 0..Len(log), InvTerminal(k)
    PROVE  Terminal
BY DEF InvTerminal, Terminal

\* Appending an event keeps NoOverlappingRuns when a TaskStarted event is
\* appended only for a task with no run in flight.
LEMMA AppendKeepsNoOverlap ==
    ASSUME TypeOK, NoOverlappingRuns, NEW e \in Event, AppendEvent(e),
           e.type = "TaskStarted" => TaskState(Len(log), e.task) # "InProgress"
    PROVE  NoOverlappingRuns'
<1>1. CASE Terminal
  BY <1>1, TerminalAppend DEF NoOverlappingRuns, IsEvent
<1>2. CASE ~Terminal
  <2>1. Len(log') = Len(log) + 1 /\ log'[Len(log) + 1] = e
        /\ \A m \in 1..Len(log) : log'[m] = log[m]
    BY <1>2, TerminalAppend DEF TypeOK
  <2> SUFFICES ASSUME NEW i \in 1..Len(log'), NEW j \in 1..Len(log'), i < j,
                      log'[i].type = "TaskStarted",
                      log'[j].type = "TaskStarted", log'[j].task = log'[i].task
               PROVE  \E k \in (i + 1)..(j - 1) :
                         log'[k].task = log'[i].task /\ log'[k].type \in OutcomeEvents
    BY DEF NoOverlappingRuns, IsEvent
  <2>2. CASE j \in 1..Len(log)
    <3>1. i \in 1..Len(log)
      BY <2>2
    <3>2. \E k \in (i + 1)..(j - 1) :
             log[k].task = log[i].task /\ log[k].type \in OutcomeEvents
      BY <2>1, <2>2, <3>1 DEF NoOverlappingRuns, IsEvent
    <3>3. QED
      BY <3>2, <2>1, <2>2, <3>1
  <2>3. CASE j = Len(log) + 1
    <3>1. i \in 1..Len(log) /\ e.type = "TaskStarted" /\ log[i].task = e.task
          /\ log[i].type = "TaskStarted"
      BY <2>1, <2>3
    <3>2. \E k \in (i + 1)..Len(log) : log[k].task = e.task /\ log[k].type \in OutcomeEvents
      BY <3>1, OutcomeAfterStart DEF IsEvent
    <3>3. QED
      BY <3>1, <3>2, <2>1, <2>3 DEF TypeOK
  <2>4. QED
    BY <2>2, <2>3, <2>1 DEF TypeOK
<1>3. QED
  BY <1>1, <1>2

\* A step that appends nothing, drops jobs at most and leaves the controller
\* alone keeps the strengthening.
LEMMA JobsShrinkRuns ==
    ASSUME RunsInv, TypeOK', log' = log, jobs' \subseteq jobs,
           sheduledTasks' = sheduledTasks, registered' = registered
    PROVE  RunsInv'
<1>1. Terminal' = Terminal /\ \A t : TaskState(Len(log), t)' = TaskState(Len(log), t)
  BY DEF Terminal, InvTerminal, TaskState, TaskIdx, LastIs
<1>2. NoOverlappingRuns'
  BY DEF RunsInv, NoOverlappingRuns, IsEvent
<1>3. QED
  BY <1>1, <1>2 DEF RunsInv, UnregisteredEmpty, OneRunJob, RunJobScheduled,
                    InProgressScheduled, RunJobPhase

-----------------------------------------------------------------------------
(* The steps.                                                               *)

\* Eval appends nothing.  On a terminal snapshot it drops the controller,
\* which is safe since the log is terminal too.  Otherwise it keeps the
\* controller's sheduledTasks (the factory's fresh one is empty, like the
\* dropped one) and submits a run job only for a task it marks, that is not
\* marked already and so has no run in flight, and whose TaskID is fresh.
LEMMA EvalRuns == RunsInv /\ Eval => RunsInv'
<1> SUFFICES ASSUME RunsInv, Eval PROVE RunsInv'
  OBVIOUS
<1> DEFINE k == queued
           sched == ControllerSheduledTasks
<1>0. TypeOK /\ TypeOK' /\ sched = sheduledTasks
  BY EvalTypeOK DEF RunsInv, UnregisteredEmpty, ControllerSheduledTasks
<1>1. log' = log /\ k \in 1..Len(log)
  BY <1>0 DEF Eval, TypeOK
<1>2. /\ Terminal' = Terminal
      /\ \A t : TaskState(Len(log), t)' = TaskState(Len(log), t)
      /\ NoOverlappingRuns'
  BY <1>1 DEF RunsInv, Terminal, InvTerminal, TaskState, TaskIdx, LastIs,
              NoOverlappingRuns, IsEvent
<1>3. CASE EvalDone(k)
  <2>1. Terminal /\ jobs' = jobs /\ sheduledTasks' = {}
    BY <1>3, <1>1, SnapshotTerminal DEF EvalDone
  <2>2. QED
    BY <2>1, <1>0, <1>2 DEF RunsInv, UnregisteredEmpty, OneRunJob, RunJobScheduled,
                            InProgressScheduled, RunJobPhase
<1>4. CASE EvalDeadline(k, sched) \/ EvalFinished(k, sched)
  <2>1. registered' = TRUE /\ sheduledTasks' = sheduledTasks
        /\ \A j \in jobs' : j \in jobs \/ j.kind # "run"
    BY <1>4, <1>0 DEF EvalDeadline, EvalFinished, SubmitJob, MkJob
  <2>2. QED
    BY <2>1, <1>0, <1>2 DEF RunsInv, UnregisteredEmpty, OneRunJob, RunJobScheduled,
                            InProgressScheduled, RunJobPhase
<1>5. CASE EvalSchedule(k, sched)
  <2> DEFINE run == RunTasks(k, sched)
             prep == PrepareTasks(k, sched)
  <2>1. PICK target \in [prep -> Tasks] :
            jobs' = jobs \cup Accepted(jobs,
                       {MkJob("prewarm", p, target[p], "none") : p \in prep}
                       \cup {MkJob("run", t, t, "none") : t \in run})
    BY <1>5 DEF EvalSchedule
  <2> DEFINE cands == {MkJob("prewarm", p, target[p], "none") : p \in prep}
                      \cup {MkJob("run", t, t, "none") : t \in run}
  <2>2. registered' = TRUE /\ sheduledTasks' = sheduledTasks \cup run
    BY <1>5, <1>0 DEF EvalSchedule
  <2>3. ASSUME NEW j \in jobs' \ jobs, j.kind = "run"
        PROVE  /\ j = MkJob("run", j.task, j.task, "none")
               /\ j.task \in run
               /\ \A j2 \in jobs : JobId(j2) # JobId(j)
    <3>1. j \in Fresh(jobs, cands)
      BY <2>1, <2>3 DEF Accepted
    <3>2. j \in cands /\ \A j2 \in jobs : JobId(j2) # JobId(j)
      BY <3>1 DEF Fresh
    <3>3. QED
      BY <3>2, <2>3 DEF MkJob
  <2>4. ASSUME NEW t \in run
        PROVE  t \notin sheduledTasks /\ TaskState(k, t) = "None"
    BY <1>0 DEF RunTasks
  <2>5. UnregisteredEmpty' /\ InProgressScheduled'
    BY <2>2, <1>2 DEF RunsInv, UnregisteredEmpty, InProgressScheduled
  <2>6. RunJobScheduled'
    BY <2>2, <2>3, <1>2 DEF RunsInv, RunJobScheduled
  <2>7. OneRunJob'
    <3> SUFFICES ASSUME NEW j1 \in jobs', NEW j2 \in jobs', j1.kind = "run", j2.kind = "run",
                        j1.task = j2.task
                 PROVE  j1 = j2
      BY DEF OneRunJob
    <3>1. CASE j1 \in jobs /\ j2 \in jobs
      BY <3>1 DEF RunsInv, OneRunJob
    <3>2. CASE j1 \notin jobs /\ j2 \notin jobs
      BY <3>2, <2>3 DEF MkJob
    <3>3. CASE j1 \in jobs /\ j2 \notin jobs
      BY <3>3, <2>3 DEF JobId
    <3>4. CASE j1 \notin jobs /\ j2 \in jobs
      BY <3>4, <2>3 DEF JobId
    <3>5. QED
      BY <3>1, <3>2, <3>3, <3>4
  <2>8. RunJobPhase'
    <3> SUFFICES ASSUME NEW j \in jobs', j.kind = "run", ~Terminal
                 PROVE  TaskState(Len(log), j.task) = "InProgress" <=> j.phase = "invoking"
      BY <1>2 DEF RunJobPhase
    <3>1. CASE j \in jobs
      BY <3>1 DEF RunsInv, RunJobPhase
    <3>2. CASE j \notin jobs
      <4>1. j.phase = "queued" /\ j.task \in run
        BY <3>2, <2>3 DEF MkJob
      <4>2. j.task \notin sheduledTasks
        BY <4>1, <2>4
      <4>3. j.task \in Tasks
        BY <4>1 DEF RunTasks
      <4>4. TaskState(Len(log), j.task) # "InProgress"
        BY <4>2, <4>3, <3>2 DEF RunsInv, InProgressScheduled
      <4>5. QED
        BY <4>1, <4>4
    <3>3. QED
      BY <3>1, <3>2
  <2>9. QED
    BY <1>0, <1>2, <2>5, <2>6, <2>7, <2>8 DEF RunsInv
<1>6. QED
  BY <1>3, <1>4, <1>5 DEF Eval

\* execTask's start: a queued run job is for a task with no run in flight,
\* so the TaskStarted it appends opens the only run of that task, which
\* the controller still has marked.
LEMMA StartRuns ==
    ASSUME RunsInv, TypeOK', NEW j \in jobs, ExecTaskStart(j)
    PROVE  RunsInv'
<1>0. TypeOK /\ j \in Job /\ j.kind = "run" /\ j.phase = "queued"
  BY DEF RunsInv, TypeOK, ExecTaskStart
<1>1. CASE ResolveInputsFails(j.task) \/ Terminal
  BY <1>1, JobsShrinkRuns DEF ExecTaskStart
<1>2. CASE ~(ResolveInputsFails(j.task) \/ Terminal)
  <2> DEFINE e == [type |-> "TaskStarted", task |-> j.task, reason |-> "none"]
             jn == [j EXCEPT !.phase = "invoking"]
  <2>1. AppendEvent(e) /\ jobs' = (jobs \ {j}) \cup {jn}
        /\ UNCHANGED <<registered, sheduledTasks>>
    BY <1>2 DEF ExecTaskStart
  <2>2. e \in Event
    BY <1>0 DEF Job, Event, EventTypes, Reasons
  <2>3. log' = Append(log, e) /\ ~Terminal'
    BY <2>1, <2>2, <1>0, <1>2, TerminalAppend DEF e, TerminalEvents
  <2>4. TaskState(Len(log), j.task) # "InProgress"
    BY <1>0, <1>2 DEF RunsInv, RunJobPhase
  <2>5. j.task \in sheduledTasks /\ registered
    BY <1>0, <1>2 DEF RunsInv, RunJobScheduled
  <2>6. TaskState(Len(log), j.task)' = "InProgress"
    BY <2>2, <2>3, <1>0, TaskStateAppendSelf DEF e
  <2>7. ASSUME NEW a \in jobs \ {j}, a.kind = "run"
        PROVE  /\ a.task # j.task
               /\ TaskState(Len(log), a.task)' = TaskState(Len(log), a.task)
    <3>1. a.task # j.task
      <4>1. a.task = j.task => a = j
        BY <1>0, <2>7 DEF RunsInv, OneRunJob
      <4>2. QED
        BY <4>1, <2>7
    <3>2. QED
      BY <3>1, <2>2, <2>3, <1>0, TaskStateAppendOther DEF e
  <2>8. jn.kind = "run" /\ jn.task = j.task /\ jn.phase = "invoking"
    BY <1>0 DEF Job
  <2>9. NoOverlappingRuns'
    BY <2>1, <2>2, <2>4, <1>0, AppendKeepsNoOverlap DEF RunsInv, e
  <2>10. UnregisteredEmpty'
    BY <2>1 DEF RunsInv, UnregisteredEmpty
  <2>11. OneRunJob'
    <3> SUFFICES ASSUME NEW a \in jobs', NEW b \in jobs', a.kind = "run", b.kind = "run",
                        a.task = b.task
                 PROVE  a = b
      BY DEF OneRunJob
    <3>1. CASE a \in jobs \ {j} /\ b \in jobs \ {j}
      BY <3>1 DEF RunsInv, OneRunJob
    <3>2. CASE a = jn /\ b \in jobs \ {j}
      BY <3>2, <2>7, <2>8
    <3>3. CASE a \in jobs \ {j} /\ b = jn
      BY <3>3, <2>7, <2>8
    <3>4. QED
      BY <3>1, <3>2, <3>3, <2>1
  <2>12. RunJobScheduled'
    <3> SUFFICES ASSUME NEW a \in jobs', a.kind = "run"
                 PROVE  a.task \in sheduledTasks' /\ registered'
      BY DEF RunJobScheduled
    <3>1. CASE a = jn
      BY <3>1, <2>1, <2>5, <2>8
    <3>2. CASE a \in jobs \ {j}
      BY <3>2, <2>1, <1>2 DEF RunsInv, RunJobScheduled
    <3>3. QED
      BY <3>1, <3>2, <2>1
  <2>13. InProgressScheduled'
    <3> SUFFICES ASSUME NEW u \in Tasks, TaskState(Len(log), u)' = "InProgress"
                 PROVE  u \in sheduledTasks /\ registered
      BY <2>1, <2>3 DEF InProgressScheduled
    <3>1. CASE u = j.task
      BY <3>1, <2>5
    <3>2. CASE u # j.task
      <4>1. TaskState(Len(log), u) = "InProgress"
        BY <3>2, <2>2, <2>3, <1>0, TaskStateAppendOther DEF e
      <4>2. QED
        BY <4>1, <1>2 DEF RunsInv, InProgressScheduled
    <3>3. QED
      BY <3>1, <3>2
  <2>14. RunJobPhase'
    <3> SUFFICES ASSUME NEW a \in jobs', a.kind = "run"
                 PROVE  TaskState(Len(log), a.task)' = "InProgress" <=> a.phase = "invoking"
      BY <2>3 DEF RunJobPhase
    <3>1. CASE a = jn
      BY <3>1, <2>6, <2>8
    <3>2. CASE a \in jobs \ {j}
      BY <3>2, <2>7, <1>2 DEF RunsInv, RunJobPhase
    <3>3. QED
      BY <3>1, <3>2, <2>1
  <2>15. QED
    BY <2>9, <2>10, <2>11, <2>12, <2>13, <2>14 DEF RunsInv
<1>3. QED
  BY <1>1, <1>2


\* execTask's end: the run's outcome closes the only run of its task, and
\* the delete from sheduledTasks drops a task no other run job holds.
LEMMA EndRuns ==
    ASSUME RunsInv, TypeOK', NEW j \in jobs, ExecTaskEnd(j)
    PROVE  RunsInv'
<1>0. TypeOK /\ j \in Job /\ j.kind = "run" /\ jobs' = jobs \ {j}
  BY DEF RunsInv, TypeOK, ExecTaskEnd
<1>1. PICK r \in InvokeResults :
          IF r \in OutcomeEvents /\ ~Terminal
          THEN /\ AppendEvent([type |-> r, task |-> j.task, reason |-> "none"])
               /\ sheduledTasks' = sheduledTasks \ {j.task}
          ELSE UNCHANGED <<log, notes, sheduledTasks>>
  BY DEF ExecTaskEnd
<1>9. registered' = registered
  BY DEF ExecTaskEnd
<1>2. CASE ~(r \in OutcomeEvents /\ ~Terminal)
  BY <1>0, <1>1, <1>2, <1>9, JobsShrinkRuns
<1>3. CASE r \in OutcomeEvents /\ ~Terminal
  <2> DEFINE e == [type |-> r, task |-> j.task, reason |-> "none"]
  <2>1. AppendEvent(e) /\ sheduledTasks' = sheduledTasks \ {j.task}
    BY <1>1, <1>3
  <2>2. e \in Event /\ e.type \in OutcomeEvents
    BY <1>0, <1>3 DEF Job, Event, EventTypes, Reasons, OutcomeEvents
  <2>3. log' = Append(log, e) /\ ~Terminal'
    BY <2>1, <2>2, <1>0, <1>3, TerminalAppend DEF OutcomeEvents, TerminalEvents
  <2>4. TaskState(Len(log), j.task)' # "InProgress"
    BY <2>2, <2>3, <1>0, TaskStateAppendSelf DEF OutcomeEvents
  <2>5. ASSUME NEW u, u # j.task
        PROVE  TaskState(Len(log), u)' = TaskState(Len(log), u)
    BY <2>5, <2>2, <2>3, <1>0, TaskStateAppendOther
  <2>6. ASSUME NEW a \in jobs', a.kind = "run"
        PROVE  a \in jobs /\ a.task # j.task
    BY <2>6, <1>0 DEF RunsInv, OneRunJob
  <2>7. NoOverlappingRuns'
    BY <2>1, <2>2, <1>0, AppendKeepsNoOverlap DEF RunsInv, OutcomeEvents
  <2>8. UnregisteredEmpty' /\ OneRunJob'
    BY <2>1, <1>0, <1>9 DEF RunsInv, UnregisteredEmpty, OneRunJob
  <2>9. RunJobScheduled'
    BY <2>1, <2>6, <1>3, <1>9 DEF RunsInv, RunJobScheduled
  <2>10. InProgressScheduled'
    <3> SUFFICES ASSUME NEW u \in Tasks, TaskState(Len(log), u)' = "InProgress"
                 PROVE  u \in sheduledTasks' /\ registered'
      BY <2>3 DEF InProgressScheduled
    <3>1. u # j.task
      BY <2>4
    <3>2. TaskState(Len(log), u) = "InProgress"
      BY <3>1, <2>5
    <3>3. QED
      BY <3>1, <3>2, <2>1, <1>3, <1>9 DEF RunsInv, InProgressScheduled
  <2>11. RunJobPhase'
    BY <2>3, <2>5, <2>6, <1>3 DEF RunsInv, RunJobPhase
  <2>12. QED
    BY <2>7, <2>8, <2>9, <2>10, <2>11 DEF RunsInv
<1>4. QED
  BY <1>2, <1>3

\* A ".success" or ".fail" job leaves the invocation terminal, which ends
\* every obligation about runs in flight.
LEMMA FinishRuns ==
    ASSUME RunsInv, TypeOK', NEW j \in jobs, FinishRun(j)
    PROVE  RunsInv'
<1> DEFINE e == [type |-> IF j.kind = "fail" THEN "InvocationFailed" ELSE "InvocationCompleted",
                 task |-> NoTask, reason |-> j.reason]
<1>0. TypeOK /\ j \in Job
  BY DEF RunsInv, TypeOK
<1>1. AppendEvent(e) /\ jobs' \subseteq jobs
      /\ UNCHANGED <<registered, sheduledTasks>>
  BY DEF FinishRun
<1>2. e \in Event /\ e.type \in TerminalEvents
  BY <1>0 DEF Job, Event, EventTypes, NoTask, TerminalEvents
<1>3. Terminal'
  BY <1>1, <1>2, <1>0, TerminalAppend
<1>4. NoOverlappingRuns'
  BY <1>1, <1>2, <1>0, AppendKeepsNoOverlap DEF RunsInv, TerminalEvents
<1>5. QED
  BY <1>1, <1>3, <1>4 DEF RunsInv, UnregisteredEmpty, OneRunJob, RunJobScheduled,
                          InProgressScheduled, RunJobPhase

\* A worker runs one job: the start or end of a run, a prewarm or a finish.
LEMMA WorkerRuns ==
    ASSUME RunsInv, NEW kind \in JobKinds, NEW t \in Tasks \cup {NoTask}, Worker(kind, t)
    PROVE  RunsInv'
<1>0. PICK j \in jobs : ExecTaskStart(j) \/ ExecTaskEnd(j) \/ PrewarmRun(j) \/ FinishRun(j)
  BY DEF Worker
<1>1. TypeOK'
  BY WorkerTypeOK DEF RunsInv
<1>2. CASE PrewarmRun(j)
  BY <1>1, <1>2, JobsShrinkRuns DEF PrewarmRun
<1>3. QED
  BY <1>0, <1>1, <1>2, StartRuns, EndRuns, FinishRuns

\* The sensors append nothing and leave the jobs and the controller alone.
LEMMA SensorRuns ==
    RunsInv /\ (NotificationSensor \/ StorePoll \/ StalenessPoll \/ Expire) => RunsInv'
<1> SUFFICES ASSUME RunsInv, NotificationSensor \/ StorePoll \/ StalenessPoll \/ Expire
             PROVE  RunsInv'
  OBVIOUS
<1>1. TypeOK'
  BY SensorTypeOK DEF RunsInv
<1>2. QED
  BY <1>1, JobsShrinkRuns DEF NotificationSensor, StorePoll, StalenessPoll, Expire

\* The invocation starts with InvocationCreated alone and no controller.
LEMMA InitRuns == Init => RunsInv
<1> SUFFICES ASSUME Init PROVE RunsInv
  OBVIOUS
<1>1. TypeOK
  BY InitTypeOK
<1>2. Len(log) = 1 /\ log[1].task = NoTask
  BY DEF Init
<1>3. \A u \in Tasks : TaskIdx(Len(log), u) = {}
  BY <1>2, TasksAssumption DEF TaskIdx, NoTask
<1>6. \A u \in Tasks : TaskState(Len(log), u) = "None"
  BY <1>3 DEF TaskState, LastIs
<1>4. NoOverlappingRuns
  BY <1>2 DEF NoOverlappingRuns
<1>5. QED
  BY <1>1, <1>6, <1>4 DEF Init, RunsInv, UnregisteredEmpty, OneRunJob, RunJobScheduled,
                          InProgressScheduled, RunJobPhase

LEMMA NextRuns == RunsInv /\ [Next]_vars => RunsInv'
<1> SUFFICES ASSUME RunsInv, [Next]_vars PROVE RunsInv'
  OBVIOUS
<1>1. CASE Eval
  BY <1>1, EvalRuns
<1>2. CASE \E kind \in JobKinds, t \in Tasks \cup {NoTask} : Worker(kind, t)
  BY <1>2, WorkerRuns
<1>3. CASE NotificationSensor \/ StorePoll \/ StalenessPoll \/ Expire
  BY <1>3, SensorRuns
<1>4. CASE UNCHANGED vars
  BY <1>4 DEF vars, RunsInv, TypeOK, NoOverlappingRuns, IsEvent, UnregisteredEmpty,
              OneRunJob, RunJobScheduled, InProgressScheduled, RunJobPhase, Terminal,
              InvTerminal, TaskState, TaskIdx, LastIs
<1>5. QED
  BY <1>1, <1>2, <1>3, <1>4 DEF Next

\* InvocationController marks a task in sheduledTasks when Eval submits its
\* run job (TaskID dedup in the LocalExecutor) and execTask deletes the mark
\* only after the run's outcome is recorded, so, for every workflow, queue
\* depth and buffer size, no task is started again while its earlier run
\* has no outcome, even when Eval runs on stale snapshots.
THEOREM RunsNeverOverlap == Spec => []NoOverlappingRuns
BY InitRuns, NextRuns, PTL DEF Spec, RunsInv

=============================================================================
