--------------------- MODULE InvocationRefinementProofs ---------------------
(***************************************************************************)
(* Machine-checked proof that InvocationController implements the safety   *)
(* part of InvocationSpec under the refinement mapping Abs: every step of  *)
(* Eval, the executor's workers and the sensors is a step of the abstract  *)
(* invocation or leaves it unchanged.  Liveness (the fairness of the        *)
(* abstract spec is none; EventuallyTerminal is separate) stays with TLC.  *)
(***************************************************************************)
EXTENDS InvocationRunsProofs

\* The abstract status function, as the refinement mapping reads it off the
\* log.
AbsStatus == [t \in Tasks |-> TaskState(Len(log), t)]

\* The invariants the refinement rests on: no overlapping runs and the run
\* jobs' phases (RunsInv), dependencies before each start (DepsInv), and
\* the evidence behind each ".success" and ".fail" job (OutInv).
RefInv == RunsInv /\ DepsInv /\ OutInv

LEMMA RefInvariant == Spec => []RefInv
BY InitRuns, NextRuns, InitDeps, NextDeps, InitOutcomes, NextOutcomes, PTL DEF Spec, RefInv

-----------------------------------------------------------------------------
(* The mapped state after a step.                                           *)

\* A step that leaves the log and the clock alone is an abstract stutter.
LEMMA LogKeptStutter ==
    ASSUME log' = log, expired' = expired
    PROVE  UNCHANGED Abs!avars
BY DEF Abs!avars, TaskState, TaskIdx, LastIs, EverIs, IsEvent, InvocationResult,
       Terminal, InvTerminal

\* An appended event of a task adds that task to the tasks that ever had an
\* event of its type, and changes nothing else.
LEMMA EverIsAppend ==
    ASSUME TypeOK, NEW e \in Event, log' = Append(log, e), NEW type
    PROVE  EverIs(type)' = IF e.type = type /\ e.task \in Tasks
                           THEN EverIs(type) \cup {e.task} ELSE EverIs(type)
<1> DEFINE n == Len(log)
<1>1. Len(log') = n + 1 /\ log'[n + 1] = e /\ \A i \in 1..n : log'[i] = log[i]
  BY DEF TypeOK
<1>2. 1..Len(log') = (1..n) \cup {n + 1}
  BY <1>1 DEF TypeOK
<1>3. ASSUME NEW t
      PROVE  (\E i \in 1..Len(log') : log'[i].type = type /\ log'[i].task = t)
             <=> (\E i \in 1..n : IsEvent(i, type, t)) \/ (e.type = type /\ e.task = t)
  BY <1>1, <1>2 DEF IsEvent
<1>4. QED
  BY <1>3 DEF EverIs, IsEvent

\* An appended event of a task sets that task's abstract status to the
\* projected status after the event and leaves the others.
LEMMA StatusAppend ==
    ASSUME TypeOK, NEW e \in Event, log' = Append(log, e), e.task \in Tasks
    PROVE  AbsStatus' = [AbsStatus EXCEPT ![e.task] = TaskState(Len(log), e.task)']
<1>1. \A u \in Tasks : u # e.task => TaskState(Len(log), u)' = TaskState(Len(log), u)
  BY TaskStateAppendOther
<1>2. QED
  BY <1>1 DEF AbsStatus

\* An appended event of no task leaves every abstract status as it was.
LEMMA StatusAppendNoTask ==
    ASSUME TypeOK, NEW e \in Event, log' = Append(log, e), e.task \notin Tasks
    PROVE  AbsStatus' = AbsStatus
<1>1. \A u \in Tasks : TaskState(Len(log), u)' = TaskState(Len(log), u)
  BY TaskStateAppendOther
<1>2. QED
  BY <1>1 DEF AbsStatus

\* The invocation's result after an append to a running invocation is read
\* off the appended event.
LEMMA ResultAppend ==
    ASSUME TypeOK, ~Terminal, NEW e \in Event, AppendEvent(e)
    PROVE  /\ InvocationResult = "running"
           /\ e.type \notin TerminalEvents => InvocationResult' = "running"
           /\ e.type = "InvocationCompleted" => InvocationResult' = "completed"
           /\ e.type = "InvocationFailed" => InvocationResult' = "failed"
<1>1. log' = Append(log, e) /\ (Terminal' <=> e.type \in TerminalEvents)
  BY TerminalAppend
<1>2. Len(log') = Len(log) + 1 /\ log'[Len(log) + 1] = e
      /\ \A i \in 1..Len(log) : log'[i] = log[i]
  BY <1>1 DEF TypeOK
<1>3. \A i \in 1..Len(log) : log[i].type \notin TerminalEvents
  BY DEF Terminal, InvTerminal
<1>4. e.type = "InvocationCompleted" =>
          \E i \in 1..Len(log') : log'[i].type = "InvocationCompleted"
  BY <1>2 DEF TypeOK
<1>5. e.type = "InvocationFailed" =>
          ~\E i \in 1..Len(log') : log'[i].type = "InvocationCompleted"
  <2>1. 1..Len(log') = (1..Len(log)) \cup {Len(log) + 1}
    BY <1>2 DEF TypeOK
  <2>2. QED
    BY <2>1, <1>2, <1>3 DEF TerminalEvents
<1>6. QED
  BY <1>1, <1>4, <1>5 DEF InvocationResult, TerminalEvents

-----------------------------------------------------------------------------
(* The steps.                                                               *)

\* execTask's TaskStarted is the abstract Start of its task: the job is
\* queued, so no run of the task is in flight, and its dependencies have
\* succeeded.
LEMMA StartRef ==
    ASSUME RefInv, NEW j \in jobs, ExecTaskStart(j)
    PROVE  [Abs!Next]_Abs!avars
<1>0. TypeOK /\ j \in Job /\ j.kind = "run" /\ j.phase = "queued" /\ expired' = expired
  BY DEF RefInv, RunsInv, TypeOK, ExecTaskStart
<1>1. CASE ResolveInputsFails(j.task) \/ Terminal
  BY <1>0, <1>1, LogKeptStutter DEF ExecTaskStart
<1>2. CASE ~(ResolveInputsFails(j.task) \/ Terminal)
  <2> DEFINE t == j.task
             e == [type |-> "TaskStarted", task |-> t, reason |-> "none"]
  <2>1. AppendEvent(e) /\ e \in Event /\ ~Terminal
    BY <1>0, <1>2 DEF ExecTaskStart, Job, Event, EventTypes, Reasons
  <2>2. log' = Append(log, e)
    BY <2>1, <1>0, TerminalAppend
  <2>3. t \in Tasks
    BY <2>1, <1>0 DEF RefInv, RunsInv, RunJobScheduled, TypeOK
  <2>4. AbsStatus[t] # "InProgress"
    BY <2>1, <2>3, <1>0 DEF RefInv, RunsInv, RunJobPhase, AbsStatus
  <2>5. Deps[t] \subseteq EverIs("TaskSucceeded")
    <3>1. \A d \in Deps[t] : \E k \in 1..Len(log) : IsEvent(k, "TaskSucceeded", d)
      BY <1>0 DEF RefInv, DepsInv, RunJobsReady
    <3>2. Deps[t] \subseteq Tasks
      BY <2>3, DepsAssumption
    <3>3. QED
      BY <3>1, <3>2 DEF EverIs
  <2>6. AbsStatus' = [AbsStatus EXCEPT ![t] = "InProgress"]
    BY <2>1, <2>2, <2>3, <1>0, StatusAppend, TaskStateAppendSelf
  <2>7. EverIs("TaskSucceeded")' = EverIs("TaskSucceeded")
        /\ EverIs("TaskFailed")' = EverIs("TaskFailed")
    BY <2>1, <2>2, <1>0, EverIsAppend
  <2>8. InvocationResult = "running" /\ InvocationResult' = "running"
    BY <2>1, <1>0, ResultAppend DEF TerminalEvents
  <2>9. Abs!Start(t)
    BY <2>4, <2>5, <2>6, <2>7, <2>8, <1>0 DEF Abs!Start, AbsStatus
  <2>10. QED
    BY <2>3, <2>9 DEF Abs!Next
<1>3. QED
  BY <1>1, <1>2

\* The run's recorded outcome is the abstract Finish of the run in flight.
LEMMA EndRef ==
    ASSUME RefInv, NEW j \in jobs, ExecTaskEnd(j)
    PROVE  [Abs!Next]_Abs!avars
<1>0. TypeOK /\ j \in Job /\ j.kind = "run" /\ j.phase = "invoking" /\ expired' = expired
  BY DEF RefInv, RunsInv, TypeOK, ExecTaskEnd
<1>1. PICK r \in InvokeResults :
          IF r \in OutcomeEvents /\ ~Terminal
          THEN /\ AppendEvent([type |-> r, task |-> j.task, reason |-> "none"])
               /\ sheduledTasks' = sheduledTasks \ {j.task}
          ELSE UNCHANGED <<log, notes, sheduledTasks>>
  BY DEF ExecTaskEnd
<1>2. CASE ~(r \in OutcomeEvents /\ ~Terminal)
  BY <1>0, <1>1, <1>2, LogKeptStutter
<1>3. CASE r \in OutcomeEvents /\ ~Terminal
  <2> DEFINE t == j.task
             e == [type |-> r, task |-> t, reason |-> "none"]
             rr == IF r = "TaskSucceeded" THEN "Succeeded" ELSE "Failed"
  <2>1. AppendEvent(e) /\ e \in Event /\ ~Terminal
    BY <1>0, <1>1, <1>3 DEF Job, Event, EventTypes, Reasons, OutcomeEvents
  <2>2. log' = Append(log, e)
    BY <2>1, <1>0, TerminalAppend
  <2>3. t \in Tasks
    BY <2>1, <1>0 DEF RefInv, RunsInv, RunJobScheduled, TypeOK
  <2>4. AbsStatus[t] = "InProgress"
    BY <2>1, <2>3, <1>0 DEF RefInv, RunsInv, RunJobPhase, AbsStatus
  <2>5. AbsStatus' = [AbsStatus EXCEPT ![t] = rr]
    <3>1. TaskState(Len(log), t)' = rr
      BY <2>1, <2>2, <1>0, <1>3, TaskStateAppendSelf DEF OutcomeEvents
    <3>2. QED
      BY <3>1, <2>1, <2>2, <2>3, <1>0, StatusAppend
  <2>6. /\ EverIs("TaskSucceeded")' = IF rr = "Succeeded" THEN EverIs("TaskSucceeded") \cup {t}
                                                          ELSE EverIs("TaskSucceeded")
        /\ EverIs("TaskFailed")' = IF rr = "Failed" THEN EverIs("TaskFailed") \cup {t}
                                                    ELSE EverIs("TaskFailed")
    BY <2>1, <2>2, <2>3, <1>0, <1>3, EverIsAppend DEF OutcomeEvents
  <2>7. InvocationResult = "running" /\ InvocationResult' = "running"
    BY <2>1, <1>0, <1>3, ResultAppend DEF TerminalEvents, OutcomeEvents
  <2>8. Abs!Finish(t, rr)
    BY <2>4, <2>5, <2>6, <2>7, <1>0 DEF Abs!Finish, AbsStatus
  <2>9. QED
    BY <2>3, <2>8 DEF Abs!Next
<1>4. QED
  BY <1>2, <1>3

\* invocationAPI.Complete and .Fail are the abstract Complete and Fail:
\* the job's snapshot showed every task succeeded, or a failed task or the
\* deadline passed, and what it saw is in the log.
LEMMA FinishRef ==
    ASSUME RefInv, NEW j \in jobs, FinishRun(j)
    PROVE  [Abs!Next]_Abs!avars
<1> DEFINE e == [type |-> IF j.kind = "fail" THEN "InvocationFailed" ELSE "InvocationCompleted",
                 task |-> NoTask, reason |-> j.reason]
<1>0. /\ TypeOK /\ j \in Job /\ j.kind \in {"fail", "success"} /\ expired' = expired
      /\ AppendEvent(e) /\ e \in Event /\ e.task \notin Tasks
  BY TasksAssumption DEF RefInv, RunsInv, TypeOK, FinishRun, Job, Event, EventTypes, NoTask
<1>1. CASE Terminal
  BY <1>0, <1>1, TerminalAppend, LogKeptStutter
<1>2. CASE ~Terminal
  <2>1. log' = Append(log, e)
    BY <1>0, <1>2, TerminalAppend
  <2>2. AbsStatus' = AbsStatus
        /\ EverIs("TaskSucceeded")' = EverIs("TaskSucceeded")
        /\ EverIs("TaskFailed")' = EverIs("TaskFailed")
    BY <1>0, <2>1, StatusAppendNoTask, EverIsAppend
  <2>3. CASE j.kind = "success"
    <3>1. EverIs("TaskSucceeded") = Tasks
      BY <2>3 DEF RefInv, OutInv, FinishJobsJustified, EverIs
    <3>2. InvocationResult = "running" /\ InvocationResult' = "completed"
      BY <1>0, <1>2, <2>3, ResultAppend
    <3>3. Abs!Complete
      BY <1>0, <2>2, <3>1, <3>2 DEF Abs!Complete, AbsStatus
    <3>4. QED
      BY <3>3 DEF Abs!Next
  <2>4. CASE j.kind = "fail"
    <3>1. EverIs("TaskFailed") # {} \/ expired
      BY <2>4 DEF RefInv, OutInv, FinishJobsJustified, EverIs
    <3>2. InvocationResult = "running" /\ InvocationResult' = "failed"
      BY <1>0, <1>2, <2>4, ResultAppend
    <3>3. Abs!Fail
      BY <1>0, <2>2, <3>1, <3>2 DEF Abs!Fail, AbsStatus
    <3>4. QED
      BY <3>3 DEF Abs!Next
  <2>5. QED
    BY <1>0, <2>3, <2>4
<1>3. QED
  BY <1>1, <1>2

\* Every step of the controller is an abstract step or an abstract stutter:
\* Eval, the sensors and a prewarm append nothing, time passing the
\* deadline is the abstract Pass, and the workers' appends are Start,
\* Finish, Complete and Fail.
LEMMA StepRef == RefInv /\ [Next]_vars => [Abs!Next]_Abs!avars
<1> SUFFICES ASSUME RefInv, [Next]_vars PROVE [Abs!Next]_Abs!avars
  OBVIOUS
<1>1. CASE Eval \/ NotificationSensor \/ StorePoll \/ StalenessPoll \/ UNCHANGED vars
  <2>1. log' = log /\ expired' = expired
    BY <1>1 DEF Eval, NotificationSensor, StorePoll, StalenessPoll, vars
  <2>2. QED
    BY <2>1, LogKeptStutter
<1>2. CASE Expire
  <2>1. log' = log /\ ~expired /\ expired' = TRUE
    BY <1>2 DEF Expire
  <2>2. UNCHANGED <<AbsStatus, EverIs("TaskSucceeded"), EverIs("TaskFailed"), InvocationResult>>
    BY <2>1 DEF AbsStatus, TaskState, TaskIdx, LastIs, EverIs, IsEvent, InvocationResult,
                Terminal, InvTerminal
  <2>3. Abs!Pass
    BY <2>1, <2>2 DEF Abs!Pass, AbsStatus
  <2>4. QED
    BY <2>3 DEF Abs!Next
<1>3. CASE \E kind \in JobKinds, t \in Tasks \cup {NoTask} : Worker(kind, t)
  <2>1. PICK j \in jobs : ExecTaskStart(j) \/ ExecTaskEnd(j) \/ PrewarmRun(j) \/ FinishRun(j)
    BY <1>3 DEF Worker
  <2>2. CASE PrewarmRun(j)
    BY <2>2, LogKeptStutter DEF PrewarmRun
  <2>3. QED
    BY <2>1, <2>2, StartRef, EndRef, FinishRef
<1>4. QED
  BY <1>1, <1>2, <1>3 DEF Next

\* The controller's initial state, InvocationCreated alone, is the abstract
\* initial state: no task has run and the invocation is running.
LEMMA InitRef == Init => Abs!Init
<1> SUFFICES ASSUME Init PROVE Abs!Init
  OBVIOUS
<1>1. Len(log) = 1 /\ log[1].task = NoTask /\ log[1].type = "InvocationCreated"
  BY DEF Init
<1>2. \A u \in Tasks : TaskIdx(Len(log), u) = {}
  BY <1>1, TasksAssumption DEF TaskIdx, NoTask
<1>3. AbsStatus = [t \in Tasks |-> "None"]
  BY <1>2 DEF AbsStatus, TaskState, LastIs
<1>4. EverIs("TaskSucceeded") = {} /\ EverIs("TaskFailed") = {}
  BY <1>1, TasksAssumption DEF EverIs, IsEvent, NoTask
<1>5. InvocationResult = "running"
  BY <1>1 DEF InvocationResult, Terminal, InvTerminal, TerminalEvents
<1>6. QED
  BY <1>3, <1>4, <1>5 DEF Init, Abs!Init, AbsStatus

\* InvocationController, with Eval deciding on stale snapshots, the
\* executor's workers running its jobs late and the sensors re-submitting
\* the invocation, implements the abstract invocation of InvocationSpec for
\* every workflow, queue depth and buffer size: each task run starts only
\* after its dependencies succeeded and while no other run of it is in
\* flight, and the invocation completes or fails only as InvocationSpec
\* allows.
THEOREM Refinement == Spec => AbsSpec
<1>1. Init => Abs!Init
  BY InitRef
<1>2. RefInv /\ [Next]_vars => [Abs!Next]_Abs!avars
  BY StepRef
<1>3. QED
  BY <1>1, <1>2, RefInvariant, PTL DEF Spec, AbsSpec, Abs!Spec

=============================================================================
