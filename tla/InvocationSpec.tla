---------------------------- MODULE InvocationSpec ----------------------------
(***************************************************************************)
(* What the engine promises of one workflow invocation (spec 3, 4.9),      *)
(* with the control loop, the sensors, the executor and the event log      *)
(* abstracted away: each task run starts only once the tasks its inputs    *)
(* read have succeeded and while no other run of it is in flight, ends     *)
(* succeeded or failed, and the invocation completes only after every      *)
(* task has succeeded and fails only after a task failed or the deadline   *)
(* passed.  Once it is completed or failed nothing changes any more.       *)
(* Runs may repeat (execution is at-least-once).                           *)
(***************************************************************************)
CONSTANTS
    Tasks,      \* the workflow's tasks
    Deps        \* Deps[t]: the tasks whose outputs t's inputs read

TaskStatuses == {"None", "InProgress", "Succeeded", "Failed"}

VARIABLES
    status,     \* status[t]: the status of t's latest run
    succeeded,  \* the tasks that have succeeded at least once
    failed,     \* the tasks that have failed at least once
    result,     \* "running", "completed" or "failed"
    late        \* whether the deadline has passed

avars == <<status, succeeded, failed, result, late>>

Init ==
    /\ status = [t \in Tasks |-> "None"]
    /\ succeeded = {}
    /\ failed = {}
    /\ result = "running"
    /\ late = FALSE

\* A run of t starts.
Start(t) ==
    /\ result = "running"
    /\ status[t] # "InProgress"
    /\ Deps[t] \subseteq succeeded
    /\ status' = [status EXCEPT ![t] = "InProgress"]
    /\ UNCHANGED <<succeeded, failed, result, late>>

\* The run of t in flight ends with outcome r.
Finish(t, r) ==
    /\ result = "running"
    /\ status[t] = "InProgress"
    /\ status' = [status EXCEPT ![t] = r]
    /\ succeeded' = IF r = "Succeeded" THEN succeeded \cup {t} ELSE succeeded
    /\ failed' = IF r = "Failed" THEN failed \cup {t} ELSE failed
    /\ UNCHANGED <<result, late>>

\* The invocation completes once every task has succeeded.
Complete ==
    /\ result = "running"
    /\ succeeded = Tasks
    /\ result' = "completed"
    /\ UNCHANGED <<status, succeeded, failed, late>>

\* The invocation fails after a task failed or the deadline passed.
Fail ==
    /\ result = "running"
    /\ failed # {} \/ late
    /\ result' = "failed"
    /\ UNCHANGED <<status, succeeded, failed, late>>

\* The deadline passes.
Pass ==
    /\ ~late
    /\ late' = TRUE
    /\ UNCHANGED <<status, succeeded, failed, result>>

Next ==
    \/ \E t \in Tasks : Start(t) \/ \E r \in {"Succeeded", "Failed"} : Finish(t, r)
    \/ Complete
    \/ Fail
    \/ Pass

Spec == Init /\ [][Next]_avars

=============================================================================
