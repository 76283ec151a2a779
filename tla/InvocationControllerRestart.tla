--------------------- MODULE InvocationControllerRestart ---------------------
(***************************************************************************)
(* The engine process restarting under one invocation.                     *)
(*                                                                         *)
(* Only the event log survives: the control system's controllers (and      *)
(* with them sheduledTasks), the evaluation queue, the executor's jobs and *)
(* the subscription buffer are in memory.  After the restart               *)
(* NewInvocationMetaController builds them afresh and run starts the       *)
(* executor and the sensors again; the store poll sensor finds the         *)
(* invocation in the rebuilt cache.                                        *)
(***************************************************************************)
EXTENDS InvocationController

CONSTANT MaxRestarts    \* how many times the engine may restart

VARIABLE restarts       \* how many times the engine has restarted

rvars == <<vars, restarts>>

\* The process dies and is started again: a new meta-controller with no
\* controllers, an empty queue, a new executor and a new subscription.
Restart ==
    /\ restarts < MaxRestarts
    /\ restarts' = restarts + 1
    /\ notes' = <<>>
    /\ queued' = 0
    /\ registered' = FALSE
    /\ sheduledTasks' = {}
    /\ jobs' = {}
    /\ UNCHANGED <<log, expired>>

RestartInit == Init /\ restarts = 0

RestartNext == (Next /\ UNCHANGED restarts) \/ Restart

\* The restarted process runs the same sensors, queue, workers and clock as
\* before, so the same actions are weakly fair: the deadline fixed at
\* creation (line 123) is checked by every Eval the store poll triggers.
RestartSpec == RestartInit /\ [][RestartNext]_rvars /\ Fairness

=============================================================================
