------------------------------- MODULE Processes -------------------------------
(***************************************************************************)
(* The bundle's long-running processes (bundle.go: Processes, Run).        *)
(*                                                                         *)
(* bundle.Run registers the processes, calls Processes.Start, which runs   *)
(* each in a goroutine of its own and polls an error channel of capacity   *)
(* len(p) once, without blocking, and on shutdown calls Processes.Close,   *)
(* after which the processes' Run methods return.  A goroutine whose Run   *)
(* returns an error sends it on the channel; Start closes the channel once *)
(* it has received an error.                                               *)
(***************************************************************************)
EXTENDS Naturals, FiniteSets

CONSTANTS
    N,          \* the number of registered processes, in slice order 1..N
    Failing     \* the processes whose Run may return an error while serving

ASSUME NAssumption == N \in Nat \ {0}
ASSUME FailingAssumption == Failing \subseteq 1..N

Procs == 1..N

\* Mutant: the error channel one slot short of len(p).
ErrCCapShort == N - 1

\* errC := make(chan error, len(p)).
ErrCCap == N

\* Goroutine states: not spawned, inside Run, Run returned an error that is
\* about to be sent, done (sent, or Run returned nil), panicked on the send.
GStates == {"idle", "running", "sending", "done", "panicked"}

VARIABLES
    spawned,    \* how many goroutines Start's loop has spawned
    gpc,        \* gpc[p]: the state of process p's goroutine
    errC,       \* the number of errors buffered in errC
    closed,     \* whether Start has closed errC
    startPc,    \* "loop", "select", or "returned": where Start is
    closing     \* whether Run has called Processes.Close (ctx done)

vars == <<spawned, gpc, errC, closed, startPc, closing>>

-----------------------------------------------------------------------------

Init ==
    /\ spawned = 0
    /\ gpc = [p \in Procs |-> "idle"]
    /\ errC = 0
    /\ closed = FALSE
    /\ startPc = "loop"
    /\ closing = FALSE

\* Mutant: the loop running once past the end of the slice.
StartLoopPastEnd ==
    /\ startPc = "loop"
    /\ IF spawned <= N
       THEN /\ spawned' = spawned + 1
            /\ gpc' = [p \in Procs |-> IF p = spawned + 1 THEN "running" ELSE gpc[p]]
            /\ UNCHANGED startPc
       ELSE /\ startPc' = "select"
            /\ UNCHANGED <<spawned, gpc>>
    /\ UNCHANGED <<errC, closed, closing>>

\* Start's for loop: spawn the next goroutine, or leave the loop.
StartLoop ==
    /\ startPc = "loop"
    /\ IF spawned < N
       THEN /\ spawned' = spawned + 1
            /\ gpc' = [gpc EXCEPT ![spawned + 1] = "running"]
            /\ UNCHANGED startPc
       ELSE /\ startPc' = "select"
            /\ UNCHANGED <<spawned, gpc>>
    /\ UNCHANGED <<errC, closed, closing>>

\* select, case err := <-errC: take the error, close the channel, return it.
StartReceive ==
    /\ startPc = "select"
    /\ errC > 0
    /\ errC' = errC - 1
    /\ closed' = TRUE
    /\ startPc' = "returned"
    /\ UNCHANGED <<spawned, gpc, closing>>

\* select, default: no error yet, Start returns nil.
StartDefault ==
    /\ startPc = "select"
    /\ errC = 0
    /\ startPc' = "returned"
    /\ UNCHANGED <<spawned, gpc, errC, closed, closing>>

\* proc.Run() returns: with an error while serving (a failing process), or,
\* once Close has stopped it, with an error or nil.
RunReturns(p) ==
    /\ gpc[p] = "running"
    /\ \/ /\ p \in Failing
          /\ gpc' = [gpc EXCEPT ![p] = "sending"]
       \/ /\ closing
          /\ gpc' = [gpc EXCEPT ![p] = "sending"]
       \/ /\ closing
          /\ gpc' = [gpc EXCEPT ![p] = "done"]
    /\ UNCHANGED <<spawned, errC, closed, startPc, closing>>

\* errC <- err: a send on a closed channel panics; a send on a full one
\* blocks until a receive, which never comes after Start has returned.
SendErr(p) ==
    /\ gpc[p] = "sending"
    /\ IF closed
       THEN /\ gpc' = [gpc EXCEPT ![p] = "panicked"]
            /\ UNCHANGED errC
       ELSE /\ errC < ErrCCap
            /\ errC' = errC + 1
            /\ gpc' = [gpc EXCEPT ![p] = "done"]
    /\ UNCHANGED <<spawned, closed, startPc, closing>>

\* bundle.Run, after <-ctx.Done(): Processes.Close closes every process.
Shutdown ==
    /\ startPc = "returned"
    /\ ~closing
    /\ closing' = TRUE
    /\ UNCHANGED <<spawned, gpc, errC, closed, startPc>>

Next ==
    \/ StartLoop
    \/ StartReceive
    \/ StartDefault
    \/ \E p \in Procs : RunReturns(p) \/ SendErr(p)
    \/ Shutdown

Spec == Init /\ [][Next]_vars

-----------------------------------------------------------------------------
(* Properties.                                                              *)

TypeOK ==
    /\ spawned \in 0..N
    /\ gpc \in [Procs -> GStates]
    /\ errC \in 0..N
    /\ closed \in BOOLEAN
    /\ startPc \in {"loop", "select", "returned"}
    /\ closing \in BOOLEAN

\* Sizing errC to len(p) means that no goroutine is ever left blocked on
\* its send: a goroutine with an error to report finds room in the channel
\* (or the channel closed: a send panics then, which needs a second process;
\* Run registers one, bundle.go:277).
SendNeverBlocks ==
    \A p \in Procs : gpc[p] = "sending" /\ ~closed => errC < ErrCCap

\* The goroutines that have not sent yet: each may still put one error on
\* errC.
Unsent == {p \in Procs : gpc[p] \in {"idle", "running", "sending"}}

\* The room SendNeverBlocks rests on: the errors buffered in errC and those
\* the goroutines that have not sent yet may still send fit in len(p).
ErrCRoom == errC + Cardinality(Unsent) <= ErrCCap

=============================================================================
