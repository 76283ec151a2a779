----------------------- MODULE MCInvocationController -----------------------
(* Small instances of InvocationController for TLC.                        *)
EXTENDS InvocationController

\* A chain: task 2 reads the output of task 1.
ChainDeps == [t \in {1, 2} |-> IF t = 2 THEN {1} ELSE {}]

\* A fan-out: tasks 2 and 3 both read the output of task 1.
FanOutDeps == [t \in {1, 2, 3} |-> IF t = 1 THEN {} ELSE {1}]

=============================================================================
