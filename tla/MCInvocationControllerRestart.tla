-------------------- MODULE MCInvocationControllerRestart --------------------
(* Small instances of InvocationControllerRestart for TLC.                 *)
EXTENDS InvocationControllerRestart

\* A chain: task 2 reads the output of task 1.
ChainDeps == [t \in {1, 2} |-> IF t = 2 THEN {1} ELSE {}]

=============================================================================
