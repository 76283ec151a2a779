\* The chain workflow where the input expression of task 2 fails to
\* resolve: execTask returns before the task API is called.
CONSTANTS
    Tasks = {1, 2}
    Deps <- ChainDeps
    BadExpr = {2}
    TransportErrors = FALSE
    MaxQueue = 2
    SubBuffer = 1
SPECIFICATION Spec
INVARIANT ExprErrorRecordsFailure
CHECK_DEADLOCK FALSE
