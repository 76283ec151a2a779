\* The chain workflow with a one-job executor: the prewarm job of task 2
\* fills the queue and the run job of task 2 is rejected.
CONSTANTS
    Tasks = {1, 2}
    Deps <- ChainDeps
    BadExpr = {}
    TransportErrors = FALSE
    MaxQueue = 1
    SubBuffer = 1
SPECIFICATION Spec
INVARIANT ScheduledTaskIsDispatched
CHECK_DEADLOCK FALSE
