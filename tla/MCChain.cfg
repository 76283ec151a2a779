\* The chain workflow (task 2 reads task 1's output) with every failure the
\* engine meets: the runtime may fail or return a transport error, the
\* executor holds two jobs, the subscription buffer one notification, and
\* the deadline may pass at any moment.
CONSTANTS
    Tasks = {1, 2}
    Deps <- ChainDeps
    BadExpr = {}
    TransportErrors = TRUE
    MaxQueue = 2
    SubBuffer = 1
SPECIFICATION Spec
INVARIANT TypeOK
INVARIANT DependenciesBeforeStart
INVARIANT CompletedOnlyIfAllSucceeded
INVARIANT FailureHasCause
 
\* A terminal invocation is filtered out by every sensor: the system stops.
CHECK_DEADLOCK FALSE
