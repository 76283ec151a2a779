\* Progress of the chain workflow under the fairness of the sensors, the
\* evaluation queue, the executor workers and the clock, and its refinement
\* of InvocationSpec; one executor slot, so prewarm jobs and transport
\* errors can strand a task until the deadline.
CONSTANTS
    Tasks = {1, 2}
    Deps <- ChainDeps
    BadExpr = {}
    TransportErrors = TRUE
    MaxQueue = 1
    SubBuffer = 1
SPECIFICATION FairSpec
PROPERTIES EventuallyTerminal AbsSpec
\* A terminal invocation is filtered out by every sensor: the system stops.
CHECK_DEADLOCK FALSE
