\* One restart of the engine during the chain workflow: the runtime may fail
\* or return a transport error, the executor holds one job and the
\* subscription buffer one notification.
CONSTANTS
    Tasks = {1, 2}
    Deps <- ChainDeps
    BadExpr = {}
    TransportErrors = TRUE
    MaxQueue = 1
    SubBuffer = 1
    MaxRestarts = 1
SPECIFICATION RestartSpec
PROPERTY EventuallyTerminal
\* A terminal invocation is filtered out by every sensor: the system stops.
CHECK_DEADLOCK FALSE
