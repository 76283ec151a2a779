\* The fan-out workflow: while task 1 runs, tasks 2 and 3 are prewarmed in
\* one Eval, and their closures share the loop variable.
CONSTANTS
    Tasks = {1, 2, 3}
    Deps <- FanOutDeps
    BadExpr = {}
    TransportErrors = FALSE
    MaxQueue = 3
    SubBuffer = 1
SPECIFICATION Spec
INVARIANT PrewarmTargetsNamedTask
CHECK_DEADLOCK FALSE
