\* Three processes, two of which may fail while serving: errors can reach
\* Start before, during and after its select, and again at shutdown.
CONSTANTS
    N = 3
    Failing = {1, 2}
SPECIFICATION Spec
INVARIANT TypeOK
INVARIANT SendNeverBlocks
\* Once Start has returned, Close has run and every goroutine has ended, the
\* bundle waits on nothing: the system stops.
CHECK_DEADLOCK FALSE
