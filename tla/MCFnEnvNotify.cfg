CONSTANTS
    Fns = {f1, f2, f3}
    ExpectedAt = 1000000000
    RequestTime = 2000000
SPECIFICATION Spec
INVARIANT TapBeforeCall
CHECK_DEADLOCK FALSE
