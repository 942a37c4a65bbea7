SPECIFICATION Spec
CONSTANTS
    Workers = {w1, w2}
    Aliases = {a1}
    NULL = NULL
    MaxOps = 3
    MaxCrashes = 2
CHECK_DEADLOCK FALSE
INVARIANT PodsPutBack
