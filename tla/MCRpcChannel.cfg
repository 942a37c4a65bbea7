\* A peer that keeps stray bytes until a whole request has come.
SPECIFICATION Spec
CONSTANTS
    Callers = {c1, c2}
    NULL = NULL
    MaxCalls = 4
    MaxSockets = 3
    AnswersStray = FALSE
SYMMETRY Symmetry
CHECK_DEADLOCK FALSE
INVARIANTS TypeOK ResultIsOwn QuietSocketIsClean
