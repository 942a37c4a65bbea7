\* A peer whose event loop hands every read to rpcWriteCallBack.
SPECIFICATION Spec
CONSTANTS
    Callers = {c1, c2}
    NULL = NULL
    MaxCalls = 4
    MaxSockets = 3
    AnswersStray = TRUE
SYMMETRY Symmetry
CONSTRAINT WholeWrites
CHECK_DEADLOCK FALSE
INVARIANTS ResultIsOwn
