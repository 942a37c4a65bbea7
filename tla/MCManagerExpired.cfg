SPECIFICATION Spec
CONSTANTS
    w1 = w1
    w2 = w2
    a1 = a1
    a2 = a2
    Workers <- MCWorkers
    Aliases <- MCAliases
    Port <- MCPort
    NULL = NULL
    Schedulers = {"RoundRobin"}
    MaxRequests = 4
    MaxFaults = 1
CHECK_DEADLOCK FALSE
INVARIANT FailedIsQueued
