\* With the scheduler Manager.h installs, and with any that does what
\* getBestWorker is described to do.
SPECIFICATION FairSpec
CONSTANTS
    w1 = w1
    w2 = w2
    a1 = a1
    a2 = a2
    Workers <- MCWorkers
    Aliases <- MCAliases
    Port <- MCPort
    NULL = NULL
    Schedulers = {"RoundRobin", "Interface"}
    MaxRequests = 4
    MaxFaults = 3
CHECK_DEADLOCK FALSE
INVARIANTS TypeOK LostIsQueued AliveWhereStarted
PROPERTY DownWorkerRejoins
