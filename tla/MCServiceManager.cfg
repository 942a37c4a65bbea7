SPECIFICATION SSpec
CONSTANTS
    w1 = w1
    t = t
    u = u
    t_0 = t_0
    t_1 = t_1
    t_2 = t_2
    u_ = u_
    Workers <- MCWorkers
    Aliases <- MCAliases
    Port <- MCPort
    Tokens <- MCTokens
    Num <- MCNum
    PodName <- MCPodName
    NULL = NULL
    Schedulers = {"Interface"}
    MaxRequests = 5
    MaxFaults = 2
CHECK_DEADLOCK FALSE
INVARIANTS STypeOK IncompleteIsQueued DeletingIsQueued PodsAreOwned
