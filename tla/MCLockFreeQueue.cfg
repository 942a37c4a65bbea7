\* One handler at a time.
SPECIFICATION FairSpec
CONSTANTS
    Producers = {h1}
    Values = {v1, v2}
    Nodes = {n1, n2, n3, n4}
    NULL = NULL
    MaxPushes = 4
\* A pop can always be begun, so there is no deadlock.
INVARIANTS
    TypeOK
    NoUseAfterFree
    NoLeak
    NoExitLost
PROPERTIES
    ImplementsFifo
    PushedIsTaken
