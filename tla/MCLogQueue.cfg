\* The destructor ends the program: no step is left afterwards.
SPECIFICATION FairSpec
CONSTANTS
    Slices = {s1, s2}
    MaxAppends = 3
CHECK_DEADLOCK FALSE
INVARIANTS
    TypeOK
    SwapExclusion
    NoSliceLost
    NoMissedNotify
    ClosedIsDurable
PROPERTIES
    DtorDrains
