SPECIFICATION FairSpec
CONSTANTS
    Slices = {s1, s2}
    MaxAppends = 2
CHECK_DEADLOCK FALSE
PROPERTY QueuedIsFlushed
