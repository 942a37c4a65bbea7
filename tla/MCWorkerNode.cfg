SPECIFICATION Spec
CONSTANTS
    Managers = {m1, m2}
    Aliases = {a1, a2}
    MaxPods = 2
INVARIANT RefusedAliasIsTaken
