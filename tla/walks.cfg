CONSTANTS
    Code <- Program
    Entry = 0
    Walks <- Paths
    MaxWalk = 4
    HookSets <- AllHookSets
    Held <- BytesWithHole
    Rewinds = 2
    MaxMet = 6
SPECIFICATION Spec
INVARIANT
    WalkFollowed
    BranchesTracked
    FlipsNotUndone
PROPERTY
    WalkConsumed
CHECK_DEADLOCK FALSE
