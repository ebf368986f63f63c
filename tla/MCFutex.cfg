SPECIFICATION LiveSpec
CONSTANTS
    Threads = {"p", "q", "r"}
    Level <- MCLevel
    AppWords = {"a"}
    LockWord = "lock"
    Deadlines = {TRUE}
    Uses <- MCUses
    Plans <- MCPlans
    Signalled = {"q"}
    MaxDepth = 2
CHECK_DEADLOCK FALSE
INVARIANTS BucketExact NoLostWake WakeIsKept LayerExclusive
PROPERTIES LockComes DeadlineEnds
