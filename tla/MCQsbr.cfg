CONSTANTS
    CPUs = {c1, c2}
    Objects = {o1}
    MaxEpoch = 4
    RECLAIM_BATCH = 1
SPECIFICATION LiveSpec
PROPERTIES PeriodEnds Reclaims
INVARIANTS NoUseAfterFree SuspensionIsQuiet
