SPECIFICATION Spec
CONSTANTS
    Threads = {"r", "a"}
    Procs = {"S", "P"}
    Of <- SessionOf
    Level <- SessionLevel
    Handles = {"rec", "snd", "lab", "lab2"}
    Labelled = {"lab", "lab2"}
    Receiving = {"rec"}
    Transfer = {"lab", "rec"}
    Held <- SessionHeld
    N = 2
    MAX_COUNT = 1
    Mortal = {"S", "P"}
    Leaving = {"a"}
    Upcalled = {"a"}
CHECK_DEADLOCK FALSE
INVARIANTS ReferencesExact GoneIsLast
PROPERTY PutInTime
