SPECIFICATION Spec
CONSTANTS
    Threads = {"r", "a", "b"}
    Procs = {"S", "P", "Q"}
    Of <- RequestOf
    Level <- RequestLevel
    Handles = {"rec", "snd", "snd2"}
    Labelled = {}
    Receiving = {"rec"}
    Transfer = {}
    Held <- RequestHeld
    N = 2
    MAX_COUNT = 2
    Mortal = {"S", "P"}
    Leaving = {}
    Upcalled = {}
CHECK_DEADLOCK FALSE
INVARIANTS NeverBoth AnswersItsRequest
PROPERTIES TokenOnce ClosedWakes RepliesWake
