SPECIFICATION LiveSpec
CONSTANTS
    CPUs = {0, 1}
    Threads = {1, 2}
    NoThread = NoThread
    Home <- MCHome
    DRAIN_BATCH = 2
    MaxReaped = 1
    PollOn = "yes"
INVARIANTS OnceInQueues KeptByReference Rung WokenAfterCopy
PROPERTIES Taking
