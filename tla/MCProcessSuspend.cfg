CONSTANTS
    c1 = c1
    c2 = c2
    t1 = t1
    t2 = t2
    CPUs = {c1, c2}
    Threads = {t1, t2}
    NoThread = NoThread
    Home <- MCHome
    UNPARK_PORTION = 1
    THREADS_PORTION = 2
SPECIFICATION Spec
INVARIANT ContinuationHasReference
CHECK_DEADLOCK FALSE
