SPECIFICATION MCSpec
CONSTANTS
    Cpus = {0, 1}
    Threads = {t1, t2}
    Third = t3
    None = None
    QueueLen = 1
    MaxNow = 2
    MaxIrqs = 1
INVARIANTS
    ThreadsInOnePlace
    NoLostWork
    SleepersAreSeen
SYMMETRY AnyThread
CHECK_DEADLOCK FALSE
