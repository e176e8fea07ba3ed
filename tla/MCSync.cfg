SPECIFICATION Spec
CONSTANTS
    Threads = {t1, t2, t3}
    NoThread = NoThread
    MaxReaders = 8
    Workers = {w1, w2}
    Waiters = {x1, x2, x3}
    MaxJobs = 2
    Half = 4
    Start = 6
    MaxItems = 1
INVARIANTS ReaderCountExact TicketsMatchCounters NoLostSignal WaitersAccounted
PROPERTIES WaitersReturn
CHECK_DEADLOCK FALSE
