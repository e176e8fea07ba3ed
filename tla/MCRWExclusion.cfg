SPECIFICATION Spec
CONSTANTS
    Threads = {t1, t2, t3}
    NoThread = NoThread
    MaxReaders = 8
INVARIANT
    WriterExcludesReaders
CHECK_DEADLOCK FALSE
