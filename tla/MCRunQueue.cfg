CONSTANTS
    c1 = c1  c2 = c2
    t1 = t1  t2 = t2  t3 = t3  t4 = t4  t5 = t5  t6 = t6  t7 = t7  t8 = t8
    Cpus = {c1, c2}
    Threads = {t1, t2, t3, t4, t5, t6, t7, t8}
    None = None
    RUN_QUEUE_LEN = 4
    Width = 64
    Start = 62
    MaxOps = 3
    Placements <- MCPlacements
SPECIFICATION Spec
INVARIANTS NoThreadLostOrDuplicated StealHasRoom EmptyOnlyIfEmpty
CHECK_DEADLOCK FALSE
