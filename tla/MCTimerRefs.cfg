SPECIFICATION Spec
CONSTANTS
    Cpus = {c1, c2}
    t1 = t1  t2 = t2
    Timers = {t1, t2}
    None = None
    Whens = {1, 2}
    Period <- MCPeriod
    MaxNow = 2
    MaxCalls = 3
SYMMETRY Symmetry
INVARIANT HoldersHaveReferences
CHECK_DEADLOCK FALSE
