SPECIFICATION MCSpec
CONSTANTS
    Threads = {th1, th2}
    Cpus = {c1, c2}
    Suspenders = {s1, s2}
    Wakers = {w1}
    None = None
    t1 = t1  t2 = t2
    Timers = {t1, t2}
    Whens = {1, 2}
    MaxNow = 2
    MaxCalls = 2
SYMMETRY Symmetry
INVARIANTS
    SuspendBitHeld SuspendedIsStill OneKeeper
    HeapsInOrder StatusMatchesHeaps FiresWhenDue
PROPERTY FrozenWhileSuspended
