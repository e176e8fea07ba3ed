CONSTANTS
    Threads = {t1, t2}
    Cpus = {c1, c2}
    Suspenders = {s1}
    Wakers = {w1}
    None = None
SPECIFICATION Spec
INVARIANT PreemptedForASuspend
