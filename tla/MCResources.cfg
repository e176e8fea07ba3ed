SPECIFICATION Spec
CONSTANTS
    Cpus = {c1, c2}
    Threads = {t1, t2, t3}
    Callers = {k1, k2}
    Half = 1
    MaxDrift = 1
    Stacks = 3
    Gone = Gone
    Descriptors = {w1, w2, w3, w4, w5}
    Nil = Nil
    WtHalf = 2
    SlLog = 2
    MaxLog = 6
    Pool = 36
    Sizes = {1, 5, 8}
    Aligns = {2, 8}
    None = None
    Slots = 2
    Size = 16
    Wrap = 32
    MaxReads = 3
SYMMETRY Symmetry
INVARIANTS ThreadsHeldOnce  HeapSound DriversSound
CHECK_DEADLOCK FALSE
