SPECIFICATION Spec
CONSTANTS
    Threads = {t1, t2, t3}
    NoThread = NoThread
    MaxSpin = 1
SYMMETRY Symmetry
INVARIANTS
    NobodyStranded
    WaitersReal
PROPERTIES
    ImplementsLock
