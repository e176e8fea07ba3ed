SPECIFICATION Spec
CONSTANTS
    Cpus = {0, 1}
    None = None
    Frames = {f1, f2, f3, f4}
    HeapPages = {p1}
    Reserve = 2
    HeapFrames = 6
    Regions = 2
    Slots = 1
    TopPage = 7
    Callers = {t1, t2}
    Waitables = {w1, w2, w3}
    Null = Null
    MaxCount = 2
INVARIANTS FramesInOnePlace ObjectsKeepTheirPages HandlersNest BootMemoryApart ReferencesExact
CHECK_DEADLOCK FALSE
SYMMETRY Symmetry
