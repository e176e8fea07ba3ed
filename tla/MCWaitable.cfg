SPECIFICATION Spec
CONSTANTS
    t1 = t1
    t2 = t2
    t3 = t3
    Threads = {t1, t2, t3}
    NoThread = NoThread
    Waitables = {1, 2}
    Size <- MCSize
    Calls <- MCCalls
    Selects <- MCSelects
SYMMETRY Symmetry
INVARIANTS ReadiedOnceWhileWaiting DescriptorsExact NobodySleepsInVain EverySendReceivedOnce NoLockDeadlock
CHECK_DEADLOCK FALSE
