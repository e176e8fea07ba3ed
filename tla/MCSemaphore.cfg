SPECIFICATION FairClientSpec
CONSTANTS
    Threads = {t1, t2, t3}
    NoThread = NoThread
    Permits = 1
    MaxCredit = 2
INVARIANTS
    PermitsConserved
    NoMissedWakeup
    WakeAssertions
    SleeperReachable
PROPERTIES
    PermitReachesSomeone
CHECK_DEADLOCK FALSE
