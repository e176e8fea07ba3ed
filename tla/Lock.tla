-------------------------------- MODULE Lock --------------------------------
(***************************************************************************)
(* What mutex.h promises: a lock that one thread at a time holds.  A       *)
(* thread asks for it, takes it when nobody holds it, at once or later,    *)
(* may be refused (mutex_try_lock), and only the holder gives it back.     *)
(***************************************************************************)
CONSTANT Threads

VARIABLES holder,       \* the thread that holds the lock, as a set
          asking        \* threads inside mutex_lock or mutex_try_lock

lockVars == <<holder, asking>>

LockInit == holder = {} /\ asking = {}

Ask(t) ==
    /\ t \notin asking \cup holder
    /\ asking' = asking \cup {t}
    /\ UNCHANGED holder

\* The fast path asks and takes in one step.
Take(t) ==
    /\ holder = {}
    /\ holder' = {t}
    /\ asking' = asking \ {t}

Refuse(t) ==
    /\ t \in asking
    /\ asking' = asking \ {t}
    /\ UNCHANGED holder

Give(t) ==
    /\ holder = {t}
    /\ holder' = {}
    /\ UNCHANGED asking

LockNext == \E t \in Threads : Ask(t) \/ Take(t) \/ Refuse(t) \/ Give(t)

LockSpec == LockInit /\ [][LockNext]_lockVars
=============================================================================
