------------------------------- MODULE Mutex -------------------------------
(***************************************************************************)
(* The mutex of kernel/sync/mutex.c on top of the semaphore: one 32-bit    *)
(* word with the bits LOCKED, WOKEN and STARVING and the number of waiters *)
(* above them.  The word is an integer here too, because the code adds and *)
(* subtracts constants from it.  Every action is one access to the word;   *)
(* what the code computes from a value it has read is part of the access   *)
(* that follows.                                                           *)
(***************************************************************************)
EXTENDS Semaphore

CONSTANT MaxSpin        \* scheduler_can_spin answers no from this iteration on

ASSUME MaxSpinAssumption == MaxSpin \in Nat

VARIABLES
    state,      \* mutex->state
    mpc,        \* where each thread is in mutex_lock, _try_lock or _unlock
    loc         \* the locals of the call the thread is in

vars == <<value, nwait, lock, waiters, ticket, status, spc, lifo, handoff, wt, state, mpc, loc>>

(***************************************************************************)
(* The locals: old is the last value of state the thread has read, and     *)
(* timed says that wait_start_time is not 0.                               *)
(***************************************************************************)
NoLocals == [old |-> 0, starving |-> FALSE, awoke |-> FALSE, iter |-> 0, timed |-> FALSE]

MUTEX_LOCKED == 1
MUTEX_WOKEN == 2
MUTEX_STARVING == 4
WAITER == 8                               \* 1 << MUTEX_WAITER_SHIFT

Locked(s) == s % 2 = 1
Woken(s) == (s \div MUTEX_WOKEN) % 2 = 1
Starving(s) == (s \div MUTEX_STARVING) % 2 = 1
Waiters(s) == s \div WAITER

Set(s, bit, isset) == IF isset THEN s ELSE s + bit

MGoto(t, l) == mpc' = [mpc EXCEPT ![t] = l]

Leave(t, l) == MGoto(t, l) /\ loc' = [loc EXCEPT ![t] = NoLocals]

Init ==
    /\ SemInit(0)
    /\ state = 0
    /\ mpc = [t \in Threads |-> "idle"]
    /\ loc = [t \in Threads |-> NoLocals]

----------------------------------------------------------------------------
(* mutex_lock                                                              *)

LockFast(t) ==
    /\ mpc[t] = "idle"
    /\ IF state = 0
       THEN state' = MUTEX_LOCKED /\ MGoto(t, "crit")
       ELSE MGoto(t, "slow") /\ UNCHANGED state
    /\ UNCHANGED <<semvars, loc>>

\* Entry of mutex_lock_slow.  wait_start_time is not initialised: it may hold
\* 0 or anything else.
LockSlow(t) ==
    /\ mpc[t] = "slow"
    /\ \E garbage \in BOOLEAN :
          loc' = [loc EXCEPT ![t] = [NoLocals EXCEPT !.old = state, !.timed = garbage]]
    /\ MGoto(t, "loop")
    /\ UNCHANGED <<semvars, state>>

\* One round of active spinning; whether scheduler_can_spin allows it depends
\* on the other CPUs.
Spin(t) ==
    LET o == loc[t].old
        tellUnlock == ~loc[t].awoke /\ ~Woken(o) /\ Waiters(o) # 0 /\ state = o
    IN  /\ mpc[t] = "loop"
        /\ Locked(o) /\ ~Starving(o) /\ loc[t].iter < MaxSpin
        /\ state' = IF tellUnlock THEN state + MUTEX_WOKEN ELSE state
        /\ loc' = [loc EXCEPT ![t].iter = @ + 1, ![t].awoke = @ \/ tellUnlock]
        /\ MGoto(t, "reload")
        /\ UNCHANGED semvars

Reload(t) ==
    /\ mpc[t] = "reload"
    /\ loc' = [loc EXCEPT ![t].old = state]
    /\ MGoto(t, "loop")
    /\ UNCHANGED <<semvars, state>>

\* The word mutex_lock_slow wants to install, before it clears WOKEN.
Claimed(t) ==
    LET o == loc[t].old
        s1 == IF Starving(o) THEN o ELSE Set(o, MUTEX_LOCKED, Locked(o))
        s2 == IF Locked(o) \/ Starving(o) THEN s1 + WAITER ELSE s1
    IN  IF loc[t].starving /\ Locked(o) THEN Set(s2, MUTEX_STARVING, Starving(s2)) ELSE s2

NewState(t) == IF loc[t].awoke THEN Claimed(t) - MUTEX_WOKEN ELSE Claimed(t)

TryClaim(t) ==
    LET o == loc[t].old
    IN  /\ mpc[t] = "loop"
        /\ \/ /\ state # o
              /\ MGoto(t, "reload")
              /\ UNCHANGED <<semvars, state, loc>>
           \/ /\ state = o /\ ~Locked(o) /\ ~Starving(o)
              /\ state' = NewState(t)
              /\ Leave(t, "crit")
              /\ UNCHANGED semvars
           \/ /\ state = o /\ (Locked(o) \/ Starving(o))
              /\ state' = NewState(t)
              /\ AcquireCall(t, loc[t].timed)
              /\ loc' = [loc EXCEPT ![t].timed = TRUE]
              /\ MGoto(t, "wait")

\* semaphore_acquire has returned.  Whether the threshold has passed depends
\* on the clock.
Return(t) ==
    /\ mpc[t] = "wait"
    /\ SemReturn(t)
    /\ \E late \in BOOLEAN :
          IF Starving(state)
          THEN /\ loc' = [loc EXCEPT ![t].starving = @ \/ late, ![t].old = state]
               /\ MGoto(t, "fixup")
          ELSE /\ loc' = [loc EXCEPT ![t].starving = @ \/ late, ![t].old = state,
                                    ![t].awoke = TRUE, ![t].iter = 0]
               /\ MGoto(t, "loop")
    /\ UNCHANGED state
\* Mutant: the thread that was handed the mutex does not count itself out.
FixUpStillWaiting(t) ==
    /\ mpc[t] = "fixup"
    /\ state' = state + MUTEX_LOCKED
                 - (IF ~loc[t].starving \/ Waiters(loc[t].old) = 1 THEN MUTEX_STARVING ELSE 0)
    /\ Leave(t, "crit")
    /\ UNCHANGED semvars

\* Ownership was handed off to this thread.
FixUp(t) ==
    /\ mpc[t] = "fixup"
    /\ state' = state + MUTEX_LOCKED - WAITER
                 - (IF ~loc[t].starving \/ Waiters(loc[t].old) = 1 THEN MUTEX_STARVING ELSE 0)
    /\ Leave(t, "crit")
    /\ UNCHANGED semvars

----------------------------------------------------------------------------
(* mutex_try_lock                                                          *)

\* A refused attempt changes nothing.
TryLock(t) ==
    /\ mpc[t] = "idle"
    /\ ~Locked(state) /\ ~Starving(state)
    /\ loc' = [loc EXCEPT ![t].old = state]
    /\ MGoto(t, "try")
    /\ UNCHANGED <<semvars, state>>
\* Mutant: a plain store in place of the CAS.
TryLockStore(t) ==
    /\ mpc[t] = "try"
    /\ state' = loc[t].old + MUTEX_LOCKED
    /\ Leave(t, "crit")
    /\ UNCHANGED semvars

TryLockCas(t) ==
    /\ mpc[t] = "try"
    /\ IF state = loc[t].old
       THEN state' = state + MUTEX_LOCKED /\ Leave(t, "crit")
       ELSE UNCHANGED state /\ Leave(t, "idle")
    /\ UNCHANGED semvars

----------------------------------------------------------------------------
(* mutex_unlock                                                            *)
\* Mutant: no hand-off when the mutex is starving.
UnlockNoHandoff(t) ==
    /\ mpc[t] = "crit"
    /\ state' = state - MUTEX_LOCKED
    /\ \/ state' = 0 /\ Leave(t, "idle")
       \/ state' # 0 /\ loc' = [loc EXCEPT ![t].old = state'] /\ MGoto(t, "unlock")
    /\ UNCHANGED semvars

\* The slow path keeps the new value of the word in `old`.
Unlock(t) ==
    /\ mpc[t] = "crit"
    /\ state' = state - MUTEX_LOCKED
    /\ \/ state' = 0 /\ Leave(t, "idle") /\ UNCHANGED semvars
       \/ /\ state' # 0 /\ ~Starving(state')
          /\ loc' = [loc EXCEPT ![t].old = state']
          /\ MGoto(t, "unlock")
          /\ UNCHANGED semvars
       \/ /\ state' # 0 /\ Starving(state')
          /\ ReleaseCall(t, TRUE)
          /\ Leave(t, "post")

NobodyToWake(s) == Waiters(s) = 0 \/ Locked(s) \/ Woken(s) \/ Starving(s)

UnlockSlow(t) ==
    LET o == loc[t].old
    IN  /\ mpc[t] = "unlock"
        /\ \/ NobodyToWake(o) /\ Leave(t, "idle") /\ UNCHANGED <<semvars, state>>
           \/ /\ ~NobodyToWake(o) /\ state = o
              /\ state' = state - WAITER + MUTEX_WOKEN
              /\ ReleaseCall(t, FALSE)
              /\ Leave(t, "post")
           \/ /\ ~NobodyToWake(o) /\ state # o
              /\ MGoto(t, "unlock_reload")
              /\ UNCHANGED <<semvars, state, loc>>

UnlockReload(t) ==
    /\ mpc[t] = "unlock_reload"
    /\ loc' = [loc EXCEPT ![t].old = state]
    /\ MGoto(t, "unlock")
    /\ UNCHANGED <<semvars, state>>

UnlockReturn(t) ==
    /\ mpc[t] = "post"
    /\ SemReturn(t)
    /\ MGoto(t, "idle")
    /\ UNCHANGED <<state, loc>>

----------------------------------------------------------------------------
Sema(t) == SemStep(t) /\ UNCHANGED <<state, mpc, loc>>

\* What a thread does once it is inside a call of the mutex.
Inside(t) ==
    \/ LockSlow(t) \/ Spin(t) \/ Reload(t) \/ TryClaim(t) \/ Return(t) \/ FixUp(t)
    \/ TryLockCas(t) \/ UnlockSlow(t) \/ UnlockReload(t) \/ UnlockReturn(t) \/ Sema(t)

Next == \E t \in Threads : LockFast(t) \/ TryLock(t) \/ Unlock(t) \/ Inside(t)

Spec == Init /\ [][Next]_vars

----------------------------------------------------------------------------
(* Properties                                                              *)

MutexPcs == {"idle", "slow", "loop", "reload", "wait", "fixup", "try", "crit",
             "unlock", "unlock_reload", "post"}

Locals == [old : Nat, starving : BOOLEAN, awoke : BOOLEAN, iter : 0..MaxSpin, timed : BOOLEAN]

\* Every variable keeps its type: the waiter count never goes below 0.
MutexTypeOK ==
    /\ SemTypeOK
    /\ state \in Nat
    /\ mpc \in [Threads -> MutexPcs]
    /\ loc \in [Threads -> Locals]

Abstract == INSTANCE Lock
    WITH holder <- {t \in Threads : mpc[t] = "crit"},
         asking <- {t \in Threads : mpc[t] \in {"slow", "loop", "reload", "wait", "fixup", "try"}}

\* The mutex is a lock: through the fast path, the CAS loop, try_lock and the
\* starvation hand-off one thread at a time gets through, and each step of the
\* code is one step of the abstract lock or none.
ImplementsLock == Abstract!LockSpec

\* A thread asleep on the mutex is never left to sleep on a mutex nobody is
\* going to unlock: some other thread owns it or is on its way through it.
NobodyStranded ==
    (\E t \in Threads : spc[t] = "parked" /\ status[t] = "waiting") =>
        \E u \in Threads :
            /\ mpc[u] # "idle"
            /\ ~(spc[u] = "parked" /\ status[u] = "waiting")

\* The waiter count never exceeds the threads that are really waiting, so an
\* unlocker that wakes "someone" always has someone to wake.
WaitersReal ==
    Waiters(state) <= Cardinality({t \in Threads : mpc[t] \in {"wait", "fixup"}})
=============================================================================
