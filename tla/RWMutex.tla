------------------------------ MODULE RWMutex ------------------------------
(***************************************************************************)
(* The reader/writer mutex of kernel/sync/rwmutex.c, as it is written: the *)
(* atomic adds return the OLD value of the word.  The writers' mutex is    *)
(* abstracted to its owner and the two semaphores to their permits, which  *)
(* is what Mutex and SemaphoreClient show of them.                         *)
(***************************************************************************)
EXTENDS Integers, FiniteSets

CONSTANTS Threads, NoThread,
          MaxReaders            \* RWMUTEX_MAX_READERS, 1 << 30

VARIABLES
    readerCount,    \* rw->reader_count
    readerWait,     \* rw->reader_wait
    sem,            \* the permits of rw->reader_sem and rw->writer_sem
    mutex,          \* the owner of rw->mutex
    pc,             \* where each thread is
    r               \* the local r of rwmutex_lock and rwmutex_unlock

vars == <<readerCount, readerWait, sem, mutex, pc, r>>

\* int32_t holds -2 * (1 << 30) .. 2 * (1 << 30) - 1 and wraps around.
Int32(x) == ((x + 2 * MaxReaders) % (4 * MaxReaders)) - 2 * MaxReaders

Goto(t, l) == pc' = [pc EXCEPT ![t] = l]

Init ==
    /\ readerCount = 0 /\ readerWait = 0
    /\ sem = [s \in {"reader", "writer"} |-> 0]
    /\ mutex = NoThread
    /\ pc = [t \in Threads |-> "idle"]
    /\ r = [t \in Threads |-> 0]

----------------------------------------------------------------------------
\* Mutant: the reader is not counted.
RLockUncounted(t) ==
    /\ pc[t] = "idle"
    /\ Goto(t, IF readerCount < 0 THEN "rwait" ELSE "reading")
    /\ UNCHANGED <<readerCount, readerWait, sem, mutex, r>>

RLock(t) ==
    /\ pc[t] = "idle"
    /\ readerCount' = Int32(readerCount + 1)
    /\ Goto(t, IF readerCount < 0 THEN "rwait" ELSE "reading")
    /\ UNCHANGED <<readerWait, sem, mutex, r>>

\* semaphore_acquire returns: of rwmutex_rlock on the readers' semaphore, of
\* rwmutex_lock on the writer's.
SemAcquired(t) ==
    LET s == IF pc[t] = "rwait" THEN "reader" ELSE "writer"
    IN  /\ pc[t] \in {"rwait", "wwait"}
        /\ sem[s] > 0
        /\ sem' = [sem EXCEPT ![s] = @ - 1]
        /\ Goto(t, IF s = "reader" THEN "reading" ELSE "writing")
        /\ UNCHANGED <<readerCount, readerWait, mutex, r>>

RUnlock(t) ==
    /\ pc[t] = "reading"
    /\ readerCount' = Int32(readerCount - 1)
    /\ r' = [r EXCEPT ![t] = IF readerCount < 0 THEN readerCount ELSE 0]
    /\ Goto(t, IF readerCount < 0 THEN "runlock_slow" ELSE "idle")
    /\ UNCHANGED <<readerWait, sem, mutex>>

RUnlockSlow(t) ==
    /\ pc[t] = "runlock_slow"
    /\ readerWait' = Int32(readerWait - 1)
    /\ sem' = IF readerWait = 0 THEN [sem EXCEPT !["writer"] = @ + 1] ELSE sem
    /\ r' = [r EXCEPT ![t] = 0]
    /\ Goto(t, "idle")
    /\ UNCHANGED <<readerCount, mutex>>

----------------------------------------------------------------------------
LockWriters(t) ==
    /\ pc[t] = "idle"
    /\ mutex = NoThread
    /\ mutex' = t
    /\ Goto(t, "announce")
    /\ UNCHANGED <<readerCount, readerWait, sem, r>>

Announce(t) ==
    LET active == Int32(readerCount + MaxReaders)
    IN  /\ pc[t] = "announce"
        /\ readerCount' = Int32(readerCount - MaxReaders)
        /\ r' = [r EXCEPT ![t] = active]
        /\ Goto(t, IF active # 0 THEN "await" ELSE "writing")
        /\ UNCHANGED <<readerWait, sem, mutex>>

AwaitReaders(t) ==
    /\ pc[t] = "await"
    /\ readerWait' = Int32(readerWait + r[t])
    /\ r' = [r EXCEPT ![t] = 0]
    /\ Goto(t, IF readerWait # 0 THEN "wwait" ELSE "writing")
    /\ UNCHANGED <<readerCount, sem, mutex>>

Unlock(t) ==
    /\ pc[t] = "writing"
    /\ readerCount' = Int32(readerCount + MaxReaders)
    /\ r' = [r EXCEPT ![t] = readerCount]
    /\ Goto(t, "unblock")
    /\ UNCHANGED <<readerWait, sem, mutex>>

\* The loop `for (int i = 0; i < r; i++)` and the unlock of the mutex.
Unblock(t) ==
    /\ pc[t] = "unblock"
    /\ sem' = [sem EXCEPT !["reader"] = @ + (IF r[t] > 0 THEN r[t] ELSE 0)]
    /\ mutex' = NoThread
    /\ r' = [r EXCEPT ![t] = 0]
    /\ Goto(t, "idle")
    /\ UNCHANGED <<readerCount, readerWait>>

Reader(t) == RLock(t) \/ RUnlock(t) \/ RUnlockSlow(t)
Writer(t) == LockWriters(t) \/ Announce(t) \/ AwaitReaders(t) \/ Unlock(t) \/ Unblock(t)

Next == \E t \in Threads : Reader(t) \/ Writer(t) \/ SemAcquired(t)

Spec == Init /\ [][Next]_vars

----------------------------------------------------------------------------
(* Properties                                                              *)

\* reader_count and reader_wait stay within the range of their counters, the rest of the
\* state within its types.
TypeOK ==
    /\ {readerCount, readerWait} \subseteq -2 * MaxReaders .. 2 * MaxReaders - 1
    /\ sem \in [{"reader", "writer"} -> Nat]
    /\ mutex \in Threads \cup {NoThread}
    /\ pc \in [Threads -> {"idle", "rwait", "reading", "runlock_slow", "announce", "await",
                           "wwait", "writing", "unblock"}]
    /\ r \in [Threads -> -2 * MaxReaders .. 2 * MaxReaders - 1]

WriterPcs == {"await", "wwait", "writing"}

\* reader_count is the number of readers inside or waiting, less MAX_READERS
\* while a writer is announced: the word never drifts, whatever the order of
\* the readers' and writers' additions.
ReaderCountExact ==
    readerCount = Cardinality({t \in Threads : pc[t] \in {"reading", "rwait"}})
                    - (IF \E t \in Threads : pc[t] \in WriterPcs THEN MaxReaders ELSE 0)

\* rwmutex_lock: "Wait for active readers."  A writer never writes while a
\* reader reads.
WriterExcludesReaders ==
    \A t, u \in Threads : ~(pc[t] = "writing" /\ pc[u] = "reading")
=============================================================================
