----------------------------- MODULE Semaphore -----------------------------
(***************************************************************************)
(* The counting semaphore of kernel/sync/semaphore.c: an atomic `value`,   *)
(* an atomic count `nwait` of registered waiters, and a list of waiting    *)
(* threads protected by a spinlock.  One action is one access to shared    *)
(* memory: the atomic words can be read without the lock at any moment,    *)
(* the list cannot, so its update shares a step with the neighbouring      *)
(* access of the lock holder.                                              *)
(*                                                                         *)
(* A caller enters an operation with AcquireCall or ReleaseCall and has    *)
(* returned from it when spc[t] = "idle" again, so that the modules built  *)
(* on the semaphore (Mutex) run these very actions.                        *)
(***************************************************************************)
EXTENDS Integers, Sequences, FiniteSets

CONSTANTS Threads,      \* the kernel threads
          NoThread      \* the NULL pointer

ASSUME ThreadsAssumption == IsFiniteSet(Threads) /\ NoThread \notin Threads

VARIABLES
    value,      \* semaphore->value
    nwait,      \* semaphore->nwait
    lock,       \* semaphore->lock: the thread inside it, or NoThread
    waiters,    \* semaphore->waiters: the threads of the list, head first
    ticket,     \* wt->ticket of the descriptor each thread waits with
    status,     \* thread->status, as far as parking is concerned
    spc,        \* where each thread is in semaphore_acquire/_release
    lifo,       \* the argument of semaphore_acquire
    handoff,    \* the argument of semaphore_release
    wt          \* the local `wt` of semaphore_release: the waiter to wake

semvars == <<value, nwait, lock, waiters, ticket, status, spc, lifo, handoff, wt>>

AcquirePcs == {"acq_easy", "acq_lock", "acq_nwait", "acq_check", "acq_undo",
               "acq_unlock", "acq_queue", "acq_park", "acq_parkcb", "parked"}

ReleasePcs == {"rel_add", "rel_easy", "rel_lock", "rel_check", "rel_dequeue",
               "rel_unlock", "rel_grant", "rel_ready"}

Goto(t, l) == spc' = [spc EXCEPT ![t] = l]

SemInit(permits) ==
    /\ value = permits
    /\ nwait = 0
    /\ lock = NoThread
    /\ waiters = << >>
    /\ ticket = [t \in Threads |-> 0]
    /\ status = [t \in Threads |-> "running"]
    /\ spc = [t \in Threads |-> "idle"]
    /\ lifo = [t \in Threads |-> FALSE]
    /\ handoff = [t \in Threads |-> FALSE]
    /\ wt = [t \in Threads |-> NoThread]

----------------------------------------------------------------------------
(* semaphore_queue and semaphore_dequeue: wait_link and wait_tail make the *)
(* list a queue with its head in semaphore->waiters.  The root hands its   *)
(* ticket on to the descriptor that takes its place.                       *)

Queued(t) == IF lifo[t] THEN <<t>> \o waiters ELSE Append(waiters, t)

QueuedTicket(t) ==
    IF lifo[t] /\ waiters # << >>
    THEN [ticket EXCEPT ![t] = ticket[Head(waiters)]]
    ELSE ticket

DequeuedTicket ==
    IF Len(waiters) > 1
    THEN [ticket EXCEPT ![waiters[2]] = ticket[waiters[1]], ![waiters[1]] = 0]
    ELSE [ticket EXCEPT ![waiters[1]] = 0]

----------------------------------------------------------------------------
(* semaphore_acquire                                                       *)

AcquireCall(t, front) ==
    /\ spc[t] = "idle"
    /\ lifo' = [lifo EXCEPT ![t] = front]
    /\ Goto(t, "acq_easy")
    /\ UNCHANGED <<value, nwait, lock, waiters, ticket, status, handoff, wt>>

\* semaphore_can_acquire is a CAS loop: one atomic test and decrement.
AcquireEasy(t) ==
    /\ spc[t] = "acq_easy"
    /\ \/ value > 0 /\ value' = value - 1 /\ Goto(t, "idle")
       \/ value = 0 /\ Goto(t, "acq_lock") /\ UNCHANGED value
    /\ UNCHANGED <<nwait, lock, waiters, ticket, status, lifo, handoff, wt>>

AcquireLock(t) ==
    /\ spc[t] = "acq_lock"
    /\ lock = NoThread
    /\ lock' = t
    /\ Goto(t, "acq_nwait")
    /\ UNCHANGED <<value, nwait, waiters, ticket, status, lifo, handoff, wt>>

AcquireNwait(t) ==
    /\ spc[t] = "acq_nwait"
    /\ nwait' = nwait + 1
    /\ Goto(t, "acq_check")
    /\ UNCHANGED <<value, lock, waiters, ticket, status, lifo, handoff, wt>>
\* Mutant: value is not looked at again after nwait has been raised.
AcquireNoRecheck(t) ==
    /\ spc[t] = "acq_check"
    /\ Goto(t, "acq_queue")
    /\ UNCHANGED <<value, nwait, lock, waiters, ticket, status, lifo, handoff, wt>>

AcquireCheck(t) ==
    /\ spc[t] = "acq_check"
    /\ \/ value > 0 /\ value' = value - 1 /\ Goto(t, "acq_undo")
       \/ value = 0 /\ Goto(t, "acq_queue") /\ UNCHANGED value
    /\ UNCHANGED <<nwait, lock, waiters, ticket, status, lifo, handoff, wt>>

AcquireUndo(t) ==
    /\ spc[t] = "acq_undo"
    /\ nwait' = nwait - 1
    /\ Goto(t, "acq_unlock")
    /\ UNCHANGED <<value, lock, waiters, ticket, status, lifo, handoff, wt>>

AcquireUnlock(t) ==
    /\ spc[t] = "acq_unlock"
    /\ lock' = NoThread
    /\ Goto(t, "idle")
    /\ UNCHANGED <<value, nwait, waiters, ticket, status, lifo, handoff, wt>>
\* Mutant: the spinlock is dropped before the thread is WAITING.
AcquireQueueUnlocked(t) ==
    /\ spc[t] = "acq_queue"
    /\ waiters' = Queued(t)
    /\ ticket' = QueuedTicket(t)
    /\ lock' = NoThread
    /\ Goto(t, "acq_park")
    /\ UNCHANGED <<value, nwait, status, lifo, handoff, wt>>

AcquireQueue(t) ==
    /\ spc[t] = "acq_queue"
    /\ waiters' = Queued(t)
    /\ ticket' = QueuedTicket(t)
    /\ Goto(t, "acq_park")
    /\ UNCHANGED <<value, nwait, lock, status, lifo, handoff, wt>>

\* scheduler_park: the thread becomes WAITING first, ...
AcquirePark(t) ==
    /\ spc[t] = "acq_park"
    /\ status' = [status EXCEPT ![t] = "waiting"]
    /\ Goto(t, "acq_parkcb")
    /\ UNCHANGED <<value, nwait, lock, waiters, ticket, lifo, handoff, wt>>

\* ... and only then does the callback release the semaphore's spinlock.
AcquireParkUnlock(t) ==
    /\ spc[t] = "acq_parkcb"
    /\ lock' = NoThread
    /\ Goto(t, "parked")
    /\ UNCHANGED <<value, nwait, waiters, ticket, status, lifo, handoff, wt>>

\* The thread runs again.  Either the releaser left it a ticket, or it takes
\* a permit itself, or it goes round the loop.  release_waiting_thread clears
\* the descriptor, ticket included.
AcquireWake(t) ==
    /\ spc[t] = "parked"
    /\ status[t] = "runnable"
    /\ status' = [status EXCEPT ![t] = "running"]
    /\ \/ ticket[t] # 0 /\ ticket' = [ticket EXCEPT ![t] = 0] /\ Goto(t, "idle") /\ UNCHANGED value
       \/ ticket[t] = 0 /\ value > 0 /\ value' = value - 1 /\ Goto(t, "idle") /\ UNCHANGED ticket
       \/ ticket[t] = 0 /\ value = 0 /\ Goto(t, "acq_lock") /\ UNCHANGED <<value, ticket>>
    /\ UNCHANGED <<nwait, lock, waiters, lifo, handoff, wt>>

----------------------------------------------------------------------------
(* semaphore_release                                                       *)

ReleaseCall(t, direct) ==
    /\ spc[t] = "idle"
    /\ handoff' = [handoff EXCEPT ![t] = direct]
    /\ Goto(t, "rel_add")
    /\ UNCHANGED <<value, nwait, lock, waiters, ticket, status, lifo, wt>>

ReleaseAdd(t) ==
    /\ spc[t] = "rel_add"
    /\ value' = value + 1
    /\ Goto(t, "rel_easy")
    /\ UNCHANGED <<nwait, lock, waiters, ticket, status, lifo, handoff, wt>>

ReleaseEasy(t) ==
    /\ spc[t] = "rel_easy"
    /\ Goto(t, IF nwait = 0 THEN "idle" ELSE "rel_lock")
    /\ UNCHANGED <<value, nwait, lock, waiters, ticket, status, lifo, handoff, wt>>

ReleaseLock(t) ==
    /\ spc[t] = "rel_lock"
    /\ lock = NoThread
    /\ lock' = t
    /\ Goto(t, "rel_check")
    /\ UNCHANGED <<value, nwait, waiters, ticket, status, lifo, handoff, wt>>

ReleaseCheck(t) ==
    /\ spc[t] = "rel_check"
    /\ Goto(t, IF nwait = 0 THEN "rel_unlock" ELSE "rel_dequeue")
    /\ UNCHANGED <<value, nwait, lock, waiters, ticket, status, lifo, handoff, wt>>

ReleaseDequeue(t) ==
    /\ spc[t] = "rel_dequeue"
    /\ Goto(t, "rel_unlock")
    /\ \/ /\ waiters = << >>
          /\ UNCHANGED <<nwait, waiters, ticket, wt>>
       \/ /\ waiters # << >>
          /\ wt' = [wt EXCEPT ![t] = Head(waiters)]
          /\ waiters' = Tail(waiters)
          /\ ticket' = DequeuedTicket
          /\ nwait' = nwait - 1
    /\ UNCHANGED <<value, lock, status, lifo, handoff>>
\* Mutant: the waiter is dropped when a newcomer has taken the permit.
ReleaseUnlockBarged(t) ==
    /\ spc[t] = "rel_unlock"
    /\ lock' = NoThread
    /\ wt' = IF value = 0 THEN [wt EXCEPT ![t] = NoThread] ELSE wt
    /\ Goto(t, IF wt'[t] = NoThread THEN "idle" ELSE "rel_grant")
    /\ UNCHANGED <<value, nwait, waiters, ticket, status, lifo, handoff>>

ReleaseUnlock(t) ==
    /\ spc[t] = "rel_unlock"
    /\ lock' = NoThread
    /\ Goto(t, IF wt[t] = NoThread THEN "idle" ELSE "rel_grant")
    /\ UNCHANGED <<value, nwait, waiters, ticket, status, lifo, handoff, wt>>
\* Mutant: the ticket is handed out and the permit stays in value.
ReleaseGrantForFree(t) ==
    /\ spc[t] = "rel_grant"
    /\ ticket' = IF handoff[t] /\ value > 0 THEN [ticket EXCEPT ![wt[t]] = 1] ELSE ticket
    /\ Goto(t, "rel_ready")
    /\ UNCHANGED <<value, nwait, lock, waiters, status, lifo, handoff, wt>>

\* In a direct hand-off the releaser takes the permit for the waiter.
ReleaseGrant(t) ==
    /\ spc[t] = "rel_grant"
    /\ IF handoff[t] /\ value > 0
       THEN value' = value - 1 /\ ticket' = [ticket EXCEPT ![wt[t]] = 1]
       ELSE UNCHANGED <<value, ticket>>
    /\ Goto(t, "rel_ready")
    /\ UNCHANGED <<nwait, lock, waiters, status, lifo, handoff, wt>>

\* scheduler_ready_thread; the yield that follows a hand-off changes no state
\* of the semaphore.
ReleaseReady(t) ==
    /\ spc[t] = "rel_ready"
    /\ status' = [status EXCEPT ![wt[t]] = "runnable"]
    /\ wt' = [wt EXCEPT ![t] = NoThread]
    /\ Goto(t, "idle")
    /\ UNCHANGED <<value, nwait, lock, waiters, ticket, lifo, handoff>>

\* Back in the caller: the arguments of the call are gone.
SemReturn(t) ==
    /\ spc[t] = "idle"
    /\ lifo' = [lifo EXCEPT ![t] = FALSE]
    /\ handoff' = [handoff EXCEPT ![t] = FALSE]
    /\ UNCHANGED <<value, nwait, lock, waiters, ticket, status, spc, wt>>

AcquireStep(t) ==
    \/ AcquireEasy(t) \/ AcquireLock(t) \/ AcquireNwait(t) \/ AcquireCheck(t)
    \/ AcquireUndo(t) \/ AcquireUnlock(t) \/ AcquireQueue(t) \/ AcquirePark(t)
    \/ AcquireParkUnlock(t) \/ AcquireWake(t)

ReleaseStep(t) ==
    \/ ReleaseAdd(t) \/ ReleaseEasy(t) \/ ReleaseLock(t) \/ ReleaseCheck(t)
    \/ ReleaseDequeue(t) \/ ReleaseUnlock(t) \/ ReleaseGrant(t) \/ ReleaseReady(t)

SemStep(t) == AcquireStep(t) \/ ReleaseStep(t)

----------------------------------------------------------------------------
(* What every client of the semaphore relies on                            *)

\* The state of the semaphore is well-typed; value never goes below 0.
SemTypeOK ==
    /\ value \in Nat /\ nwait \in Nat
    /\ lock \in Threads \cup {NoThread}
    /\ waiters \in Seq(Threads)
    /\ ticket \in [Threads -> {0, 1}]
    /\ status \in [Threads -> {"running", "waiting", "runnable"}]
    /\ spc \in [Threads -> {"idle"} \cup AcquirePcs \cup ReleasePcs]
    /\ lifo \in [Threads -> BOOLEAN]
    /\ handoff \in [Threads -> BOOLEAN]
    /\ wt \in [Threads -> Threads \cup {NoThread}]

\* A releaser that has not yet woken anybody, or a woken thread that has not
\* yet looked at value: each of them stands for one permit on its way.
InFlight ==
    {t \in Threads :
        \/ spc[t] \in {"rel_easy", "rel_lock", "rel_check", "rel_dequeue"}
        \/ spc[t] \in {"rel_unlock", "rel_grant", "rel_ready"} /\ wt[t] # NoThread
              /\ ticket[wt[t]] = 0
        \/ spc[t] = "parked" /\ status[t] = "runnable" /\ ticket[t] = 0}

\* A thread sleeps in the queue, or is committed to enqueue itself.
Sleepers == waiters # << >> \/ \E t \in Threads : spc[t] = "acq_queue"

\* "This check must happen after the add, to avoid a missed wakeup": as long
\* as there are sleepers, every free permit has somebody on the way who will
\* wake a waiter or take it.
NoMissedWakeup == Sleepers => value <= Cardinality(InFlight)
=============================================================================
