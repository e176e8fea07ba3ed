------------------------ MODULE SemaphoreMutexProofs ------------------------
(***************************************************************************)
(* The safety of the semaphore under its most general client, for every    *)
(* finite set of threads and every number of permits.  First the part of   *)
(* the inductive invariant that does not depend on who calls: who holds    *)
(* the lock, what is in the queue, what a waker holds (Shape), and, on top *)
(* of it, that no wake-up is missed; the mutex, the second half of this    *)
(* module, builds on it as well.  Then where the client may be (SemClient) *)
(* and the count of the owned permits.                                     *)
(***************************************************************************)
EXTENDS SemaphoreClient, Mutex, FiniteSetTheorems, TLAPS

LockedPcs == {"acq_nwait", "acq_check", "acq_undo", "acq_unlock", "acq_queue",
              "acq_park", "acq_parkcb", "rel_check", "rel_dequeue", "rel_unlock"}

\* The lock holder is the thread between spinlock_lock and spinlock_unlock.
LockInv == \A t \in Threads : spc[t] \in LockedPcs <=> lock = t

\* nwait counts the list, and the lock holder that has announced itself.
Announced == \E t \in Threads : spc[t] \in {"acq_check", "acq_undo", "acq_queue"}

NwaitInv ==
    /\ Announced => nwait = Len(waiters) + 1
    /\ ~Announced => nwait = Len(waiters)
    /\ (\E t \in Threads : spc[t] = "rel_dequeue") => nwait # 0

InQueue(t) == \E i \in 1..Len(waiters) : waiters[i] = t

\* What is true of a queued thread, and of a thread a waker has taken out.
QueueInv ==
    /\ \A i, j \in 1..Len(waiters) : waiters[i] = waiters[j] => i = j
    /\ \A q \in Threads : InQueue(q) =>
          /\ ticket[q] = 0
          /\ spc[q] \in {"acq_park", "acq_parkcb", "parked"}
          /\ spc[q] = "parked" => status[q] = "waiting"
          /\ \A r \in Threads : wt[r] # q

WtInv ==
    /\ \A r \in Threads : wt[r] # NoThread =>
          /\ spc[r] \in {"rel_unlock", "rel_grant", "rel_ready"}
          /\ spc[wt[r]] = "parked"
          /\ status[wt[r]] = "waiting"
          /\ spc[r] # "rel_ready" => ticket[wt[r]] = 0
          /\ \A s \in Threads : wt[s] = wt[r] => s = r
    /\ \A r \in Threads : spc[r] \in {"rel_grant", "rel_ready"} => wt[r] # NoThread

StatusInv ==
    \A t \in Threads :
        /\ status[t] # "running" => spc[t] \in {"acq_parkcb", "parked"}
        /\ spc[t] = "acq_parkcb" => status[t] = "waiting" /\ InQueue(t)
        /\ spc[t] = "acq_park" => InQueue(t)
        /\ spc[t] = "parked" => status[t] # "running"
        /\ (spc[t] = "parked" /\ status[t] = "waiting") => (InQueue(t) \/ \E r \in Threads : wt[r] = t)
        /\ ticket[t] = 1 => spc[t] = "parked"

Shape == SemTypeOK /\ LockInv /\ NwaitInv /\ QueueInv /\ WtInv /\ StatusInv

----------------------------------------------------------------------------
(* What queueing and dequeueing do to the list.                            *)

\* A queued thread goes to one end of the list and the rest keeps its order.
LEMMA QueuedEnds ==
    ASSUME NEW t \in Threads, waiters \in Seq(Threads)
    PROVE  /\ Queued(t) \in Seq(Threads)
           /\ Len(Queued(t)) = Len(waiters) + 1
           /\ lifo[t] => /\ Queued(t)[1] = t
                         /\ \A i \in 1..Len(waiters) : Queued(t)[i + 1] = waiters[i]
           /\ ~lifo[t] => /\ Queued(t)[Len(waiters) + 1] = t
                          /\ \A i \in 1..Len(waiters) : Queued(t)[i] = waiters[i]
  <1>1. CASE lifo[t]
    <2>1. <<t>> \in Seq(Threads) /\ Len(<<t>>) = 1 /\ <<t>>[1] = t  OBVIOUS
    <2> QED BY <1>1, <2>1 DEF Queued
  <1>2. CASE ~lifo[t]
    BY <1>2 DEF Queued
  <1> QED BY <1>1, <1>2

\* The list after AcquireQueue(t) holds t and what it held before, each once.
LEMMA QueuedMembers ==
    ASSUME NEW t \in Threads, waiters \in Seq(Threads), ~InQueue(t), waiters' = Queued(t),
           \A i, j \in 1..Len(waiters) : waiters[i] = waiters[j] => i = j
    PROVE  /\ \A q \in Threads : InQueue(q)' <=> (q = t \/ InQueue(q))
           /\ \A i, j \in 1..Len(waiters') : waiters'[i] = waiters'[j] => i = j
  <1>0. Len(waiters) \in Nat /\ Len(waiters') = Len(waiters) + 1  BY QueuedEnds
  <1>1. CASE lifo[t]
    <2>1. waiters'[1] = t /\ \A i \in 1..Len(waiters) : waiters'[i + 1] = waiters[i]
      BY <1>1, QueuedEnds
    <2>2. \A i \in 1..Len(waiters') : i = 1 \/ (i - 1 \in 1..Len(waiters) /\ waiters'[i] = waiters[i - 1])
      BY <1>0, <2>1
    <2>3. ASSUME NEW q \in Threads PROVE InQueue(q)' <=> (q = t \/ InQueue(q))
      BY <1>0, <2>1, <2>2 DEF InQueue
    <2>4. ASSUME NEW i \in 1..Len(waiters'), NEW j \in 1..Len(waiters'), waiters'[i] = waiters'[j]
          PROVE  i = j
      <3>1. i # 1 => InQueue(waiters'[i])  BY <2>2 DEF InQueue
      <3>2. j # 1 => InQueue(waiters'[j])  BY <2>2 DEF InQueue
      <3>3. i = 1 <=> j = 1  BY <2>1, <2>4, <3>1, <3>2
      <3>4. CASE i # 1
        <4>1. i - 1 = j - 1  BY <2>2, <2>4, <3>3, <3>4
        <4> QED BY <1>0, <4>1
      <3> QED BY <3>3, <3>4
    <2> QED BY <2>3, <2>4
  <1>2. CASE ~lifo[t]
    <2>1. waiters'[Len(waiters) + 1] = t /\ \A i \in 1..Len(waiters) : waiters'[i] = waiters[i]
      BY <1>2, QueuedEnds
    <2>2. \A i \in 1..Len(waiters') : i = Len(waiters) + 1 \/ (i \in 1..Len(waiters) /\ waiters'[i] = waiters[i])
      BY <1>0, <2>1
    <2>3. ASSUME NEW q \in Threads PROVE InQueue(q)' <=> (q = t \/ InQueue(q))
      BY <1>0, <2>1, <2>2 DEF InQueue
    <2>4. ASSUME NEW i \in 1..Len(waiters'), NEW j \in 1..Len(waiters'), waiters'[i] = waiters'[j]
          PROVE  i = j
      BY <1>0, <2>1, <2>2, <2>4 DEF InQueue
    <2> QED BY <2>3, <2>4
  <1> QED BY <1>1, <1>2

\* The list after a dequeue holds what it held before, its head excepted.
LEMMA DequeuedMembers ==
    ASSUME waiters \in Seq(Threads), waiters # << >>, waiters' = Tail(waiters),
           \A i, j \in 1..Len(waiters) : waiters[i] = waiters[j] => i = j
    PROVE  /\ waiters' \in Seq(Threads) /\ Len(waiters') = Len(waiters) - 1
           /\ Head(waiters) \in Threads /\ InQueue(Head(waiters))
           /\ \A q \in Threads : InQueue(q)' <=> (q # Head(waiters) /\ InQueue(q))
           /\ \A i, j \in 1..Len(waiters') : waiters'[i] = waiters'[j] => i = j
  <1>1. /\ Len(waiters) \in Nat /\ Len(waiters) >= 1 /\ waiters' \in Seq(Threads)
        /\ Len(waiters') = Len(waiters) - 1 /\ Head(waiters) = waiters[1]
        /\ waiters[1] \in Threads
    OBVIOUS
  <1>2. \A i \in 1..Len(waiters') : i + 1 \in 1..Len(waiters) /\ waiters'[i] = waiters[i + 1]
    BY <1>1
  <1>3. InQueue(Head(waiters))
    BY <1>1 DEF InQueue
  <1>4. ASSUME NEW q \in Threads PROVE InQueue(q)' <=> (q # Head(waiters) /\ InQueue(q))
    <2>1. ASSUME InQueue(q)' PROVE q # Head(waiters) /\ InQueue(q)
      BY <1>1, <1>2, <2>1 DEF InQueue
    <2>2. ASSUME q # Head(waiters), InQueue(q) PROVE InQueue(q)'
      <3>1. PICK i \in 1..Len(waiters) : waiters[i] = q  BY <2>2 DEF InQueue
      <3>2. i - 1 \in 1..Len(waiters') /\ waiters'[i - 1] = q
        BY <1>1, <1>2, <2>2, <3>1
      <3> QED BY <3>2 DEF InQueue
    <2> QED BY <2>1, <2>2
  <1>5. ASSUME NEW i \in 1..Len(waiters'), NEW j \in 1..Len(waiters'), waiters'[i] = waiters'[j]
        PROVE  i = j
    BY <1>1, <1>2, <1>5
  <1> QED BY <1>1, <1>3, <1>4, <1>5

----------------------------------------------------------------------------
\* Queueing and dequeueing hand on tickets that are all 0: no ticket changes.
LEMMA QueueTicket ==
    ASSUME Shape, NEW t \in Threads, AcquireQueue(t)
    PROVE  ticket' = ticket
  <1>1. waiters \in Seq(Threads) /\ ticket[t] = 0
    BY DEF Shape, AcquireQueue, SemTypeOK, StatusInv
  <1>2. waiters # << >> => InQueue(Head(waiters)) /\ Head(waiters) \in Threads
    BY <1>1 DEF InQueue
  <1> QED BY <1>1, <1>2 DEF Shape, AcquireQueue, QueuedTicket, QueueInv, SemTypeOK

\* semaphore_dequeue finds a waiter whose ticket is 0 and leaves the tickets as they are.
LEMMA DequeueTicket ==
    ASSUME Shape, NEW t \in Threads, ReleaseDequeue(t)
    PROVE  /\ ticket' = ticket /\ waiters # << >>
           /\ Head(waiters) \in Threads /\ ticket[Head(waiters)] = 0
  <1>1. waiters \in Seq(Threads) /\ lock = t /\ nwait # 0 /\ ~Announced
    BY DEF Shape, ReleaseDequeue, SemTypeOK, LockInv, NwaitInv, Announced, LockedPcs
  <1>2. waiters # << >>
    BY <1>1 DEF Shape, NwaitInv
  <1>3. Len(waiters) \in Nat /\ Len(waiters) >= 1
    BY <1>1, <1>2
  <1>4. \A i \in 1..Len(waiters) : waiters[i] \in Threads /\ ticket[waiters[i]] = 0
    BY <1>1 DEF Shape, QueueInv, InQueue
  <1>5. Head(waiters) = waiters[1]
    BY <1>1, <1>2
  <1>6. ticket \in [Threads -> {0, 1}] /\ ticket' = DequeuedTicket
    BY <1>2 DEF ReleaseDequeue, Shape, SemTypeOK
  <1>7. ticket' = ticket
    BY <1>3, <1>4, <1>6 DEF DequeuedTicket
  <1> QED BY <1>2, <1>3, <1>4, <1>5, <1>7

\* AcquireQueue preserves Shape: the caller was nowhere in the list.
LEMMA ShapeQueue ==
    ASSUME Shape, NEW t \in Threads, AcquireQueue(t)
    PROVE  Shape'
  <1> USE ThreadsAssumption DEF Shape, Goto, AcquirePcs, ReleasePcs, LockedPcs
  <1>1. waiters \in Seq(Threads) /\ ~InQueue(t) /\ waiters' = Queued(t)
    BY DEF AcquireQueue, SemTypeOK, QueueInv
  <1>2. /\ waiters' \in Seq(Threads) /\ Len(waiters') = Len(waiters) + 1
        /\ \A q \in Threads : InQueue(q)' <=> (q = t \/ InQueue(q))
        /\ \A i, j \in 1..Len(waiters') : waiters'[i] = waiters'[j] => i = j
    BY <1>1, QueuedEnds, QueuedMembers DEF QueueInv
  <1>3. ticket[t] = 0
    BY DEF AcquireQueue, SemTypeOK, StatusInv
  <1>5. ticket' = ticket
    BY QueueTicket
  <1>6. SemTypeOK'
    BY <1>2, <1>5 DEF AcquireQueue, SemTypeOK
  <1>7. LockInv'
    BY DEF AcquireQueue, SemTypeOK, LockInv
  <1>8. NwaitInv'
    BY <1>2 DEF AcquireQueue, SemTypeOK, LockInv, NwaitInv, Announced
  <1>9. QueueInv'
    BY <1>2, <1>3, <1>5 DEF AcquireQueue, SemTypeOK, QueueInv, WtInv
  <1>10. WtInv'
    BY <1>5 DEF AcquireQueue, SemTypeOK, WtInv
  <1>11. StatusInv'
    BY <1>2, <1>5 DEF AcquireQueue, SemTypeOK, StatusInv
  <1> QED BY <1>6, <1>7, <1>8, <1>9, <1>10, <1>11

\* ReleaseDequeue preserves Shape: with nwait # 0 under the lock the list is
\* not empty, and its head is fully parked because it no longer has the lock.
LEMMA ShapeDequeue ==
    ASSUME Shape, NEW t \in Threads, ReleaseDequeue(t)
    PROVE  Shape'
  <1> USE ThreadsAssumption DEF Shape, Goto, AcquirePcs, ReleasePcs, LockedPcs
  <1>1. waiters \in Seq(Threads) /\ lock = t /\ nwait # 0 /\ ~Announced
    BY DEF ReleaseDequeue, SemTypeOK, LockInv, NwaitInv, Announced
  <1>2. waiters # << >>
    BY <1>1 DEF NwaitInv
  <1> DEFINE h == Head(waiters)
  <1>3. /\ waiters' = Tail(waiters) /\ nwait' = nwait - 1 /\ wt' = [wt EXCEPT ![t] = h]
        /\ ticket' = DequeuedTicket /\ spc' = [spc EXCEPT ![t] = "rel_unlock"]
        /\ UNCHANGED <<value, lock, status, lifo, handoff>>
    BY <1>2 DEF ReleaseDequeue
  <1>4. /\ waiters' \in Seq(Threads) /\ Len(waiters') = Len(waiters) - 1
        /\ h \in Threads /\ InQueue(h)
        /\ \A q \in Threads : InQueue(q)' <=> (q # h /\ InQueue(q))
        /\ \A i, j \in 1..Len(waiters') : waiters'[i] = waiters'[j] => i = j
    BY <1>1, <1>2, <1>3, DequeuedMembers DEF QueueInv
  <1>5. ticket' = ticket
    BY DequeueTicket
  <1>6. spc[t] = "rel_dequeue" /\ wt[t] = NoThread
    BY DEF ReleaseDequeue, WtInv
  <1>6a. spc[h] = "parked" /\ status[h] = "waiting" /\ ticket[h] = 0 /\ \A r \in Threads : wt[r] # h
    BY <1>1, <1>4, <1>6 DEF QueueInv, LockInv
  <1> HIDE DEF h
  <1>7. SemTypeOK'
    BY <1>1, <1>2, <1>3, <1>4, <1>5 DEF SemTypeOK, NwaitInv
  <1>8. LockInv'
    BY <1>1, <1>3, <1>6 DEF SemTypeOK, LockInv
  <1>9. NwaitInv'
    BY <1>1, <1>3, <1>4 DEF SemTypeOK, NwaitInv, Announced, LockInv
  <1>10. QueueInv'
    BY <1>3, <1>4, <1>5, <1>6, <1>6a DEF SemTypeOK, QueueInv
  <1>11. WtInv'
    BY <1>3, <1>4, <1>5, <1>6, <1>6a DEF SemTypeOK, WtInv
  <1>12. StatusInv'
    BY <1>3, <1>4, <1>5, <1>6, <1>6a DEF SemTypeOK, StatusInv, WtInv
  <1> QED BY <1>7, <1>8, <1>9, <1>10, <1>11, <1>12

\* Every step inside semaphore_acquire and semaphore_release preserves Shape.
LEMMA ShapeStep ==
    ASSUME Shape, NEW t \in Threads, SemStep(t)
    PROVE  Shape'
  <1> USE ThreadsAssumption DEF Shape, Goto, AcquirePcs, ReleasePcs, LockedPcs,
          SemTypeOK, LockInv, NwaitInv, Announced, QueueInv, InQueue, WtInv, StatusInv
  <1>1. CASE AcquireEasy(t)
    <2>1. SemTypeOK' /\ LockInv' /\ NwaitInv'  BY <1>1, SMTT(30) DEF AcquireEasy
    <2>2. QueueInv' /\ WtInv'  BY <1>1 DEF AcquireEasy
    <2>3. StatusInv'  BY <1>1 DEF AcquireEasy
    <2> QED BY <2>1, <2>2, <2>3
  <1>2. CASE AcquireLock(t)  BY <1>2 DEF AcquireLock
  <1>3. CASE AcquireNwait(t)  BY <1>3 DEF AcquireNwait
  <1>4. CASE AcquireCheck(t)  BY <1>4 DEF AcquireCheck
  <1>5. CASE AcquireUndo(t)  BY <1>5 DEF AcquireUndo
  <1>6. CASE AcquireUnlock(t)  BY <1>6 DEF AcquireUnlock
  <1>7. CASE AcquirePark(t)  BY <1>7 DEF AcquirePark
  <1>8. CASE AcquireParkUnlock(t)  BY <1>8 DEF AcquireParkUnlock
  <1>9. CASE AcquireWake(t)
    <2>0. LockInv'  BY <1>9 DEF AcquireWake
    <2>1. SemTypeOK'  BY <1>9 DEF AcquireWake
    <2>2. NwaitInv'  BY <1>9 DEF AcquireWake
    <2>3. QueueInv'  BY <1>9 DEF AcquireWake
    <2>4. WtInv'  BY <1>9 DEF AcquireWake
    <2>5. StatusInv'  BY <1>9 DEF AcquireWake
    <2> QED BY <2>0, <2>1, <2>2, <2>3, <2>4, <2>5
  <1>10. CASE ReleaseAdd(t)  BY <1>10 DEF ReleaseAdd
  <1>11. CASE ReleaseEasy(t)  BY <1>11 DEF ReleaseEasy
  <1>12. CASE ReleaseLock(t)  BY <1>12 DEF ReleaseLock
  <1>13. CASE ReleaseCheck(t)  BY <1>13 DEF ReleaseCheck
  <1>14. CASE ReleaseUnlock(t)  BY <1>14 DEF ReleaseUnlock
  <1>15. CASE ReleaseGrant(t)  BY <1>15 DEF ReleaseGrant
  <1>16. CASE ReleaseReady(t)  BY <1>16, SMTT(30) DEF ReleaseReady
  <1>17. CASE AcquireQueue(t)  BY <1>17, ShapeQueue
  <1>18. CASE ReleaseDequeue(t)  BY <1>18, ShapeDequeue
  <1> QED BY <1>1, <1>2, <1>3, <1>4, <1>5, <1>6, <1>7, <1>8, <1>9, <1>10, <1>11, <1>12, <1>13, <1>14, <1>15, <1>16, <1>17, <1>18 DEF SemStep, AcquireStep, ReleaseStep

\* A step that leaves the semaphore alone preserves Shape.
LEMMA ShapeUnchanged == Shape /\ UNCHANGED semvars => Shape'
  BY DEF semvars, Shape, SemTypeOK, LockInv, NwaitInv, Announced, QueueInv, InQueue, WtInv, StatusInv

\* Entering and leaving a call preserves Shape.
LEMMA ShapeCall ==
    ASSUME Shape, NEW t \in Threads, NEW b \in BOOLEAN,
           AcquireCall(t, b) \/ ReleaseCall(t, b) \/ SemReturn(t) \/ UNCHANGED semvars
    PROVE  Shape'
  <1> USE ThreadsAssumption DEF Shape, SemTypeOK, LockInv, NwaitInv, Announced, QueueInv, InQueue,
          WtInv, StatusInv, LockedPcs, AcquirePcs, ReleasePcs
  <1>1. CASE AcquireCall(t, b)  BY <1>1 DEF AcquireCall, Goto
  <1>2. CASE ReleaseCall(t, b)  BY <1>2, SMTT(30) DEF ReleaseCall, Goto
  <1>3. CASE SemReturn(t)  BY <1>3 DEF SemReturn
  <1>4. CASE UNCHANGED semvars  BY <1>4, ShapeUnchanged
  <1> QED BY <1>1, <1>2, <1>3, <1>4

\* A new semaphore satisfies Shape.
LEMMA ShapeInit ==
    ASSUME NEW n \in Nat, SemInit(n)
    PROVE  Shape
  BY ThreadsAssumption
  DEF SemInit, Shape, SemTypeOK, LockInv, NwaitInv, Announced, QueueInv, InQueue, WtInv,
      StatusInv, LockedPcs, AcquirePcs, ReleasePcs

----------------------------------------------------------------------------
(* Counting the permits on their way.                                      *)

\* The permits on their way to a thread can be counted.
LEMMA InFlightFinite == IsFiniteSet(InFlight) /\ Cardinality(InFlight) \in Nat
  BY ThreadsAssumption, FS_Subset, FS_CardinalityType DEF InFlight

\* How a step inside the semaphore changes the set of permits on their way:
\* it leaves it alone, or one thread joins with a new permit, or one leaves
\* having used a permit up or having found that nobody needs it, or a woken
\* thread replaces its waker.
LEMMA InFlightStep ==
    ASSUME Shape, NEW t \in Threads, SemStep(t)
    PROVE  \/ InFlight' = InFlight /\ value' <= value
           \/ InFlight' = InFlight \cup {t} /\ t \notin InFlight /\ value' = value + 1
           \/ InFlight' = InFlight \ {t} /\ t \in InFlight /\ (value' = value - 1 \/ value' = 0)
           \/ InFlight' = InFlight \ {t} /\ value' = value /\ waiters' = << >> /\ ~Announced'
           \/ \E w \in Threads : /\ InFlight' = (InFlight \ {t}) \cup {w}
                                 /\ t \in InFlight /\ w \notin InFlight /\ value' = value
  <1> USE ThreadsAssumption DEF Shape, Goto, SemTypeOK, InFlight, LockedPcs, AcquirePcs, ReleasePcs
  <1>1. CASE AcquireEasy(t)  BY <1>1 DEF AcquireEasy
  <1>2. CASE AcquireLock(t)  BY <1>2 DEF AcquireLock
  <1>3. CASE AcquireNwait(t)  BY <1>3 DEF AcquireNwait
  <1>4. CASE AcquireCheck(t)  BY <1>4 DEF AcquireCheck
  <1>5. CASE AcquireUndo(t)  BY <1>5 DEF AcquireUndo
  <1>6. CASE AcquireUnlock(t)  BY <1>6 DEF AcquireUnlock
  <1>7. CASE AcquireQueue(t)
    <2>1. ticket' = ticket  BY <1>7, QueueTicket
    <2>2. spc[t] = "acq_queue" /\ spc' = [spc EXCEPT ![t] = "acq_park"]
          /\ UNCHANGED <<value, status, wt>>
      BY <1>7 DEF AcquireQueue
    <2> QED BY <2>1, <2>2
  <1>8. CASE AcquirePark(t)  BY <1>8, <1>8 DEF AcquirePark
  <1>9. CASE AcquireParkUnlock(t)  BY <1>9 DEF AcquireParkUnlock, StatusInv
  <1>10. CASE AcquireWake(t)  BY <1>10 DEF AcquireWake, WtInv
  <1>11. CASE ReleaseAdd(t)  BY <1>11 DEF ReleaseAdd
  <1>12. CASE ReleaseEasy(t)  BY <1>12 DEF ReleaseEasy, NwaitInv, Announced
  <1>13. CASE ReleaseLock(t)  BY <1>13 DEF ReleaseLock
  <1>14. CASE ReleaseCheck(t)  BY <1>14 DEF ReleaseCheck, NwaitInv, Announced, WtInv
  <1>15. CASE ReleaseDequeue(t)
    <2>1. PICK h \in Threads : ticket' = ticket /\ ticket[h] = 0 /\ wt' = [wt EXCEPT ![t] = h]
      BY <1>15, DequeueTicket DEF ReleaseDequeue
    <2>2. spc[t] = "rel_dequeue" /\ spc' = [spc EXCEPT ![t] = "rel_unlock"] /\ UNCHANGED <<value, status>>
      BY <1>15 DEF ReleaseDequeue
    <2> QED BY <2>1, <2>2
  <1>16. CASE ReleaseUnlock(t)  BY <1>16 DEF ReleaseUnlock
  <1>17. CASE ReleaseGrant(t)  BY <1>17 DEF ReleaseGrant, WtInv
  <1>18. CASE ReleaseReady(t)  BY <1>18 DEF ReleaseReady, WtInv
  <1> QED BY <1>1, <1>2, <1>3, <1>4, <1>5, <1>6, <1>7, <1>8, <1>9, <1>10, <1>11, <1>12, <1>13,
             <1>14, <1>15, <1>16, <1>17, <1>18 DEF SemStep, AcquireStep, ReleaseStep

\* No step inside the semaphore leaves a permit behind while somebody sleeps:
\* NoMissedWakeup is inductive on top of Shape.
LEMMA MissedStep ==
    ASSUME Shape, NoMissedWakeup, NEW t \in Threads, SemStep(t)
    PROVE  NoMissedWakeup'
  <1> USE ThreadsAssumption
  <1>0. value' \in Nat
    BY ShapeStep DEF Shape, SemTypeOK
  <1>1. value \in Nat /\ IsFiniteSet(InFlight) /\ Cardinality(InFlight) \in Nat
    BY InFlightFinite DEF Shape, SemTypeOK
  <1>2. Sleepers' => (Sleepers \/ value' = 0)
    BY DEF Sleepers, SemStep, AcquireStep, ReleaseStep, Goto, Shape, SemTypeOK, AcquireEasy, AcquireLock,
           AcquireNwait, AcquireCheck, AcquireUndo, AcquireUnlock, AcquireQueue, AcquirePark,
           AcquireParkUnlock, AcquireWake, ReleaseAdd, ReleaseEasy, ReleaseLock, ReleaseCheck,
           ReleaseDequeue, ReleaseUnlock, ReleaseGrant, ReleaseReady
  <1>3. Cardinality(InFlight') \in Nat
    <2>1. InFlight' \subseteq Threads  BY DEF InFlight
    <2> QED BY <2>1, FS_Subset, FS_CardinalityType
  <1>4. SUFFICES ASSUME Sleepers', value' # 0 PROVE value' <= Cardinality(InFlight')
    BY <1>0, <1>3 DEF NoMissedWakeup
  <1>5. value <= Cardinality(InFlight)
    BY <1>2, <1>4 DEF NoMissedWakeup
  <1>6. CASE InFlight' = InFlight /\ value' <= value
    BY <1>0, <1>1, <1>5, <1>6
  <1>7. CASE InFlight' = InFlight \cup {t} /\ t \notin InFlight /\ value' = value + 1
    <2>1. Cardinality(InFlight \cup {t}) = Cardinality(InFlight) + 1
      BY <1>1, <1>7, FS_AddElement
    <2> QED BY <1>1, <1>5, <1>7, <2>1
  <1>8. CASE InFlight' = InFlight \ {t} /\ t \in InFlight /\ (value' = value - 1 \/ value' = 0)
    <2>1. Cardinality(InFlight \ {t}) = Cardinality(InFlight) - 1
      BY <1>1, <1>8, FS_RemoveElement
    <2> QED BY <1>1, <1>4, <1>5, <1>8, <2>1
  <1>9. CASE waiters' = << >> /\ ~Announced'
    BY <1>4, <1>9 DEF Announced, Sleepers
  <1>10. ASSUME NEW w \in Threads, InFlight' = (InFlight \ {t}) \cup {w},
                t \in InFlight, w \notin InFlight, value' = value
         PROVE  value' <= Cardinality(InFlight')
    <2>1. IsFiniteSet(InFlight \ {t}) /\ Cardinality(InFlight \ {t}) = Cardinality(InFlight) - 1
      BY <1>1, <1>10, FS_RemoveElement
    <2>2. Cardinality(InFlight') = Cardinality(InFlight \ {t}) + 1
      BY <1>10, <2>1, FS_AddElement
    <2> QED BY <1>1, <1>5, <1>10, <2>1, <2>2
  <1> QED BY <1>6, <1>7, <1>8, <1>9, <1>10, InFlightStep

\* A step that leaves the semaphore alone misses no wake-up.
LEMMA MissedUnchanged == NoMissedWakeup /\ UNCHANGED semvars => NoMissedWakeup'
  BY DEF semvars, NoMissedWakeup, InFlight, Sleepers

\* Entering and leaving a call changes neither value nor who is on the way.
LEMMA MissedCall ==
    ASSUME Shape, NoMissedWakeup, NEW t \in Threads, NEW b \in BOOLEAN,
           AcquireCall(t, b) \/ ReleaseCall(t, b) \/ SemReturn(t) \/ UNCHANGED semvars
    PROVE  NoMissedWakeup'
  <1>1. InFlight' = InFlight /\ value' = value /\ (Sleepers' => Sleepers)
    <2>1. CASE AcquireCall(t, b)
      BY <2>1 DEF AcquireCall, Goto, InFlight, Sleepers, Shape, SemTypeOK
    <2>2. CASE ReleaseCall(t, b)
      BY <2>2 DEF ReleaseCall, Goto, InFlight, Sleepers, Shape, SemTypeOK
    <2>3. CASE SemReturn(t)
      BY <2>3 DEF SemReturn, InFlight, Sleepers
    <2>4. CASE UNCHANGED semvars
      BY <2>4 DEF semvars, InFlight, Sleepers
    <2> QED BY <2>1, <2>2, <2>3, <2>4
  <1> QED BY <1>1 DEF NoMissedWakeup

----------------------------------------------------------------------------
(* The client                                                              *)

\* A thread is inside the call its client is waiting for.
ClientInv ==
    \A t \in Threads :
        /\ client[t] \in {"idle", "held"} => spc[t] = "idle"
        /\ client[t] = "acquiring" => spc[t] \in AcquirePcs \cup {"idle"}
        /\ client[t] = "releasing" => spc[t] \in ReleasePcs \cup {"idle"}

SemClient == Shape /\ TypeOK /\ ClientInv

\* SemClient holds initially.
LEMMA SemClientInit == ClientInit => SemClient
  <1> SUFFICES ASSUME ClientInit PROVE SemClient
    OBVIOUS
  <1>1. Shape
    BY ShapeInit, PermitsAssumption DEF ClientInit
  <1> QED BY <1>1, PermitsAssumption DEF ClientInit, SemInit, SemClient, Shape, TypeOK, ClientInv

\* Every step of the semaphore and of its clients preserves SemClient.
LEMMA SemClientNext == SemClient /\ [ClientNext]_clientVars => SemClient'
  <1> SUFFICES ASSUME SemClient, [ClientNext]_clientVars PROVE SemClient'
    OBVIOUS
  <1> USE DEF SemClient, TypeOK, ClientInv, AcquirePcs, ReleasePcs
  <1>0. Shape => SemTypeOK /\ (Shape' => SemTypeOK')
    BY DEF Shape
  <1>1. CASE UNCHANGED clientVars
    <2>1. UNCHANGED semvars  BY <1>1 DEF clientVars, semvars
    <2>2. Shape'  BY <2>1, ShapeUnchanged
    <2> QED BY <1>0, <1>1, <2>2 DEF clientVars
  <1>2. ASSUME NEW t \in Threads, NEW b \in BOOLEAN,
               StartAcquire(t, b) \/ StartRelease(t, b) \/ Post(t, b) PROVE SemClient'
    <2>1. Shape'  BY <1>2, ShapeCall DEF StartAcquire, StartRelease, Post
    <2> QED BY <1>0, <1>2, <2>1, SMTT(30)
            DEF StartAcquire, StartRelease, Post, AcquireCall, ReleaseCall, Goto, Shape, SemTypeOK
  <1>3. ASSUME NEW t \in Threads, Acquired(t) \/ Released(t) \/ Consume(t) PROVE SemClient'
    <2>1. Shape'  BY <1>3, ShapeCall DEF Acquired, Released, Consume
    <2> QED BY <1>0, <1>3, <2>1 DEF Acquired, Released, Consume, SemReturn, semvars
  <1>4. ASSUME NEW t \in Threads, Work(t) PROVE SemClient'
    <2>1. Shape'  BY <1>4, ShapeStep DEF Work
    <2>2. ClientInv'
      BY <1>0, <1>4 DEF Work, SemStep, AcquireStep, ReleaseStep, Goto, SemTypeOK, AcquireEasy, AcquireLock,
                  AcquireNwait, AcquireCheck, AcquireUndo, AcquireUnlock, AcquireQueue, AcquirePark,
                  AcquireParkUnlock, AcquireWake, ReleaseAdd, ReleaseEasy, ReleaseLock, ReleaseCheck,
                  ReleaseDequeue, ReleaseUnlock, ReleaseGrant, ReleaseReady
    <2> QED BY <1>0, <1>4, <2>1, <2>2 DEF Work
  <1> QED BY <1>1, <1>2, <1>3, <1>4 DEF ClientNext

\* Type correctness of the semaphore and of its client, for every finite set of threads.
THEOREM TypeCorrect == ClientSpec => []TypeOK
  <1>1. SemClient => TypeOK  BY DEF SemClient
  <1> QED BY <1>1, SemClientInit, SemClientNext, PTL DEF ClientSpec

\* Every step of the semaphore and of its clients preserves NoMissedWakeup.
LEMMA MissedNext == SemClient /\ NoMissedWakeup /\ [ClientNext]_clientVars => NoMissedWakeup'
  <1> SUFFICES ASSUME SemClient, NoMissedWakeup, [ClientNext]_clientVars PROVE NoMissedWakeup'
    OBVIOUS
  <1>1. Shape  BY DEF SemClient
  <1>2. CASE UNCHANGED clientVars
    <2>1. UNCHANGED semvars  BY <1>2 DEF clientVars, semvars
    <2> QED BY <1>1, <2>1, MissedUnchanged
  <1>3. ASSUME NEW t \in Threads, NEW b \in BOOLEAN,
               StartAcquire(t, b) \/ StartRelease(t, b) \/ Post(t, b) PROVE NoMissedWakeup'
    BY <1>1, <1>3, MissedCall DEF StartAcquire, StartRelease, Post
  <1>4. ASSUME NEW t \in Threads, Acquired(t) \/ Released(t) \/ Consume(t) PROVE NoMissedWakeup'
    BY <1>1, <1>4, MissedCall DEF Acquired, Released, Consume
  <1>5. ASSUME NEW t \in Threads, Work(t) PROVE NoMissedWakeup'
    BY <1>1, <1>5, MissedStep DEF Work
  <1> QED BY <1>2, <1>3, <1>4, <1>5 DEF ClientNext

\* semaphore_release never loses a wake-up: while a thread sleeps on the
\* semaphore, or is about to, every free permit has a releaser or a woken
\* thread on its way to it.
THEOREM MissedWakeupFree == ClientSpec => []NoMissedWakeup
  <1>1. ClientInit => NoMissedWakeup
    BY DEF ClientInit, SemInit, NoMissedWakeup, Sleepers
  <1> QED BY <1>1, SemClientInit, SemClientNext, MissedNext, PTL DEF ClientSpec

----------------------------------------------------------------------------
(* Counting the permits that are owned.                                    *)

\* The owned permits can be counted.
LEMMA OwnersFinite == IsFiniteSet(Owners) /\ Cardinality(Owners) \in Nat
  BY ThreadsAssumption, FS_Subset, FS_CardinalityType DEF Owners

\* How a step changes the owners: a permit moves between value and one
\* thread, or the client adds or removes one.
LEMMA OwnersStep ==
    ASSUME SemClient, NEW t \in Threads, Work(t)
    PROVE  \/ Owners' = Owners /\ value' = value
           \/ \E w \in Threads : Owners' = Owners \cup {w} /\ w \notin Owners /\ value' = value - 1
           \/ Owners' = Owners \ {t} /\ t \in Owners /\ value' = value + 1
  <1> USE ThreadsAssumption DEF SemClient, Shape, Work, Goto, SemTypeOK, TypeOK, Owners, StatusInv, ClientInv, AcquirePcs, ReleasePcs
  <1>1. CASE AcquireEasy(t)  BY <1>1 DEF AcquireEasy
  <1>2. CASE AcquireLock(t)  BY <1>2 DEF AcquireLock
  <1>3. CASE AcquireNwait(t)  BY <1>3 DEF AcquireNwait
  <1>4. CASE AcquireCheck(t)  BY <1>4, SMTT(30) DEF AcquireCheck
  <1>5. CASE AcquireUndo(t)  BY <1>5 DEF AcquireUndo
  <1>6. CASE AcquireUnlock(t)  BY <1>6 DEF AcquireUnlock
  <1>7. CASE AcquireQueue(t)
    <2>1. ticket' = ticket  BY <1>7, QueueTicket DEF SemClient
    <2>2. spc[t] = "acq_queue" /\ spc' = [spc EXCEPT ![t] = "acq_park"] /\ value' = value
      BY <1>7 DEF AcquireQueue
    <2> QED BY <2>1, <2>2
  <1>8. CASE AcquirePark(t)  BY <1>8 DEF AcquirePark
  <1>9. CASE AcquireParkUnlock(t)  BY <1>9 DEF AcquireParkUnlock
  <1>10. CASE AcquireWake(t)  BY <1>10 DEF AcquireWake
  <1>11. CASE ReleaseAdd(t)  BY <1>11 DEF ReleaseAdd
  <1>12. CASE ReleaseEasy(t)  BY <1>12 DEF ReleaseEasy
  <1>13. CASE ReleaseLock(t)  BY <1>13 DEF ReleaseLock
  <1>14. CASE ReleaseCheck(t)  BY <1>14 DEF ReleaseCheck
  <1>15. CASE ReleaseDequeue(t)
    <2>1. ticket' = ticket  BY <1>15, DequeueTicket
    <2>2. spc[t] = "rel_dequeue" /\ spc' = [spc EXCEPT ![t] = "rel_unlock"] /\ value' = value
      BY <1>15 DEF ReleaseDequeue
    <2> QED BY <2>1, <2>2
  <1>16. CASE ReleaseUnlock(t)  BY <1>16 DEF ReleaseUnlock
  <1>17. CASE ReleaseGrant(t)  BY <1>17 DEF ReleaseGrant, WtInv
  <1>18. CASE ReleaseReady(t)  BY <1>18 DEF ReleaseReady
  <1> QED BY <1>1, <1>2, <1>3, <1>4, <1>5, <1>6, <1>7, <1>8, <1>9, <1>10, <1>11, <1>12, <1>13,
             <1>14, <1>15, <1>16, <1>17, <1>18 DEF SemStep, AcquireStep, ReleaseStep

\* Every step preserves the number of permits.
LEMMA ConservedNext == SemClient /\ PermitsConserved /\ [ClientNext]_clientVars => PermitsConserved'
  <1> SUFFICES ASSUME SemClient, PermitsConserved, [ClientNext]_clientVars PROVE PermitsConserved'
    OBVIOUS
  <1>1. value \in Nat /\ credit \in Int /\ IsFiniteSet(Owners) /\ Cardinality(Owners) \in Nat
    BY OwnersFinite DEF SemClient, TypeOK, SemTypeOK
  <1>2. ASSUME NEW w, Owners' = Owners \cup {w}, w \notin Owners,
               (value' = value - 1 /\ credit' = credit) \/ (value' = value /\ credit' = credit + 1)
        PROVE  PermitsConserved'
    <2>1. Cardinality(Owners') = Cardinality(Owners) + 1
      BY <1>1, <1>2, FS_AddElement
    <2> QED BY <1>1, <1>2, <2>1 DEF PermitsConserved
  <1>3. ASSUME NEW w, Owners' = Owners \ {w}, w \in Owners,
               (value' = value + 1 /\ credit' = credit) \/ (value' = value /\ credit' = credit - 1)
        PROVE  PermitsConserved'
    <2>1. Cardinality(Owners') = Cardinality(Owners) - 1
      BY <1>1, <1>3, FS_RemoveElement
    <2> QED BY <1>1, <1>3, <2>1 DEF PermitsConserved
  <1>4. ASSUME Owners' = Owners, value' = value, credit' = credit PROVE PermitsConserved'
    BY <1>4 DEF PermitsConserved
  <1> USE DEF SemClient, Shape, TypeOK, SemTypeOK, Owners, ClientInv, StatusInv
  <1>5. CASE UNCHANGED clientVars
    BY <1>4, <1>5 DEF clientVars
  <1>6. ASSUME NEW t \in Threads, NEW b \in BOOLEAN, StartAcquire(t, b) PROVE PermitsConserved'
    BY <1>4, <1>6 DEF StartAcquire, AcquireCall, Goto
  <1>7. ASSUME NEW t \in Threads, NEW b \in BOOLEAN, StartRelease(t, b) PROVE PermitsConserved'
    BY <1>4, <1>7 DEF StartRelease, ReleaseCall, Goto
  <1>8. ASSUME NEW t \in Threads, NEW b \in BOOLEAN, Post(t, b) PROVE PermitsConserved'
    <2>1. Owners' = Owners \cup {t} /\ t \notin Owners
      BY <1>8 DEF Post, ReleaseCall, Goto
    <2> QED BY <1>2, <1>8, <2>1 DEF Post, ReleaseCall
  <1>9. ASSUME NEW t \in Threads, Acquired(t) PROVE PermitsConserved'
    BY <1>4, <1>9 DEF Acquired, SemReturn
  <1>10. ASSUME NEW t \in Threads, Released(t) PROVE PermitsConserved'
    BY <1>4, <1>10 DEF Released, SemReturn
  <1>11. ASSUME NEW t \in Threads, Consume(t) PROVE PermitsConserved'
    <2>1. Owners' = Owners \ {t} /\ t \in Owners
      BY <1>11 DEF Consume, semvars
    <2> QED BY <1>3, <1>11, <2>1 DEF Consume, semvars
  <1>12. ASSUME NEW t \in Threads, Work(t) PROVE PermitsConserved'
    BY <1>2, <1>3, <1>4, <1>12, OwnersStep DEF Work
  <1> QED BY <1>5, <1>6, <1>7, <1>8, <1>9, <1>10, <1>11, <1>12 DEF ClientNext

\* The semaphore neither loses nor duplicates a permit: value and the owners
\* always add up to the permits that exist.
THEOREM ConservesPermits == ClientSpec => []PermitsConserved
  <1>1. ClientInit => PermitsConserved
    <2> SUFFICES ASSUME ClientInit PROVE PermitsConserved
      OBVIOUS
    <2>1. Owners = {}
      BY DEF ClientInit, SemInit, Owners
    <2> QED BY <2>1, FS_EmptySet, PermitsAssumption DEF ClientInit, SemInit, PermitsConserved
  <1> QED BY <1>1, SemClientInit, SemClientNext, ConservedNext, PTL DEF ClientSpec

----------------------------------------------------------------------------
(* What Shape says directly.                                               *)

\* The assertions on the wake path of semaphore_release never fire.
THEOREM WakeAssertionsHold == ClientSpec => []WakeAssertions
  <1>1. SemClient => WakeAssertions
    BY DEF SemClient, Shape, WtInv, WakeAssertions
  <1> QED BY <1>1, SemClientInit, SemClientNext, PTL DEF ClientSpec

\* A sleeping thread is in the queue, once, or held by one releaser.
THEOREM SleepersReachable == ClientSpec => []SleeperReachable
  <1>1. SemClient => SleeperReachable
    <2> SUFFICES ASSUME SemClient, NEW t \in Threads, spc[t] = "parked", status[t] = "waiting"
                 PROVE  Cardinality({i \in DOMAIN waiters : waiters[i] = t})
                          + Cardinality({r \in Threads : wt[r] = t}) = 1
      BY DEF SleeperReachable
    <2>1. waiters \in Seq(Threads) /\ DOMAIN waiters = 1..Len(waiters)
      BY DEF SemClient, Shape, SemTypeOK
    <2>2. CASE InQueue(t)
      <3>1. PICK k \in 1..Len(waiters) : waiters[k] = t
        BY <2>2 DEF InQueue
      <3>2. {i \in DOMAIN waiters : waiters[i] = t} = {k}
        BY <2>1, <3>1 DEF SemClient, Shape, QueueInv
      <3>3. {r \in Threads : wt[r] = t} = {}
        BY <2>2 DEF SemClient, Shape, QueueInv
      <3>4. Cardinality({i \in DOMAIN waiters : waiters[i] = t}) = 1
        BY <3>2, FS_Singleton, Zenon
      <3>5. Cardinality({r \in Threads : wt[r] = t}) = 0
        BY <3>3, FS_EmptySet, Zenon
      <3> QED BY <3>4, <3>5
    <2>3. CASE ~InQueue(t)
      <3>1. PICK s \in Threads : wt[s] = t
        BY <2>3 DEF SemClient, Shape, StatusInv
      <3>2. {r \in Threads : wt[r] = t} = {s}
        BY <3>1, ThreadsAssumption DEF SemClient, Shape, WtInv
      <3>3. {i \in DOMAIN waiters : waiters[i] = t} = {}
        BY <2>1, <2>3 DEF InQueue
      <3>4. Cardinality({s}) = 1 /\ Cardinality({}) = 0
        BY FS_EmptySet, FS_Singleton
      <3> QED BY <3>2, <3>3, <3>4
    <2> QED BY <2>2, <2>3
  <1> QED BY <1>1, SemClientInit, SemClientNext, PTL DEF ClientSpec

----------------------------------------------------------------------------
(***************************************************************************)
(* The safety of the mutex, for every finite set of threads and every      *)
(* spinning bound.  The argument follows a baton: the right to be the one  *)
(* thread that mutex_unlock has woken.  A baton is created by the unlocker *)
(* (or by a spinner that sets WOKEN), travels through the semaphore as a   *)
(* permit, and ends when its bearer takes the mutex or goes back to sleep  *)
(* on a locked one.  There is at most one, and the bits of the word and    *)
(* its waiter count say exactly where it is.                               *)
(***************************************************************************)
\* A spinner or a woken waiter that competes for the mutex.
Awake(t) == mpc[t] \in {"loop", "reload"} /\ loc[t].awoke

\* A thread that owns a permit of mutex->semaphore, or is about to post one.
Flying(t) ==
    \/ mpc[t] = "wait" /\ (spc[t] \in {"idle", "acq_undo", "acq_unlock"} \/ ticket[t] = 1)
    \/ mpc[t] = "post" /\ spc[t] = "rel_add"

Baton(t) == Awake(t) \/ Flying(t) \/ mpc[t] = "fixup"

InAir == value = 1 \/ \E t \in Threads : Flying(t)

SomeBaton == value = 1 \/ \E t \in Threads : Baton(t)

\* A thread is inside the call of the semaphore that mutex.c has made.
PcInv ==
    \A t \in Threads :
        /\ mpc[t] \notin {"wait", "post"} => spc[t] = "idle"
        /\ mpc[t] = "wait" => spc[t] \in AcquirePcs \cup {"idle"}
        /\ mpc[t] = "post" => spc[t] \in ReleasePcs \cup {"idle"}

\* There is at most one baton, in value or with one thread.
BatonInv ==
    /\ value \in {0, 1}
    /\ value = 1 => \A t \in Threads : ~Baton(t)
    /\ \A t, u \in Threads : Baton(t) /\ Baton(u) => t = u

\* WOKEN is set exactly while a baton is on its way in normal mode.
WokenInv == Woken(state) <=> ((\E t \in Threads : Awake(t)) \/ (InAir /\ ~Starving(state)))

\* In starvation mode the mutex is either locked or handed to the baton.
StarvingInv ==
    /\ Starving(state) => ~Woken(state) /\ (SomeBaton <=> ~Locked(state))
    /\ \A t \in Threads : mpc[t] = "fixup" => Starving(state) /\ ~Locked(state)

\* LOCKED is set exactly while one thread is in the critical section.
LockedInv ==
    /\ Locked(state) <=> \E t \in Threads : mpc[t] = "crit"
    /\ \A t, u \in Threads : mpc[t] = "crit" /\ mpc[u] = "crit" => t = u

\* What the locals of mutex_lock_slow and mutex_try_lock say.
LocInv ==
    \A t \in Threads :
        /\ mpc[t] \in {"loop", "reload"} /\ loc[t].starving => loc[t].awoke
        /\ mpc[t] = "try" => ~Locked(loc[t].old) /\ ~Starving(loc[t].old)

Waiting == {t \in Threads : mpc[t] \in {"wait", "fixup"}}

\* The unlocker that wakes a thread in normal mode counts it out at once, the
\* thread that is handed the mutex counts itself out.
CountInv ==
    Cardinality(Waiting) = Waiters(state) + (IF InAir /\ ~Starving(state) THEN 1 ELSE 0)

\* A free mutex with waiters and no baton has an unlocker that will make one.
Waking(u) == mpc[u] = "unlock_reload" \/ (mpc[u] = "unlock" /\ ~NobodyToWake(loc[u].old))

WakingInv ==
    Waiters(state) > 0 /\ ~Locked(state) /\ ~SomeBaton => \E u \in Threads : Waking(u)

MutexInv ==
    /\ MutexTypeOK /\ Shape /\ PcInv
    /\ BatonInv /\ WokenInv /\ StarvingInv /\ LockedInv /\ LocInv /\ CountInv /\ WakingInv

----------------------------------------------------------------------------
(* What adding and subtracting the constants of mutex.c does to the word.  *)

\* The fields of the word r.
Word(r, locked, woken, starving, waiting) ==
    /\ r \in Nat
    /\ Locked(r) <=> locked
    /\ Woken(r) <=> woken
    /\ Starving(r) <=> starving
    /\ Waiters(r) = waiting

\* A constant added to or subtracted from the word touches its own field and
\* no other, as long as the field can take it.
LEMMA WordArithmetic ==
    ASSUME NEW s \in Nat
    PROVE  /\ Waiters(s) \in Nat
           /\ ~Locked(s) => Word(s + MUTEX_LOCKED, TRUE, Woken(s), Starving(s), Waiters(s))
           /\ Locked(s) => Word(s - MUTEX_LOCKED, FALSE, Woken(s), Starving(s), Waiters(s))
           /\ ~Woken(s) => Word(s + MUTEX_WOKEN, Locked(s), TRUE, Starving(s), Waiters(s))
           /\ Woken(s) => Word(s - MUTEX_WOKEN, Locked(s), FALSE, Starving(s), Waiters(s))
           /\ ~Starving(s) => Word(s + MUTEX_STARVING, Locked(s), Woken(s), TRUE, Waiters(s))
           /\ Starving(s) => Word(s - MUTEX_STARVING, Locked(s), Woken(s), FALSE, Waiters(s))
           /\ Word(s + WAITER, Locked(s), Woken(s), Starving(s), Waiters(s) + 1)
           /\ Waiters(s) > 0 => Word(s - WAITER, Locked(s), Woken(s), Starving(s), Waiters(s) - 1)
           /\ s = 0 <=> Word(s, FALSE, FALSE, FALSE, 0)
  <1> USE DEF Locked, Woken, Starving, Waiters, Word, MUTEX_LOCKED, MUTEX_WOKEN, MUTEX_STARVING, WAITER
  <1>1. Waiters(s) \in Nat  OBVIOUS
  <1>2. ~Locked(s) => Word(s + MUTEX_LOCKED, TRUE, Woken(s), Starving(s), Waiters(s))  OBVIOUS
  <1>3. Locked(s) => Word(s - MUTEX_LOCKED, FALSE, Woken(s), Starving(s), Waiters(s))  OBVIOUS
  <1>4. ~Woken(s) => Word(s + MUTEX_WOKEN, Locked(s), TRUE, Starving(s), Waiters(s))  OBVIOUS
  <1>5. Woken(s) => Word(s - MUTEX_WOKEN, Locked(s), FALSE, Starving(s), Waiters(s))  OBVIOUS
  <1>6. ~Starving(s) => Word(s + MUTEX_STARVING, Locked(s), Woken(s), TRUE, Waiters(s))  OBVIOUS
  <1>7. Starving(s) => Word(s - MUTEX_STARVING, Locked(s), Woken(s), FALSE, Waiters(s))  OBVIOUS
  <1>8. Word(s + WAITER, Locked(s), Woken(s), Starving(s), Waiters(s) + 1)  OBVIOUS
  <1>9. Waiters(s) > 0 => Word(s - WAITER, Locked(s), Woken(s), Starving(s), Waiters(s) - 1)  OBVIOUS
  <1>10. s = 0 <=> Word(s, FALSE, FALSE, FALSE, 0)  OBVIOUS
  <1> QED BY <1>1, <1>2, <1>3, <1>4, <1>5, <1>6, <1>7, <1>8, <1>9, <1>10

----------------------------------------------------------------------------
(* The semaphore moves the baton and nothing else.                         *)

\* A step inside the semaphore leaves the baton where it is, or moves it
\* between value and one thread.
LEMMA FlyingStep ==
    ASSUME MutexTypeOK, Shape, PcInv, NEW t \in Threads, Sema(t)
    PROVE  /\ PcInv'
           /\ \/ value' = value /\ \A u \in Threads : (Flying(u)' <=> Flying(u))
              \/ \E w \in Threads : /\ value' = value - 1 /\ value > 0 /\ Flying(w)'
                                    /\ \A u \in Threads \ {w} : (Flying(u)' <=> Flying(u))
              \/ /\ value' = value + 1 /\ Flying(t) /\ ~Flying(t)'
                 /\ \A u \in Threads \ {t} : (Flying(u)' <=> Flying(u))
  <1> USE ThreadsAssumption DEF Sema, Shape, Goto, MutexTypeOK, SemTypeOK, PcInv, Flying, StatusInv,
          AcquirePcs, ReleasePcs
  <1>1. CASE AcquireEasy(t)
    <2>1. PcInv'  BY <1>1 DEF AcquireEasy
    <2>2. mpc[t] = "wait"  BY <1>1 DEF AcquireEasy
    <2>3. CASE value > 0
      <3>1. value' = value - 1 /\ Flying(t)' /\ \A u \in Threads \ {t} : (Flying(u)' <=> Flying(u))
        BY <1>1, <2>2, <2>3 DEF AcquireEasy
      <3> QED BY <2>1, <2>3, <3>1
    <2>4. CASE value = 0
      <3>1. value' = value /\ \A u \in Threads : (Flying(u)' <=> Flying(u))
        BY <1>1, <2>2, <2>4 DEF AcquireEasy
      <3> QED BY <2>1, <3>1
    <2> QED BY <2>3, <2>4
  <1>2. CASE AcquireLock(t)  BY <1>2 DEF AcquireLock
  <1>3. CASE AcquireNwait(t)  BY <1>3 DEF AcquireNwait
  <1>4. CASE AcquireCheck(t)  BY <1>4 DEF AcquireCheck
  <1>5. CASE AcquireUndo(t)  BY <1>5 DEF AcquireUndo
  <1>6. CASE AcquireUnlock(t)  BY <1>6 DEF AcquireUnlock
  <1>7. CASE AcquireQueue(t)
    <2>1. ticket' = ticket  BY <1>7, QueueTicket
    <2>2. spc[t] = "acq_queue" /\ spc' = [spc EXCEPT ![t] = "acq_park"] /\ value' = value
      BY <1>7 DEF AcquireQueue
    <2> QED BY <2>1, <2>2
  <1>8. CASE AcquirePark(t)  BY <1>8 DEF AcquirePark
  <1>9. CASE AcquireParkUnlock(t)  BY <1>9 DEF AcquireParkUnlock
  <1>10. CASE AcquireWake(t)
    <2>1. PcInv'  BY <1>10 DEF AcquireWake
    <2>2. mpc[t] = "wait"  BY <1>10 DEF AcquireWake
    <2>3. CASE ticket[t] = 0 /\ value > 0
      <3>1. value' = value - 1 /\ Flying(t)' /\ \A u \in Threads \ {t} : (Flying(u)' <=> Flying(u))
        BY <1>10, <2>2, <2>3 DEF AcquireWake
      <3> QED BY <2>1, <2>3, <3>1
    <2>4. CASE ticket[t] # 0 \/ value = 0
      <3>1. value' = value /\ \A u \in Threads : (Flying(u)' <=> Flying(u))
        BY <1>10, <2>2, <2>4 DEF AcquireWake
      <3> QED BY <2>1, <3>1
    <2> QED BY <2>3, <2>4
  <1>11. CASE ReleaseAdd(t)
    <2>1. PcInv'  BY <1>11 DEF ReleaseAdd
    <2>2. mpc[t] = "post" /\ value' = value + 1 /\ UNCHANGED <<ticket, mpc>>
      BY <1>11 DEF ReleaseAdd
    <2>3. Flying(t) /\ ~Flying(t)' /\ \A u \in Threads \ {t} : (Flying(u)' <=> Flying(u))
      BY <1>11, <2>2 DEF ReleaseAdd
    <2> QED BY <2>1, <2>2, <2>3
  <1>12. CASE ReleaseEasy(t)  BY <1>12 DEF ReleaseEasy
  <1>13. CASE ReleaseLock(t)  BY <1>13 DEF ReleaseLock
  <1>14. CASE ReleaseCheck(t)  BY <1>14 DEF ReleaseCheck
  <1>15. CASE ReleaseDequeue(t)
    <2>1. ticket' = ticket  BY <1>15, DequeueTicket
    <2>2. spc[t] = "rel_dequeue" /\ spc' = [spc EXCEPT ![t] = "rel_unlock"] /\ value' = value
      BY <1>15 DEF ReleaseDequeue
    <2> QED BY <2>1, <2>2
  <1>16. CASE ReleaseUnlock(t)  BY <1>16 DEF ReleaseUnlock
  <1>17. CASE ReleaseGrant(t)
    <2>1. PcInv'  BY <1>17 DEF ReleaseGrant
    <2>2. PICK w \in Threads : wt[t] = w /\ mpc[w] = "wait" /\ w # t
      BY <1>17 DEF ReleaseGrant, WtInv
    <2>3. CASE handoff[t] /\ value > 0
      <3>1. value' = value - 1 /\ Flying(w)' /\ \A u \in Threads \ {w} : (Flying(u)' <=> Flying(u))
        BY <1>17, <2>2, <2>3 DEF ReleaseGrant
      <3> QED BY <2>1, <2>3, <3>1
    <2>4. CASE ~(handoff[t] /\ value > 0)
      <3>1. value' = value /\ \A u \in Threads : (Flying(u)' <=> Flying(u))
        BY <1>17, <2>4 DEF ReleaseGrant
      <3> QED BY <2>1, <3>1
    <2> QED BY <2>3, <2>4
  <1>18. CASE ReleaseReady(t)  BY <1>18 DEF ReleaseReady
  <1> QED BY <1>1, <1>2, <1>3, <1>4, <1>5, <1>6, <1>7, <1>8, <1>9, <1>10, <1>11, <1>12, <1>13, <1>14, <1>15, <1>16, <1>17, <1>18
             DEF SemStep, AcquireStep, ReleaseStep

----------------------------------------------------------------------------
(* Steps that do not touch the word, and steps of the semaphore.           *)

\* The threads that wait can be counted.
LEMMA WaitingFinite == IsFiniteSet(Waiting) /\ Cardinality(Waiting) \in Nat
  BY ThreadsAssumption, FS_Subset, FS_CardinalityType DEF Waiting

Places == {"crit", "wait", "fixup"}

\* A step that leaves the word, the baton and the threads inside alone.
Quiet ==
    /\ UNCHANGED <<state, value>>
    /\ \A u \in Threads : /\ Awake(u)' <=> Awake(u)
                          /\ Flying(u)' <=> Flying(u)
                          /\ \A p \in Places : mpc'[u] = p <=> mpc[u] = p

\* Such a step preserves what does not depend on the locals.
LEMMA QuietStep ==
    ASSUME MutexInv, Quiet
    PROVE  /\ BatonInv' /\ WokenInv' /\ StarvingInv' /\ LockedInv' /\ CountInv'
           /\ SomeBaton' <=> SomeBaton
  <1>1. \A u \in Threads : (Baton(u)' <=> Baton(u))
    BY DEF Quiet, Baton, Places
  <1>2. (InAir' <=> InAir) /\ (SomeBaton' <=> SomeBaton)
    BY <1>1 DEF Quiet, InAir, SomeBaton
  <1>3. Waiting' = Waiting
    BY DEF Quiet, Waiting, Places
  <1>4. BatonInv'
    BY <1>1 DEF Quiet, BatonInv, MutexInv
  <1>5. WokenInv' /\ StarvingInv'
    BY <1>2 DEF Quiet, WokenInv, StarvingInv, MutexInv, Places
  <1>6. LockedInv'
    BY DEF Quiet, LockedInv, MutexInv, Places
  <1>7. CountInv'
    BY <1>2, <1>3 DEF Quiet, CountInv, MutexInv
  <1> QED BY <1>2, <1>4, <1>5, <1>6, <1>7

\* A step inside the semaphore.
LEMMA SemaStep ==
    ASSUME MutexInv, NEW t \in Threads, Sema(t)
    PROVE  MutexInv'
  <1>1. Shape' /\ PcInv'
    BY ShapeStep, FlyingStep DEF MutexInv, Sema
  <1>2. MutexTypeOK'
    BY <1>1 DEF Shape, MutexTypeOK, MutexInv, Sema
  <1>3. UNCHANGED <<state, mpc, loc>> /\ \A u \in Threads : (Awake(u)' <=> Awake(u))
    BY DEF Sema, Awake
  <1>4. BatonInv' /\ (InAir' <=> InAir) /\ (SomeBaton' <=> SomeBaton)
    <2> USE <1>3 DEF MutexInv, BatonInv, InAir, SomeBaton, Baton
    <2>1. CASE value' = value /\ \A u \in Threads : (Flying(u)' <=> Flying(u))
      BY <2>1
    <2>2. ASSUME NEW w \in Threads, value' = value - 1, value > 0, Flying(w)',
                 \A u \in Threads \ {w} : (Flying(u)' <=> Flying(u))
          PROVE  BatonInv' /\ (InAir' <=> InAir) /\ (SomeBaton' <=> SomeBaton)
      BY <2>2
    <2>3. CASE value' = value + 1 /\ Flying(t) /\ ~Flying(t)'
               /\ \A u \in Threads \ {t} : (Flying(u)' <=> Flying(u))
      <3>1. ~Baton(t)'
        BY <2>3 DEF Flying, Awake
      <3> QED BY <2>3, <3>1
    <2>4. MutexTypeOK /\ Shape /\ PcInv
      BY DEF MutexInv
    <2> HIDE DEF MutexInv, BatonInv, InAir, SomeBaton, Baton
    <2> QED BY <2>1, <2>2, <2>3, <2>4, FlyingStep
  <1>5. WokenInv' /\ StarvingInv' /\ LockedInv' /\ LocInv' /\ WakingInv'
    BY <1>3, <1>4 DEF MutexInv, WokenInv, StarvingInv, LockedInv, LocInv, WakingInv, Waking
  <1>6. CountInv'
    BY <1>3, <1>4 DEF MutexInv, CountInv, Waiting
  <1> QED BY <1>1, <1>2, <1>4, <1>5, <1>6 DEF MutexInv

----------------------------------------------------------------------------
(* Steps of mutex.c.                                                       *)

\* A step of t moves t to l with the locals r, in the mutex and, when it
\* calls or leaves the semaphore, in the semaphore.
Moves(t, l, r) ==
    /\ mpc' = [mpc EXCEPT ![t] = l]
    /\ loc' = [loc EXCEPT ![t] = r]
    /\ UNCHANGED <<value, ticket>>
    /\ \A u \in Threads \ {t} : spc'[u] = spc[u]

\* What such a step means for t and for the others.
LEMMA Frame ==
    ASSUME MutexInv, NEW t \in Threads, NEW l \in MutexPcs, NEW r \in Locals, Moves(t, l, r)
    PROVE  /\ mpc'[t] = l /\ loc'[t] = r
           /\ mpc' \in [Threads -> MutexPcs] /\ loc' \in [Threads -> Locals]
           /\ \A u \in Threads \ {t} : /\ mpc'[u] = mpc[u] /\ loc'[u] = loc[u]
                                       /\ Awake(u)' <=> Awake(u)
                                       /\ Flying(u)' <=> Flying(u)
                                       /\ Baton(u)' <=> Baton(u)
                                       /\ Waking(u)' <=> Waking(u)
  <1>1. mpc \in [Threads -> MutexPcs] /\ loc \in [Threads -> Locals]
    BY DEF MutexInv, MutexTypeOK, MutexPcs
  <1>2. mpc'[t] = l /\ loc'[t] = r /\ mpc' \in [Threads -> MutexPcs] /\ loc' \in [Threads -> Locals]
    BY <1>1 DEF Moves
  <1>3. ASSUME NEW u \in Threads \ {t}
        PROVE  /\ mpc'[u] = mpc[u] /\ loc'[u] = loc[u] /\ spc'[u] = spc[u] /\ ticket'[u] = ticket[u]
    BY <1>1 DEF Moves
  <1> QED BY <1>2, <1>3 DEF Awake, Flying, Baton, Waking

\* A step that leaves the word and the semaphore alone, moves t between two
\* places outside Places and keeps its baton.
LEMMA QuietMove ==
    ASSUME MutexInv, NEW t \in Threads, NEW l \in MutexPcs \ {"wait", "post", "crit", "fixup"},
           NEW r \in Locals, mpc[t] \notin {"wait", "post", "crit", "fixup"},
           UNCHANGED <<semvars, state>>, mpc' = [mpc EXCEPT ![t] = l], loc' = [loc EXCEPT ![t] = r],
           (l \in {"loop", "reload"} /\ r.awoke) <=> Awake(t),
           l \in {"loop", "reload"} /\ r.starving => r.awoke,
           l = "try" => ~Locked(r.old) /\ ~Starving(r.old),
           Waking(t) => l = "unlock_reload" \/ (l = "unlock" /\ r.old = state)
    PROVE  MutexInv'
  <1>1. Moves(t, l, r)
    BY DEF Moves, semvars
  <1>2. /\ mpc'[t] = l /\ loc'[t] = r /\ spc' = spc
        /\ mpc' \in [Threads -> MutexPcs] /\ loc' \in [Threads -> Locals]
    BY <1>1, Frame DEF semvars
  <1>3. \A u \in Threads \ {t} : /\ mpc'[u] = mpc[u] /\ loc'[u] = loc[u]
                                 /\ Awake(u)' <=> Awake(u)
                                 /\ Flying(u)' <=> Flying(u)
                                 /\ Waking(u)' <=> Waking(u)
    BY <1>1, Frame
  <1>4. ~Flying(t) /\ ~Flying(t)' /\ (Awake(t)' <=> Awake(t))
    BY <1>2 DEF Flying, Awake
  <1>5. Quiet
    BY <1>2, <1>3, <1>4 DEF Quiet, Places, semvars
  <1>6. BatonInv' /\ WokenInv' /\ StarvingInv' /\ LockedInv' /\ CountInv' /\ (SomeBaton' <=> SomeBaton)
    BY <1>5, QuietStep
  <1>7. Shape'
    BY ShapeUnchanged DEF MutexInv
  <1>8. MutexTypeOK'
    BY <1>2, <1>7 DEF Shape, MutexTypeOK, MutexPcs, MutexInv
  <1>9. PcInv'
    BY <1>2, <1>3 DEF PcInv, MutexInv
  <1>10. LocInv'
    BY <1>2, <1>3 DEF LocInv, MutexInv
  <1>11. WakingInv'
    <2> SUFFICES ASSUME Waiters(state) > 0, ~Locked(state), ~SomeBaton
                 PROVE  \E u \in Threads : Waking(u)'
      BY <1>6 DEF WakingInv, semvars
    <2>1. PICK u \in Threads : Waking(u)
      BY DEF MutexInv, WakingInv
    <2>2. CASE u # t
      BY <1>3, <2>1, <2>2
    <2>3. CASE u = t /\ l = "unlock" /\ r.old = state
      <3>1. ~Woken(state) /\ ~Starving(state)
        BY DEF MutexInv, WokenInv, StarvingInv, SomeBaton, InAir, Baton
      <3>2. ~NobodyToWake(state)
        BY <3>1, WordArithmetic DEF NobodyToWake, MutexInv, MutexTypeOK
      <3> QED BY <1>2, <2>3, <3>2 DEF Waking
    <2> QED BY <1>2, <2>1, <2>2, <2>3 DEF Waking
  <1> QED BY <1>6, <1>7, <1>8, <1>9, <1>10, <1>11 DEF MutexInv

\* The steps of mutex.c that only read the word.
LEMMA ReadingStep ==
    ASSUME MutexInv, NEW t \in Threads, UNCHANGED state,
           \/ LockFast(t) \/ LockSlow(t) \/ Spin(t) \/ Reload(t) \/ TryLock(t) \/ UnlockReload(t)
           \/ TryClaim(t) /\ mpc'[t] = "reload"
           \/ TryLockCas(t) /\ mpc'[t] = "idle"
           \/ UnlockSlow(t) /\ mpc'[t] # "post"
    PROVE  MutexInv'
  <1>1. /\ mpc \in [Threads -> MutexPcs] /\ loc \in [Threads -> Locals] /\ state \in Nat
        /\ loc[t] \in Locals /\ NoLocals \in Locals /\ ~NoLocals.awoke /\ ~NoLocals.starving
    BY MaxSpinAssumption DEF MutexInv, MutexTypeOK, NoLocals, Locals
  <1>2. CASE LockFast(t)
    <2>1. mpc[t] = "idle" /\ mpc' = [mpc EXCEPT ![t] = "slow"] /\ loc' = [loc EXCEPT ![t] = loc[t]]
          /\ UNCHANGED <<semvars, state>>
      BY <1>1, <1>2 DEF LockFast, MGoto, MUTEX_LOCKED
    <2>2. ~Awake(t) /\ ~Waking(t)  BY <2>1 DEF Awake, Waking
    <2> QED BY <1>1, <2>1, <2>2, QuietMove DEF MutexPcs
  <1>3. CASE LockSlow(t)
    <2>1. PICK garbage \in BOOLEAN :
              loc' = [loc EXCEPT ![t] = [NoLocals EXCEPT !.old = state, !.timed = garbage]]
      BY <1>3 DEF LockSlow
    <2> DEFINE r == [NoLocals EXCEPT !.old = state, !.timed = garbage]
    <2>2. r \in Locals /\ ~r.awoke /\ ~r.starving
      BY <1>1 DEF NoLocals, Locals
    <2>3. mpc[t] = "slow" /\ mpc' = [mpc EXCEPT ![t] = "loop"] /\ UNCHANGED <<semvars, state>>
      BY <1>3 DEF LockSlow, MGoto
    <2>4. ~Awake(t) /\ ~Waking(t)  BY <2>3 DEF Awake, Waking
    <2> HIDE DEF r
    <2>5. loc' = [loc EXCEPT ![t] = r]  BY <2>1 DEF r
    <2> QED BY <2>2, <2>3, <2>4, <2>5, QuietMove DEF MutexPcs
  <1>4. CASE Spin(t)
    <2>1. mpc[t] = "loop" /\ mpc' = [mpc EXCEPT ![t] = "reload"] /\ UNCHANGED <<semvars, state>>
          /\ loc[t].iter < MaxSpin
      BY <1>4 DEF Spin, MGoto
    <2> DEFINE r == [loc[t] EXCEPT !.iter = @ + 1]
    <2>2. loc' = [loc EXCEPT ![t] = r]
      <3> DEFINE o == loc[t].old
                 tell == ~loc[t].awoke /\ ~Woken(o) /\ Waiters(o) # 0 /\ state = o
      <3>1. /\ state' = IF tell THEN state + MUTEX_WOKEN ELSE state
            /\ loc' = [loc EXCEPT ![t].iter = @ + 1, ![t].awoke = @ \/ tell]
        BY <1>4 DEF Spin
      <3>2. ~tell
        BY <1>1, <3>1 DEF MUTEX_WOKEN
      <3>3. (loc[t].awoke \/ tell) = loc[t].awoke
        BY <1>1, <3>2 DEF Locals
      <3> HIDE DEF tell
      <3>4. loc' = [loc EXCEPT ![t] = [loc[t] EXCEPT !.iter = @ + 1, !.awoke = loc[t].awoke]]
        BY <1>1, <3>1, <3>3 DEF Locals
      <3> QED BY <1>1, <3>4 DEF Locals
    <2>3. r \in Locals /\ r.awoke = loc[t].awoke /\ r.starving = loc[t].starving
      BY <1>1, <2>1, MaxSpinAssumption DEF Locals
    <2>4. ~Waking(t) /\ (loc[t].starving => loc[t].awoke) /\ (Awake(t) <=> loc[t].awoke)
      BY <2>1 DEF Awake, Waking, MutexInv, LocInv
    <2> HIDE DEF r
    <2> QED BY <2>1, <2>2, <2>3, <2>4, QuietMove DEF MutexPcs
  <1>5. CASE Reload(t)
    <2>1. mpc[t] = "reload" /\ mpc' = [mpc EXCEPT ![t] = "loop"] /\ UNCHANGED <<semvars, state>>
      BY <1>5 DEF Reload, MGoto
    <2> DEFINE r == [loc[t] EXCEPT !.old = state]
    <2>2. loc' = [loc EXCEPT ![t] = r]
      BY <1>5 DEF Reload
    <2>3. r \in Locals /\ r.awoke = loc[t].awoke /\ r.starving = loc[t].starving
      BY <1>1 DEF Locals
    <2>4. ~Waking(t) /\ (loc[t].starving => loc[t].awoke) /\ (Awake(t) <=> loc[t].awoke)
      BY <2>1 DEF Awake, Waking, MutexInv, LocInv
    <2> HIDE DEF r
    <2> QED BY <2>1, <2>2, <2>3, <2>4, QuietMove DEF MutexPcs
  <1>6. CASE TryLock(t)
    <2>1. mpc[t] = "idle" /\ mpc' = [mpc EXCEPT ![t] = "try"] /\ UNCHANGED <<semvars, state>>
          /\ ~Locked(state) /\ ~Starving(state)
      BY <1>6 DEF TryLock, MGoto
    <2> DEFINE r == [loc[t] EXCEPT !.old = state]
    <2>2. loc' = [loc EXCEPT ![t] = r]
      BY <1>6 DEF TryLock
    <2>3. r \in Locals /\ r.old = state
      BY <1>1 DEF Locals
    <2>4. ~Awake(t) /\ ~Waking(t)  BY <2>1 DEF Awake, Waking
    <2> HIDE DEF r
    <2> QED BY <2>1, <2>2, <2>3, <2>4, QuietMove DEF MutexPcs
  <1>7. CASE UnlockReload(t)
    <2>1. mpc[t] = "unlock_reload" /\ mpc' = [mpc EXCEPT ![t] = "unlock"] /\ UNCHANGED <<semvars, state>>
      BY <1>7 DEF UnlockReload, MGoto
    <2> DEFINE r == [loc[t] EXCEPT !.old = state]
    <2>2. loc' = [loc EXCEPT ![t] = r]
      BY <1>7 DEF UnlockReload
    <2>3. r \in Locals /\ r.old = state
      BY <1>1 DEF Locals
    <2>4. ~Awake(t)  BY <2>1 DEF Awake
    <2> HIDE DEF r
    <2> QED BY <2>1, <2>2, <2>3, <2>4, QuietMove DEF MutexPcs
  <1>8. CASE TryClaim(t) /\ mpc'[t] = "reload"
    <2>1. mpc[t] = "loop" /\ mpc' = [mpc EXCEPT ![t] = "reload"] /\ UNCHANGED <<semvars, state>>
          /\ loc' = [loc EXCEPT ![t] = loc[t]]
      BY <1>1, <1>8 DEF TryClaim, MGoto, Leave
    <2>2. ~Waking(t) /\ (loc[t].starving => loc[t].awoke) /\ (Awake(t) <=> loc[t].awoke)
      BY <2>1 DEF Awake, Waking, MutexInv, LocInv
    <2> QED BY <1>1, <2>1, <2>2, QuietMove DEF MutexPcs
  <1>9. CASE TryLockCas(t) /\ mpc'[t] = "idle"
    <2>1. mpc[t] = "try" /\ mpc' = [mpc EXCEPT ![t] = "idle"] /\ UNCHANGED <<semvars, state>>
          /\ loc' = [loc EXCEPT ![t] = NoLocals]
      BY <1>1, <1>9 DEF TryLockCas, MGoto, Leave
    <2>2. ~Awake(t) /\ ~Waking(t)  BY <2>1 DEF Awake, Waking
    <2> QED BY <1>1, <2>1, <2>2, QuietMove DEF MutexPcs
  <1>10. CASE UnlockSlow(t) /\ mpc'[t] # "post"
    <2>1. mpc[t] = "unlock" /\ ~Awake(t)
      BY <1>10 DEF UnlockSlow, Awake
    <2>2. CASE NobodyToWake(loc[t].old)
      <3>1. mpc' = [mpc EXCEPT ![t] = "idle"] /\ UNCHANGED <<semvars, state>>
            /\ loc' = [loc EXCEPT ![t] = NoLocals]
        BY <1>10, <2>2 DEF UnlockSlow, Leave, MGoto
      <3>2. ~Waking(t)  BY <2>1, <2>2 DEF Waking
      <3> QED BY <1>1, <2>1, <3>1, <3>2, QuietMove DEF MutexPcs
    <2>3. CASE ~NobodyToWake(loc[t].old)
      <3>1. mpc' = [mpc EXCEPT ![t] = "unlock_reload"] /\ UNCHANGED <<semvars, state>>
            /\ loc' = [loc EXCEPT ![t] = loc[t]]
        BY <1>1, <1>10, <2>3 DEF UnlockSlow, Leave, MGoto
      <3> QED BY <1>1, <2>1, <3>1, QuietMove DEF MutexPcs
    <2> QED BY <2>2, <2>3
  <1> QED BY <1>2, <1>3, <1>4, <1>5, <1>6, <1>7, <1>8, <1>9, <1>10

\* The control state stays well formed when t moves, calls the semaphore or
\* returns from it.
LEMMA MoveShape ==
    ASSUME MutexInv, NEW t \in Threads, NEW l \in MutexPcs, NEW r \in Locals, NEW b \in BOOLEAN,
           Moves(t, l, r), state' \in Nat,
           \/ AcquireCall(t, b) /\ l = "wait"
           \/ ReleaseCall(t, b) /\ l = "post"
           \/ SemReturn(t) /\ l \notin {"wait", "post"}
           \/ UNCHANGED semvars /\ {mpc[t], l} \cap {"wait", "post"} = {}
    PROVE  MutexTypeOK' /\ Shape' /\ PcInv'
  <1>1. Shape /\ PcInv /\ spc \in [Threads -> {"idle"} \cup AcquirePcs \cup ReleasePcs]
    BY DEF MutexInv, Shape, SemTypeOK
  <1>2. Shape'
    BY <1>1, ShapeCall
  <1>3. /\ mpc'[t] = l /\ mpc' \in [Threads -> MutexPcs] /\ loc' \in [Threads -> Locals]
        /\ \A u \in Threads \ {t} : mpc'[u] = mpc[u] /\ spc'[u] = spc[u]
    BY Frame DEF Moves
  <1>4. MutexTypeOK'
    BY <1>2, <1>3 DEF MutexTypeOK, Shape
  <1>5. /\ l = "wait" => spc'[t] = "acq_easy"
        /\ l = "post" => spc'[t] = "rel_add"
        /\ l \notin {"wait", "post"} => spc'[t] = "idle"
    BY <1>1 DEF AcquireCall, ReleaseCall, SemReturn, Goto, semvars, PcInv
  <1>6. PcInv'
    BY <1>1, <1>3, <1>5 DEF PcInv, AcquirePcs, ReleasePcs
  <1> QED BY <1>2, <1>4, <1>6

\* A thread takes a free mutex in normal mode: the fast path, the CAS of
\* mutex_lock_slow, which also gives up the baton, and mutex_try_lock.
LEMMA TakeStep ==
    ASSUME MutexInv, NEW t \in Threads, NEW r \in Locals, UNCHANGED semvars,
           mpc[t] \in {"idle", "loop", "try"},
           mpc' = [mpc EXCEPT ![t] = "crit"], loc' = [loc EXCEPT ![t] = r],
           ~Locked(state), ~Starving(state),
           Word(state', TRUE, Woken(state) /\ ~Awake(t), FALSE, Waiters(state))
    PROVE  MutexInv'
  <1>1. Moves(t, "crit", r) /\ "crit" \in MutexPcs /\ value' = value
    BY DEF Moves, semvars, MutexPcs
  <1>2. MutexTypeOK' /\ Shape' /\ PcInv'
    BY <1>1, MoveShape DEF Word
  <1>3. /\ mpc'[t] = "crit"
        /\ \A u \in Threads \ {t} : /\ mpc'[u] = mpc[u] /\ loc'[u] = loc[u]
                                    /\ Awake(u)' <=> Awake(u)
                                    /\ Flying(u)' <=> Flying(u)
                                    /\ Baton(u)' <=> Baton(u)
    BY <1>1, Frame
  <1>4. ~Awake(t)' /\ ~Flying(t) /\ ~Flying(t)' /\ ~Baton(t)' /\ (Baton(t) <=> Awake(t))
    BY <1>3 DEF Awake, Flying, Baton
  <1>5. InAir' <=> InAir
    BY <1>1, <1>3, <1>4 DEF InAir
  <1>6. BatonInv'
    BY <1>1, <1>3, <1>4 DEF MutexInv, BatonInv
  <1>7. WokenInv'
    <2>1. CASE Awake(t)
      <3>1. ~InAir /\ \A u \in Threads \ {t} : ~Awake(u)
        BY <1>4, <2>1 DEF MutexInv, BatonInv, InAir, Baton
      <3> QED BY <1>3, <1>4, <1>5, <2>1, <3>1 DEF WokenInv, Word
    <2>2. CASE ~Awake(t)
      BY <1>3, <1>4, <1>5, <2>2 DEF MutexInv, WokenInv, Word
    <2> QED BY <2>1, <2>2
  <1>8. StarvingInv' /\ LockedInv'
    BY <1>3 DEF MutexInv, StarvingInv, LockedInv, Word
  <1>9. LocInv'
    BY <1>3 DEF MutexInv, LocInv
  <1>10. CountInv'
    <2>1. Waiting' = Waiting  BY <1>3 DEF Waiting
    <2> QED BY <1>5, <2>1 DEF MutexInv, CountInv, Word
  <1>11. WakingInv'
    BY DEF WakingInv, Word
  <1> QED BY <1>2, <1>6, <1>7, <1>8, <1>9, <1>10, <1>11 DEF MutexInv

\* A spinner sets WOKEN: a baton is made, and the unlocker will not make another.
LEMMA TellStep ==
    ASSUME MutexInv, NEW t \in Threads, NEW r \in Locals, UNCHANGED semvars,
           mpc[t] = "loop", mpc' = [mpc EXCEPT ![t] = "reload"], loc' = [loc EXCEPT ![t] = r],
           ~loc[t].awoke, r.awoke, Locked(state), ~Woken(state), ~Starving(state),
           Word(state', TRUE, TRUE, FALSE, Waiters(state))
    PROVE  MutexInv'
  <1>1. Moves(t, "reload", r) /\ "reload" \in MutexPcs /\ value' = value
    BY DEF Moves, semvars, MutexPcs
  <1>2. MutexTypeOK' /\ Shape' /\ PcInv'
    BY <1>1, MoveShape DEF Word
  <1>3. /\ mpc'[t] = "reload" /\ loc'[t] = r
        /\ \A u \in Threads \ {t} : /\ mpc'[u] = mpc[u] /\ loc'[u] = loc[u]
                                    /\ Flying(u)' <=> Flying(u)
                                    /\ Baton(u)' <=> Baton(u)
    BY <1>1, Frame
  <1>4. Awake(t)' /\ ~Flying(t) /\ ~Flying(t)' /\ Baton(t)'
    BY <1>3 DEF Awake, Flying, Baton
  <1>5. value = 0 /\ ~InAir /\ \A u \in Threads : ~Baton(u)
    BY DEF MutexInv, BatonInv, WokenInv, StarvingInv, Baton, InAir
  <1>6. BatonInv' /\ ~InAir'
    BY <1>1, <1>3, <1>4, <1>5 DEF BatonInv, InAir
  <1>7. WokenInv'
    BY <1>4 DEF WokenInv, Word
  <1>8. StarvingInv' /\ LockedInv'
    BY <1>3 DEF MutexInv, StarvingInv, LockedInv, Word
  <1>9. LocInv'
    BY <1>3 DEF MutexInv, LocInv
  <1>10. CountInv'
    <2>1. Waiting' = Waiting  BY <1>3 DEF Waiting
    <2> QED BY <1>5, <1>6, <2>1 DEF MutexInv, CountInv, Word
  <1>11. WakingInv'
    BY DEF WakingInv, Word
  <1> QED BY <1>2, <1>6, <1>7, <1>8, <1>9, <1>10, <1>11 DEF MutexInv

\* A thread counts itself in and goes to sleep on a locked or starving mutex.
\* The baton, if it had it, is gone, and then the mutex is locked.
LEMMA SleepStep ==
    ASSUME MutexInv, NEW t \in Threads, NEW r \in Locals, NEW b \in BOOLEAN, AcquireCall(t, b),
           mpc[t] = "loop", mpc' = [mpc EXCEPT ![t] = "wait"], loc' = [loc EXCEPT ![t] = r],
           Locked(state) \/ Starving(state),
           Word(state', Locked(state), Woken(state) /\ ~loc[t].awoke,
                Starving(state) \/ (loc[t].starving /\ Locked(state)), Waiters(state) + 1)
    PROVE  MutexInv'
  <1>1. Moves(t, "wait", r) /\ "wait" \in MutexPcs /\ value' = value
    BY DEF Moves, AcquireCall, Goto, MutexPcs, MutexInv, Shape, SemTypeOK
  <1>2. MutexTypeOK' /\ Shape' /\ PcInv'
    BY <1>1, MoveShape DEF Word
  <1>3. /\ mpc'[t] = "wait" /\ loc'[t] = r
        /\ \A u \in Threads \ {t} : /\ mpc'[u] = mpc[u] /\ loc'[u] = loc[u]
                                    /\ Awake(u)' <=> Awake(u)
                                    /\ Flying(u)' <=> Flying(u)
                                    /\ Baton(u)' <=> Baton(u)
    BY <1>1, Frame
  <1>4. /\ ~Awake(t)' /\ ~Flying(t) /\ ~Flying(t)' /\ ~Baton(t)'
        /\ Baton(t) <=> loc[t].awoke
        /\ Awake(t) <=> loc[t].awoke
    <2>1. ticket[t] # 1 /\ spc'[t] = "acq_easy" /\ ticket' = ticket
      BY DEF MutexInv, Shape, StatusInv, SemTypeOK, AcquireCall, Goto
    <2> QED BY <1>3, <2>1 DEF Awake, Flying, Baton
  <1>5. InAir' <=> InAir
    BY <1>1, <1>3, <1>4 DEF InAir
  <1>6. BatonInv'
    BY <1>1, <1>3, <1>4 DEF MutexInv, BatonInv
  <1>7. loc[t].starving => loc[t].awoke
    BY DEF MutexInv, LocInv
  <1>8. loc[t].awoke =>
           ~InAir /\ ~SomeBaton' /\ Locked(state) /\ ~Starving(state) /\ \A u \in Threads \ {t} : ~Awake(u)
    <2> HAVE loc[t].awoke
    <2>1. value # 1 /\ \A u \in Threads \ {t} : ~Baton(u)
      BY <1>4 DEF MutexInv, BatonInv
    <2>2. Woken(state)
      BY <1>4 DEF MutexInv, WokenInv
    <2> QED BY <1>1, <1>3, <1>4, <2>1, <2>2 DEF InAir, SomeBaton, Baton, MutexInv, StarvingInv
  <1>9. ~loc[t].awoke => (SomeBaton' <=> SomeBaton)
    BY <1>1, <1>3, <1>4 DEF SomeBaton
  <1>10. WokenInv'
    <2>1. CASE loc[t].awoke
      BY <1>3, <1>4, <1>5, <1>8, <2>1 DEF WokenInv, Word
    <2>2. CASE ~loc[t].awoke
      BY <1>3, <1>4, <1>5, <1>7, <2>2 DEF MutexInv, WokenInv, Word
    <2> QED BY <2>1, <2>2
  <1>11. StarvingInv'
    <2>1. CASE loc[t].awoke
      <3>1. \A u \in Threads : mpc'[u] # "fixup"
        BY <1>3, <1>8, <2>1 DEF MutexInv, StarvingInv
      <3> QED BY <1>8, <2>1, <3>1 DEF StarvingInv, Word
    <2>2. CASE ~loc[t].awoke
      BY <1>3, <1>7, <1>9, <2>2 DEF MutexInv, StarvingInv, Word
    <2> QED BY <2>1, <2>2
  <1>12. LockedInv' /\ LocInv'
    BY <1>3 DEF MutexInv, LockedInv, LocInv, Word
  <1>13. CountInv'
    <2>1. Waiting' = Waiting \cup {t} /\ t \notin Waiting
      BY <1>3 DEF Waiting
    <2>2. Cardinality(Waiting') = Cardinality(Waiting) + 1 /\ Cardinality(Waiting) \in Nat
      BY <2>1, WaitingFinite, FS_AddElement
    <2>3. (InAir' /\ ~Starving(state)') <=> (InAir /\ ~Starving(state))
      BY <1>5, <1>7, <1>8 DEF Word
    <2>4. Waiters(state) \in Nat
      BY WordArithmetic DEF MutexInv, MutexTypeOK
    <2> QED BY <2>2, <2>3, <2>4 DEF MutexInv, CountInv, Word
  <1>14. WakingInv'
    BY <1>8, <1>9 DEF MutexInv, StarvingInv, WakingInv, Word
  <1> QED BY <1>2, <1>6, <1>10, <1>11, <1>12, <1>13, <1>14 DEF MutexInv

\* semaphore_acquire returns: the baton goes on as a competitor in normal mode,
\* as the next owner in starvation mode.
LEMMA ReturnStep ==
    ASSUME MutexInv, NEW t \in Threads, Return(t)
    PROVE  MutexInv'
  <1>0. mpc[t] = "wait" /\ spc[t] = "idle" /\ SemReturn(t) /\ state' = state
    BY DEF Return, SemReturn
  <1>1. PICK late \in BOOLEAN :
          IF Starving(state)
          THEN /\ loc' = [loc EXCEPT ![t].starving = @ \/ late, ![t].old = state]
               /\ MGoto(t, "fixup")
          ELSE /\ loc' = [loc EXCEPT ![t].starving = @ \/ late, ![t].old = state,
                                    ![t].awoke = TRUE, ![t].iter = 0]
               /\ MGoto(t, "loop")
    BY DEF Return
  <1>2. loc \in [Threads -> Locals] /\ loc[t] \in Locals /\ state \in Nat
    BY DEF MutexInv, MutexTypeOK
  <1>3. Flying(t) /\ Baton(t) /\ InAir
    BY <1>0 DEF Flying, Baton, InAir
  <1>4. value = 0 /\ \A u \in Threads \ {t} : ~Baton(u)
    BY <1>3 DEF MutexInv, BatonInv
  <1>5. CASE Starving(state)
    <2> DEFINE r == [loc[t] EXCEPT !.starving = @ \/ late, !.old = state]
    <2>1. r \in Locals /\ loc' = [loc EXCEPT ![t] = r] /\ mpc' = [mpc EXCEPT ![t] = "fixup"]
      BY <1>1, <1>2, <1>5 DEF Locals, MGoto
    <2> HIDE DEF r
    <2>2. Moves(t, "fixup", r) /\ "fixup" \in MutexPcs /\ value' = value
      BY <1>0, <2>1 DEF Moves, SemReturn, MutexPcs
    <2>3. MutexTypeOK' /\ Shape' /\ PcInv'
      BY <1>0, <1>2, <2>1, <2>2, MoveShape
    <2>4. /\ mpc'[t] = "fixup"
          /\ \A u \in Threads \ {t} : /\ mpc'[u] = mpc[u] /\ loc'[u] = loc[u]
                                      /\ Awake(u)' <=> Awake(u)
                                      /\ Flying(u)' <=> Flying(u)
                                      /\ Baton(u)' <=> Baton(u)
      BY <2>1, <2>2, Frame
    <2>5. Baton(t)' /\ ~Awake(t)' /\ ~Awake(t) /\ ~Flying(t)'
      BY <1>0, <2>4 DEF Baton, Awake, Flying
    <2>6. BatonInv'
      BY <1>4, <2>2, <2>4 DEF BatonInv
    <2>7. SomeBaton /\ SomeBaton' /\ ~Locked(state)
      BY <1>3, <1>5, <2>5 DEF SomeBaton, MutexInv, StarvingInv
    <2>8. WokenInv' /\ StarvingInv'
      BY <1>0, <1>5, <2>4, <2>5, <2>7 DEF MutexInv, WokenInv, StarvingInv
    <2>9. LockedInv' /\ LocInv'
      BY <1>0, <2>4 DEF MutexInv, LockedInv, LocInv
    <2>10. CountInv'
      <3>1. Waiting' = Waiting  BY <1>0, <2>4 DEF Waiting
      <3> QED BY <1>0, <1>5, <3>1 DEF MutexInv, CountInv
    <2>11. WakingInv'
      BY <2>7 DEF WakingInv
    <2> QED BY <2>3, <2>6, <2>8, <2>9, <2>10, <2>11 DEF MutexInv
  <1>6. CASE ~Starving(state)
    <2>0. PICK st \in BOOLEAN :
              loc' = [loc EXCEPT ![t] = [loc[t] EXCEPT !.starving = st, !.old = state, !.awoke = TRUE, !.iter = 0]]
      <3>1. (loc[t].starving \/ late) \in BOOLEAN  OBVIOUS
      <3>2. loc' = [loc EXCEPT ![t].starving = @ \/ late, ![t].old = state, ![t].awoke = TRUE, ![t].iter = 0]
        BY <1>1, <1>6
      <3> QED BY <3>1, <3>2, Zenon
    <2> DEFINE r == [loc[t] EXCEPT !.starving = st, !.old = state, !.awoke = TRUE, !.iter = 0]
    <2>1. r \in Locals /\ r.awoke /\ loc' = [loc EXCEPT ![t] = r] /\ mpc' = [mpc EXCEPT ![t] = "loop"]
      BY <1>1, <1>2, <1>6, <2>0, MaxSpinAssumption DEF Locals, MGoto
    <2> HIDE DEF r
    <2>2. Moves(t, "loop", r) /\ "loop" \in MutexPcs /\ value' = value
      BY <1>0, <2>1 DEF Moves, SemReturn, MutexPcs
    <2>3. MutexTypeOK' /\ Shape' /\ PcInv'
      BY <1>0, <1>2, <2>1, <2>2, MoveShape
    <2>4. /\ mpc'[t] = "loop" /\ loc'[t] = r
          /\ \A u \in Threads \ {t} : /\ mpc'[u] = mpc[u] /\ loc'[u] = loc[u]
                                      /\ Awake(u)' <=> Awake(u)
                                      /\ Flying(u)' <=> Flying(u)
                                      /\ Baton(u)' <=> Baton(u)
      BY <2>1, <2>2, Frame
    <2>5. Baton(t)' /\ Awake(t)' /\ ~Flying(t)' /\ ~InAir'
      <3>1. Awake(t)' /\ ~Flying(t)'
        BY <2>1, <2>4 DEF Awake, Flying
      <3> QED BY <1>4, <2>2, <2>4, <3>1 DEF Baton, InAir
    <2>6. BatonInv'
      BY <1>4, <2>2, <2>4 DEF BatonInv
    <2>7. Woken(state) /\ WokenInv'
      BY <1>0, <1>3, <1>6, <2>5 DEF MutexInv, WokenInv
    <2>8. StarvingInv' /\ LockedInv'
      BY <1>0, <1>6, <2>4 DEF MutexInv, StarvingInv, LockedInv
    <2>9. LocInv'
      BY <2>1, <2>4 DEF MutexInv, LocInv
    <2>10. CountInv'
      <3>1. Waiting' = Waiting \ {t} /\ t \in Waiting
        BY <1>0, <2>4 DEF Waiting
      <3>2. Cardinality(Waiting') = Cardinality(Waiting) - 1
        BY <3>1, WaitingFinite, FS_RemoveElement
      <3>3. Waiters(state) \in Nat
        BY <1>2, WordArithmetic
      <3> QED BY <1>0, <1>3, <1>6, <2>5, <3>2, <3>3 DEF MutexInv, CountInv
    <2>11. WakingInv'
      BY <2>5 DEF WakingInv, SomeBaton
    <2> QED BY <2>3, <2>6, <2>7, <2>8, <2>9, <2>10, <2>11 DEF MutexInv
  <1> QED BY <1>5, <1>6

\* The thread that was handed the mutex takes it and counts itself out.
LEMMA FixUpStep ==
    ASSUME MutexInv, NEW t \in Threads, FixUp(t)
    PROVE  MutexInv'
  <1>0. /\ mpc[t] = "fixup" /\ UNCHANGED semvars /\ NoLocals \in Locals /\ "crit" \in MutexPcs
        /\ mpc' = [mpc EXCEPT ![t] = "crit"] /\ loc' = [loc EXCEPT ![t] = NoLocals]
    BY MaxSpinAssumption DEF FixUp, Leave, MGoto, NoLocals, Locals, MutexPcs
  <1>1. /\ Starving(state) /\ ~Locked(state) /\ ~Woken(state)
        /\ Baton(t) /\ value = 0 /\ \A u \in Threads \ {t} : ~Baton(u)
    BY <1>0 DEF MutexInv, StarvingInv, BatonInv, Baton
  <1>2. /\ t \in Waiting /\ Cardinality(Waiting) = Waiters(state) /\ Waiters(state) \in Nat
        /\ Waiters(state) > 0
    <2>1. t \in Waiting /\ Waiters(state) \in Nat
      BY <1>0, WordArithmetic DEF Waiting, MutexInv, MutexTypeOK
    <2>2. Cardinality(Waiting) = Waiters(state)
      BY <1>1, <2>1 DEF MutexInv, CountInv
    <2>3. Cardinality(Waiting) # 0
      BY <2>1, WaitingFinite, FS_EmptySet
    <2> QED BY <2>1, <2>2, <2>3
  <1>3. PICK v \in BOOLEAN : Word(state', TRUE, FALSE, v, Waiters(state) - 1)
    <2>1. state \in Nat  BY DEF MutexInv, MutexTypeOK
    <2>2. Word(state + MUTEX_LOCKED, TRUE, FALSE, TRUE, Waiters(state))
      BY <1>1, <2>1, WordArithmetic DEF Word
    <2> DEFINE s1 == state + MUTEX_LOCKED
               s2 == s1 - WAITER
    <2> HIDE DEF s1, s2
    <2>2a. Word(s1, TRUE, FALSE, TRUE, Waiters(state))
      BY <2>2 DEF s1
    <2>3. Word(s1 - WAITER, TRUE, FALSE, TRUE, Waiters(state) - 1)
      <3>1. s1 \in Nat /\ Waiters(s1) > 0  BY <1>2, <2>2a DEF Word
      <3>2. Word(s1 - WAITER, Locked(s1), Woken(s1), Starving(s1), Waiters(s1) - 1)
        BY <3>1, WordArithmetic
      <3> QED BY <2>2a, <3>2 DEF Word
    <2>3a. Word(s2, TRUE, FALSE, TRUE, Waiters(state) - 1)
      BY <2>3 DEF s2
    <2>4. Word(s2 - MUTEX_STARVING, TRUE, FALSE, FALSE, Waiters(state) - 1)
      <3>1. s2 \in Nat /\ Starving(s2)  BY <2>3a DEF Word
      <3>2. Word(s2 - MUTEX_STARVING, Locked(s2), Woken(s2), FALSE, Waiters(s2))
        BY <3>1, WordArithmetic
      <3> QED BY <2>3a, <3>2 DEF Word
    <2>5. state' \in {s2 - MUTEX_STARVING, s2}
      BY <2>1 DEF FixUp, s1, s2, MUTEX_LOCKED, MUTEX_STARVING, WAITER
    <2> QED BY <2>3a, <2>4, <2>5
  <1>4. Moves(t, "crit", NoLocals) /\ value' = value
    BY <1>0 DEF Moves, semvars
  <1>5. MutexTypeOK' /\ Shape' /\ PcInv'
    BY <1>0, <1>3, <1>4, MoveShape DEF Word
  <1>6. /\ mpc'[t] = "crit"
        /\ \A u \in Threads \ {t} : /\ mpc'[u] = mpc[u] /\ loc'[u] = loc[u]
                                    /\ Baton(u)' <=> Baton(u)
    BY <1>0, <1>4, Frame
  <1>7. ~SomeBaton' /\ ~InAir' /\ \A u \in Threads : ~Baton(u)' /\ ~Awake(u)' /\ mpc'[u] # "fixup"
    <2>1. ~Baton(t)'  BY <1>6 DEF Baton, Awake, Flying
    <2>2. \A u \in Threads : ~Baton(u)'  BY <1>1, <1>6, <2>1
    <2> QED BY <1>1, <1>4, <2>2 DEF SomeBaton, InAir, Baton
  <1>8. BatonInv' /\ WokenInv' /\ StarvingInv'
    BY <1>1, <1>3, <1>4, <1>7 DEF BatonInv, WokenInv, StarvingInv, Word
  <1>9. LockedInv' /\ LocInv'
    BY <1>1, <1>3, <1>6 DEF MutexInv, LockedInv, LocInv, Word
  <1>10. CountInv'
    <2>1. Waiting' = Waiting \ {t}
      BY <1>6 DEF Waiting
    <2>2. Cardinality(Waiting') = Cardinality(Waiting) - 1
      BY <1>2, <2>1, WaitingFinite, FS_RemoveElement
    <2> QED BY <1>2, <1>3, <1>7, <2>2 DEF CountInv, Word
  <1>11. WakingInv'
    BY <1>3 DEF WakingInv, Word
  <1> QED BY <1>5, <1>8, <1>9, <1>10, <1>11 DEF MutexInv

\* The owner gives the mutex back.  Nothing is left to do when the word is 0;
\* a starving mutex goes to the baton made here; otherwise the slow path looks
\* for somebody to wake.
LEMMA UnlockStep ==
    ASSUME MutexInv, NEW t \in Threads, Unlock(t)
    PROVE  MutexInv'
  <1>1. /\ mpc[t] = "crit" /\ Locked(state) /\ state \in Nat /\ loc[t] \in Locals
        /\ state' = state - MUTEX_LOCKED
        /\ \A u \in Threads \ {t} : mpc[u] # "crit"
        /\ NoLocals \in Locals
    BY MaxSpinAssumption DEF Unlock, MutexInv, LockedInv, MutexTypeOK, NoLocals, Locals
  <1>2. Word(state', FALSE, Woken(state), Starving(state), Waiters(state)) /\ Waiters(state) \in Nat
    BY <1>1, WordArithmetic
  <1>3. PICK l \in {"idle", "unlock", "post"}, r \in Locals :
            /\ mpc' = [mpc EXCEPT ![t] = l] /\ loc' = [loc EXCEPT ![t] = r]
            /\ l = "idle" => state' = 0 /\ UNCHANGED semvars
            /\ l = "unlock" => ~Starving(state) /\ r.old = state' /\ UNCHANGED semvars
            /\ l = "post" => Starving(state) /\ ReleaseCall(t, TRUE)
    <2>1. CASE state' = 0 /\ Leave(t, "idle") /\ UNCHANGED semvars
      BY <1>1, <2>1 DEF Leave, MGoto
    <2>2. CASE state' # 0 /\ ~Starving(state') /\ loc' = [loc EXCEPT ![t].old = state']
               /\ MGoto(t, "unlock") /\ UNCHANGED semvars
      <3>1. [loc[t] EXCEPT !.old = state'] \in Locals /\ [loc[t] EXCEPT !.old = state'].old = state'
        BY <1>1, <1>2 DEF Locals, Word
      <3>2. loc' = [loc EXCEPT ![t] = [loc[t] EXCEPT !.old = state']]
        BY <2>2
      <3> QED BY <1>2, <2>2, <3>1, <3>2 DEF MGoto, Word
    <2>3. CASE state' # 0 /\ Starving(state') /\ ReleaseCall(t, TRUE) /\ Leave(t, "post")
      BY <1>1, <1>2, <2>3 DEF Leave, MGoto, Word
    <2> QED BY <2>1, <2>2, <2>3 DEF Unlock
  <1>4. Moves(t, l, r) /\ l \in MutexPcs /\ value' = value
    BY <1>3 DEF Moves, semvars, ReleaseCall, Goto, MutexPcs, MutexInv, Shape, SemTypeOK
  <1>5. MutexTypeOK' /\ Shape' /\ PcInv'
    BY <1>1, <1>2, <1>3, <1>4, MoveShape DEF Word
  <1>6. /\ mpc'[t] = l /\ loc'[t] = r
        /\ \A u \in Threads \ {t} : /\ mpc'[u] = mpc[u] /\ loc'[u] = loc[u]
                                    /\ Awake(u)' <=> Awake(u)
                                    /\ Flying(u)' <=> Flying(u)
                                    /\ Baton(u)' <=> Baton(u)
    BY <1>3, <1>4, Frame
  <1>7. ~Baton(t) /\ ~Flying(t) /\ ~Awake(t) /\ ~Awake(t)'
    BY <1>1, <1>3, <1>6 DEF Baton, Flying, Awake
  <1>8. LockedInv' /\ LocInv'
    BY <1>1, <1>2, <1>3, <1>6 DEF MutexInv, LockedInv, LocInv, Word
  <1>9. Waiting' = Waiting
    BY <1>1, <1>3, <1>6 DEF Waiting
  <1>10. CASE l = "post"
    <2>1. Flying(t)' /\ Baton(t)' /\ SomeBaton'
      <3>1. spc'[t] = "rel_add"
        BY <1>3, <1>10 DEF ReleaseCall, Goto, MutexInv, Shape, SemTypeOK
      <3> QED BY <1>6, <1>10, <3>1 DEF Flying, Baton, SomeBaton
    <2>2. Starving(state) /\ ~Woken(state) /\ value = 0 /\ \A u \in Threads : ~Baton(u)
      BY <1>1, <1>3, <1>10 DEF MutexInv, StarvingInv, SomeBaton, BatonInv
    <2>3. BatonInv'
      BY <1>4, <1>6, <2>1, <2>2 DEF BatonInv
    <2>4. \A u \in Threads : ~Awake(u)' /\ mpc'[u] # "fixup"
      BY <1>6, <1>7, <1>10, <2>2 DEF Baton
    <2>5. WokenInv' /\ StarvingInv' /\ WakingInv'
      BY <1>2, <2>1, <2>2, <2>4 DEF WokenInv, StarvingInv, WakingInv, Word
    <2>6. CountInv'
      BY <1>2, <1>9, <2>2 DEF MutexInv, CountInv, Word
    <2> QED BY <1>5, <1>8, <2>3, <2>5, <2>6 DEF MutexInv
  <1>11. CASE l # "post"
    <2>1. ~Flying(t)' /\ ~Baton(t)'
      BY <1>3, <1>6, <1>7, <1>11 DEF Flying, Baton
    <2>2. (InAir' <=> InAir) /\ (SomeBaton' <=> SomeBaton)
      BY <1>4, <1>6, <1>7, <2>1 DEF InAir, SomeBaton
    <2>3. BatonInv'
      BY <1>4, <1>6, <2>1 DEF MutexInv, BatonInv
    <2>4. ~Starving(state)
      BY <1>2, <1>3, <1>11, WordArithmetic DEF Word
    <2>5. WokenInv'
      BY <1>2, <1>6, <1>7, <2>2 DEF MutexInv, WokenInv, Word
    <2>6. StarvingInv'
      BY <1>2, <1>3, <1>6, <2>4 DEF MutexInv, StarvingInv, Word
    <2>7. CountInv'
      BY <1>2, <1>9, <2>2 DEF MutexInv, CountInv, Word
    <2>8. WakingInv'
      <3> SUFFICES ASSUME Waiters(state') > 0, ~SomeBaton'
                   PROVE  \E u \in Threads : Waking(u)'
        BY DEF WakingInv
      <3>1. l = "unlock" /\ r.old = state'
        BY <1>2, <1>3, <1>11, WordArithmetic DEF Word
      <3>2. ~Woken(state)
        BY <2>2, <2>4 DEF MutexInv, WokenInv, SomeBaton, InAir, Baton
      <3>3. ~NobodyToWake(state')
        BY <1>2, <2>4, <3>2 DEF NobodyToWake, Word
      <3> QED BY <1>6, <3>1, <3>3 DEF Waking
    <2> QED BY <1>5, <1>8, <2>3, <2>5, <2>6, <2>7, <2>8 DEF MutexInv
  <1> QED BY <1>10, <1>11

\* The unlocker counts a waiter out, sets WOKEN and makes the baton.
LEMMA PostStep ==
    ASSUME MutexInv, NEW t \in Threads, UnlockSlow(t), mpc'[t] = "post"
    PROVE  MutexInv'
  <1>1. /\ mpc[t] = "unlock" /\ ~NobodyToWake(state) /\ state' = state - WAITER + MUTEX_WOKEN
        /\ ReleaseCall(t, FALSE) /\ mpc' = [mpc EXCEPT ![t] = "post"]
        /\ loc' = [loc EXCEPT ![t] = NoLocals]
    BY DEF UnlockSlow, Leave, MGoto, MutexInv, MutexTypeOK
  <1>2. /\ Waiters(state) \in Nat /\ Waiters(state) > 0 /\ state \in Nat
        /\ ~Locked(state) /\ ~Woken(state) /\ ~Starving(state)
    <2>1. state \in Nat  BY DEF MutexInv, MutexTypeOK
    <2>2. Waiters(state) \in Nat  BY <2>1, WordArithmetic
    <2> QED BY <1>1, <2>1, <2>2 DEF NobodyToWake
  <1>3. Word(state', FALSE, TRUE, FALSE, Waiters(state) - 1)
    <2>1. Word(state - WAITER, FALSE, FALSE, FALSE, Waiters(state) - 1)
      BY <1>2, WordArithmetic DEF Word
    <2> QED BY <1>1, <2>1, WordArithmetic DEF Word
  <1>4. Moves(t, "post", NoLocals) /\ "post" \in MutexPcs /\ NoLocals \in Locals /\ value' = value
    BY <1>1, MaxSpinAssumption DEF Moves, ReleaseCall, Goto, MutexPcs, MutexInv, Shape, SemTypeOK, NoLocals, Locals
  <1>5. MutexTypeOK' /\ Shape' /\ PcInv'
    BY <1>1, <1>3, <1>4, MoveShape DEF Word
  <1>6. /\ mpc'[t] = "post"
        /\ \A u \in Threads \ {t} : /\ mpc'[u] = mpc[u] /\ loc'[u] = loc[u]
                                    /\ Baton(u)' <=> Baton(u)
    BY <1>4, Frame
  <1>7. value = 0 /\ ~InAir /\ \A u \in Threads : ~Baton(u)
    BY <1>2 DEF MutexInv, BatonInv, WokenInv, StarvingInv, InAir, Baton
  <1>8. Flying(t)' /\ Baton(t)' /\ SomeBaton' /\ InAir'
    <2>1. spc'[t] = "rel_add"
      BY <1>1 DEF ReleaseCall, Goto, MutexInv, Shape, SemTypeOK
    <2> QED BY <1>6, <2>1 DEF Flying, Baton, SomeBaton, InAir
  <1>9. BatonInv' /\ WokenInv' /\ WakingInv'
    BY <1>3, <1>4, <1>6, <1>7, <1>8 DEF BatonInv, WokenInv, WakingInv, Word
  <1>10. StarvingInv' /\ LockedInv' /\ LocInv'
    BY <1>1, <1>2, <1>3, <1>6 DEF MutexInv, StarvingInv, LockedInv, LocInv, Word
  <1>11. CountInv'
    <2>1. Waiting' = Waiting
      BY <1>1, <1>6 DEF Waiting
    <2> QED BY <1>2, <1>3, <1>7, <1>8, <2>1 DEF MutexInv, CountInv, Word
  <1> QED BY <1>5, <1>9, <1>10, <1>11 DEF MutexInv

\* semaphore_release returns to the unlocker.
LEMMA UnlockReturnStep ==
    ASSUME MutexInv, NEW t \in Threads, UnlockReturn(t)
    PROVE  MutexInv'
  <1>1. /\ mpc[t] = "post" /\ spc[t] = "idle" /\ SemReturn(t) /\ state' = state /\ state \in Nat
        /\ mpc' = [mpc EXCEPT ![t] = "idle"] /\ loc' = [loc EXCEPT ![t] = loc[t]]
        /\ loc[t] \in Locals /\ "idle" \in MutexPcs
    BY DEF UnlockReturn, SemReturn, MGoto, MutexInv, MutexTypeOK, MutexPcs
  <1>2. Moves(t, "idle", loc[t])
    BY <1>1 DEF Moves, SemReturn
  <1>3. MutexTypeOK' /\ Shape' /\ PcInv'
    BY <1>1, <1>2, MoveShape
  <1>4. /\ mpc'[t] = "idle"
        /\ \A u \in Threads \ {t} : /\ mpc'[u] = mpc[u] /\ loc'[u] = loc[u]
                                    /\ Awake(u)' <=> Awake(u)
                                    /\ Flying(u)' <=> Flying(u)
                                    /\ Waking(u)' <=> Waking(u)
    BY <1>1, <1>2, Frame
  <1>5. ~Awake(t) /\ ~Awake(t)' /\ ~Flying(t) /\ ~Flying(t)' /\ ~Waking(t)
    BY <1>1, <1>4 DEF Awake, Flying, Waking
  <1>6. Quiet
    BY <1>1, <1>2, <1>4, <1>5 DEF Quiet, Places, Moves
  <1>7. BatonInv' /\ WokenInv' /\ StarvingInv' /\ LockedInv' /\ CountInv' /\ (SomeBaton' <=> SomeBaton)
    BY <1>6, QuietStep
  <1>8. LocInv' /\ WakingInv'
    BY <1>1, <1>4, <1>5, <1>7 DEF MutexInv, LocInv, WakingInv
  <1> QED BY <1>3, <1>7, <1>8 DEF MutexInv

\* The word mutex_lock_slow installs, field by field.
LEMMA ClaimWord ==
    ASSUME MutexInv, NEW t \in Threads, mpc[t] = "loop", loc[t].old = state
    PROVE  Word(NewState(t), Locked(state) \/ ~Starving(state), Woken(state) /\ ~loc[t].awoke,
                Starving(state) \/ (loc[t].starving /\ Locked(state)),
                IF Locked(state) \/ Starving(state) THEN Waiters(state) + 1 ELSE Waiters(state))
  <1>0. state \in Nat
    BY DEF MutexInv, MutexTypeOK
  <1>1. state \in Nat /\ Waiters(state) \in Nat
    BY <1>0, WordArithmetic
  <1>2. loc[t].awoke => Woken(state)
    BY DEF MutexInv, WokenInv, Awake
  <1> DEFINE s1 == IF Starving(state) THEN state ELSE Set(state, MUTEX_LOCKED, Locked(state))
             s2 == IF Locked(state) \/ Starving(state) THEN s1 + WAITER ELSE s1
             s3 == IF loc[t].starving /\ Locked(state) THEN Set(s2, MUTEX_STARVING, Starving(s2)) ELSE s2
             n == IF Locked(state) \/ Starving(state) THEN Waiters(state) + 1 ELSE Waiters(state)
  <1>3. NewState(t) = IF loc[t].awoke THEN s3 - MUTEX_WOKEN ELSE s3
    BY DEF NewState, Claimed
  <1>4. Word(s1, Locked(state) \/ ~Starving(state), Woken(state), Starving(state), Waiters(state))
    <2>1. ~Locked(state) => Word(state + MUTEX_LOCKED, TRUE, Woken(state), Starving(state), Waiters(state))
      BY <1>1, WordArithmetic
    <2> QED BY <1>1, <2>1 DEF Word, Set
  <1> HIDE DEF s1
  <1>5. Word(s2, Locked(state) \/ ~Starving(state), Woken(state), Starving(state), n)
    <2>1. Word(s1 + WAITER, Locked(s1), Woken(s1), Starving(s1), Waiters(s1) + 1)
      BY <1>4, WordArithmetic DEF Word
    <2> QED BY <1>4, <2>1 DEF Word
  <1> HIDE DEF s2, n
  <1>6. Word(s3, Locked(state) \/ ~Starving(state), Woken(state),
             Starving(state) \/ (loc[t].starving /\ Locked(state)), n)
    <2>1. ~Starving(s2) => Word(s2 + MUTEX_STARVING, Locked(s2), Woken(s2), TRUE, Waiters(s2))
      BY <1>5, WordArithmetic DEF Word
    <2> QED BY <1>5, <2>1 DEF Word, Set
  <1> HIDE DEF s3
  <1>7. Woken(s3) => Word(s3 - MUTEX_WOKEN, Locked(s3), FALSE, Starving(s3), Waiters(s3))
    BY <1>6, WordArithmetic DEF Word
  <1> QED BY <1>2, <1>3, <1>6, <1>7 DEF Word, n

\* The CAS of mutex_lock_slow.
LEMMA ClaimStep ==
    ASSUME MutexInv, NEW t \in Threads, TryClaim(t)
    PROVE  MutexInv'
  <1>1. mpc[t] = "loop" /\ loc[t] \in Locals /\ state \in Nat
    BY DEF TryClaim, MutexInv, MutexTypeOK
  <1>2. CASE state # loc[t].old
    BY <1>2, ReadingStep DEF TryClaim, MGoto, MutexInv, MutexTypeOK
  <1>3. CASE state = loc[t].old /\ ~Locked(state) /\ ~Starving(state)
    <2>1. /\ state' = NewState(t) /\ UNCHANGED semvars /\ NoLocals \in Locals
          /\ mpc' = [mpc EXCEPT ![t] = "crit"] /\ loc' = [loc EXCEPT ![t] = NoLocals]
      BY <1>3, MaxSpinAssumption DEF TryClaim, Leave, MGoto, NoLocals, Locals
    <2>2. Awake(t) <=> loc[t].awoke
      BY <1>1 DEF Awake
    <2>3. Word(state', TRUE, Woken(state) /\ ~Awake(t), FALSE, Waiters(state))
      BY <1>1, <1>3, <2>1, <2>2, ClaimWord DEF Word
    <2> QED BY <1>1, <1>3, <2>1, <2>3, TakeStep
  <1>4. CASE state = loc[t].old /\ (Locked(state) \/ Starving(state))
    <2> DEFINE r == [loc[t] EXCEPT !.timed = TRUE]
    <2>1. /\ state' = NewState(t) /\ AcquireCall(t, loc[t].timed) /\ loc[t].timed \in BOOLEAN
          /\ mpc' = [mpc EXCEPT ![t] = "wait"] /\ loc' = [loc EXCEPT ![t] = r] /\ r \in Locals
      BY <1>1, <1>4 DEF TryClaim, MGoto, Locals
    <2> HIDE DEF r
    <2>3. Word(state', Locked(state) \/ ~Starving(state), Woken(state) /\ ~loc[t].awoke,
               Starving(state) \/ (loc[t].starving /\ Locked(state)), Waiters(state) + 1)
      BY <1>1, <1>4, <2>1, ClaimWord DEF Word
    <2>4. (Locked(state) \/ ~Starving(state)) <=> Locked(state)
      BY <1>4
    <2>5. Word(state', Locked(state), Woken(state) /\ ~loc[t].awoke,
               Starving(state) \/ (loc[t].starving /\ Locked(state)), Waiters(state) + 1)
      BY <2>3, <2>4 DEF Word
    <2> QED BY <1>1, <1>4, <2>1, <2>5, SleepStep
  <1> QED BY <1>2, <1>3, <1>4

\* MutexInv holds initially.
LEMMA MutexInit == Init => MutexInv
  <1> SUFFICES ASSUME Init PROVE MutexInv
    OBVIOUS
  <1>1. Shape
    BY ShapeInit DEF Init
  <1>2. MutexTypeOK
    BY <1>1, MaxSpinAssumption DEF Init, Shape, MutexTypeOK, MutexPcs, Locals, NoLocals
  <1>3. Word(state, FALSE, FALSE, FALSE, 0) /\ value = 0
    BY WordArithmetic DEF Init, SemInit
  <1>4. \A t \in Threads : mpc[t] = "idle" /\ spc[t] = "idle" /\ ~Awake(t) /\ ~Flying(t) /\ ~Baton(t)
    BY DEF Init, SemInit, Awake, Flying, Baton
  <1>5. PcInv /\ BatonInv /\ WokenInv /\ StarvingInv /\ LockedInv /\ LocInv /\ WakingInv
    BY <1>3, <1>4 DEF PcInv, BatonInv, WokenInv, StarvingInv, LockedInv, LocInv, WakingInv, InAir, Word
  <1>6. CountInv
    <2>1. Waiting = {}  BY <1>4 DEF Waiting
    <2> QED BY <1>3, <1>4, <2>1, FS_EmptySet DEF CountInv, InAir, Word
  <1> QED BY <1>1, <1>2, <1>5, <1>6 DEF MutexInv

\* Every step of the mutex preserves MutexInv.
LEMMA MutexNext == MutexInv /\ [Next]_vars => MutexInv'
  <1> SUFFICES ASSUME MutexInv, [Next]_vars PROVE MutexInv'
    OBVIOUS
  <1>0. state \in Nat /\ loc \in [Threads -> Locals] /\ mpc \in [Threads -> MutexPcs]
    BY DEF MutexInv, MutexTypeOK
  <1>1. CASE UNCHANGED vars
    <2>1. UNCHANGED semvars /\ UNCHANGED <<state, mpc, loc>>
      BY <1>1 DEF vars, semvars
    <2>2. Shape'
      BY <2>1, ShapeUnchanged DEF MutexInv
    <2>3. MutexTypeOK' /\ PcInv' /\ LocInv'
      BY <2>1, <2>2 DEF MutexInv, MutexTypeOK, Shape, PcInv, LocInv, semvars
    <2>4. Quiet
      BY <2>1 DEF Quiet, Awake, Flying, semvars
    <2>5. BatonInv' /\ WokenInv' /\ StarvingInv' /\ LockedInv' /\ CountInv' /\ (SomeBaton' <=> SomeBaton)
      BY <2>4, QuietStep
    <2>6. WakingInv'
      BY <2>1, <2>5 DEF MutexInv, WakingInv, Waking
    <2> QED BY <2>2, <2>3, <2>5, <2>6 DEF MutexInv
  <1>2. ASSUME NEW t \in Threads, LockFast(t) PROVE MutexInv'
    <2>1. CASE state = 0
      <3>1. /\ mpc[t] = "idle" /\ state' = state + MUTEX_LOCKED /\ UNCHANGED semvars
            /\ mpc' = [mpc EXCEPT ![t] = "crit"] /\ loc' = [loc EXCEPT ![t] = loc[t]]
        BY <1>0, <1>2, <2>1 DEF LockFast, MGoto, MUTEX_LOCKED
      <3>2. ~Locked(state) /\ ~Starving(state) /\ ~Woken(state)
        BY <1>0, <2>1, WordArithmetic DEF Word
      <3>3. Word(state', TRUE, Woken(state) /\ ~Awake(t), FALSE, Waiters(state))
        BY <1>0, <3>1, <3>2, WordArithmetic DEF Word
      <3> QED BY <1>0, <3>1, <3>2, <3>3, TakeStep
    <2>2. CASE state # 0
      BY <1>2, <2>2, ReadingStep DEF LockFast
    <2> QED BY <2>1, <2>2
  <1>3. ASSUME NEW t \in Threads, Spin(t) PROVE MutexInv'
    <2> DEFINE o == loc[t].old
               tell == ~loc[t].awoke /\ ~Woken(o) /\ Waiters(o) # 0 /\ state = o
    <2>1. CASE tell
      <3> DEFINE r == [loc[t] EXCEPT !.iter = @ + 1, !.awoke = TRUE]
      <3>1. /\ mpc[t] = "loop" /\ Locked(state) /\ ~Starving(state) /\ ~Woken(state) /\ ~loc[t].awoke
            /\ loc[t].iter < MaxSpin /\ UNCHANGED semvars
            /\ state' = state + MUTEX_WOKEN
            /\ mpc' = [mpc EXCEPT ![t] = "reload"]
        BY <1>3, <2>1 DEF Spin, MGoto
      <3>2. r \in Locals /\ r.awoke /\ loc' = [loc EXCEPT ![t] = r]
        BY <1>0, <1>3, <2>1, <3>1, MaxSpinAssumption DEF Spin, Locals
      <3> HIDE DEF r, tell
      <3>3. Word(state', TRUE, TRUE, FALSE, Waiters(state))
        BY <1>0, <3>1, WordArithmetic DEF Word
      <3> QED BY <3>1, <3>2, <3>3, TellStep
    <2>2. CASE ~tell
      BY <1>3, <2>2, ReadingStep DEF Spin
    <2> QED BY <2>1, <2>2
  <1>4. ASSUME NEW t \in Threads, LockSlow(t) \/ Reload(t) \/ TryLock(t) \/ UnlockReload(t)
        PROVE  MutexInv'
    BY <1>4, ReadingStep DEF LockSlow, Reload, TryLock, UnlockReload
  <1>5. ASSUME NEW t \in Threads, TryLockCas(t) PROVE MutexInv'
    <2>1. CASE state = loc[t].old
      <3>1. /\ mpc[t] = "try" /\ state' = state + MUTEX_LOCKED /\ UNCHANGED semvars
            /\ mpc' = [mpc EXCEPT ![t] = "crit"] /\ loc' = [loc EXCEPT ![t] = NoLocals]
            /\ NoLocals \in Locals
        BY <1>5, <2>1, MaxSpinAssumption DEF TryLockCas, Leave, MGoto, NoLocals, Locals
      <3>2. ~Locked(state) /\ ~Starving(state) /\ ~Awake(t)
        BY <2>1, <3>1 DEF MutexInv, LocInv, Awake
      <3>3. Word(state', TRUE, Woken(state) /\ ~Awake(t), FALSE, Waiters(state))
        BY <1>0, <3>1, <3>2, WordArithmetic DEF Word
      <3> QED BY <3>1, <3>2, <3>3, TakeStep
    <2>2. CASE state # loc[t].old
      BY <1>0, <1>5, <2>2, ReadingStep DEF TryLockCas, Leave, MGoto
    <2> QED BY <2>1, <2>2
  <1>6. ASSUME NEW t \in Threads, UnlockSlow(t) PROVE MutexInv'
    <2>1. CASE mpc'[t] = "post"
      BY <1>6, <2>1, PostStep
    <2>2. CASE mpc'[t] # "post"
      <3>1. state' = state
        BY <1>0, <1>6, <2>2 DEF UnlockSlow, Leave, MGoto
      <3> QED BY <1>6, <2>2, <3>1, ReadingStep
    <2> QED BY <2>1, <2>2
  <1>7. ASSUME NEW t \in Threads,
               TryClaim(t) \/ Return(t) \/ FixUp(t) \/ Unlock(t) \/ UnlockReturn(t) \/ Sema(t)
        PROVE  MutexInv'
    BY <1>7, ClaimStep, ReturnStep, FixUpStep, UnlockStep, UnlockReturnStep, SemaStep
  <1> QED BY <1>1, <1>2, <1>3, <1>4, <1>5, <1>6, <1>7 DEF Next, Inside

----------------------------------------------------------------------------
(* What MutexInv gives.                                                    *)

\* Every variable of the mutex and of its semaphore keeps its type; in
\* particular no subtraction takes the word below 0.
THEOREM MutexTypeCorrect == Spec => []MutexTypeOK
  <1>1. MutexInv => MutexTypeOK  BY DEF MutexInv
  <1> QED BY <1>1, MutexInit, MutexNext, PTL DEF Spec

\* The waiter count of the word never exceeds the threads that are waiting.
THEOREM WaitersAreReal == Spec => []WaitersReal
  <1>1. MutexInv => WaitersReal
    <2> SUFFICES ASSUME MutexInv PROVE WaitersReal
      OBVIOUS
    <2>1. state \in Nat  BY DEF MutexInv, MutexTypeOK
    <2>2. Waiters(state) \in Nat  BY <2>1, WordArithmetic
    <2>3. Waiters(state) <= Cardinality(Waiting)
      BY <2>2 DEF MutexInv, CountInv
    <2> QED BY <2>3 DEF WaitersReal, Waiting
  <1> QED BY <1>1, MutexInit, MutexNext, PTL DEF Spec

\* Every step of the mutex preserves NoMissedWakeup of its semaphore.
LEMMA MutexMissedNext == MutexInv /\ NoMissedWakeup /\ [Next]_vars => NoMissedWakeup'
  <1> SUFFICES ASSUME MutexInv, NoMissedWakeup, [Next]_vars PROVE NoMissedWakeup'
    OBVIOUS
  <1>1. Shape  BY DEF MutexInv
  <1>2. CASE UNCHANGED vars
    <2>1. UNCHANGED semvars  BY <1>2 DEF vars, semvars
    <2> QED BY <2>1, MissedUnchanged
  <1>3. ASSUME NEW t \in Threads,
               \/ LockFast(t) \/ LockSlow(t) \/ Spin(t) \/ Reload(t) \/ TryLock(t) \/ TryLockCas(t)
               \/ FixUp(t) \/ UnlockReload(t)
        PROVE  NoMissedWakeup'
    <2>1. UNCHANGED semvars
      BY <1>3 DEF LockFast, LockSlow, Spin, Reload, TryLock, TryLockCas, FixUp, UnlockReload
    <2> QED BY <2>1, MissedUnchanged
  <1>4. ASSUME NEW t \in Threads, TryClaim(t) PROVE NoMissedWakeup'
    <2>1. loc[t].timed \in BOOLEAN  BY DEF MutexInv, MutexTypeOK, Locals
    <2>2. AcquireCall(t, loc[t].timed) \/ UNCHANGED semvars  BY <1>4 DEF TryClaim
    <2> QED BY <1>1, <2>1, <2>2, MissedCall
  <1>5. ASSUME NEW t \in Threads, Unlock(t) \/ UnlockSlow(t) PROVE NoMissedWakeup'
    <2>1. ReleaseCall(t, TRUE) \/ ReleaseCall(t, FALSE) \/ UNCHANGED semvars
      BY <1>5 DEF Unlock, UnlockSlow
    <2> QED BY <1>1, <2>1, MissedCall
  <1>6. ASSUME NEW t \in Threads, Return(t) \/ UnlockReturn(t) PROVE NoMissedWakeup'
    <2>1. SemReturn(t)  BY <1>6 DEF Return, UnlockReturn
    <2> QED BY <1>1, <2>1, MissedCall
  <1>7. ASSUME NEW t \in Threads, Sema(t) PROVE NoMissedWakeup'
    BY <1>1, <1>7, MissedStep DEF Sema
  <1> QED BY <1>2, <1>3, <1>4, <1>5, <1>6, <1>7 DEF Next, Inside

\* When every thread inside the mutex were asleep, the sleepers would be in
\* the queue, nobody would bear the baton and nobody would be unlocking: but
\* then the waiter count and WakingInv ask for an unlocker.
LEMMA SomebodyMoves == MutexInv /\ NoMissedWakeup => NobodyStranded
  <1> DEFINE Asleep(u) == spc[u] = "parked" /\ status[u] = "waiting"
  <1> SUFFICES ASSUME MutexInv, NoMissedWakeup, NEW t \in Threads, Asleep(t),
                      \A u \in Threads : mpc[u] = "idle" \/ Asleep(u)
               PROVE  FALSE
    BY DEF NobodyStranded
  <1>1. \A u \in Threads : (mpc[u] = "idle" /\ spc[u] = "idle") \/ (mpc[u] = "wait" /\ Asleep(u))
    BY DEF MutexInv, PcInv, ReleasePcs
  <1>2. \A u \in Threads : wt[u] = NoThread
    BY <1>1 DEF MutexInv, Shape, WtInv
  <1>3. \A u \in Threads : Asleep(u) => InQueue(u) /\ ticket[u] = 0
    BY <1>2, ThreadsAssumption DEF MutexInv, Shape, StatusInv, QueueInv
  <1>4. waiters # << >>
    BY <1>3 DEF InQueue
  <1>5. InFlight = {}
    BY <1>1, <1>2 DEF InFlight
  <1>6. value = 0
    BY <1>4, <1>5, FS_EmptySet DEF NoMissedWakeup, Sleepers, MutexInv, BatonInv
  <1>7. ~SomeBaton /\ ~InAir
    BY <1>1, <1>3, <1>6 DEF SomeBaton, InAir, Baton, Awake, Flying
  <1>8. Waiters(state) > 0
    <2>1. t \in Waiting  BY <1>1 DEF Waiting
    <2>2. Cardinality(Waiting) # 0  BY <2>1, WaitingFinite, FS_EmptySet
    <2>3. state \in Nat  BY DEF MutexInv, MutexTypeOK
    <2>4. Waiters(state) \in Nat  BY <2>3, WordArithmetic
    <2> QED BY <1>7, <2>2, <2>4 DEF MutexInv, CountInv
  <1>9. ~Locked(state)
    BY <1>1 DEF MutexInv, LockedInv
  <1>10. PICK u \in Threads : Waking(u)
    BY <1>7, <1>8, <1>9 DEF MutexInv, WakingInv
  <1> QED BY <1>1, <1>10 DEF Waking

\* Nobody sleeps on a mutex that no thread is going to unlock.
THEOREM NobodyIsStranded == Spec => []NobodyStranded
  <1>1. Init => NoMissedWakeup
    BY DEF Init, SemInit, NoMissedWakeup, Sleepers
  <1> QED BY <1>1, MutexInit, MutexNext, MutexMissedNext, SomebodyMoves, PTL DEF Spec

\* Each step of the mutex is a step of the abstract lock, or none.
LEMMA LockStep == MutexInv /\ [Next]_vars => [Abstract!LockNext]_(Abstract!lockVars)
  <1> DEFINE holder == {t \in Threads : mpc[t] = "crit"}
             asking == {t \in Threads : mpc[t] \in {"slow", "loop", "reload", "wait", "fixup", "try"}}
  <1> SUFFICES ASSUME MutexInv, [Next]_vars
               PROVE  Abstract!LockNext \/ (holder' = holder /\ asking' = asking)
    BY DEF Abstract!lockVars
  <1>0. mpc \in [Threads -> MutexPcs]
    BY DEF MutexInv, MutexTypeOK
  <1>1. ASSUME NEW t \in Threads, NEW l \in MutexPcs, mpc' = [mpc EXCEPT ![t] = l],
               l = "crit" => ~Locked(state) /\ mpc[t] # "crit",
               l \in {"slow", "loop", "reload", "wait", "fixup", "try"} => mpc[t] # "crit"
        PROVE  Abstract!LockNext \/ (holder' = holder /\ asking' = asking)
    <2>1. CASE l = "crit"
      <3>1. holder = {} /\ holder' = {t} /\ asking' = asking \ {t}
        BY <1>0, <1>1, <2>1 DEF MutexInv, LockedInv
      <3> QED BY <3>1 DEF Abstract!LockNext, Abstract!Take
    <2>2. CASE mpc[t] = "crit"
      <3>1. holder = {t} /\ holder' = {} /\ asking' = asking
        BY <1>0, <1>1, <2>2 DEF MutexInv, LockedInv, MutexPcs
      <3> QED BY <3>1 DEF Abstract!LockNext, Abstract!Give
    <2>3. CASE l # "crit" /\ mpc[t] # "crit"
      <3>1. holder' = holder /\ t \notin holder
        BY <1>0, <1>1, <2>3
      <3>2. CASE t \in asking /\ t \notin asking'
        <4>1. asking' = asking \ {t}  BY <1>0, <1>1, <3>2
        <4> QED BY <3>1, <3>2, <4>1 DEF Abstract!LockNext, Abstract!Refuse
      <3>3. CASE t \notin asking /\ t \in asking'
        <4>1. asking' = asking \cup {t}  BY <1>0, <1>1, <3>3
        <4> QED BY <3>1, <3>3, <4>1 DEF Abstract!LockNext, Abstract!Ask
      <3>4. CASE t \in asking <=> t \in asking'
        <4>1. asking' = asking  BY <1>0, <1>1, <3>4
        <4> QED BY <3>1, <4>1
      <3> QED BY <3>2, <3>3, <3>4
    <2> QED BY <2>1, <2>2, <2>3
  <1>2. CASE UNCHANGED vars
    BY <1>2 DEF vars
  <1>3. ASSUME NEW t \in Threads, Next, Sema(t) PROVE holder' = holder /\ asking' = asking
    BY <1>3 DEF Sema
  <1>4. ASSUME NEW t \in Threads, LockFast(t)
        PROVE  Abstract!LockNext \/ (holder' = holder /\ asking' = asking)
    <2>1. mpc[t] = "idle" /\ (state = 0 => ~Locked(state))
      BY <1>4 DEF LockFast, Locked
    <2> QED BY <1>1, <1>4, <2>1 DEF LockFast, MGoto, MutexPcs
  <1>5. ASSUME NEW t \in Threads,
               LockSlow(t) \/ Spin(t) \/ Reload(t) \/ TryLock(t) \/ UnlockReload(t) \/ UnlockReturn(t)
        PROVE  Abstract!LockNext \/ (holder' = holder /\ asking' = asking)
    BY <1>1, <1>5 DEF LockSlow, Spin, Reload, TryLock, UnlockReload, UnlockReturn, MGoto, MutexPcs
  <1>6. ASSUME NEW t \in Threads, TryClaim(t)
        PROVE  Abstract!LockNext \/ (holder' = holder /\ asking' = asking)
    BY <1>1, <1>6 DEF TryClaim, Leave, MGoto, MutexPcs
  <1>7. ASSUME NEW t \in Threads, Return(t)
        PROVE  Abstract!LockNext \/ (holder' = holder /\ asking' = asking)
    BY <1>1, <1>7 DEF Return, MGoto, MutexPcs
  <1>8. ASSUME NEW t \in Threads, FixUp(t)
        PROVE  Abstract!LockNext \/ (holder' = holder /\ asking' = asking)
    <2>1. mpc[t] = "fixup" /\ ~Locked(state)
      BY <1>8 DEF FixUp, MutexInv, StarvingInv
    <2> QED BY <1>1, <1>8, <2>1 DEF FixUp, Leave, MGoto, MutexPcs
  <1>9. ASSUME NEW t \in Threads, TryLockCas(t)
        PROVE  Abstract!LockNext \/ (holder' = holder /\ asking' = asking)
    <2>1. mpc[t] = "try" /\ (state = loc[t].old => ~Locked(state))
      BY <1>9 DEF TryLockCas, MutexInv, LocInv
    <2> QED BY <1>1, <1>9, <2>1 DEF TryLockCas, Leave, MGoto, MutexPcs
  <1>10. ASSUME NEW t \in Threads, Unlock(t) \/ UnlockSlow(t)
         PROVE  Abstract!LockNext \/ (holder' = holder /\ asking' = asking)
    BY <1>1, <1>10 DEF Unlock, UnlockSlow, Leave, MGoto, MutexPcs
  <1> QED BY <1>2, <1>3, <1>4, <1>5, <1>6, <1>7, <1>8, <1>9, <1>10 DEF Next, Inside

\* The mutex implements the abstract lock: through the fast path, spinning,
\* try_lock and the starvation hand-off one thread at a time holds it.
THEOREM MutexImplementsLock == Spec => ImplementsLock
  <1>1. Init => Abstract!LockInit
    BY DEF Init, Abstract!LockInit
  <1> QED BY <1>1, MutexInit, MutexNext, LockStep, PTL DEF Spec, ImplementsLock, Abstract!LockSpec

=============================================================================
