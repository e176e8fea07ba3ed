----------------------------- MODULE SyncProofs -----------------------------
(***************************************************************************)
(* Proofs about the wait group, the reader/writer mutex and the condition  *)
(* variable, for every number of threads, jobs and items, and for counters *)
(* of every width.                                                         *)
(***************************************************************************)
EXTENDS MCSync, FiniteSetTheorems, SequenceTheorems, TLAPS

\* The modules under the instances count sets with one and the same Cardinality.
LEMMA SameCardinality ==
    ASSUME NEW S
    PROVE  WG!Cardinality(S) = Cardinality(S) /\ RW!Cardinality(S) = Cardinality(S)
           /\ CV!Cardinality(S) = Cardinality(S)
BY Zenon DEF Cardinality, WG!Cardinality, RW!Cardinality, CV!Cardinality

----------------------------------------------------------------------------
(* The wait group                                                          *)

Sleeping == {t \in WG!Users : wpc[t] = "sleep"}

\* The thread that brought the counter to 0 with waiters registered, on its way
\* through the slow path of wait_group_add.
Slow(t) == wpc[t] \in {"sanity", "reset", "release"}

\* There is one such thread; while it is on its way the counter stays at 0, so
\* that nobody registers, and the word it read is still there until it resets it.
SlowInv ==
    /\ \A t, u \in WG!Users : Slow(t) /\ Slow(u) => t = u
    /\ \A t \in WG!Users : Slow(t) => state.v = 0 /\ loc[t].w > 0
    /\ \A t \in WG!Users : wpc[t] \in {"sanity", "reset"} => state = loc[t]
    /\ \A t \in WG!Users : wpc[t] = "release" => state.w = 0

\* A waiter compares the word with one in which the counter was not 0.
CasInv == \A t \in WG!Users : wpc[t] = "cas" => loc[t].v > 0

\* WaitersAccounted, with the thread in the loop named.
AccountInv ==
    /\ \A t \in WG!Users : wpc[t] = "release" => Cardinality(Sleeping) = state.w + sema + loc[t].w
    /\ (\A t \in WG!Users : wpc[t] # "release") => Cardinality(Sleeping) = state.w + sema

WGInv == WG!TypeOK /\ jobs = state.v /\ SlowInv /\ CasInv /\ AccountInv

LEMMA UsersFinite == IsFiniteSet(WG!Users)
BY SyncAssumption, FS_Union DEF WG!Users

LEMMA SleepingFinite == IsFiniteSet(Sleeping) /\ Cardinality(Sleeping) \in Nat
BY UsersFinite, FS_Subset, FS_CardinalityType DEF Sleeping

LEMMA WGInit == WG!Init => WGInv
<1> SUFFICES ASSUME WG!Init PROVE WGInv
  OBVIOUS
<1>1. Sleeping = {}
  BY DEF WG!Init, Sleeping
<1>2. Cardinality(Sleeping) = 0
  BY <1>1, FS_EmptySet, Zenon
<1> QED BY <1>2 DEF WG!Init, WG!Zero, WGInv, WG!TypeOK, SlowInv, Slow, CasInv, AccountInv

\* A step that leaves the sleepers, the word and the permits alone.
LEMMA WGQuiet ==
    ASSUME WGInv, NEW t \in WG!Users,
           WG!Sanity(t) \/ WG!WaitCall(t) \/ WG!WaitLoad(t) \/ WG!WaitReturn(t)
    PROVE  WGInv'
<1>1. Sleeping' = Sleeping
  BY DEF WGInv, WG!TypeOK, Sleeping, WG!Sanity, WG!WaitCall, WG!WaitLoad, WG!WaitReturn, WG!Goto
<1>2. WG!TypeOK'
  BY DEF WGInv, WG!TypeOK, WG!Sanity, WG!WaitCall, WG!WaitLoad, WG!WaitReturn, WG!Goto
<1>3. SlowInv' /\ CasInv' /\ (jobs = state.v)'
  BY DEF WGInv, WG!TypeOK, SlowInv, Slow, CasInv, WG!Sanity, WG!WaitCall, WG!WaitLoad, WG!WaitReturn, WG!Goto
<1>4. AccountInv'
  BY <1>1 DEF WGInv, WG!TypeOK, SlowInv, Slow, AccountInv, WG!Sanity, WG!WaitCall, WG!WaitLoad, WG!WaitReturn, WG!Goto
<1> QED BY <1>2, <1>3, <1>4 DEF WGInv

LEMMA WGAdd ==
    ASSUME WGInv, NEW t \in WG!Users, WG!Add(t) \/ WG!Done(t)
    PROVE  WGInv'
<1>1. Sleeping' = Sleeping
  BY DEF WGInv, WG!TypeOK, Sleeping, WG!Add, WG!Done, WG!Added, WG!Goto
<1>2. Sleeping # {} => ~(WG!Add(t) /\ state.v = 0)
  BY DEF Sleeping, WG!Add, WG!MayAdd, WG!InWait
<1>3. Sleeping = {} => Cardinality(Sleeping) = 0
  BY FS_EmptySet, Zenon
<1>4. (\E u \in WG!Users : Slow(u)) => WG!Done(t) /\ state.v > 0
  <2>1. ASSUME NEW u \in WG!Users, Slow(u) PROVE Cardinality(Sleeping) > 0
    BY <2>1 DEF WGInv, WG!TypeOK, SlowInv, Slow, AccountInv
  <2> QED BY <1>2, <1>3, <2>1 DEF WGInv, SlowInv, WG!Done, WG!TypeOK
<1>5. WG!TypeOK'
  BY DEF WGInv, WG!TypeOK, WG!Add, WG!Done, WG!Added, WG!Goto
<1>6. SlowInv' /\ CasInv' /\ (jobs = state.v)'
  BY <1>4 DEF WGInv, WG!TypeOK, SlowInv, Slow, CasInv, WG!Add, WG!Done, WG!Added, WG!Goto
<1>7. AccountInv'
  BY <1>1, <1>4 DEF WGInv, WG!TypeOK, SlowInv, Slow, AccountInv, WG!Add, WG!Done, WG!Added, WG!Goto
<1> QED BY <1>5, <1>6, <1>7 DEF WGInv

LEMMA WGReset ==
    ASSUME WGInv, NEW t \in WG!Users, WG!Reset(t)
    PROVE  WGInv'
<1>1. Sleeping' = Sleeping
  BY DEF WGInv, WG!TypeOK, Sleeping, WG!Reset, WG!Goto
<1>2. WG!TypeOK' /\ state' = [v |-> 0, w |-> 0]
  BY DEF WGInv, WG!TypeOK, WG!Reset, WG!Goto, WG!Zero
<1>3. SlowInv' /\ CasInv' /\ (jobs = state.v)'
  BY <1>2 DEF WGInv, WG!TypeOK, SlowInv, Slow, CasInv, WG!Reset, WG!Goto
<1>4. AccountInv'
  BY <1>1, <1>2 DEF WGInv, WG!TypeOK, SlowInv, Slow, AccountInv, WG!Reset, WG!Goto
<1> QED BY <1>2, <1>3, <1>4 DEF WGInv

LEMMA WGRelease ==
    ASSUME WGInv, NEW t \in WG!Users, WG!Release(t)
    PROVE  WGInv'
<1>1. Sleeping' = Sleeping
  BY DEF WGInv, WG!TypeOK, Sleeping, WG!Release, WG!Goto
<1>2. WG!TypeOK' /\ loc' = [loc EXCEPT ![t].w = loc[t].w - 1]
  BY DEF WGInv, WG!TypeOK, SlowInv, Slow, WG!Release, WG!Goto
<1>3. SlowInv' /\ CasInv' /\ (jobs = state.v)'
  BY <1>2 DEF WGInv, WG!TypeOK, SlowInv, Slow, CasInv, WG!Release, WG!Goto
<1>4. Cardinality(Sleeping) = state.w + sema + loc[t].w
  BY DEF WGInv, AccountInv, WG!Release
<1>5. \A u \in WG!Users : u # t => wpc'[u] # "release"
  BY DEF WGInv, WG!TypeOK, SlowInv, Slow, WG!Release, WG!Goto
<1>6. AccountInv'
  <2>1. state' = state /\ sema' = sema + 1 /\ loc'[t].w = loc[t].w - 1
    BY <1>2 DEF WGInv, WG!TypeOK, WG!Release
  <2>2. Cardinality(Sleeping') = state'.w + sema' + loc'[t].w
    BY <1>1, <1>4, <2>1 DEF WGInv, WG!TypeOK
  <2>3. wpc'[t] # "release" => loc'[t].w = 0
    BY <2>1 DEF WGInv, WG!TypeOK, WG!Release, WG!Goto
  <2> QED BY <1>2, <1>5, <2>2, <2>3 DEF AccountInv, WG!TypeOK
<1> QED BY <1>2, <1>3, <1>6 DEF WGInv

\* A waiter registers: it is one more in the word and one more asleep.
LEMMA WGWaitCas ==
    ASSUME WGInv, NEW t \in WG!Users, WG!WaitCas(t)
    PROVE  WGInv'
<1>1. WG!TypeOK'
  BY DEF WGInv, WG!TypeOK, WG!WaitCas, WG!Goto, WG!Zero
<1>2. CASE state = loc[t]
  <2>1. Sleeping' = Sleeping \cup {t} /\ t \notin Sleeping
    BY <1>2 DEF WGInv, WG!TypeOK, Sleeping, WG!WaitCas, WG!Goto
  <2>2. Cardinality(Sleeping') = Cardinality(Sleeping) + 1
    BY <2>1, SleepingFinite, FS_AddElement, Zenon
  <2>3. \A u \in WG!Users : ~Slow(u)
    BY <1>2 DEF WGInv, SlowInv, CasInv, WG!WaitCas, WG!TypeOK
  <2>4. SlowInv' /\ CasInv' /\ (jobs = state.v)'
    BY <1>2, <2>3 DEF WGInv, WG!TypeOK, SlowInv, Slow, CasInv, WG!WaitCas, WG!Goto
  <2>5. AccountInv'
    BY <1>2, <2>2, <2>3, SleepingFinite DEF WGInv, WG!TypeOK, Slow, AccountInv, WG!WaitCas, WG!Goto
  <2> QED BY <1>1, <2>4, <2>5 DEF WGInv
<1>3. CASE state # loc[t]
  <2>1. Sleeping' = Sleeping
    BY <1>3 DEF WGInv, WG!TypeOK, Sleeping, WG!WaitCas, WG!Goto
  <2>2. SlowInv' /\ CasInv' /\ (jobs = state.v)'
    BY <1>3 DEF WGInv, WG!TypeOK, SlowInv, Slow, CasInv, WG!WaitCas, WG!Goto
  <2>3. AccountInv'
    BY <1>3, <2>1 DEF WGInv, WG!TypeOK, SlowInv, Slow, AccountInv, WG!WaitCas, WG!Goto
  <2> QED BY <1>1, <2>2, <2>3 DEF WGInv
<1> QED BY <1>2, <1>3

LEMMA WGWaitAcquired ==
    ASSUME WGInv, NEW t \in WG!Users, WG!WaitAcquired(t)
    PROVE  WGInv'
<1>1. Sleeping' = Sleeping \ {t} /\ t \in Sleeping
  BY DEF WGInv, WG!TypeOK, Sleeping, WG!WaitAcquired, WG!Goto
<1>2. Cardinality(Sleeping') = Cardinality(Sleeping) - 1
  BY <1>1, SleepingFinite, FS_RemoveElement, Zenon
<1>3. WG!TypeOK'
  BY DEF WGInv, WG!TypeOK, WG!WaitAcquired, WG!Goto
<1>4. SlowInv' /\ CasInv' /\ (jobs = state.v)'
  BY DEF WGInv, WG!TypeOK, SlowInv, Slow, CasInv, WG!WaitAcquired, WG!Goto
<1>5. AccountInv'
  BY <1>2, SleepingFinite DEF WGInv, WG!TypeOK, SlowInv, Slow, AccountInv, WG!WaitAcquired, WG!Goto
<1> QED BY <1>3, <1>4, <1>5 DEF WGInv

LEMMA WGNext == WGInv /\ WG!Next => WGInv'
<1> SUFFICES ASSUME WGInv, WG!Next PROVE WGInv'
  OBVIOUS
<1>1. ASSUME NEW t \in Workers, WG!Add(t) \/ WG!Done(t) PROVE WGInv'
  BY <1>1, WGAdd DEF WG!Users
<1>2. ASSUME NEW t \in Waiters, WG!WaitCall(t) PROVE WGInv'
  BY <1>2, WGQuiet DEF WG!Users
<1>3. ASSUME NEW t \in WG!Users, WG!Inside(t) PROVE WGInv'
  BY <1>3, WGQuiet, WGReset, WGRelease, WGWaitCas, WGWaitAcquired DEF WG!Inside
<1> QED BY <1>1, <1>2, <1>3 DEF WG!Next

LEMMA WGFrame == WGInv /\ UNCHANGED wgVars => WGInv'
<1> SUFFICES ASSUME WGInv, UNCHANGED wgVars PROVE WGInv'
  OBVIOUS
<1>1. UNCHANGED <<state, sema, jobs, wpc, loc>>
  BY DEF wgVars
<1>2. Sleeping' = Sleeping
  BY <1>1 DEF Sleeping
<1> QED BY <1>1, <1>2 DEF WGInv, WG!TypeOK, SlowInv, Slow, CasInv, AccountInv

LEMMA WGAccounted == WGInv => WaitersAccounted
<1> SUFFICES ASSUME WGInv PROVE WaitersAccounted
  OBVIOUS
<1>1. CASE WG!Releasing = {}
  <2>1. Cardinality(Sleeping) = state.w + sema
    BY <1>1 DEF WGInv, AccountInv, WG!Releasing
  <2> QED BY <1>1, <2>1, SameCardinality DEF WaitersAccounted, WG!WaitersAccounted, Sleeping, WGInv, WG!TypeOK
<1>2. CASE WG!Releasing # {}
  <2>1. PICK t \in WG!Users : wpc[t] = "release" /\ WG!Releasing = {t}
    BY <1>2 DEF WG!Releasing, WGInv, SlowInv, Slow
  <2>2. (CHOOSE u \in WG!Releasing : TRUE) = t
    BY <2>1
  <2>3. Cardinality(Sleeping) = state.w + sema + loc[t].w
    BY <2>1 DEF WGInv, AccountInv
  <2> QED BY <1>2, <2>2, <2>3, SameCardinality DEF WaitersAccounted, WG!WaitersAccounted, Sleeping
<1> QED BY <1>1, <1>2

\* Every registered waiter of a wait group is counted once: in the word, in the
\* loop of the thread that brought the counter to 0, or by a permit.
THEOREM WaitersStayAccounted == Spec => []WaitersAccounted
<1>1. Init => WGInv
  BY WGInit DEF Init
<1>2. WGInv /\ [Next]_vars => WGInv'
  BY WGNext, WGFrame DEF Next, RWStep, WGStep, CVStep, vars
<1> QED BY <1>1, <1>2, WGAccounted, PTL DEF Spec

----------------------------------------------------------------------------
(* The reader/writer mutex                                                 *)

Readers == {t \in Threads : pc[t] \in {"reading", "rwait"}}

\* The thread inside rwmutex_lock or rwmutex_unlock has the writers' mutex.
OwnerInv ==
    \A t \in Threads : pc[t] \in {"announce", "await", "wwait", "writing", "unblock"} => mutex = t

CountInv ==
    /\ (\E t \in Threads : pc[t] \in RW!WriterPcs) => readerCount = Cardinality(Readers) - MaxReaders
    /\ (\A t \in Threads : pc[t] \notin RW!WriterPcs) => readerCount = Cardinality(Readers)

RWPcs == {"idle", "rwait", "reading", "runlock_slow", "announce", "await", "wwait", "writing", "unblock"}

RWInv == pc \in [Threads -> RWPcs] /\ OwnerInv /\ CountInv

\* The counter never wraps: there are less threads than RWMUTEX_MAX_READERS.
LEMMA ReadersFew ==
    IsFiniteSet(Readers) /\ Cardinality(Readers) \in Nat /\ Cardinality(Readers) < MaxReaders
<1>1. IsFiniteSet(Readers) /\ Cardinality(Readers) <= Cardinality(Threads)
  BY SyncAssumption, FS_Subset DEF Readers
<1> QED BY <1>1, SyncAssumption, FS_CardinalityType

LEMMA NoWrap ==
    ASSUME NEW x \in Int, -2 * MaxReaders <= x, x < 2 * MaxReaders
    PROVE  RW!Int32(x) = x
BY SyncAssumption DEF RW!Int32

LEMMA RWInit == RW!Init => RWInv
<1> SUFFICES ASSUME RW!Init PROVE RWInv
  OBVIOUS
<1>1. Readers = {}
  BY DEF RW!Init, Readers
<1>2. Cardinality(Readers) = 0
  BY <1>1, FS_EmptySet, Zenon
<1> QED BY <1>2 DEF RW!Init, RWInv, RWPcs, OwnerInv, CountInv, RW!WriterPcs

\* A step of one thread from a label to another.
LEMMA RWMove ==
    ASSUME RWInv, NEW t \in Threads, NEW l \in RWPcs, pc' = [pc EXCEPT ![t] = l]
    PROVE  /\ pc' \in [Threads -> RWPcs]
           /\ pc[t] \notin {"reading", "rwait"} /\ l \in {"reading", "rwait"}
                => Cardinality(Readers') = Cardinality(Readers) + 1
           /\ pc[t] \in {"reading", "rwait"} /\ l \notin {"reading", "rwait"}
                => Cardinality(Readers') = Cardinality(Readers) - 1
           /\ (pc[t] \in {"reading", "rwait"} <=> l \in {"reading", "rwait"})
                => Cardinality(Readers') = Cardinality(Readers)
<1>1. pc' \in [Threads -> RWPcs]
  BY DEF RWInv
<1>2. ASSUME pc[t] \notin {"reading", "rwait"}, l \in {"reading", "rwait"}
      PROVE  Cardinality(Readers') = Cardinality(Readers) + 1
  <2>1. Readers' = Readers \cup {t} /\ t \notin Readers
    BY <1>2 DEF RWInv, Readers
  <2> QED BY <2>1, ReadersFew, FS_AddElement, Zenon
<1>3. ASSUME pc[t] \in {"reading", "rwait"}, l \notin {"reading", "rwait"}
      PROVE  Cardinality(Readers') = Cardinality(Readers) - 1
  <2>1. Readers' = Readers \ {t} /\ t \in Readers
    BY <1>3 DEF RWInv, Readers
  <2> QED BY <2>1, ReadersFew, FS_RemoveElement, Zenon
<1>4. ASSUME pc[t] \in {"reading", "rwait"} <=> l \in {"reading", "rwait"}
      PROVE  Cardinality(Readers') = Cardinality(Readers)
  <2>1. Readers' = Readers
    BY <1>4 DEF RWInv, Readers
  <2> QED BY <2>1, Zenon
<1> QED BY <1>1, <1>2, <1>3, <1>4

LEMMA RWNext == RWInv /\ RW!Next => RWInv'
<1> SUFFICES ASSUME RWInv, NEW t \in Threads, RW!Reader(t) \/ RW!Writer(t) \/ RW!SemAcquired(t)
             PROVE  RWInv'
  BY DEF RW!Next
<1> DEFINE Few == Cardinality(Readers) \in Nat /\ Cardinality(Readers) < MaxReaders /\ MaxReaders \in Nat
<1>0. Few
  BY ReadersFew, SyncAssumption
<1> USE DEF RWInv, OwnerInv, CountInv, RW!WriterPcs, RW!Goto
<1>1. CASE RW!RLock(t)
  <2>1. readerCount' = readerCount + 1
    BY <1>0, <1>1, NoWrap DEF RW!RLock
  <2>2. PICK l \in {"reading", "rwait"} : pc' = [pc EXCEPT ![t] = l]
    BY <1>1 DEF RW!RLock
  <2>3. Cardinality(Readers') = Cardinality(Readers) + 1 /\ pc' \in [Threads -> RWPcs]
    BY <1>1, <2>2, RWMove DEF RW!RLock, RWPcs
  <2> QED BY <1>0, <1>1, <2>1, <2>2, <2>3 DEF RW!RLock
<1>2. CASE RW!RUnlock(t)
  <2>1. readerCount' = readerCount - 1
    BY <1>0, <1>2, NoWrap DEF RW!RUnlock
  <2>2. PICK l \in {"runlock_slow", "idle"} : pc' = [pc EXCEPT ![t] = l]
    BY <1>2 DEF RW!RUnlock
  <2>3. Cardinality(Readers') = Cardinality(Readers) - 1 /\ pc' \in [Threads -> RWPcs]
    BY <1>2, <2>2, RWMove DEF RW!RUnlock, RWPcs
  <2> QED BY <1>0, <1>2, <2>1, <2>2, <2>3 DEF RW!RUnlock
<1>3. CASE RW!RUnlockSlow(t)
  <2>1. Cardinality(Readers') = Cardinality(Readers) /\ pc' \in [Threads -> RWPcs]
    BY <1>3, RWMove DEF RW!RUnlockSlow, RWPcs
  <2> QED BY <1>3, <2>1 DEF RW!RUnlockSlow
<1>4. CASE RW!LockWriters(t)
  <2>1. Cardinality(Readers') = Cardinality(Readers) /\ pc' \in [Threads -> RWPcs]
    BY <1>4, RWMove DEF RW!LockWriters, RWPcs
  <2> QED BY <1>4, <2>1, SyncAssumption DEF RW!LockWriters
<1>5. CASE RW!Announce(t)
  <2>1. \A u \in Threads : pc[u] \notin RW!WriterPcs
    BY <1>5 DEF RW!Announce
  <2>2. readerCount' = readerCount - MaxReaders
    BY <1>0, <1>5, <2>1, NoWrap DEF RW!Announce
  <2>3. PICK l \in {"await", "writing"} : pc' = [pc EXCEPT ![t] = l]
    BY <1>5 DEF RW!Announce
  <2>4. Cardinality(Readers') = Cardinality(Readers) /\ pc' \in [Threads -> RWPcs]
    BY <1>5, <2>3, RWMove DEF RW!Announce, RWPcs
  <2> QED BY <1>0, <1>5, <2>1, <2>2, <2>3, <2>4 DEF RW!Announce
<1>6. CASE RW!AwaitReaders(t)
  <2>1. PICK l \in {"wwait", "writing"} : pc' = [pc EXCEPT ![t] = l]
    BY <1>6 DEF RW!AwaitReaders
  <2>2. Cardinality(Readers') = Cardinality(Readers) /\ pc' \in [Threads -> RWPcs]
    BY <1>6, <2>1, RWMove DEF RW!AwaitReaders, RWPcs
  <2> QED BY <1>6, <2>1, <2>2 DEF RW!AwaitReaders
<1>7. CASE RW!Unlock(t)
  <2>1. \A u \in Threads : u # t => pc[u] \notin RW!WriterPcs
    BY <1>7 DEF RW!Unlock
  <2>2. readerCount' = readerCount + MaxReaders
    BY <1>0, <1>7, NoWrap DEF RW!Unlock
  <2>3. Cardinality(Readers') = Cardinality(Readers) /\ pc' \in [Threads -> RWPcs]
    BY <1>7, RWMove DEF RW!Unlock, RWPcs
  <2> QED BY <1>0, <1>7, <2>1, <2>2, <2>3 DEF RW!Unlock
<1>8. CASE RW!Unblock(t)
  <2>1. Cardinality(Readers') = Cardinality(Readers) /\ pc' \in [Threads -> RWPcs]
    BY <1>8, RWMove DEF RW!Unblock, RWPcs
  <2> QED BY <1>8, <2>1 DEF RW!Unblock
<1>9. CASE RW!SemAcquired(t)
  <2>1. PICK l \in {"reading", "writing"} :
           /\ pc' = [pc EXCEPT ![t] = l]
           /\ (pc[t] = "rwait" /\ l = "reading") \/ (pc[t] = "wwait" /\ l = "writing")
    BY <1>9 DEF RW!SemAcquired
  <2>2. Cardinality(Readers') = Cardinality(Readers) /\ pc' \in [Threads -> RWPcs]
    BY <1>9, <2>1, RWMove DEF RWPcs
  <2> QED BY <1>9, <2>1, <2>2 DEF RW!SemAcquired
<1> QED BY <1>1, <1>2, <1>3, <1>4, <1>5, <1>6, <1>7, <1>8, <1>9 DEF RW!Reader, RW!Writer

LEMMA RWExact == RWInv => ReaderCountExact
<1> SUFFICES ASSUME RWInv PROVE ReaderCountExact
  OBVIOUS
<1>1. RW!Cardinality({t \in Threads : pc[t] \in {"reading", "rwait"}}) = Cardinality(Readers)
  BY SameCardinality DEF Readers
<1>2. Cardinality(Readers) \in Nat
  BY ReadersFew
<1>3. CASE \E t \in Threads : pc[t] \in RW!WriterPcs
  BY <1>1, <1>2, <1>3 DEF RWInv, CountInv, ReaderCountExact, RW!ReaderCountExact
<1>4. CASE \A t \in Threads : pc[t] \notin RW!WriterPcs
  BY <1>1, <1>2, <1>4 DEF RWInv, CountInv, ReaderCountExact, RW!ReaderCountExact
<1> QED BY <1>3, <1>4

\* reader_count is the number of readers inside or waiting, less MAX_READERS
\* while a writer is announced, however readers and writers interleave.
THEOREM ReaderCountStaysExact == Spec => []ReaderCountExact
<1> DEFINE Inv == RWInv /\ (object # "rwmutex" => \A t \in Threads : pc[t] = "idle")
<1>1. Init => Inv
  BY RWInit DEF Init, RW!Init
<1>2. Inv /\ [Next]_vars => Inv'
  <2> SUFFICES ASSUME Inv, [Next]_vars PROVE Inv'
    OBVIOUS
  <2>1. CASE RWStep
    BY <2>1, RWNext DEF RWStep
  <2>2. ASSUME UNCHANGED <<object, rwVars>>, UNCHANGED mutex \/ object # "rwmutex" PROVE Inv'
    <3>1. UNCHANGED <<object, pc, readerCount>>
      BY <2>2 DEF rwVars
    <3>2. Readers' = Readers
      BY <3>1 DEF Readers
    <3> QED BY <2>2, <3>1, <3>2 DEF RWInv, OwnerInv, CountInv
  <2> QED BY <2>1, <2>2 DEF Next, WGStep, CVStep, vars
<1>3. Inv => ReaderCountExact
  BY RWExact
<1> QED BY <1>1, <1>2, <1>3, PTL DEF Spec

----------------------------------------------------------------------------
(* The condition variable                                                  *)

NPcs == {"idle", "added", "w_lock", "w_check", "w_park", "parked", "one_fast", "all_fast",
         "one_lock", "all_lock", "one", "all", "unlock", "ready"}

CPcs == {"idle", "c_lock", "c_test", "c_unlock", "p_lock", "p_put", "p_signal", "p_return"}

Tickets == 0..(CV!Modulus - 1)

InList(u) == \E i \in 1..Len(list) : list[i] = u

InWake(p, u) == \E i \in 1..Len(wake[p]) : wake[p][i] = u

CVType ==
    /\ wait \in Tickets /\ notify \in Tickets
    /\ list \in Seq(Threads) /\ wake \in [Threads -> Seq(Threads)]
    /\ ticket \in [Threads -> Tickets] /\ seen \in [Threads -> Tickets]
    /\ npc \in [Threads -> NPcs] /\ cpc \in [Threads -> CPcs]
    /\ items \in Nat

\* The lock of the list has one holder, and where a thread is in notify_list.c
\* follows from what it is doing.
CVPlace ==
    /\ \A t \in Threads : npc[t] \in {"w_check", "w_park", "one", "all", "unlock"} => llock = t
    /\ \A t \in Threads : npc[t] = "added" <=> cpc[t] = "c_unlock"
    /\ \A t \in Threads : npc[t] \in {"w_lock", "w_check", "w_park", "parked"} => cpc[t] = "c_lock"
    /\ \A t \in Threads : npc[t] \in {"one_fast", "all_fast", "one_lock", "all_lock", "one", "all", "ready"}
                             => cpc[t] = "p_return"
    /\ \A t \in Threads : npc[t] = "unlock" => cpc[t] \in {"c_lock", "p_return"}

\* A thread in the list is there once, on its way to sleep or asleep.
CVList ==
    /\ \A i, j \in 1..Len(list) : list[i] = list[j] => i = j
    /\ \A u \in Threads : InList(u) => npc[u] \in {"w_park", "parked"} /\ (npc[u] = "parked" => u \in asleep)
    /\ \A u \in Threads : npc[u] = "w_park" => InList(u)

\* A thread that a notifier has taken out of the list sleeps until that notifier
\* readies it.
CVWake ==
    /\ \A p, u \in Threads : InWake(p, u) => npc[u] = "parked" /\ u \in asleep /\ ~InList(u)
    /\ \A p, q \in Threads : \A i \in 1..Len(wake[p]), j \in 1..Len(wake[q]) :
          wake[p][i] = wake[q][j] => p = q /\ i = j
    /\ \A p \in Threads : wake[p] # << >> => npc[p] \in {"unlock", "ready"} /\ cpc[p] = "p_return"
    /\ \A p \in Threads : npc[p] = "ready" => wake[p] # << >>

\* Between drawing the ticket and the test in notify_list_wait.
Undecided(u) == npc[u] \in {"added", "w_lock", "w_check"}

Unnotified == {u \in Threads : InList(u) \/ (Undecided(u) /\ ~CV!less(ticket[u], notify))}

\* How far one value of a counter is ahead of another.
Gap(a, b) == (a - b) % CV!Modulus

Ahead(u) == Gap(ticket[u], notify)
Distance == Gap(wait, notify)

\* The tickets still to be notified are the numbers from notify up to wait, each
\* drawn by one thread.
CVTickets ==
    /\ Distance = Cardinality(Unnotified)
    /\ \A u \in Unnotified : Ahead(u) < Distance
    /\ \A u, v \in Unnotified : ticket[u] = ticket[v] => u = v
    /\ \A k \in 0..(Distance - 1) : \E u \in Unnotified : Ahead(u) = k

CVShape == CVType /\ CVPlace /\ CVList /\ CVWake /\ CVTickets

\* A consumer that will look at the buffer, or a producer that will notify: it
\* has not yet loaded wait, or it has and nobody has drawn a ticket since, or it
\* has seen that there is somebody to notify.
Active ==
    {t \in Threads :
        \/ cpc[t] = "c_test"
        \/ cpc[t] \in {"c_lock", "c_unlock"} /\ t \notin Unnotified
        \/ cpc[t] = "p_signal"
        \/ npc[t] \in {"one_fast", "all_fast"} /\ seen[t] = wait
        \/ npc[t] \in {"one_lock", "all_lock", "one", "all"}}

\* While somebody waits un-notified there is one of these for every item.
CVSignal == Unnotified # {} => Cardinality(Active) >= items

LEMMA HalfPositive == Half \in Nat /\ Half > 0 /\ CV!Modulus = 2 * Half
BY SyncAssumption, FS_CardinalityType DEF CV!Modulus

LEMMA GapValue ==
    ASSUME NEW a \in Tickets, NEW b \in Tickets
    PROVE  /\ Gap(a, b) \in Tickets
           /\ a >= b => Gap(a, b) = a - b
           /\ a < b => Gap(a, b) = a - b + 2 * Half
           /\ CV!less(a, b) <=> Gap(a, b) >= Half
BY HalfPositive DEF Gap, Tickets, CV!less

LEMMA IncValue ==
    ASSUME NEW a \in Tickets
    PROVE  /\ CV!Inc(a) \in Tickets
           /\ a = 2 * Half - 1 => CV!Inc(a) = 0
           /\ a # 2 * Half - 1 => CV!Inc(a) = a + 1
BY HalfPositive DEF Tickets, CV!Inc

LEMMA GapSteps ==
    ASSUME NEW a \in Tickets, NEW b \in Tickets
    PROVE  /\ Gap(a, b) = 0 <=> a = b
           /\ a # b => Gap(a, CV!Inc(b)) = Gap(a, b) - 1
           /\ Gap(b, CV!Inc(b)) = 2 * Half - 1
           /\ Gap(a, b) + 1 < 2 * Half => Gap(CV!Inc(a), b) = Gap(a, b) + 1
           /\ \A c \in Tickets : Gap(a, b) = Gap(c, b) => a = c
           /\ \A c \in Tickets : Gap(c, b) > Gap(a, b) => Gap(a, c) = Gap(a, b) - Gap(c, b) + 2 * Half
           /\ \A c \in Tickets : Gap(c, b) <= Gap(a, b) => Gap(a, c) = Gap(a, b) - Gap(c, b)
           /\ a # b => Gap(b, a) = 2 * Half - Gap(a, b)
<1> DEFINE Value(x, y) == IF x >= y THEN x - y ELSE x - y + 2 * Half
           Next1(x) == IF x = 2 * Half - 1 THEN 0 ELSE x + 1
<1>1. Half \in Nat /\ Half > 0 /\ Tickets = 0..(2 * Half - 1)
  BY HalfPositive DEF Tickets
<1>2. ASSUME NEW x \in Tickets, NEW y \in Tickets PROVE Gap(x, y) = Value(x, y)
  BY <1>1, HalfPositive DEF Gap
<1>3. ASSUME NEW x \in Tickets PROVE CV!Inc(x) = Next1(x) /\ CV!Inc(x) \in Tickets
  BY IncValue
<1>4. Gap(a, b) = Value(a, b) /\ Gap(b, a) = Value(b, a)
  BY <1>2
<1>5. /\ Gap(a, CV!Inc(b)) = Value(a, Next1(b)) /\ Gap(b, CV!Inc(b)) = Value(b, Next1(b))
      /\ Gap(CV!Inc(a), b) = Value(Next1(a), b)
  BY <1>2, <1>3
<1>6. /\ Gap(a, b) = 0 <=> a = b
      /\ a # b => Gap(a, CV!Inc(b)) = Gap(a, b) - 1
      /\ Gap(b, CV!Inc(b)) = 2 * Half - 1
      /\ Gap(a, b) + 1 < 2 * Half => Gap(CV!Inc(a), b) = Gap(a, b) + 1
      /\ a # b => Gap(b, a) = 2 * Half - Gap(a, b)
  BY <1>1, <1>4, <1>5
<1>7. ASSUME NEW c \in Tickets
      PROVE  /\ Gap(a, b) = Gap(c, b) => a = c
             /\ Gap(c, b) > Gap(a, b) => Gap(a, c) = Gap(a, b) - Gap(c, b) + 2 * Half
             /\ Gap(c, b) <= Gap(a, b) => Gap(a, c) = Gap(a, b) - Gap(c, b)
  <2>1. Gap(c, b) = Value(c, b) /\ Gap(a, c) = Value(a, c)
    BY <1>2
  <2> QED BY <1>1, <1>4, <2>1
<1> QED BY <1>6, <1>7

\* What the operations on the list do to its elements.
LEMMA AppendElements ==
    ASSUME NEW S, NEW q \in Seq(S), NEW e \in S
    PROVE  /\ Append(q, e) \in Seq(S) /\ Len(Append(q, e)) = Len(q) + 1 /\ Len(q) \in Nat
           /\ \A i \in 1..Len(q) : Append(q, e)[i] = q[i]
           /\ Append(q, e)[Len(q) + 1] = e
OBVIOUS

LEMMA TailElements ==
    ASSUME NEW S, NEW q \in Seq(S), q # << >>
    PROVE  /\ Tail(q) \in Seq(S) /\ Len(Tail(q)) = Len(q) - 1 /\ Len(q) \in Nat /\ Len(q) > 0
           /\ \A i \in 1..(Len(q) - 1) : Tail(q)[i] = q[i + 1]
           /\ Tail(q) = << >> <=> Len(q) = 1
<1>1. Tail(q) \in Seq(S) /\ Len(Tail(q)) = Len(q) - 1 /\ Len(q) \in Nat /\ Len(q) > 0
  BY HeadTailProperties, EmptySeq
<1>2. \A i \in 1..(Len(q) - 1) : Tail(q)[i] = q[i + 1]
  BY <1>1, HeadTailProperties
<1>3. Tail(q) = << >> => Len(q) = 1
  BY <1>1, EmptySeq
<1>4. Len(q) = 1 => Tail(q) = << >>
  <2>1. Len(q) = 1 => Len(Tail(q)) = 0
    BY <1>1
  <2> QED BY <1>1, <2>1, EmptySeq, Zenon
<1> QED BY <1>1, <1>2, <1>3, <1>4

LEMMA RemoveElements ==
    ASSUME NEW S, NEW q \in Seq(S), NEW k \in 1..Len(q)
    PROVE  /\ CV!RemoveAt(q, k) \in Seq(S) /\ Len(CV!RemoveAt(q, k)) = Len(q) - 1 /\ Len(q) \in Nat
           /\ \A i \in 1..(Len(q) - 1) : CV!RemoveAt(q, k)[i] = IF i < k THEN q[i] ELSE q[i + 1]
<1> DEFINE a == SubSeq(q, 1, k - 1)
           b == SubSeq(q, k + 1, Len(q))
<1>1. Len(q) \in Nat /\ k \in Int /\ 1 <= k /\ k <= Len(q) /\ \A i \in 1..Len(q) : q[i] \in S
  OBVIOUS
<1>2. a \in Seq(S) /\ Len(a) = k - 1 /\ \A i \in 1..(k - 1) : a[i] = q[i]
  BY <1>1, SubSeqProperties
<1>3. b \in Seq(S) /\ Len(b) = Len(q) - k /\ \A i \in 1..(Len(q) - k) : b[i] = q[k + i]
  BY <1>1, SubSeqProperties
<1> HIDE DEF a, b
<1>4. /\ a \o b \in Seq(S) /\ Len(a \o b) = Len(q) - 1
      /\ \A i \in 1..(Len(q) - 1) : (a \o b)[i] = IF i <= k - 1 THEN a[i] ELSE b[i - (k - 1)]
  BY <1>1, <1>2, <1>3, ConcatProperties
<1>5. ASSUME NEW i \in 1..(Len(q) - 1) PROVE (a \o b)[i] = IF i < k THEN q[i] ELSE q[i + 1]
  <2>1. CASE i < k
    BY <1>1, <1>2, <1>4, <2>1
  <2>2. CASE ~(i < k)
    <3>1. i - (k - 1) \in 1..(Len(q) - k) /\ k + (i - (k - 1)) = i + 1
      BY <1>1, <2>2
    <3> QED BY <1>1, <1>3, <1>4, <2>2, <3>1
  <2> QED BY <2>1, <2>2
<1> QED BY <1>1, <1>4, <1>5 DEF CV!RemoveAt, a, b

LEMMA GapThrough ==
    ASSUME NEW a \in Tickets, NEW b \in Tickets, NEW c \in Tickets
    PROVE  /\ Gap(a, b) \in 0..(2 * Half - 1) /\ Gap(c, b) \in 0..(2 * Half - 1)
           /\ Gap(c, b) > Gap(a, b) => Gap(a, c) = Gap(a, b) - Gap(c, b) + 2 * Half
           /\ Gap(c, b) <= Gap(a, b) => Gap(a, c) = Gap(a, b) - Gap(c, b)
           /\ Gap(a, b) # 0 => Gap(b, a) = 2 * Half - Gap(a, b)
           /\ CV!less(a, c) <=> Gap(a, c) >= Half
           /\ CV!less(a, b) <=> Gap(a, b) >= Half
<1>1. Gap(a, b) \in 0..(2 * Half - 1) /\ Gap(c, b) \in 0..(2 * Half - 1)
  BY GapValue, HalfPositive DEF Tickets
<1>2. /\ Gap(c, b) > Gap(a, b) => Gap(a, c) = Gap(a, b) - Gap(c, b) + 2 * Half
      /\ Gap(c, b) <= Gap(a, b) => Gap(a, c) = Gap(a, b) - Gap(c, b)
  BY GapSteps
<1>3. Gap(a, b) # 0 => Gap(b, a) = 2 * Half - Gap(a, b)
  BY GapSteps
<1> QED BY <1>1, <1>2, <1>3, GapValue

LEMMA UnnotifiedFew ==
    /\ IsFiniteSet(Unnotified) /\ Cardinality(Unnotified) \in Nat
    /\ Cardinality(Unnotified) <= Cardinality(Threads) /\ Cardinality(Threads) \in Nat
BY SyncAssumption, FS_Subset, FS_CardinalityType DEF Unnotified

LEMMA ActiveFinite == IsFiniteSet(Active) /\ Cardinality(Active) \in Nat
BY SyncAssumption, FS_Subset, FS_CardinalityType DEF Active

LEMMA TicketsKept ==
    ASSUME CVType, CVTickets, Unnotified' = Unnotified, UNCHANGED <<wait, notify>>,
           \A u \in Unnotified : ticket'[u] = ticket[u]
    PROVE  CVTickets'
<1>1. Distance' = Distance /\ \A u \in Unnotified : Ahead(u)' = Ahead(u)
  BY DEF Distance, Ahead
<1> QED BY <1>1 DEF CVTickets

\* Steps that leave the list, the sleepers and the counters alone.
LEMMA CVMove ==
    ASSUME CVShape, NEW t \in Threads, NEW l \in NPcs, NEW m \in CPcs,
           UNCHANGED <<wait, notify, list, wake, asleep>>,
           npc' = [npc EXCEPT ![t] = l], cpc' = [cpc EXCEPT ![t] = m],
           CVType', CVPlace',
           (npc[t] \notin {"w_park", "parked"} /\ l \notin {"w_park", "parked"}) \/ npc[t] = l,
           wake[t] = << >>, l # "ready",
           npc[t] \in {"added", "w_lock", "w_check"} <=> l \in {"added", "w_lock", "w_check"},
           ticket' = ticket
    PROVE  CVShape' /\ Unnotified' = Unnotified
<1>1. \A u \in Threads : InList(u)' <=> InList(u)
  BY DEF InList
<1>2. \A p, u \in Threads : InWake(p, u)' <=> InWake(p, u)
  BY DEF InWake
<1>3. CVList'
  BY <1>1 DEF CVShape, CVType, CVList
<1>4. CVWake'
  BY <1>1, <1>2 DEF CVShape, CVType, CVList, CVWake
<1>5. Unnotified' = Unnotified
  BY <1>1 DEF CVShape, CVType, Unnotified, Undecided
<1>6. CVTickets'
  BY <1>5, TicketsKept DEF CVShape
<1> QED BY <1>3, <1>4, <1>5, <1>6 DEF CVShape

\* The client's own steps.
LEMMA CVClient ==
    ASSUME CVShape, NEW t \in Threads,
           \/ CV!Begin(t, "c_lock") \/ CV!Begin(t, "p_lock") \/ CV!MutexLock(t) \/ CV!Take(t)
           \/ CV!Put(t) \/ CV!PutFull(t) \/ CV!SignalReturn(t)
    PROVE  CVShape' /\ Unnotified' = Unnotified /\ UNCHANGED CV!nvars
<1>1. PICK m \in CPcs \ {"c_unlock"} :
         UNCHANGED CV!nvars /\ cpc' = [cpc EXCEPT ![t] = m]
  BY DEF CV!Begin, CV!MutexLock, CV!Take, CV!Put, CV!PutFull, CV!SignalReturn, CV!CGoto, CPcs
<1>2. npc[t] = "idle"
  BY DEF CV!Begin, CV!MutexLock, CV!Take, CV!Put, CV!PutFull, CV!SignalReturn, CVShape, CVType, CVPlace, NPcs
<1>3. UNCHANGED <<wait, notify, llock, list, ticket, asleep, npc, seen, wake>>
  BY <1>1 DEF CV!nvars
<1>4. items' \in Nat
  BY DEF CV!Begin, CV!MutexLock, CV!Take, CV!Put, CV!PutFull, CV!SignalReturn, CVShape, CVType
<1>5. CVType' /\ CVPlace'
  BY <1>1, <1>2, <1>3, <1>4 DEF CVShape, CVType, CVPlace
<1>6. npc' = [npc EXCEPT ![t] = "idle"]
  BY <1>2, <1>3 DEF CVShape, CVType
<1>7. wake[t] = << >>
  BY <1>2 DEF CVShape, CVType, CVWake
<1> QED BY <1>1, <1>2, <1>3, <1>5, <1>6, <1>7, CVMove DEF NPcs

LEMMA CVSimple ==
    ASSUME CVShape, NEW t \in Threads,
           \/ CV!CondUnlock(t) \/ CV!Signal(t)
           \/ (CV!Lock(t) \/ CV!NotifyFast(t)) /\ UNCHANGED <<mutex, items, cpc>>
    PROVE  CVShape' /\ Unnotified' = Unnotified
<1>1. CASE CV!CondUnlock(t)
  <2>1. CVType' /\ CVPlace'
    BY <1>1 DEF CVShape, CVType, CVPlace, CV!CondUnlock, CV!WaitCall, CV!CGoto, CV!NGoto, NPcs, CPcs
  <2>2. wake[t] = << >>
    BY <1>1 DEF CVShape, CVType, CVWake, CV!CondUnlock, CV!WaitCall
  <2>3. /\ npc' = [npc EXCEPT ![t] = "w_lock"] /\ cpc' = [cpc EXCEPT ![t] = "c_lock"] /\ npc[t] = "added"
        /\ UNCHANGED <<wait, notify, list, wake, asleep, ticket>>
    BY <1>1 DEF CV!CondUnlock, CV!WaitCall, CV!CGoto, CV!NGoto
  <2> QED BY <2>1, <2>2, <2>3, CVMove DEF NPcs, CPcs
<1>2. CASE CV!Signal(t)
  <2>1. CVType' /\ CVPlace'
    BY <1>2 DEF CVShape, CVType, CVPlace, CV!Signal, CV!NotifyCall, CV!CGoto, CV!NGoto, NPcs, CPcs
  <2>2. wake[t] = << >>
    BY <1>2 DEF CVShape, CVType, CVWake, CV!Signal, CV!NotifyCall
  <2>3. PICK l \in {"one_fast", "all_fast"} :
           /\ npc' = [npc EXCEPT ![t] = l] /\ cpc' = [cpc EXCEPT ![t] = "p_return"] /\ npc[t] = "idle"
           /\ UNCHANGED <<wait, notify, list, wake, asleep, ticket>>
    BY <1>2 DEF CV!Signal, CV!NotifyCall, CV!CGoto, CV!NGoto
  <2> QED BY <2>1, <2>2, <2>3, CVMove DEF NPcs, CPcs
<1>3. CASE CV!Lock(t) /\ UNCHANGED <<mutex, items, cpc>>
  <2>1. CVType' /\ CVPlace'
    BY <1>3, SyncAssumption DEF CVShape, CVType, CVPlace, CV!Lock, CV!NGoto, NPcs, CPcs
  <2>2. wake[t] = << >>
    BY <1>3 DEF CVShape, CVType, CVWake, CV!Lock
  <2>3. PICK l \in {"w_check", "one", "all"} :
           /\ npc' = [npc EXCEPT ![t] = l] /\ cpc' = [cpc EXCEPT ![t] = cpc[t]]
           /\ npc[t] \in {"w_lock", "one_lock", "all_lock"} /\ (npc[t] = "w_lock" <=> l = "w_check")
           /\ UNCHANGED <<wait, notify, list, wake, asleep, ticket>>
    BY <1>3 DEF CV!Lock, CV!NGoto, CVShape, CVType
  <2> QED BY <2>1, <2>2, <2>3, CVMove DEF NPcs, CPcs, CVShape, CVType
<1>4. CASE CV!NotifyFast(t) /\ UNCHANGED <<mutex, items, cpc>>
  <2>1. CVType' /\ CVPlace'
    BY <1>4, HalfPositive DEF CVShape, CVType, CVPlace, CV!NotifyFast, CV!NGoto, NPcs, CPcs, Tickets
  <2>2. wake[t] = << >>
    BY <1>4 DEF CVShape, CVType, CVWake, CV!NotifyFast
  <2>3. PICK l \in {"idle", "one_lock", "all_lock"} :
           /\ npc' = [npc EXCEPT ![t] = l] /\ cpc' = [cpc EXCEPT ![t] = cpc[t]]
           /\ npc[t] \in {"one_fast", "all_fast"}
           /\ UNCHANGED <<wait, notify, list, wake, asleep, ticket>>
    BY <1>4 DEF CV!NotifyFast, CV!NGoto, CVShape, CVType
  <2> QED BY <2>1, <2>2, <2>3, CVMove DEF NPcs, CPcs, CVShape, CVType
<1> QED BY <1>1, <1>2, <1>3, <1>4

\* notify_list_wait, from the test of the ticket to the return.
LEMMA CVWaitCheck ==
    ASSUME CVShape, NEW t \in Threads, CV!WaitCheck(t), UNCHANGED <<mutex, items, cpc>>
    PROVE  CVShape' /\ Unnotified' = Unnotified
<1>1. npc[t] = "w_check" /\ ~InList(t) /\ wake[t] = << >> /\ \A p \in Threads : ~InWake(p, t)
  BY DEF CVShape, CVType, CVList, CVWake, CV!WaitCheck
<1>2. CASE CV!less(ticket[t], notify) /\ CV!NGoto(t, "unlock") /\ UNCHANGED list
  <2>1. CVType' /\ CVPlace'
    BY <1>1, <1>2 DEF CVShape, CVType, CVPlace, CV!WaitCheck, CV!NGoto, NPcs, CPcs
  <2>2. (\A u \in Threads : InList(u)' <=> InList(u)) /\ (\A p, u \in Threads : InWake(p, u)' <=> InWake(p, u))
    BY <1>2 DEF InList, InWake, CV!WaitCheck
  <2>3. CVList' /\ CVWake'
    BY <1>1, <1>2, <2>2 DEF CVShape, CVType, CVList, CVWake, CV!WaitCheck, CV!NGoto
  <2>4. Unnotified' = Unnotified
    BY <1>1, <1>2, <2>2 DEF CVShape, CVType, Unnotified, Undecided, CV!WaitCheck, CV!NGoto
  <2>5. CVTickets'
    BY <2>4, TicketsKept DEF CVShape, CV!WaitCheck
  <2> QED BY <2>1, <2>3, <2>4, <2>5 DEF CVShape
<1>3. CASE ~CV!less(ticket[t], notify) /\ list' = Append(list, t) /\ CV!NGoto(t, "w_park")
  <2>1. CVType' /\ CVPlace'
    BY <1>1, <1>3 DEF CVShape, CVType, CVPlace, CV!WaitCheck, CV!NGoto, NPcs, CPcs
  <2>2. (\A u \in Threads : InList(u)' <=> InList(u) \/ u = t) /\ (\A p, u \in Threads : InWake(p, u)' <=> InWake(p, u))
    <3>1. /\ Len(list') = Len(list) + 1 /\ Len(list) \in Nat /\ list'[Len(list) + 1] = t
          /\ \A i \in 1..Len(list) : list'[i] = list[i]
      BY <1>3, AppendElements DEF CVShape, CVType
    <3>2. \A u \in Threads : InList(u)' <=> InList(u) \/ u = t
      BY <3>1 DEF InList
    <3>3. \A p, u \in Threads : InWake(p, u)' <=> InWake(p, u)
      BY DEF InWake, CV!WaitCheck
    <3> QED BY <3>2, <3>3
  <2>3. CVList'
    <3>1. \A i, j \in 1..Len(list') : list'[i] = list'[j] => i = j
      BY <1>1, <1>3, SMTT(30) DEF CVShape, CVType, CVList, InList
    <3> QED BY <1>1, <1>3, <2>2, <3>1 DEF CVShape, CVType, CVList, CV!WaitCheck, CV!NGoto
  <2>4. CVWake'
    BY <1>1, <1>3, <2>2 DEF CVShape, CVType, CVWake, CV!WaitCheck, CV!NGoto
  <2>5. Unnotified' = Unnotified
    BY <1>1, <1>3, <2>2 DEF CVShape, CVType, Unnotified, Undecided, CV!WaitCheck, CV!NGoto
  <2>6. CVTickets'
    BY <2>5, TicketsKept DEF CVShape, CV!WaitCheck
  <2> QED BY <2>1, <2>3, <2>4, <2>5, <2>6 DEF CVShape
<1> QED BY <1>2, <1>3 DEF CV!WaitCheck

LEMMA CVWaitEnd ==
    ASSUME CVShape, NEW t \in Threads, CV!WaitPark(t) \/ CV!WaitWoken(t), UNCHANGED <<mutex, items, cpc>>
    PROVE  CVShape' /\ Unnotified' = Unnotified
<1>1. (\A u \in Threads : InList(u)' <=> InList(u)) /\ (\A p, u \in Threads : InWake(p, u)' <=> InWake(p, u))
  BY DEF InList, InWake, CV!WaitPark, CV!WaitWoken
<1>2. CASE CV!WaitPark(t)
  <2>1. CVType' /\ CVPlace'
    BY <1>2, SyncAssumption DEF CVShape, CVType, CVPlace, CV!WaitPark, CV!NGoto, NPcs, CPcs
  <2>2. CVList' /\ CVWake'
    BY <1>1, <1>2 DEF CVShape, CVType, CVList, CVWake, CV!WaitPark, CV!NGoto
  <2>3. Unnotified' = Unnotified
    BY <1>1, <1>2 DEF CVShape, CVType, Unnotified, Undecided, CV!WaitPark, CV!NGoto
  <2>4. CVTickets'
    BY <1>2, <2>3, TicketsKept DEF CVShape, CV!WaitPark
  <2> QED BY <2>1, <2>2, <2>3, <2>4 DEF CVShape
<1>3. CASE CV!WaitWoken(t)
  <2>1. CVType' /\ CVPlace'
    BY <1>3, HalfPositive DEF CVShape, CVType, CVPlace, CV!WaitWoken, CV!NGoto, NPcs, CPcs, Tickets
  <2>2. ~InList(t) /\ (\A p \in Threads : ~InWake(p, t)) /\ wake[t] = << >>
    BY <1>3 DEF CVShape, CVType, CVList, CVWake, CV!WaitWoken
  <2>3. CVList' /\ CVWake'
    BY <1>1, <1>3, <2>2 DEF CVShape, CVType, CVList, CVWake, CV!WaitWoken, CV!NGoto
  <2>4. Unnotified' = Unnotified
    BY <1>1, <1>3, <2>2 DEF CVShape, CVType, Unnotified, Undecided, CV!WaitWoken, CV!NGoto
  <2>5. t \notin Unnotified
    BY <1>3, <2>2 DEF Unnotified, Undecided, CV!WaitWoken
  <2>6. CVTickets'
    BY <1>3, <2>4, <2>5, TicketsKept DEF CVShape, CVType, CV!WaitWoken
  <2> QED BY <2>1, <2>3, <2>4, <2>6 DEF CVShape
<1> QED BY <1>2, <1>3

\* The end of a call: the lock is given back, and a notifier readies whom it took.
LEMMA CVNotifyEnd ==
    ASSUME CVShape, NEW t \in Threads, CV!Unlock(t) \/ CV!Ready(t), UNCHANGED <<mutex, items, cpc>>
    PROVE  CVShape' /\ Unnotified' = Unnotified
<1>1. \A u \in Threads : InList(u)' <=> InList(u)
  BY DEF InList, CV!Unlock, CV!Ready
<1>2. CASE CV!Unlock(t)
  <2>1. \A p, u \in Threads : InWake(p, u)' <=> InWake(p, u)
    BY <1>2 DEF InWake, CV!Unlock
  <2>2. wake[t] # << >> => cpc[t] = "p_return"
    BY DEF CVShape, CVWake
  <2>3. CVType' /\ CVPlace'
    BY <1>2, <2>2, HalfPositive, SyncAssumption DEF CVShape, CVType, CVPlace, CV!Unlock, CV!NGoto, NPcs, CPcs, Tickets
  <2>4. ~InList(t) /\ \A p \in Threads : ~InWake(p, t)
    BY <1>2 DEF CVShape, CVType, CVList, CVWake, CV!Unlock
  <2>5. CVList' /\ CVWake'
    BY <1>1, <1>2, <2>1, <2>4 DEF CVShape, CVType, CVList, CVWake, CV!Unlock, CV!NGoto
  <2>6. Unnotified' = Unnotified /\ t \notin Unnotified
    BY <1>1, <1>2, <2>4 DEF CVShape, CVType, Unnotified, Undecided, CV!Unlock, CV!NGoto
  <2>7. CVTickets'
    BY <1>2, <2>6, TicketsKept DEF CVShape, CVType, CV!Unlock
  <2> QED BY <2>3, <2>5, <2>6, <2>7 DEF CVShape
<1>3. CASE CV!Ready(t)
  <2>1. CVType' /\ CVPlace'
    BY <1>3 DEF CVShape, CVType, CVPlace, CVWake, CV!Ready, CV!NGoto, NPcs, CPcs
  <2>2. wake[t] # << >> /\ npc[t] = "ready"
    BY <1>3 DEF CVShape, CVWake, CV!Ready
  <2>3. /\ wake[t][1] \in Threads /\ InWake(t, wake[t][1])
        /\ asleep' = asleep \ {wake[t][1]}
        /\ wake' = [wake EXCEPT ![t] = Tail(wake[t])]
    BY <1>3, <2>2 DEF CVShape, CVType, InWake, CV!Ready
  <2>a. /\ Tail(wake[t]) \in Seq(Threads) /\ Len(Tail(wake[t])) = Len(wake[t]) - 1
        /\ \A i \in 1..(Len(wake[t]) - 1) : Tail(wake[t])[i] = wake[t][i + 1]
        /\ Len(wake[t]) \in Nat /\ Len(wake[t]) > 0
        /\ Tail(wake[t]) = << >> <=> Len(wake[t]) = 1
    BY <2>2, TailElements DEF CVShape, CVType
  <2>b. wake'[t] = Tail(wake[t]) /\ \A p \in Threads : p # t => wake'[p] = wake[p]
    BY <2>3 DEF CVShape, CVType
  <2>c. wake'[t] = << >> <=> Len(wake[t]) = 1
    BY <2>a, <2>b
  <2>d. ASSUME NEW p \in Threads, NEW i \in 1..Len(wake'[p])
        PROVE  LET x == IF p = t THEN i + 1 ELSE i
               IN  x \in 1..Len(wake[p]) /\ wake'[p][i] = wake[p][x] /\ (p = t => x # 1)
    <3>1. CASE p = t
      <4>1. Len(wake'[t]) = Len(wake[t]) - 1 /\ Len(wake[t]) \in Nat
        BY <2>a, <2>b
      <4>2. i \in 1..(Len(wake[t]) - 1) /\ i + 1 \in 1..Len(wake[t]) /\ i + 1 # 1
        BY <3>1, <4>1
      <4>3. wake'[t][i] = wake[t][i + 1]
        BY <2>a, <2>b, <4>2
      <4> QED BY <3>1, <4>2, <4>3
    <3>2. CASE p # t
      BY <2>b, <3>2
    <3> QED BY <3>1, <3>2
  <2>5. ASSUME NEW p \in Threads, NEW u \in Threads, InWake(p, u)'
        PROVE  InWake(p, u) /\ u # wake[t][1]
    <3>1. PICK i \in 1..Len(wake'[p]) : wake'[p][i] = u
      BY <2>5 DEF InWake
    <3>2. PICK x \in 1..Len(wake[p]) : wake[p][x] = u /\ (p = t => x # 1)
      BY <2>d, <3>1
    <3>3. 1 \in 1..Len(wake[t])
      BY <2>a
    <3> QED BY <3>2, <3>3 DEF InWake, CVShape, CVWake
  <2>6. CVList'
    BY <1>1, <1>3, <2>2, <2>3 DEF CVShape, CVType, CVList, CVWake, CV!Ready, CV!NGoto
  <2>7. CVWake'
    <3>1. \A p, u \in Threads : InWake(p, u)' => npc'[u] = "parked" /\ u \in asleep' /\ ~InList(u)'
      BY <1>1, <1>3, <2>2, <2>3, <2>5 DEF CVShape, CVType, CVWake, CV!Ready, CV!NGoto
    <3>2. ASSUME NEW p \in Threads, NEW q \in Threads,
                 NEW i \in 1..Len(wake'[p]), NEW j \in 1..Len(wake'[q]), wake'[p][i] = wake'[q][j]
          PROVE  p = q /\ i = j
      <4>1. PICK x \in 1..Len(wake[p]) : wake'[p][i] = wake[p][x] /\ x = IF p = t THEN i + 1 ELSE i
        BY <2>d
      <4>2. PICK y \in 1..Len(wake[q]) : wake'[q][j] = wake[q][y] /\ y = IF q = t THEN j + 1 ELSE j
        BY <2>d
      <4>3. wake[p][x] = wake[q][y]
        BY <3>2, <4>1, <4>2, Zenon
      <4>4. p = q /\ x = y
        BY <4>3 DEF CVShape, CVWake
      <4> QED BY <4>1, <4>2, <4>4
    <3>3. \A p \in Threads : wake'[p] # << >> => npc'[p] \in {"unlock", "ready"} /\ cpc'[p] = "p_return"
      BY <1>3, <2>2, <2>b, <2>c DEF CVShape, CVType, CVWake, CV!Ready, CV!NGoto
    <3>4. \A p \in Threads : npc'[p] = "ready" => wake'[p] # << >>
      BY <1>3, <2>2, <2>b, <2>c DEF CVShape, CVType, CVWake, CV!Ready, CV!NGoto
    <3> QED BY <3>1, <3>2, <3>3, <3>4 DEF CVWake
  <2>8. Unnotified' = Unnotified
    BY <1>1, <1>3 DEF CVShape, CVType, Unnotified, Undecided, CV!Ready, CV!NGoto
  <2>9. CVTickets'
    BY <1>3, <2>8, TicketsKept DEF CVShape, CV!Ready
  <2> QED BY <2>1, <2>6, <2>7, <2>8, <2>9 DEF CVShape
<1> QED BY <1>2, <1>3

\* A ticket is drawn: the distance grows by one and stays below Half.
LEMMA CVCondAdd ==
    ASSUME CVShape, NEW t \in Threads, CV!CondAdd(t)
    PROVE  CVShape' /\ items' = 0
<1>1. /\ npc[t] = "idle" /\ ~InList(t) /\ (\A p \in Threads : ~InWake(p, t)) /\ wake[t] = << >>
      /\ t \notin Unnotified
  BY DEF CVShape, CVType, CVList, CVWake, CV!CondAdd, CV!Add, Unnotified, Undecided
<1>2. (\A u \in Threads : InList(u)' <=> InList(u)) /\ (\A p, u \in Threads : InWake(p, u)' <=> InWake(p, u))
  BY DEF InList, InWake, CV!CondAdd, CV!Add
<1>3. CVType' /\ CVPlace'
  BY <1>1, IncValue DEF CVShape, CVType, CVPlace, CV!CondAdd, CV!Add, CV!CGoto, CV!NGoto, NPcs, CPcs
<1>4. CVList' /\ CVWake'
  BY <1>1, <1>2 DEF CVShape, CVType, CVList, CVWake, CV!CondAdd, CV!Add, CV!CGoto, CV!NGoto
<1>5. /\ ticket' = [ticket EXCEPT ![t] = wait] /\ wait' = CV!Inc(wait) /\ notify' = notify
      /\ wait \in Tickets /\ notify \in Tickets /\ ticket \in [Threads -> Tickets]
      /\ npc' = [npc EXCEPT ![t] = "added"] /\ npc \in [Threads -> NPcs]
  BY DEF CVShape, CVType, CV!CondAdd, CV!Add, CV!NGoto
<1>6. Cardinality(Unnotified \cup {t}) = Cardinality(Unnotified) + 1
  BY <1>1, UnnotifiedFew, FS_AddElement, Zenon
<1>7. Cardinality(Unnotified) + 1 < Half
  <2>1. Cardinality(Unnotified \cup {t}) <= Cardinality(Threads)
    <3>1. Unnotified \cup {t} \subseteq Threads
      BY DEF Unnotified
    <3> QED BY <3>1, SyncAssumption, FS_Subset, Zenon
  <2> QED BY <1>6, <2>1, UnnotifiedFew, SyncAssumption
<1>8. Distance = Cardinality(Unnotified) /\ Distance' = Distance + 1 /\ Distance \in Nat
  <2>1. Gap(wait, notify) = Cardinality(Unnotified)
    BY DEF CVShape, CVTickets, Distance
  <2>2. Gap(CV!Inc(wait), notify) = Gap(wait, notify) + 1
    BY <1>5, <1>7, <2>1, GapSteps, HalfPositive, UnnotifiedFew
  <2> QED BY <1>5, <2>1, <2>2, UnnotifiedFew DEF Distance
<1>9. ~CV!less(wait, notify)
  BY <1>5, <1>7, <1>8, GapValue, UnnotifiedFew, HalfPositive DEF Distance
<1>10. Unnotified' = Unnotified \cup {t}
  BY <1>1, <1>2, <1>5, <1>9 DEF Unnotified, Undecided
<1>11. Ahead(t)' = Distance /\ \A u \in Threads : u # t => Ahead(u)' = Ahead(u)
  BY <1>5 DEF Ahead, Distance
<1>12. CVTickets'
  <2>1. Distance' = Cardinality(Unnotified')
    BY <1>6, <1>8, <1>10
  <2>2. \A u \in Unnotified' : Ahead(u)' < Distance'
    <3> SUFFICES ASSUME NEW u \in Unnotified' PROVE Ahead(u)' < Distance'
      OBVIOUS
    <3>1. u \in Threads
      BY <1>10 DEF Unnotified
    <3>2. Ahead(u) \in Int
      BY <1>5, <3>1, GapValue, HalfPositive DEF Ahead, Tickets
    <3> QED BY <1>8, <1>10, <1>11, <3>1, <3>2 DEF CVShape, CVTickets
  <2>3. ASSUME NEW u \in Unnotified PROVE ticket[u] # wait
    <3>1. Ahead(u) < Distance /\ Distance = Gap(wait, notify)
      BY DEF CVShape, CVTickets, Distance
    <3> QED BY <1>8, <3>1 DEF Ahead
  <2>4. \A u, v \in Unnotified' : ticket'[u] = ticket'[v] => u = v
    BY <1>5, <1>10, <2>3 DEF CVShape, CVTickets, Unnotified
  <2>5. ASSUME NEW k \in 0..(Distance' - 1) PROVE \E u \in Unnotified' : Ahead(u)' = k
    <3>1. CASE k = Distance
      BY <1>10, <1>11, <3>1
    <3>2. CASE k # Distance
      <4>1. k \in 0..(Distance - 1)
        BY <1>8, <3>2
      <4>2. PICK u \in Unnotified : Ahead(u) = k
        BY <4>1 DEF CVShape, CVTickets
      <4>3. u # t /\ u \in Threads
        BY <1>1, <4>2 DEF Unnotified
      <4> QED BY <1>10, <1>11, <4>2, <4>3
    <3> QED BY <3>1, <3>2
  <2> QED BY <2>1, <2>2, <2>4, <2>5 DEF CVTickets
<1> QED BY <1>3, <1>4, <1>12 DEF CVShape, CV!CondAdd

LEMMA CVNotifyAll ==
    ASSUME CVShape, NEW t \in Threads, CV!NotifyAll(t), UNCHANGED <<mutex, items, cpc>>
    PROVE  CVShape' /\ Unnotified' = {}
<1>1. /\ npc[t] = "all" /\ llock = t /\ wake[t] = << >> /\ cpc[t] = "p_return"
      /\ \A u \in Threads : npc[u] # "w_park" /\ ~InWake(u, t) /\ ~InList(t)
  BY DEF CVShape, CVType, CVPlace, CVList, CVWake, CV!NotifyAll
<1>2. /\ list' = << >> /\ wake' = [wake EXCEPT ![t] = list] /\ notify' = wait /\ wait' = wait
      /\ ticket' = ticket /\ asleep' = asleep /\ npc' = [npc EXCEPT ![t] = "unlock"]
  BY DEF CV!NotifyAll, CV!NGoto
<1>3. CVType' /\ CVPlace'
  BY <1>1, <1>2 DEF CVShape, CVType, CVPlace, CV!NotifyAll, NPcs, CPcs
<1>4. \A u \in Threads : ~InList(u)'
  BY <1>2 DEF InList
<1>5. wake'[t] = list /\ \A p \in Threads : p # t => wake'[p] = wake[p]
  BY <1>2 DEF CVShape, CVType
<1>6. \A p, u \in Threads : InWake(p, u)' => IF p = t THEN InList(u) ELSE InWake(p, u)
  BY <1>5 DEF InWake, InList
<1>7. CVList'
  BY <1>1, <1>2, <1>4 DEF CVShape, CVType, CVList
<1>8. CVWake'
  <2>1. \A p, u \in Threads : InWake(p, u)' => npc'[u] = "parked" /\ u \in asleep' /\ ~InList(u)'
    BY <1>1, <1>2, <1>4, <1>6 DEF CVShape, CVType, CVList, CVWake
  <2>2. ASSUME NEW p \in Threads, NEW q \in Threads,
               NEW i \in 1..Len(wake'[p]), NEW j \in 1..Len(wake'[q]), wake'[p][i] = wake'[q][j]
        PROVE  p = q /\ i = j
    <3>1. CASE p = t /\ q = t
      BY <1>5, <2>2, <3>1 DEF CVShape, CVList
    <3>2. CASE p # t /\ q # t
      BY <1>5, <2>2, <3>2 DEF CVShape, CVWake
    <3>3. CASE p = t /\ q # t
      <4>1. wake[q][j] \in Threads /\ InWake(q, wake[q][j]) /\ InList(wake[q][j])
        BY <1>5, <2>2, <3>3 DEF CVShape, CVType, InWake, InList
      <4> QED BY <4>1 DEF CVShape, CVWake
    <3>4. CASE p # t /\ q = t
      <4>1. wake[p][i] \in Threads /\ InWake(p, wake[p][i]) /\ InList(wake[p][i])
        BY <1>5, <2>2, <3>4 DEF CVShape, CVType, InWake, InList
      <4> QED BY <4>1 DEF CVShape, CVWake
    <3> QED BY <3>1, <3>2, <3>3, <3>4
  <2>3. \A p \in Threads : wake'[p] # << >> => npc'[p] \in {"unlock", "ready"} /\ cpc'[p] = "p_return"
    BY <1>1, <1>2, <1>5 DEF CVShape, CVType, CVWake
  <2>4. \A p \in Threads : npc'[p] = "ready" => wake'[p] # << >>
    BY <1>1, <1>2, <1>5 DEF CVShape, CVType, CVWake
  <2> QED BY <2>1, <2>2, <2>3, <2>4 DEF CVWake
<1>9. ASSUME NEW u \in Threads, Undecided(u) PROVE CV!less(ticket[u], wait)
  <2>1. ticket[u] \in Tickets /\ wait \in Tickets /\ notify \in Tickets
    BY DEF CVShape, CVType
  <2>2. Distance < Half /\ Distance \in Nat
    BY UnnotifiedFew, SyncAssumption DEF CVShape, CVTickets
  <2>3. CASE ~CV!less(ticket[u], notify)
    <3>1. Gap(ticket[u], notify) < Gap(wait, notify)
      BY <1>9, <2>3 DEF CVShape, CVTickets, Unnotified, Ahead, Distance
    <3> QED BY <2>1, <2>2, <3>1, GapThrough, HalfPositive DEF Distance
  <2>4. CASE CV!less(ticket[u], notify)
    <3>1. Gap(notify, ticket[u]) + Gap(wait, notify) < Half
      BY <1>9, <2>4 DEF CV!NotifyAll, CV!MayAdvance, CV!Lag, Gap, Undecided
    <3> DEFINE x == Gap(ticket[u], notify)
               y == Gap(wait, notify)
    <3>2. x \in Nat /\ y \in Nat /\ x >= Half /\ y < Half
      BY <2>1, <2>2, <2>4, GapThrough, HalfPositive DEF Distance
    <3>3. Gap(notify, ticket[u]) = 2 * Half - x
      BY <2>1, <3>2, GapThrough, HalfPositive
    <3>4. Gap(ticket[u], wait) = x - y
      BY <2>1, <3>2, GapThrough, HalfPositive
    <3>5. x - y >= Half
      BY <3>1, <3>2, <3>3, HalfPositive
    <3> QED BY <2>1, <3>4, <3>5, GapThrough
  <2> QED BY <2>3, <2>4
<1>10. Unnotified' = {}
  BY <1>1, <1>2, <1>4, <1>9 DEF Unnotified, Undecided, CVShape, CVType
<1>11. Distance' = 0 /\ Cardinality(Unnotified') = 0
  <2>1. Gap(wait, wait) = 0
    BY GapValue DEF CVShape, CVType, Tickets
  <2> QED BY <1>2, <1>10, <2>1, FS_EmptySet DEF Distance
<1>12. CVTickets'
  BY <1>10, <1>11 DEF CVTickets
<1> QED BY <1>3, <1>7, <1>8, <1>10, <1>12 DEF CVShape

\* notify_list_notify_one with nothing to notify.
LEMMA CVNotifyNone ==
    ASSUME CVShape, NEW t \in Threads, CV!NotifyOne(t), notify = wait, UNCHANGED <<mutex, items, cpc>>
    PROVE  CVShape' /\ Unnotified' = Unnotified
<1>1. /\ npc[t] = "one" /\ npc' = [npc EXCEPT ![t] = "unlock"] /\ cpc' = [cpc EXCEPT ![t] = cpc[t]]
      /\ UNCHANGED <<wait, notify, list, wake, asleep, ticket>>
  BY DEF CV!NotifyOne, CV!NGoto, CVShape, CVType
<1>2. CVType' /\ CVPlace'
  BY <1>1 DEF CVShape, CVType, CVPlace, CV!NotifyOne, NPcs, CPcs
<1>3. wake[t] = << >>
  BY <1>1 DEF CVShape, CVType, CVWake
<1> QED BY <1>1, <1>2, <1>3, CVMove DEF NPcs, CPcs, CVShape, CVType

\* The tickets, when notify has moved past the ticket of x.
LEMMA TicketsNotified ==
    ASSUME CVType, CVTickets, NEW x \in Unnotified, Ahead(x) = 0,
           notify' = CV!Inc(notify), UNCHANGED <<wait, ticket>>,
           Unnotified' = Unnotified \ {x}
    PROVE  CVTickets'
<1>1. /\ wait \in Tickets /\ notify \in Tickets /\ ticket \in [Threads -> Tickets]
      /\ Unnotified \subseteq Threads
  BY DEF CVType, Unnotified
<1>2. Distance = Cardinality(Unnotified) /\ Distance \in Nat /\ Distance > 0 /\ wait # notify
  <2>1. Distance = Cardinality(Unnotified) /\ Distance \in Nat
    BY UnnotifiedFew DEF CVTickets
  <2>2. Ahead(x) < Distance
    BY DEF CVTickets
  <2>3. Gap(notify, notify) = 0
    BY <1>1, GapSteps
  <2> QED BY <2>1, <2>2, <2>3 DEF Distance
<1>3. Distance' = Distance - 1
  BY <1>1, <1>2, GapSteps DEF Distance
<1>4. \A u \in Threads : Ahead(u) = 0 <=> ticket[u] = notify
  BY <1>1, GapSteps DEF Ahead
<1>5. \A u \in Unnotified : u # x => ticket[u] # notify
  BY <1>1, <1>4 DEF CVTickets
<1>6. \A u \in Threads : ticket[u] # notify => Ahead(u)' = Ahead(u) - 1
  BY <1>1, GapSteps DEF Ahead
<1>7. Cardinality(Unnotified') = Cardinality(Unnotified) - 1
  BY UnnotifiedFew, FS_RemoveElement, Zenon
<1>8. \A u \in Unnotified' : Ahead(u)' < Distance'
  <2> SUFFICES ASSUME NEW u \in Unnotified' PROVE Ahead(u)' < Distance'
    OBVIOUS
  <2>1. u \in Unnotified /\ u \in Threads /\ Ahead(u)' = Ahead(u) - 1
    BY <1>1, <1>5, <1>6
  <2>2. Ahead(u) \in Int /\ Ahead(u) < Distance
    BY <1>1, <2>1, GapThrough DEF CVTickets, Ahead
  <2> QED BY <1>2, <1>3, <2>1, <2>2
<1>9. ASSUME NEW k \in 0..(Distance' - 1) PROVE \E u \in Unnotified' : Ahead(u)' = k
  <2>1. k + 1 \in 0..(Distance - 1) /\ k + 1 # 0 /\ k \in Int
    BY <1>2, <1>3
  <2>2. PICK u \in Unnotified : Ahead(u) = k + 1
    BY <2>1 DEF CVTickets
  <2>3. u # x /\ u \in Threads /\ ticket[u] # notify
    BY <1>1, <1>4, <2>1, <2>2
  <2> QED BY <1>6, <2>1, <2>2, <2>3
<1>10. \A u, v \in Unnotified' : ticket'[u] = ticket'[v] => u = v
  BY DEF CVTickets
<1> QED BY <1>2, <1>3, <1>7, <1>8, <1>9, <1>10 DEF CVTickets

\* notify_list_notify_one: the thread with the next ticket is notified, wherever
\* it has got to.
LEMMA CVNotifyOne ==
    ASSUME CVShape, NEW t \in Threads, CV!NotifyOne(t), notify # wait, UNCHANGED <<mutex, items, cpc>>
    PROVE  CVShape' /\ \E x \in Unnotified : Unnotified' = Unnotified \ {x}
<1>1. /\ npc[t] = "one" /\ llock = t /\ wake[t] = << >> /\ cpc[t] = "p_return"
      /\ \A u \in Threads : npc[u] # "w_park" /\ ~InWake(u, t) /\ ~InList(t)
  BY DEF CVShape, CVType, CVPlace, CVList, CVWake, CV!NotifyOne
<1>2. /\ notify' = CV!Inc(notify) /\ UNCHANGED <<wait, ticket, asleep>>
      /\ npc' = [npc EXCEPT ![t] = "unlock"] /\ CV!MayAdvance(1) /\ CV!Unlink(t, notify)
  BY DEF CV!NotifyOne, CV!NGoto
<1>3. /\ wait \in Tickets /\ notify \in Tickets /\ ticket \in [Threads -> Tickets]
      /\ list \in Seq(Threads) /\ Unnotified \subseteq Threads
  BY DEF CVShape, CVType, Unnotified
<1>4. Distance \in Nat /\ Distance > 0 /\ Distance < Half
  <2>1. Distance = Cardinality(Unnotified) /\ Distance \in Nat /\ Distance < Half
    BY UnnotifiedFew, SyncAssumption DEF CVShape, CVTickets
  <2>2. Distance # 0
    BY <1>3, GapSteps DEF Distance
  <2> QED BY <2>1, <2>2
<1>5. PICK x \in Unnotified : Ahead(x) = 0
  <2>1. 0 \in 0..(Distance - 1)
    BY <1>4
  <2> QED BY <2>1 DEF CVShape, CVTickets
<1>6. x \in Threads /\ ticket[x] = notify /\ \A u \in Unnotified : ticket[u] = notify => u = x
  BY <1>3, <1>5, GapSteps DEF Ahead, CVShape, CVTickets
<1>7. ASSUME NEW u \in Threads, Undecided(u)
      PROVE  CV!less(ticket[u], notify') <=> CV!less(ticket[u], notify) \/ u = x
  <2> DEFINE g == Gap(ticket[u], notify)
  <2>1. ticket[u] \in Tickets /\ notify' \in Tickets
    BY <1>2, <1>3, IncValue
  <2>2. g \in 0..(2 * Half - 1) /\ (CV!less(ticket[u], notify) <=> g >= Half)
        /\ (CV!less(ticket[u], notify') <=> Gap(ticket[u], notify') >= Half)
    BY <1>3, <2>1, GapThrough
  <2>3. CASE ticket[u] = notify
    <3>1. g = 0 /\ Gap(ticket[u], notify') = 2 * Half - 1
      BY <1>2, <1>3, <2>1, <2>3, GapSteps
    <3>2. u \in Unnotified
      BY <1>7, <2>2, <3>1, HalfPositive DEF Unnotified
    <3> QED BY <1>6, <2>2, <2>3, <3>1, <3>2, HalfPositive
  <2>4. CASE ticket[u] # notify
    <3>1. Gap(ticket[u], notify') = g - 1 /\ g # 0
      BY <1>2, <1>3, <2>1, <2>4, GapSteps
    <3>2. u # x
      BY <1>6, <2>4
    <3>3. CASE g >= Half
      <4>1. Gap(notify, ticket[u]) + 1 < Half
        BY <1>2, <1>7, <2>2, <3>3 DEF CV!MayAdvance, CV!Lag, Gap, Undecided
      <4>2. Gap(notify, ticket[u]) = 2 * Half - g
        BY <1>3, <2>1, <3>1, GapThrough
      <4> QED BY <2>2, <3>1, <3>2, <3>3, <4>1, <4>2, HalfPositive
    <3>4. CASE ~(g >= Half)
      BY <2>2, <3>1, <3>2, <3>4, HalfPositive
    <3> QED BY <3>3, <3>4
  <2> QED BY <2>3, <2>4
<1>8. CASE \A i \in DOMAIN list : ticket[list[i]] # notify
  <2>1. UNCHANGED <<list, wake>> /\ ~InList(x)
    BY <1>2, <1>3, <1>6, <1>8 DEF CV!Unlink, InList
  <2>2. (\A u \in Threads : InList(u)' <=> InList(u)) /\ (\A p, u \in Threads : InWake(p, u)' <=> InWake(p, u))
    BY <2>1 DEF InList, InWake
  <2>3. CVType' /\ CVPlace'
    BY <1>1, <1>2, <2>1, IncValue DEF CVShape, CVType, CVPlace, CV!NotifyOne, NPcs, CPcs
  <2>4. CVList' /\ CVWake'
    BY <1>1, <1>2, <2>1, <2>2 DEF CVShape, CVType, CVList, CVWake
  <2>5. \A u \in Threads : Undecided(u)' <=> Undecided(u)
    BY <1>1, <1>2 DEF Undecided, CVShape, CVType
  <2>6. Unnotified' = Unnotified \ {x}
    BY <1>2, <1>7, <2>1, <2>2, <2>5 DEF Unnotified
  <2>7. CVTickets'
    BY <1>2, <1>5, <2>6, TicketsNotified DEF CVShape
  <2> QED BY <2>3, <2>4, <2>6, <2>7 DEF CVShape
<1>9. ASSUME NEW i \in DOMAIN list, ticket[list[i]] = notify, list' = CV!RemoveAt(list, i),
             wake' = [wake EXCEPT ![t] = <<list[i]>>]
      PROVE  CVShape' /\ Unnotified' = Unnotified \ {x}
  <2>1. i \in 1..Len(list) /\ list[i] \in Threads /\ InList(list[i]) /\ list[i] \in Unnotified
    BY <1>3 DEF InList, Unnotified
  <2>2. list[i] = x /\ InList(x)
    BY <1>6, <1>9, <2>1
  <2>3. /\ list' \in Seq(Threads) /\ Len(list') = Len(list) - 1 /\ Len(list) \in Nat
        /\ \A j \in 1..(Len(list) - 1) : list'[j] = IF j < i THEN list[j] ELSE list[j + 1]
    BY <1>3, <1>9, <2>1, RemoveElements
  <2>4. ASSUME NEW j \in 1..Len(list')
        PROVE  LET m == IF j < i THEN j ELSE j + 1
               IN  m \in 1..Len(list) /\ m # i /\ list'[j] = list[m]
    BY <2>1, <2>3
  <2>5. ASSUME NEW m \in 1..Len(list), m # i
        PROVE  LET j == IF m < i THEN m ELSE m - 1
               IN  j \in 1..Len(list') /\ list'[j] = list[m]
    BY <2>1, <2>3, <2>5
  <2>6. \A j, k \in 1..Len(list) : list[j] = list[k] => j = k
    BY DEF CVShape, CVList
  <2>7. ASSUME NEW u \in Threads PROVE InList(u)' <=> InList(u) /\ u # x
    <3>1. ASSUME InList(u)' PROVE InList(u) /\ u # x
      <4>1. PICK j \in 1..Len(list') : list'[j] = u
        BY <3>1 DEF InList
      <4>2. PICK m \in 1..Len(list) : m # i /\ list[m] = u
        BY <2>4, <4>1
      <4> QED BY <2>1, <2>2, <2>6, <4>2 DEF InList
    <3>2. ASSUME InList(u), u # x PROVE InList(u)'
      <4>1. PICK m \in 1..Len(list) : list[m] = u
        BY <3>2 DEF InList
      <4>2. m # i
        BY <2>2, <3>2, <4>1
      <4>3. PICK j \in 1..Len(list') : list'[j] = u
        BY <2>5, <4>1, <4>2
      <4> QED BY <4>3 DEF InList
    <3> QED BY <3>1, <3>2
  <2>8. wake'[t] = <<x>> /\ \A p \in Threads : p # t => wake'[p] = wake[p]
    BY <1>9, <2>2 DEF CVShape, CVType
  <2>a. <<x>> \in Seq(Threads) /\ Len(<<x>>) = 1 /\ <<x>>[1] = x
    BY <1>6
  <2>b. wake'[t] \in Seq(Threads) /\ Len(wake'[t]) = 1 /\ wake'[t][1] = x
    BY <2>8, <2>a
  <2>9. \A p, u \in Threads : InWake(p, u)' <=> IF p = t THEN u = x ELSE InWake(p, u)
    BY <2>8, <2>b DEF InWake
  <2>c. wake' \in [Threads -> Seq(Threads)]
    BY <1>9, <2>2, <2>a DEF CVShape, CVType
  <2>10. CVType' /\ CVPlace'
    BY <1>1, <1>2, <2>3, <2>c, IncValue DEF CVShape, CVType, CVPlace, CV!NotifyOne, NPcs, CPcs
  <2>11. npc[x] = "parked" /\ x \in asleep /\ \A p \in Threads : ~InWake(p, x)
    BY <1>1, <1>6, <2>2 DEF CVShape, CVList, CVWake
  <2>12. CVList'
    <3>1. ASSUME NEW j \in 1..Len(list'), NEW k \in 1..Len(list'), list'[j] = list'[k] PROVE j = k
      <4>1. PICK m \in 1..Len(list) : list'[j] = list[m] /\ m = IF j < i THEN j ELSE j + 1
        BY <2>4
      <4>2. PICK n \in 1..Len(list) : list'[k] = list[n] /\ n = IF k < i THEN k ELSE k + 1
        BY <2>4
      <4>3. m = n
        BY <2>6, <3>1, <4>1, <4>2
      <4> QED BY <2>1, <2>3, <4>1, <4>2, <4>3
    <3> QED BY <1>1, <1>2, <2>7, <3>1 DEF CVShape, CVType, CVList
  <2>13. CVWake'
    <3>1. \A p, u \in Threads : InWake(p, u)' => npc'[u] = "parked" /\ u \in asleep' /\ ~InList(u)'
      BY <1>1, <1>2, <2>7, <2>9, <2>11 DEF CVShape, CVType, CVWake
    <3>2. ASSUME NEW p \in Threads, NEW q \in Threads,
                 NEW j \in 1..Len(wake'[p]), NEW k \in 1..Len(wake'[q]), wake'[p][j] = wake'[q][k]
          PROVE  p = q /\ j = k
      <4>1. CASE p = t /\ q = t
        <5>1. j \in 1..1 /\ k \in 1..1
          BY <2>b, <4>1, Zenon
        <5> QED BY <4>1, <5>1
      <4>2. CASE p # t /\ q # t
        BY <2>8, <3>2, <4>2 DEF CVShape, CVWake
      <4>3. CASE p = t /\ q # t
        BY <2>8, <2>11, <3>2, <4>3 DEF InWake
      <4>4. CASE p # t /\ q = t
        BY <2>8, <2>11, <3>2, <4>4 DEF InWake
      <4> QED BY <4>1, <4>2, <4>3, <4>4
    <3>3. \A p \in Threads : wake'[p] # << >> => npc'[p] \in {"unlock", "ready"} /\ cpc'[p] = "p_return"
      BY <1>1, <1>2, <2>8 DEF CVShape, CVType, CVWake
    <3>4. \A p \in Threads : npc'[p] = "ready" => wake'[p] # << >>
      BY <1>1, <1>2, <2>8 DEF CVShape, CVType, CVWake
    <3> QED BY <3>1, <3>2, <3>3, <3>4 DEF CVWake
  <2>14. \A u \in Threads : Undecided(u)' <=> Undecided(u)
    BY <1>1, <1>2 DEF Undecided, CVShape, CVType
  <2>15. Unnotified' = Unnotified \ {x}
    BY <1>2, <1>7, <2>7, <2>11, <2>14 DEF Unnotified, Undecided
  <2>16. CVTickets'
    BY <1>2, <1>5, <2>15, TicketsNotified DEF CVShape
  <2> QED BY <2>10, <2>12, <2>13, <2>15, <2>16 DEF CVShape
<1> QED BY <1>2, <1>5, <1>8, <1>9 DEF CV!Unlink

----------------------------------------------------------------------------
(* No signal is lost                                                       *)

\* Nobody leaves Active, no item is added, nobody begins to wait.
LEMMA SignalKept ==
    ASSUME CVType, CVSignal, Active \subseteq Active', Unnotified' = Unnotified, items' = items
    PROVE  CVSignal'
<1>1. IsFiniteSet(Active') /\ Cardinality(Active') \in Nat
  BY SyncAssumption, FS_Subset, FS_CardinalityType DEF Active
<1>2. Cardinality(Active) <= Cardinality(Active')
  BY <1>1, FS_Subset
<1> QED BY <1>1, <1>2, ActiveFinite DEF CVSignal, CVType

LEMMA CVSignalClient ==
    ASSUME CVShape, CVSignal, NEW t \in Threads,
           \/ CV!Begin(t, "c_lock") \/ CV!Begin(t, "p_lock") \/ CV!MutexLock(t) \/ CV!Take(t)
           \/ CV!Put(t) \/ CV!PutFull(t) \/ CV!SignalReturn(t)
    PROVE  CVSignal'
<1>0. Unnotified' = Unnotified /\ UNCHANGED <<wait, notify, npc, seen>>
  BY CVClient DEF CV!nvars
<1>1. npc[t] = "idle" /\ t \notin Unnotified
  BY DEF CV!Begin, CV!MutexLock, CV!Take, CV!Put, CV!PutFull, CV!SignalReturn, CVShape, CVType, CVPlace, NPcs,
         Unnotified, Undecided, CVList
<1>2. CASE CV!Begin(t, "c_lock") \/ CV!Begin(t, "p_lock") \/ CV!MutexLock(t) \/ CV!PutFull(t) \/ CV!SignalReturn(t)
  <2>1. Active \subseteq Active'
    BY <1>0, <1>1, <1>2 DEF Active, CV!Begin, CV!MutexLock, CV!PutFull, CV!SignalReturn, CV!CGoto, CVShape, CVType
  <2>2. items' = items
    BY <1>2 DEF CV!Begin, CV!MutexLock, CV!PutFull, CV!SignalReturn
  <2> QED BY <1>0, <2>1, <2>2, SignalKept DEF CVShape
<1>3. CASE CV!Take(t)
  <2>1. t \in Active /\ Active' = Active \ {t}
    BY <1>0, <1>1, <1>3 DEF Active, CV!Take, CV!CGoto, CVShape, CVType
  <2>2. Cardinality(Active') = Cardinality(Active) - 1
    BY <2>1, ActiveFinite, FS_RemoveElement, Zenon
  <2> QED BY <1>0, <1>3, <2>2, ActiveFinite DEF CV!Take, CVSignal, CVShape, CVType
<1>4. CASE CV!Put(t)
  <2>1. t \notin Active /\ Active' = Active \cup {t}
    BY <1>0, <1>1, <1>4 DEF Active, CV!Put, CV!CGoto, CVShape, CVType
  <2>2. Cardinality(Active') = Cardinality(Active) + 1
    BY <2>1, ActiveFinite, FS_AddElement, Zenon
  <2> QED BY <1>0, <1>4, <2>2, ActiveFinite DEF CV!Put, CVSignal, CVShape, CVType
<1> QED BY <1>2, <1>3, <1>4

LEMMA CVSignalWait ==
    ASSUME CVShape, CVSignal, NEW t \in Threads,
           \/ CV!CondUnlock(t)
           \/ /\ CV!WaitCheck(t) \/ CV!WaitPark(t) \/ CV!WaitWoken(t) \/ CV!Unlock(t) \/ CV!Ready(t)
              /\ UNCHANGED <<mutex, items, cpc>>
    PROVE  CVSignal'
<1>1. Unnotified' = Unnotified
  BY CVSimple, CVWaitCheck, CVWaitEnd, CVNotifyEnd
<1>2. items' = items /\ UNCHANGED <<wait, seen>>
  BY DEF CV!CondUnlock, CV!WaitCall, CV!WaitCheck, CV!WaitPark, CV!WaitWoken, CV!Unlock, CV!Ready
<1>3. CASE CV!CondUnlock(t)
  <2>1. Active \subseteq Active'
    BY <1>1, <1>2, <1>3 DEF Active, CV!CondUnlock, CV!WaitCall, CV!CGoto, CV!NGoto, CVShape, CVType
  <2> QED BY <1>1, <1>2, <2>1, SignalKept DEF CVShape
<1>4. CASE /\ CV!WaitCheck(t) \/ CV!WaitPark(t) \/ CV!WaitWoken(t) \/ CV!Unlock(t) \/ CV!Ready(t)
           /\ UNCHANGED <<mutex, items, cpc>>
  <2>1. /\ npc[t] \in {"w_check", "w_park", "parked", "unlock", "ready"} /\ cpc' = cpc
        /\ \A u \in Threads : u # t => npc'[u] = npc[u]
    BY <1>4 DEF CV!WaitCheck, CV!WaitPark, CV!WaitWoken, CV!Unlock, CV!Ready, CV!NGoto, CVShape, CVType
  <2>2. Active \subseteq Active'
    BY <1>1, <1>2, <2>1 DEF Active
  <2> QED BY <1>1, <1>2, <2>2, SignalKept DEF CVShape
<1> QED BY <1>3, <1>4

LEMMA NobodyToNotify == CVShape /\ wait = notify => Unnotified = {}
<1> SUFFICES ASSUME CVShape, wait = notify PROVE Unnotified = {}
  OBVIOUS
<1>1. Distance = 0
  BY GapSteps DEF Distance, CVShape, CVType
<1>2. Cardinality(Unnotified) = 0
  BY <1>1 DEF CVShape, CVTickets
<1> QED BY <1>2, UnnotifiedFew, FS_EmptySet

LEMMA CVSignalNotify ==
    ASSUME CVShape, CVSignal, NEW t \in Threads,
           \/ CV!Signal(t)
           \/ /\ CV!Lock(t) \/ CV!NotifyFast(t) \/ CV!NotifyOne(t) \/ CV!NotifyAll(t)
              /\ UNCHANGED <<mutex, items, cpc>>
    PROVE  CVSignal'
<1>1. CASE CV!Signal(t)
  <2>1. Unnotified' = Unnotified /\ UNCHANGED <<items, wait>>
    BY <1>1, CVSimple DEF CV!Signal, CV!NotifyCall
  <2>2. Active \subseteq Active'
    BY <1>1, <2>1 DEF Active, CV!Signal, CV!NotifyCall, CV!CGoto, CV!NGoto, CVShape, CVType
  <2> QED BY <2>1, <2>2, SignalKept DEF CVShape
<1>2. CASE CV!Lock(t) /\ UNCHANGED <<mutex, items, cpc>>
  <2>1. Unnotified' = Unnotified /\ UNCHANGED <<items, wait, seen>>
    BY <1>2, CVSimple DEF CV!Lock
  <2>2. Active \subseteq Active'
    BY <1>2, <2>1 DEF Active, CV!Lock, CV!NGoto, CVShape, CVType
  <2> QED BY <2>1, <2>2, SignalKept DEF CVShape
<1>3. CASE CV!NotifyFast(t) /\ UNCHANGED <<mutex, items, cpc>>
  <2>1. Unnotified' = Unnotified /\ UNCHANGED <<items, wait, notify>>
    BY <1>3, CVSimple DEF CV!NotifyFast
  <2>2. CASE wait = notify
    BY <2>1, <2>2, NobodyToNotify DEF CVSignal
  <2>3. CASE wait # notify
    <3>1. Active \subseteq Active'
      BY <1>3, <2>1, <2>3 DEF Active, CV!NotifyFast, CV!NGoto, CVShape, CVType
    <3> QED BY <1>3, <2>1, <3>1, SignalKept DEF CVShape
  <2> QED BY <2>2, <2>3
<1>4. CASE CV!NotifyOne(t) /\ UNCHANGED <<mutex, items, cpc>>
  <2>1. CASE notify = wait
    BY <1>4, <2>1, CVNotifyNone, NobodyToNotify DEF CVSignal
  <2>2. CASE notify # wait
    <3>1. PICK x \in Unnotified : Unnotified' = Unnotified \ {x}
      BY <1>4, <2>2, CVNotifyOne
    <3>2. x \in Threads /\ cpc[x] \in {"c_lock", "c_unlock"} /\ npc[x] \notin {"one_fast", "all_fast", "one_lock", "all_lock", "one", "all"}
      BY <3>1 DEF Unnotified, Undecided, CVShape, CVPlace, CVList
    <3>3. x \notin Active /\ t \in Active
      BY <1>4, <3>1, <3>2 DEF Active, CV!NotifyOne
    <3>4. (Active \ {t}) \cup {x} \subseteq Active'
      BY <1>4, <3>1, <3>2, <3>3 DEF Active, CV!NotifyOne, CV!NGoto, CVShape, CVType
    <3>5. IsFiniteSet(Active \ {t}) /\ Cardinality(Active \ {t}) = Cardinality(Active) - 1
      BY <3>3, ActiveFinite, FS_RemoveElement, Zenon
    <3>6. Cardinality((Active \ {t}) \cup {x}) = Cardinality(Active \ {t}) + 1
      BY <3>3, <3>5, FS_AddElement
    <3>7. IsFiniteSet(Active') /\ Cardinality(Active') \in Nat
      BY SyncAssumption, FS_Subset, FS_CardinalityType DEF Active
    <3>8. Cardinality((Active \ {t}) \cup {x}) <= Cardinality(Active')
      BY <3>4, <3>7, FS_Subset
    <3>9. Cardinality(Active') >= Cardinality(Active)
      BY <3>5, <3>6, <3>7, <3>8, ActiveFinite
    <3> QED BY <1>4, <3>1, <3>7, <3>9, ActiveFinite DEF CVSignal, CVShape, CVType
  <2> QED BY <2>1, <2>2
<1>5. CASE CV!NotifyAll(t) /\ UNCHANGED <<mutex, items, cpc>>
  BY <1>5, CVNotifyAll DEF CVSignal
<1> QED BY <1>1, <1>2, <1>3, <1>4, <1>5

----------------------------------------------------------------------------
CVInv == CVShape /\ CVSignal

LEMMA CVInit == CV!Init => CVInv
<1> SUFFICES ASSUME CV!Init PROVE CVInv
  OBVIOUS
<1>1. Start \in Tickets /\ 0 \in Tickets
  BY SyncAssumption, HalfPositive DEF Tickets
<1>2. (\A u \in Threads : ~InList(u)) /\ (\A p, u \in Threads : ~InWake(p, u)) /\ \A p \in Threads : wake[p] = << >>
  BY DEF CV!Init, CV!NInit, InList, InWake
<1>3. CVType /\ CVPlace
  BY <1>1, SyncAssumption DEF CV!Init, CV!NInit, CVType, CVPlace, NPcs, CPcs
<1>4. CVList /\ CVWake
  BY <1>2 DEF CV!Init, CV!NInit, CVList, CVWake
<1>5. Unnotified = {} /\ wait = notify
  BY <1>2 DEF Unnotified, Undecided, CV!Init, CV!NInit
<1>6. Cardinality(Unnotified) = 0 /\ Distance = 0
  BY <1>1, <1>5, FS_EmptySet, GapSteps DEF Distance, CV!Init, CV!NInit
<1>7. CVTickets
  BY <1>5, <1>6 DEF CVTickets
<1> QED BY <1>3, <1>4, <1>5, <1>7 DEF CVInv, CVShape, CVSignal

LEMMA CVNext == CVInv /\ CV!Next => CVInv'
<1> SUFFICES ASSUME CVInv, NEW t \in Threads,
                    CV!Begin(t, "c_lock") \/ CV!Begin(t, "p_lock") \/ CV!Inside(t)
             PROVE  CVInv'
  BY DEF CV!Next
<1>1. CASE \/ CV!Begin(t, "c_lock") \/ CV!Begin(t, "p_lock") \/ CV!MutexLock(t) \/ CV!Take(t)
           \/ CV!Put(t) \/ CV!PutFull(t) \/ CV!SignalReturn(t)
  BY <1>1, CVClient, CVSignalClient DEF CVInv
<1>2. CASE CV!CondAdd(t)
  <2>1. CVShape' /\ items' = 0
    BY <1>2, CVCondAdd DEF CVInv
  <2>2. Cardinality(Active') \in Nat
    BY SyncAssumption, FS_Subset, FS_CardinalityType DEF Active
  <2> QED BY <2>1, <2>2 DEF CVInv, CVSignal
<1>3. CASE CV!CondUnlock(t)
  BY <1>3, CVSimple, CVSignalWait DEF CVInv
<1>4. CASE CV!Signal(t)
  BY <1>4, CVSimple, CVSignalNotify DEF CVInv
<1>5. CASE CV!Notify(t)
  <2>1. UNCHANGED <<mutex, items, cpc>>
    BY <1>5 DEF CV!Notify
  <2>2. CASE CV!Lock(t) \/ CV!NotifyFast(t)
    BY <2>1, <2>2, CVSimple, CVSignalNotify DEF CVInv
  <2>3. CASE CV!WaitCheck(t)
    BY <2>1, <2>3, CVWaitCheck, CVSignalWait DEF CVInv
  <2>4. CASE CV!WaitPark(t) \/ CV!WaitWoken(t)
    BY <2>1, <2>4, CVWaitEnd, CVSignalWait DEF CVInv
  <2>5. CASE CV!NotifyOne(t)
    BY <2>1, <2>5, CVNotifyNone, CVNotifyOne, CVSignalNotify DEF CVInv
  <2>6. CASE CV!NotifyAll(t)
    BY <2>1, <2>6, CVNotifyAll, CVSignalNotify DEF CVInv
  <2>7. CASE CV!Unlock(t) \/ CV!Ready(t)
    BY <2>1, <2>7, CVNotifyEnd, CVSignalWait DEF CVInv
  <2> QED BY <1>5, <2>2, <2>3, <2>4, <2>5, <2>6, <2>7 DEF CV!Notify, CV!NStep
<1> QED BY <1>1, <1>2, <1>3, <1>4, <1>5 DEF CV!Inside

LEMMA CVFrame == CVInv /\ UNCHANGED cvVars => CVInv'
<1> SUFFICES ASSUME CVInv, UNCHANGED cvVars PROVE CVInv'
  OBVIOUS
<1>1. UNCHANGED <<wait, notify, llock, list, ticket, asleep, npc, seen, wake, items, cpc>>
  BY DEF cvVars
<1>2. (\A u \in Threads : InList(u)' <=> InList(u)) /\ (\A p, u \in Threads : InWake(p, u)' <=> InWake(p, u))
  BY <1>1 DEF InList, InWake
<1>3. CVType' /\ CVPlace' /\ CVList' /\ CVWake'
  BY <1>1, <1>2 DEF CVInv, CVShape, CVType, CVPlace, CVList, CVWake
<1>4. Unnotified' = Unnotified
  BY <1>1, <1>2 DEF Unnotified, Undecided
<1>5. CVTickets'
  BY <1>1, <1>4, TicketsKept DEF CVInv, CVShape
<1>6. Active \subseteq Active'
  BY <1>1, <1>4 DEF Active
<1>7. CVSignal'
  BY <1>1, <1>4, <1>6, SignalKept DEF CVInv, CVShape
<1> QED BY <1>3, <1>5, <1>7 DEF CVInv, CVShape

LEMMA CVAlways == Spec => []CVInv
<1>1. Init => CVInv
  BY CVInit DEF Init
<1>2. CVInv /\ [Next]_vars => CVInv'
  BY CVNext, CVFrame DEF Next, RWStep, WGStep, CVStep, vars
<1> QED BY <1>1, <1>2, PTL DEF Spec

\* The distance of the two counters of a notify list is the number of tickets
\* still to be notified, when they wrap too.
THEOREM TicketsAlwaysMatch == Spec => []TicketsMatchCounters
<1>1. CVInv => TicketsMatchCounters
  <2> SUFFICES ASSUME CVInv PROVE TicketsMatchCounters
    OBVIOUS
  <2>1. \A u \in Threads : u \in CV!ToSet(list) <=> InList(u)
    BY DEF CV!ToSet, InList, CVInv, CVShape, CVType
  <2>2. CV!ToSet(list) \subseteq Threads
    BY DEF CV!ToSet, CVInv, CVShape, CVType
  <2>3. CV!Pending = Unnotified
    BY <2>1, <2>2 DEF CV!Pending, Unnotified, Undecided, CVInv, CVShape, CVList
  <2> QED BY <2>3, SameCardinality DEF TicketsMatchCounters, CV!TicketsMatchCounters, CVInv, CVShape, CVTickets, Distance, Gap
<1> QED BY <1>1, CVAlways, PTL

\* When there is an item and a consumer sleeps un-notified, somebody is awake
\* who will take it or wake a consumer.
THEOREM SignalsAreNotLost == Spec => []NoLostSignal
<1>1. CVInv => NoLostSignal
  <2> SUFFICES ASSUME CVInv, items > 0, list # << >>
               PROVE  \E t \in Threads : \/ cpc[t] \in {"c_test", "c_unlock", "p_put", "p_signal", "p_return"}
                                         \/ cpc[t] = "c_lock" /\ t \notin CV!ToSet(list)
    BY DEF NoLostSignal, CV!NoLostSignal
  <2>1. list \in Seq(Threads) /\ items \in Nat
    BY DEF CVInv, CVShape, CVType
  <2>2. Len(list) \in Nat \ {0}
    BY <2>1, EmptySeq
  <2>3. list[1] \in Unnotified
    BY <2>1, <2>2 DEF Unnotified, InList
  <2>4. Active # {}
    <3>1. Cardinality(Active) >= items
      BY <2>3 DEF CVInv, CVSignal
    <3>2. Active = {} => Cardinality(Active) = 0
      BY FS_EmptySet, Zenon
    <3> QED BY <2>1, <3>1, <3>2
  <2>5. PICK t \in Threads : t \in Active
    BY <2>4 DEF Active
  <2>6. CASE cpc[t] = "c_lock" /\ t \notin Unnotified
    BY <2>1, <2>6 DEF Unnotified, InList, CV!ToSet
  <2>7. CASE ~(cpc[t] = "c_lock" /\ t \notin Unnotified)
    BY <2>5, <2>7 DEF Active, CVInv, CVShape, CVPlace
  <2> QED BY <2>6, <2>7
<1> QED BY <1>1, CVAlways, PTL
=============================================================================
