--------------------------- MODULE SuspendProofs ----------------------------
(***************************************************************************)
(* The suspend bit as a lock, for any number of threads, CPUs, wakers and  *)
(* suspenders.  The invariants of Suspend are not inductive by themselves: *)
(* a suspended thread stays still because the bit blocks every CAS, because *)
(* the status was not RUNNING when the bit was set, and because a thread   *)
(* on a CPU is RUNNING and on that CPU only.                               *)
(***************************************************************************)
EXTENDS Suspend, FiniteSetTheorems, TLAPS

OnCpu == {"run", "stop", "requeue"}
AtRest == {"RUNNABLE", "WAITING"}

\* Each actor is at a label of its own code and has a thread in hand there.
LabelInv ==
    /\ \A c \in Cpus : pc[c] \in CpuLabels
    /\ \A w \in Wakers : pc[w] \in {"idle", "ready"}
    /\ \A s \in Suspenders : pc[s] \in SuspenderLabels
    /\ \A a \in Actors : pc[a] \notin {"idle", "out"} => hand[a] \in Threads

\* A thread on a CPU is RUNNING, and on one CPU only.
RunInv ==
    /\ \A c \in Cpus : pc[c] \in OnCpu => status[hand[c]] = "RUNNING"
    /\ \A c, d \in Cpus : pc[c] \in OnCpu /\ pc[d] \in OnCpu /\ hand[c] = hand[d] => c = d

\* A suspender goes for the bit of a thread it has seen at rest, and the
\* thread is at rest from then on.
RestInv ==
    \A s \in Suspenders :
        /\ pc[s] \in {"taken", "claim"} => seen[s] \in AtRest
        /\ pc[s] \in {"claimed", "suspended"} => status[hand[s]] \in AtRest

IInv == TypeOK /\ LabelInv /\ RunInv /\ RestInv /\ SuspendBitHeld

\* The initial state satisfies the inductive invariant.
LEMMA InitIInv == Init => IInv
BY SuspendAssumption DEF Init, IInv, TypeOK, LabelInv, RunInv, RestInv, SuspendBitHeld, Holders,
     Actors, States, CpuLabels, SuspenderLabels, OnCpu, AtRest

\* A step of a CPU preserves it: only a status without the suspend bit moves.
LEMMA CpuIInv == ASSUME NEW c \in Cpus, IInv, CpuStep(c) PROVE IInv'
<1> USE SuspendAssumption
<1> USE DEF Actors, States, CpuLabels, SuspenderLabels, OnCpu, AtRest,
             Step, Holds, Is, CasState, unsuspended
<1>1. ASSUME NEW t \in Threads, Find(c, t) PROVE IInv'
  BY <1>1 DEF Find, IInv, TypeOK, LabelInv, RunInv, RestInv, SuspendBitHeld, Holders
<1>2. CASE Execute(c)
  BY <1>2 DEF Execute, IInv, TypeOK, LabelInv, RunInv, RestInv, SuspendBitHeld, Holders
<1>3. CASE Yield(c)
  BY <1>3 DEF Yield, IInv, TypeOK, LabelInv, RunInv, RestInv, SuspendBitHeld, Holders
<1>4. CASE Stop(c)
  BY <1>4 DEF Stop, IInv, TypeOK, LabelInv, RunInv, RestInv, SuspendBitHeld, Holders
<1>5. CASE Requeue(c)
  BY <1>5 DEF Requeue, IInv, TypeOK, LabelInv, RunInv, RestInv, SuspendBitHeld, Holders
<1>6. CASE Put(c)
  BY <1>6 DEF Put, IInv, TypeOK, LabelInv, RunInv, RestInv, SuspendBitHeld, Holders
<1>7. CASE Park(c)
  BY <1>7 DEF Park, IInv, TypeOK, LabelInv, RunInv, RestInv, SuspendBitHeld, Holders
<1>8. CASE Drop(c)
  BY <1>8 DEF Drop, IInv, TypeOK, LabelInv, RunInv, RestInv, SuspendBitHeld, Holders
<1> QED BY <1>1, <1>2, <1>3, <1>4, <1>5, <1>6, <1>7, <1>8 DEF CpuStep

\* So does a step of a waker.
LEMMA WakerIInv == ASSUME NEW w \in Wakers, IInv, WakerStep(w) PROVE IInv'
<1> USE SuspendAssumption
<1> USE DEF Actors, States, CpuLabels, SuspenderLabels, OnCpu, AtRest,
             Step, Holds, Is, CasState, unsuspended
<1>1. CASE Ready(w, "idle")
  BY <1>1 DEF Ready, IInv, TypeOK, LabelInv, RunInv, RestInv, SuspendBitHeld, Holders
<1>2. ASSUME NEW t \in Threads, Wake(w, t) PROVE IInv'
  BY <1>2 DEF Wake, IInv, TypeOK, LabelInv, RunInv, RestInv, SuspendBitHeld, Holders
<1>3. ASSUME NEW t \in Threads, Create(w, t) PROVE IInv'
  BY <1>3 DEF Create, IInv, TypeOK, LabelInv, RunInv, RestInv, SuspendBitHeld, Holders
<1> QED BY <1>1, <1>2, <1>3 DEF WakerStep

\* And of a suspender: the CAS that sets the bit finds it clear, and the one
\* that clears it is made by the only suspender that holds it.
LEMMA SuspenderIInv == ASSUME NEW s \in Suspenders, IInv, SuspenderStep(s) PROVE IInv'
<1> USE SuspendAssumption
<1> USE DEF Actors, States, CpuLabels, SuspenderLabels, OnCpu, AtRest,
             Step, Holds, Is, CasState, unsuspended
<1>1. ASSUME NEW t \in Threads, SuspendCall(s, t) PROVE IInv'
  BY <1>1 DEF SuspendCall, IInv, TypeOK, LabelInv, RunInv, RestInv, SuspendBitHeld, Holders
<1>2. CASE Look(s)
  BY <1>2 DEF Look, IInv, TypeOK, LabelInv, RunInv, RestInv, SuspendBitHeld, Holders
<1>3. CASE Take(s)
  <2>1. hand[s] \in Threads /\ UNCHANGED hand BY <1>3 DEF Take, IInv, LabelInv
  <2>2. CASE Is(hand[s], "PREEMPTED")
    <3>1. /\ pc[s] = "take" /\ pc' = [pc EXCEPT ![s] = "taken"]
          /\ status' = [status EXCEPT ![hand[s]] = "WAITING"]
          /\ seen' = [seen EXCEPT ![s] = "WAITING"] /\ UNCHANGED suspend
      BY <1>3, <2>2 DEF Take, IInv, TypeOK
    <3>2. TypeOK' BY <1>3, <2>1, <3>1 DEF Take, IInv, TypeOK
    <3>3. LabelInv' BY <2>1, <3>1 DEF IInv, TypeOK, LabelInv
    <3>4. RunInv' BY <2>1, <2>2, <3>1 DEF IInv, TypeOK, LabelInv, RunInv
    <3>5. RestInv' BY <1>3, <2>1, <2>2, <3>1 DEF Take, IInv, TypeOK, LabelInv, RestInv, SuspendBitHeld, Holders
    <3>6. SuspendBitHeld' BY <2>1, <2>2, <3>1 DEF IInv, TypeOK, LabelInv, SuspendBitHeld, Holders
    <3> QED BY <3>2, <3>3, <3>4, <3>5, <3>6 DEF IInv
  <2>3. CASE ~(Is(hand[s], "PREEMPTED"))
    <3>1. /\ pc[s] = "take" /\ pc' = [pc EXCEPT ![s] = "look"]
          /\ UNCHANGED <<status, suspend, preempt_stop, runnable, parked, hand, seen, stopped>>
      BY <1>3, <2>3 DEF Take
    <3> QED BY <3>1 DEF IInv, TypeOK, LabelInv, RunInv, RestInv, SuspendBitHeld, Holders
  <2> QED BY <2>2, <2>3
<1>4. CASE Taken(s)
  BY <1>4 DEF Taken, SetStop, IInv, TypeOK, LabelInv, RunInv, RestInv, SuspendBitHeld, Holders
<1>5. CASE Claim(s)
  <2>1. hand[s] \in Threads /\ UNCHANGED hand BY <1>5 DEF Claim, IInv, LabelInv
  <2>2. CASE Is(hand[s], seen[s])
    <3>1. /\ pc[s] = "claim" /\ pc' = [pc EXCEPT ![s] = "claimed"]
          /\ suspend' = [suspend EXCEPT ![hand[s]] = TRUE] /\ UNCHANGED status
      BY <1>5, <2>2 DEF Claim, IInv, TypeOK
    <3>2. TypeOK' BY <1>5, <2>1, <3>1 DEF Claim, IInv, TypeOK
    <3>3. LabelInv' BY <2>1, <3>1 DEF IInv, TypeOK, LabelInv
    <3>4. RunInv' BY <2>1, <2>2, <3>1 DEF IInv, TypeOK, LabelInv, RunInv
    <3>5. RestInv' BY <1>5, <2>1, <2>2, <3>1 DEF Claim, IInv, TypeOK, LabelInv, RestInv, SuspendBitHeld, Holders
    <3>6. SuspendBitHeld' BY <2>1, <2>2, <3>1 DEF IInv, TypeOK, LabelInv, SuspendBitHeld, Holders
    <3> QED BY <3>2, <3>3, <3>4, <3>5, <3>6 DEF IInv
  <2>3. CASE ~(Is(hand[s], seen[s]))
    <3>1. /\ pc[s] = "claim" /\ pc' = [pc EXCEPT ![s] = "look"]
          /\ UNCHANGED <<status, suspend, preempt_stop, runnable, parked, hand, seen, stopped>>
      BY <1>5, <2>3 DEF Claim
    <3> QED BY <3>1 DEF IInv, TypeOK, LabelInv, RunInv, RestInv, SuspendBitHeld, Holders
  <2> QED BY <2>2, <2>3
<1>6. CASE Claimed(s)
  BY <1>6 DEF Claimed, SetStop, IInv, TypeOK, LabelInv, RunInv, RestInv, SuspendBitHeld, Holders
<1>7. CASE Request(s)
  <2>1. hand[s] \in Threads /\ UNCHANGED hand BY <1>7 DEF Request, IInv, LabelInv
  <2>2. CASE Is(hand[s], "RUNNING")
    <3>1. /\ pc[s] = "request" /\ pc' = [pc EXCEPT ![s] = "requested"]
          /\ suspend' = [suspend EXCEPT ![hand[s]] = TRUE] /\ UNCHANGED status
      BY <1>7, <2>2 DEF Request, IInv, TypeOK
    <3>2. TypeOK' BY <1>7, <2>1, <3>1 DEF Request, IInv, TypeOK
    <3>3. LabelInv' BY <2>1, <3>1 DEF IInv, TypeOK, LabelInv
    <3>4. RunInv' BY <2>1, <2>2, <3>1 DEF IInv, TypeOK, LabelInv, RunInv
    <3>5. RestInv' BY <1>7, <2>1, <2>2, <3>1 DEF Request, IInv, TypeOK, LabelInv, RestInv, SuspendBitHeld, Holders
    <3>6. SuspendBitHeld' BY <2>1, <2>2, <3>1 DEF IInv, TypeOK, LabelInv, SuspendBitHeld, Holders
    <3> QED BY <3>2, <3>3, <3>4, <3>5, <3>6 DEF IInv
  <2>3. CASE ~(Is(hand[s], "RUNNING"))
    <3>1. /\ pc[s] = "request" /\ pc' = [pc EXCEPT ![s] = "look"]
          /\ UNCHANGED <<status, suspend, preempt_stop, runnable, parked, hand, seen, stopped>>
      BY <1>7, <2>3 DEF Request
    <3> QED BY <3>1 DEF IInv, TypeOK, LabelInv, RunInv, RestInv, SuspendBitHeld, Holders
  <2> QED BY <2>2, <2>3
<1>8. CASE Requested(s)
  BY <1>8 DEF Requested, SetStop, IInv, TypeOK, LabelInv, RunInv, RestInv, SuspendBitHeld, Holders
<1>9. CASE Release(s)
  BY <1>9 DEF Release, IInv, TypeOK, LabelInv, RunInv, RestInv, SuspendBitHeld, Holders
<1>10. CASE Resume(s)
  BY <1>10 DEF Resume, IInv, TypeOK, LabelInv, RunInv, RestInv, SuspendBitHeld, Holders
<1>11. CASE Ready(s, "out")
  BY <1>11 DEF Ready, IInv, TypeOK, LabelInv, RunInv, RestInv, SuspendBitHeld, Holders
<1> QED BY <1>1, <1>2, <1>3, <1>4, <1>5, <1>6, <1>7, <1>8, <1>9, <1>10, <1>11 DEF SuspenderStep

\* The inductive invariant holds in every state.
THEOREM SpecIInv == Spec => []IInv
<1>1. IInv /\ UNCHANGED vars => IInv'
  BY DEF vars, IInv, TypeOK, LabelInv, RunInv, RestInv, SuspendBitHeld, Holders
<1>2. IInv /\ [Next]_vars => IInv'
  BY <1>1, CpuIInv, WakerIInv, SuspenderIInv DEF Next
<1> QED BY InitIInv, <1>2, PTL DEF Spec

\* However many suspenders compete, the bit of each status is held by exactly
\* one of them while it is set.
THEOREM SpecSuspendBitHeld == Spec => []SuspendBitHeld
<1>1. IInv => SuspendBitHeld BY DEF IInv
<1> QED BY SpecIInv, <1>1, PTL

\* No CPU executes a thread between the return of scheduler_suspend_thread
\* and scheduler_resume_thread.
THEOREM SpecSuspendedIsStill == Spec => []SuspendedIsStill
<1>1. IInv => SuspendedIsStill
  BY SuspendAssumption DEF IInv, RunInv, RestInv, SuspendedIsStill, OnCpu, AtRest
<1> QED BY SpecIInv, <1>1, PTL

\* A step that changes the status of t finds its suspend bit clear.
LEMMA StatusMoves ==
    ASSUME TypeOK, NEW t \in Threads, [Next]_vars, suspend[t]
    PROVE  status'[t] = status[t]
<1> USE DEF Holds, Is, CasState, unsuspended, TypeOK, Actors
<1>1. ASSUME NEW c \in Cpus, CpuStep(c) PROVE status'[t] = status[t]
  BY <1>1 DEF CpuStep, Find, Execute, Yield, Stop, Requeue, Put, Park, Drop
<1>2. ASSUME NEW w \in Wakers, WakerStep(w) PROVE status'[t] = status[t]
  BY <1>2 DEF WakerStep, Ready, Wake, Create
<1>3. ASSUME NEW s \in Suspenders, SuspenderStep(s) PROVE status'[t] = status[t]
  BY <1>3 DEF SuspenderStep, SuspendCall, Look, Take, Taken, Claim, Claimed, Request, Requested,
              Release, Resume, Ready
<1>4. CASE UNCHANGED vars BY <1>4 DEF vars
<1> QED BY <1>1, <1>2, <1>3, <1>4 DEF Next

\* The status of a thread never moves while a suspender holds its bit.
THEOREM SpecFrozenWhileSuspended == Spec => FrozenWhileSuspended
<1>1. IInv /\ [Next]_vars => [\A t \in Threads : suspend[t] => status'[t] = status[t]]_vars
  BY StatusMoves DEF IInv
<1> QED BY SpecIInv, <1>1, PTL DEF Spec, FrozenWhileSuspended
----------------------------------------------------------------------------
(* Who has a thread.                                                       *)

\* The suspender that stopped t is at one of these labels until it readies it.
StopLabels == {"taken", "claim", "look", "claimed", "suspended", "ready"}

Keeps(a, t) ==
    /\ hand[a] = t
    /\ a \in Suspenders => stopped[a] /\ pc[a] # "out"

\* Where a thread is tells its status.
PlaceInv ==
    /\ \A t \in runnable : status[t] = "RUNNABLE"
    /\ \A t \in parked : status[t] = "WAITING"
    /\ \A a \in Cpus \cup Wakers : pc[a] = "idle" <=> hand[a] = None
    /\ \A c \in Cpus : pc[c] \in {"execute", "put"} => status[hand[c]] = "RUNNABLE"
    /\ \A w \in Wakers : pc[w] = "ready" => status[hand[w]] = "WAITING"
    /\ \A s \in Suspenders : stopped[s] /\ pc[s] # "out" =>
          pc[s] \in StopLabels /\ status[hand[s]] = "WAITING"
    /\ \A s \in Suspenders : pc[s] = "ready" => stopped[s]

\* OneKeeper without counting: no two places have the same thread, and a
\* thread that no place has is dead or preempted.
KeptInv ==
    \A t \in Threads :
        /\ \A a, b \in Actors : Keeps(a, t) /\ Keeps(b, t) => a = b
        /\ \A a \in Actors : Keeps(a, t) => t \notin runnable /\ t \notin parked
        /\ ~(t \in runnable /\ t \in parked)
        /\ status[t] \in {"DEAD", "PREEMPTED"} <=>
              t \notin runnable /\ t \notin parked /\ \A a \in Actors : ~Keeps(a, t)

KInv == PlaceInv /\ KeptInv

\* Initially every thread is in the run queues.
LEMMA InitKInv == Init => KInv
BY SuspendAssumption DEF Init, KInv, PlaceInv, KeptInv, Keeps, Actors

\* A CPU passes on the thread it has in hand, or gives it up as it stops or dies.
LEMMA CpuKInv == ASSUME NEW c \in Cpus, IInv, KInv, CpuStep(c) PROVE KInv'
<1> USE SuspendAssumption
<1> USE DEF Actors, States, CpuLabels, SuspenderLabels, OnCpu, StopLabels,
             Step, Holds, Is, CasState, unsuspended, SetStop
<1>1. ASSUME NEW t \in Threads, Find(c, t) PROVE KInv'
  <2>1. PlaceInv' BY <1>1 DEF Find, IInv, TypeOK, LabelInv, RunInv, KInv, PlaceInv, KeptInv, Keeps
  <2>2. KeptInv' BY <1>1 DEF Find, IInv, TypeOK, LabelInv, RunInv, KInv, PlaceInv, KeptInv, Keeps
  <2> QED BY <2>1, <2>2 DEF KInv
<1>2. CASE Execute(c)
  <2>1. PlaceInv' BY <1>2 DEF Execute, IInv, TypeOK, LabelInv, RunInv, KInv, PlaceInv, KeptInv, Keeps
  <2>2. KeptInv' BY <1>2 DEF Execute, IInv, TypeOK, LabelInv, RunInv, KInv, PlaceInv, KeptInv, Keeps
  <2> QED BY <2>1, <2>2 DEF KInv
<1>3. CASE Yield(c)
  <2>1. PlaceInv' BY <1>3 DEF Yield, IInv, TypeOK, LabelInv, RunInv, KInv, PlaceInv, KeptInv, Keeps
  <2>2. KeptInv' BY <1>3 DEF Yield, IInv, TypeOK, LabelInv, RunInv, KInv, PlaceInv, KeptInv, Keeps
  <2> QED BY <2>1, <2>2 DEF KInv
<1>4. CASE Stop(c)
  <2>1. PlaceInv' BY <1>4 DEF Stop, IInv, TypeOK, LabelInv, RunInv, KInv, PlaceInv, KeptInv, Keeps
  <2>2. KeptInv' BY <1>4 DEF Stop, IInv, TypeOK, LabelInv, RunInv, KInv, PlaceInv, KeptInv, Keeps
  <2> QED BY <2>1, <2>2 DEF KInv
<1>5. CASE Requeue(c)
  <2>1. PlaceInv' BY <1>5 DEF Requeue, IInv, TypeOK, LabelInv, RunInv, KInv, PlaceInv, KeptInv, Keeps
  <2>2. KeptInv' BY <1>5 DEF Requeue, IInv, TypeOK, LabelInv, RunInv, KInv, PlaceInv, KeptInv, Keeps
  <2> QED BY <2>1, <2>2 DEF KInv
<1>6. CASE Put(c)
  <2>1. PlaceInv' BY <1>6 DEF Put, IInv, TypeOK, LabelInv, RunInv, KInv, PlaceInv, KeptInv, Keeps
  <2>2. KeptInv' BY <1>6 DEF Put, IInv, TypeOK, LabelInv, RunInv, KInv, PlaceInv, KeptInv, Keeps
  <2> QED BY <2>1, <2>2 DEF KInv
<1>7. CASE Park(c)
  <2>1. PlaceInv' BY <1>7 DEF Park, IInv, TypeOK, LabelInv, RunInv, KInv, PlaceInv, KeptInv, Keeps
  <2>2. KeptInv' BY <1>7 DEF Park, IInv, TypeOK, LabelInv, RunInv, KInv, PlaceInv, KeptInv, Keeps
  <2> QED BY <2>1, <2>2 DEF KInv
<1>8. CASE Drop(c)
  <2>1. PlaceInv' BY <1>8 DEF Drop, IInv, TypeOK, LabelInv, RunInv, KInv, PlaceInv, KeptInv, Keeps
  <2>2. KeptInv' BY <1>8 DEF Drop, IInv, TypeOK, LabelInv, RunInv, KInv, PlaceInv, KeptInv, Keeps
  <2> QED BY <2>1, <2>2 DEF KInv
<1> QED BY <1>1, <1>2, <1>3, <1>4, <1>5, <1>6, <1>7, <1>8 DEF CpuStep

\* A waker takes a parked or a dead thread and puts it in the run queues.
LEMMA WakerKInv == ASSUME NEW w \in Wakers, IInv, KInv, WakerStep(w) PROVE KInv'
<1> USE SuspendAssumption
<1> USE DEF Actors, States, CpuLabels, SuspenderLabels, OnCpu, StopLabels,
             Step, Holds, Is, CasState, unsuspended, SetStop
<1>1. CASE Ready(w, "idle")
  <2>1. PlaceInv' BY <1>1 DEF Ready, IInv, TypeOK, LabelInv, RunInv, KInv, PlaceInv, KeptInv, Keeps
  <2>2. KeptInv' BY <1>1 DEF Ready, IInv, TypeOK, LabelInv, RunInv, KInv, PlaceInv, KeptInv, Keeps
  <2> QED BY <2>1, <2>2 DEF KInv
<1>2. ASSUME NEW t \in Threads, Wake(w, t) PROVE KInv'
  <2>1. PlaceInv' BY <1>2 DEF Wake, IInv, TypeOK, LabelInv, RunInv, KInv, PlaceInv, KeptInv, Keeps
  <2>2. KeptInv' BY <1>2 DEF Wake, IInv, TypeOK, LabelInv, RunInv, KInv, PlaceInv, KeptInv, Keeps
  <2> QED BY <2>1, <2>2 DEF KInv
<1>3. ASSUME NEW t \in Threads, Create(w, t) PROVE KInv'
  <2>1. PlaceInv' BY <1>3 DEF Create, IInv, TypeOK, LabelInv, RunInv, KInv, PlaceInv, KeptInv, Keeps
  <2>2. KeptInv' BY <1>3 DEF Create, IInv, TypeOK, LabelInv, RunInv, KInv, PlaceInv, KeptInv, Keeps
  <2> QED BY <2>1, <2>2 DEF KInv
<1> QED BY <1>1, <1>2, <1>3 DEF WakerStep

\* A suspender that takes a preempted thread keeps it until it readies it.
LEMMA SuspenderKInv == ASSUME NEW s \in Suspenders, IInv, KInv, SuspenderStep(s) PROVE KInv'
<1> USE SuspendAssumption
<1> USE DEF Actors, States, CpuLabels, SuspenderLabels, OnCpu, StopLabels,
             Step, Holds, Is, CasState, unsuspended, SetStop
<1>1. ASSUME NEW t \in Threads, SuspendCall(s, t) PROVE KInv'
  <2>1. PlaceInv' BY <1>1 DEF SuspendCall, IInv, TypeOK, LabelInv, RunInv, KInv, PlaceInv, KeptInv, Keeps
  <2>2. KeptInv' BY <1>1, SMTT(30) DEF SuspendCall, IInv, TypeOK, LabelInv, RunInv, KInv, PlaceInv, KeptInv, Keeps
  <2> QED BY <2>1, <2>2 DEF KInv
<1>2. CASE Look(s)
  <2>1. PlaceInv' BY <1>2 DEF Look, IInv, TypeOK, LabelInv, RunInv, KInv, PlaceInv, KeptInv, Keeps
  <2>2. KeptInv' BY <1>2, SMTT(30) DEF Look, IInv, TypeOK, LabelInv, RunInv, KInv, PlaceInv, KeptInv, Keeps
  <2> QED BY <2>1, <2>2 DEF KInv
<1>3. CASE Take(s)
  <2>1. hand[s] \in Threads /\ UNCHANGED <<hand, runnable, parked>> /\ ~stopped[s]
    BY <1>3 DEF Take, IInv, LabelInv, KInv, PlaceInv
  <2>2. CASE Is(hand[s], "PREEMPTED")
    <3>1. /\ pc[s] = "take" /\ pc' = [pc EXCEPT ![s] = "taken"]
          /\ status' = [status EXCEPT ![hand[s]] = "WAITING"]
          /\ stopped' = [stopped EXCEPT ![s] = TRUE]
      BY <1>3, <2>2 DEF Take, IInv, TypeOK
    <3>2. hand[s] \notin runnable /\ hand[s] \notin parked /\ \A a \in Actors : ~Keeps(a, hand[s])
      BY <2>1, <2>2 DEF KInv, KeptInv
    <3>3. \A a \in Cpus \cup Wakers : hand[a] # hand[s]
      BY <3>2 DEF Keeps
    <3>4. PlaceInv'
      BY <2>1, <3>1, <3>2, <3>3 DEF IInv, TypeOK, LabelInv, KInv, PlaceInv, Keeps
    <3>5. Keeps(s, hand[s])' /\ \A a \in Actors, t \in Threads :
                                   a # s => (Keeps(a, t)' <=> Keeps(a, t))
      BY <2>1, <3>1 DEF Keeps, IInv, TypeOK
    <3>6. \A t \in Threads : t # hand[s] => ~Keeps(s, t)' /\ ~Keeps(s, t) /\ status'[t] = status[t]
      BY <2>1, <3>1 DEF Keeps, IInv, TypeOK
    <3>7. KeptInv'
      BY <2>1, <3>1, <3>2, <3>5, <3>6, SMTT(30) DEF IInv, TypeOK, KInv, KeptInv
    <3> QED BY <3>4, <3>7 DEF KInv
  <2>3. CASE ~(Is(hand[s], "PREEMPTED"))
    <3>1. /\ pc[s] = "take" /\ pc' = [pc EXCEPT ![s] = "look"]
          /\ UNCHANGED <<status, runnable, parked, hand, stopped>>
      BY <1>3, <2>3 DEF Take
    <3> QED BY <2>1, <3>1 DEF IInv, TypeOK, LabelInv, KInv, PlaceInv, KeptInv, Keeps
  <2> QED BY <2>2, <2>3
<1>4. CASE Taken(s)
  <2>1. PlaceInv' BY <1>4 DEF Taken, IInv, TypeOK, LabelInv, RunInv, KInv, PlaceInv, KeptInv, Keeps
  <2>2. KeptInv' BY <1>4 DEF Taken, IInv, TypeOK, LabelInv, RunInv, KInv, PlaceInv, KeptInv, Keeps
  <2> QED BY <2>1, <2>2 DEF KInv
<1>5. CASE Claim(s)
  <2>1. PlaceInv' BY <1>5 DEF Claim, IInv, TypeOK, LabelInv, RunInv, KInv, PlaceInv, KeptInv, Keeps
  <2>2. KeptInv' BY <1>5 DEF Claim, IInv, TypeOK, LabelInv, RunInv, KInv, PlaceInv, KeptInv, Keeps
  <2> QED BY <2>1, <2>2 DEF KInv
<1>6. CASE Claimed(s)
  <2>1. PlaceInv' BY <1>6 DEF Claimed, IInv, TypeOK, LabelInv, RunInv, KInv, PlaceInv, KeptInv, Keeps
  <2>2. KeptInv' BY <1>6 DEF Claimed, IInv, TypeOK, LabelInv, RunInv, KInv, PlaceInv, KeptInv, Keeps
  <2> QED BY <2>1, <2>2 DEF KInv
<1>7. CASE Request(s)
  <2>1. PlaceInv' BY <1>7 DEF Request, IInv, TypeOK, LabelInv, RunInv, KInv, PlaceInv, KeptInv, Keeps
  <2>2. KeptInv' BY <1>7 DEF Request, IInv, TypeOK, LabelInv, RunInv, KInv, PlaceInv, KeptInv, Keeps
  <2> QED BY <2>1, <2>2 DEF KInv
<1>8. CASE Requested(s)
  <2>1. PlaceInv' BY <1>8 DEF Requested, IInv, TypeOK, LabelInv, RunInv, KInv, PlaceInv, KeptInv, Keeps
  <2>2. KeptInv' BY <1>8 DEF Requested, IInv, TypeOK, LabelInv, RunInv, KInv, PlaceInv, KeptInv, Keeps
  <2> QED BY <2>1, <2>2 DEF KInv
<1>9. CASE Release(s)
  <2>1. PlaceInv' BY <1>9 DEF Release, IInv, TypeOK, LabelInv, RunInv, KInv, PlaceInv, KeptInv, Keeps
  <2>2. KeptInv' BY <1>9 DEF Release, IInv, TypeOK, LabelInv, RunInv, KInv, PlaceInv, KeptInv, Keeps
  <2> QED BY <2>1, <2>2 DEF KInv
<1>10. CASE Resume(s)
  <2>1. PlaceInv' BY <1>10 DEF Resume, IInv, TypeOK, LabelInv, RunInv, KInv, PlaceInv, KeptInv, Keeps
  <2>2. KeptInv' BY <1>10 DEF Resume, IInv, TypeOK, LabelInv, RunInv, KInv, PlaceInv, KeptInv, Keeps
  <2> QED BY <2>1, <2>2 DEF KInv
<1>11. CASE Ready(s, "out")
  <2>1. PlaceInv' BY <1>11 DEF Ready, IInv, TypeOK, LabelInv, RunInv, KInv, PlaceInv, KeptInv, Keeps
  <2>2. KeptInv' BY <1>11, SMTT(30) DEF Ready, IInv, TypeOK, LabelInv, RunInv, KInv, PlaceInv, KeptInv, Keeps
  <2> QED BY <2>1, <2>2 DEF KInv
<1> QED BY <1>1, <1>2, <1>3, <1>4, <1>5, <1>6, <1>7, <1>8, <1>9, <1>10, <1>11 DEF SuspenderStep

\* A thread that is not dead or stopped is known to exactly one place: never
\* forgotten, never readied twice, for any number of CPUs, wakers and suspenders.
THEOREM SpecOneKeeper == Spec => []OneKeeper
<1>1. IInv /\ KInv /\ [Next]_vars => KInv'
  <2>1. KInv /\ UNCHANGED vars => KInv'
    BY DEF vars, KInv, PlaceInv, KeptInv, Keeps
  <2> QED BY <2>1, CpuKInv, WakerKInv, SuspenderKInv DEF Next
<1>2. IInv /\ KInv => OneKeeper
  <2> SUFFICES ASSUME IInv, KInv, NEW t \in Threads
               PROVE  Cardinality(Keepers(t)) + Cardinality(runnable \cap {t}) + Cardinality(parked \cap {t})
                        = IF status[t] \in {"DEAD", "PREEMPTED"} THEN 0 ELSE 1
    BY DEF OneKeeper
  <2>1. Keepers(t) = {a \in Actors : Keeps(a, t)}
    BY SuspendAssumption DEF Keepers, Keeps, Actors, KInv, PlaceInv
  <2>2. Cardinality({}) = 0 /\ \A x : Cardinality({x}) = 1
    BY FS_EmptySet, FS_Singleton
  <2>3. CASE \E a \in Actors : Keeps(a, t)
    <3>1. PICK a \in Actors : Keeps(a, t)  BY <2>3
    <3>2. Keepers(t) = {a} /\ runnable \cap {t} = {} /\ parked \cap {t} = {}
      BY <2>1, <3>1 DEF KInv, KeptInv
    <3>3. status[t] \notin {"DEAD", "PREEMPTED"}
      BY <3>1 DEF KInv, KeptInv
    <3>4. Cardinality(Keepers(t)) = 1
      BY <2>2, <3>2, Zenon
    <3>5. Cardinality(runnable \cap {t}) = 0 /\ Cardinality(parked \cap {t}) = 0
      BY <2>2, <3>2, Zenon
    <3> QED BY <3>3, <3>4, <3>5
  <2>4. CASE ~(\E a \in Actors : Keeps(a, t))
    <3>1. Keepers(t) = {}
      BY <2>1, <2>4
    <3>0. Cardinality(Keepers(t)) = 0
      BY <2>2, <3>1, Zenon
    <3>2. CASE t \in runnable
      <4>1. runnable \cap {t} = {t} /\ parked \cap {t} = {} /\ status[t] \notin {"DEAD", "PREEMPTED"}
        BY <3>2 DEF KInv, KeptInv
      <4>2. Cardinality(runnable \cap {t}) = 1 /\ Cardinality(parked \cap {t}) = 0
        BY <2>2, <4>1, Zenon
      <4> QED BY <3>0, <4>1, <4>2
    <3>3. CASE t \in parked
      <4>1. runnable \cap {t} = {} /\ parked \cap {t} = {t} /\ status[t] \notin {"DEAD", "PREEMPTED"}
        BY <3>3 DEF KInv, KeptInv
      <4>2. Cardinality(runnable \cap {t}) = 0 /\ Cardinality(parked \cap {t}) = 1
        BY <2>2, <4>1, Zenon
      <4> QED BY <3>0, <4>1, <4>2
    <3>4. CASE t \notin runnable /\ t \notin parked
      <4>1. runnable \cap {t} = {} /\ parked \cap {t} = {} /\ status[t] \in {"DEAD", "PREEMPTED"}
        BY <2>4, <3>4 DEF KInv, KeptInv
      <4>2. Cardinality(runnable \cap {t}) = 0 /\ Cardinality(parked \cap {t}) = 0
        BY <2>2, <4>1, Zenon
      <4> QED BY <3>0, <4>1, <4>2
    <3> QED BY <3>2, <3>3, <3>4
  <2> QED BY <2>3, <2>4
<1> QED BY InitKInv, SpecIInv, <1>1, <1>2, PTL DEF Spec
=============================================================================
