------------------------------ MODULE Suspend -------------------------------
(***************************************************************************)
(* The status word of a thread and who may change it: the CPUs that run,   *)
(* yield, park, drop and ready threads, and the callers of                 *)
(* scheduler_suspend_thread and scheduler_resume_thread, who lock a status *)
(* with the THREAD_SUSPEND bit (kernel/thread/scheduler.c, thread.c).      *)
(*                                                                         *)
(* cas_thread_state retries until it succeeds, so it is a step enabled     *)
(* when the status is the expected one.  A suspender reads the status and  *)
(* then makes a CAS that may fail, in two steps.  The run queues are a set *)
(* here (module RunQueue shows what they promise), and so are the threads  *)
(* parked with somebody who is going to ready them.  The suspenders, and   *)
(* the wakers that ready and create threads, run on CPUs of their own.  A  *)
(* descriptor of a dead thread is used again by create_thread.             *)
(***************************************************************************)
EXTENDS Naturals, FiniteSets

CONSTANTS Threads, Cpus, Suspenders, Wakers, None

ASSUME SuspendAssumption ==
    /\ None \notin Threads
    /\ Cpus \cap Suspenders = {} /\ Wakers \cap (Cpus \cup Suspenders) = {}

VARIABLES
    status,             \* the status of each thread, without the suspend bit
    suspend,            \* the suspend bit of each status
    preempt_stop,
    runnable,           \* the threads in the run queues
    parked,             \* the threads some waker knows of
    pc, hand,           \* of each actor: the thread it works on
    seen, stopped       \* of each suspender: `status' and `stopped'

vars == <<status, suspend, preempt_stop, runnable, parked, pc, hand, seen, stopped>>

Actors == Cpus \cup Suspenders \cup Wakers

States == {"RUNNABLE", "RUNNING", "WAITING", "PREEMPTED", "DEAD"}

\* Every thread has been created and readied, none has run.
Init ==
    /\ status = [t \in Threads |-> "RUNNABLE"]
    /\ suspend = [t \in Threads |-> FALSE]
    /\ preempt_stop = [t \in Threads |-> FALSE]
    /\ runnable = Threads
    /\ parked = {}
    /\ pc = [a \in Actors |-> IF a \in Suspenders THEN "out" ELSE "idle"]
    /\ hand = [a \in Actors |-> None]
    /\ seen = [s \in Suspenders |-> "DEAD"]
    /\ stopped = [s \in Suspenders |-> FALSE]

Step(a, from, to) == pc[a] = from /\ pc' = [pc EXCEPT ![a] = to]
Holds(a, t) == hand' = [hand EXCEPT ![a] = t]

\* The status word is the given one, suspend bit clear.
Is(t, st) == status[t] = st /\ ~suspend[t]

\* cas_thread_state(t, old, new)
CasState(t, old, new) == Is(t, old) /\ status' = [status EXCEPT ![t] = new]

unsuspended == <<suspend, preempt_stop, seen, stopped>>

----------------------------------------------------------------------------
(* The CPUs                                                                *)

\* find_runnable
Find(c, t) ==
    /\ t \in runnable
    /\ Step(c, "idle", "execute") /\ Holds(c, t)
    /\ runnable' = runnable \ {t}
    /\ UNCHANGED <<status, parked, unsuspended>>

\* Mutant: the new status is stored without looking at the old one.
ExecuteStore(c) ==
    /\ Step(c, "execute", "run")
    /\ status' = [status EXCEPT ![hand[c]] = "RUNNING"]
    /\ UNCHANGED <<runnable, parked, hand, unsuspended>>

Execute(c) ==
    /\ Step(c, "execute", "run")
    /\ CasState(hand[c], "RUNNABLE", "RUNNING")
    /\ UNCHANGED <<runnable, parked, hand, unsuspended>>

\* save_current_thread(ctx, false): preempt_stop is read, then the status changed.
Yield(c) ==
    /\ pc[c] = "run"
    /\ Step(c, "run", IF preempt_stop[hand[c]] THEN "stop" ELSE "requeue")
    /\ UNCHANGED <<status, runnable, parked, hand, unsuspended>>

Stop(c) ==
    /\ Step(c, "stop", "idle") /\ Holds(c, None)
    /\ CasState(hand[c], "RUNNING", "PREEMPTED")
    /\ UNCHANGED <<runnable, parked, unsuspended>>

Requeue(c) ==
    /\ Step(c, "requeue", "put")
    /\ CasState(hand[c], "RUNNING", "RUNNABLE")
    /\ UNCHANGED <<runnable, parked, hand, unsuspended>>

\* run_queue_put
Put(c) ==
    /\ Step(c, "put", "idle") /\ Holds(c, None)
    /\ runnable' = runnable \cup {hand[c]}
    /\ UNCHANGED <<status, parked, unsuspended>>

\* save_current_thread(ctx, true); the callback makes the thread known to a waker.
Park(c) ==
    /\ Step(c, "run", "idle") /\ Holds(c, None)
    /\ CasState(hand[c], "RUNNING", "WAITING")
    /\ parked' = parked \cup {hand[c]}
    /\ UNCHANGED <<runnable, unsuspended>>

\* scheduler_on_drop
Drop(c) ==
    /\ Step(c, "run", "idle") /\ Holds(c, None)
    /\ CasState(hand[c], "RUNNING", "DEAD")
    /\ UNCHANGED <<runnable, parked, unsuspended>>

----------------------------------------------------------------------------
(* The wakers                                                              *)

\* Dequeue a parked thread from where it waits.
Wake(w, t) ==
    /\ t \in parked
    /\ Step(w, "idle", "ready") /\ Holds(w, t)
    /\ parked' = parked \ {t}
    /\ UNCHANGED <<status, runnable, unsuspended>>

\* create_thread on the descriptor of a thread that has exited.
Create(w, t) ==
    /\ Step(w, "idle", "ready") /\ Holds(w, t)
    /\ CasState(t, "DEAD", "WAITING")
    /\ UNCHANGED <<runnable, parked, unsuspended>>

\* scheduler_ready_thread
Ready(a, then) ==
    /\ Step(a, "ready", then) /\ Holds(a, None)
    /\ CasState(hand[a], "WAITING", "RUNNABLE")
    /\ runnable' = runnable \cup {hand[a]}
    /\ UNCHANGED <<parked, unsuspended>>

----------------------------------------------------------------------------
(* scheduler_suspend_thread                                                *)

SuspendCall(s, t) ==
    /\ Step(s, "out", "look") /\ Holds(s, t)
    /\ stopped' = [stopped EXCEPT ![s] = FALSE]
    /\ UNCHANGED <<status, suspend, preempt_stop, runnable, parked, seen>>

\* get_thread_status and the switch
Look(s) ==
    LET t == hand[s]
    IN  /\ pc[s] = "look"
        /\ \/ /\ suspend[t] /\ Step(s, "look", "look") /\ UNCHANGED hand
           \/ /\ Is(t, "DEAD") /\ Step(s, "look", "out") /\ Holds(s, None)
           \/ /\ Is(t, "PREEMPTED") /\ Step(s, "look", "take") /\ UNCHANGED hand
           \/ /\ Is(t, "RUNNABLE") \/ Is(t, "WAITING")
              /\ Step(s, "look", "claim") /\ UNCHANGED hand
           \/ /\ Is(t, "RUNNING") /\ preempt_stop[t]
              /\ Step(s, "look", "look") /\ UNCHANGED hand
           \/ /\ Is(t, "RUNNING") /\ ~preempt_stop[t]
              /\ Step(s, "look", "request") /\ UNCHANGED hand
        /\ seen' = [seen EXCEPT ![s] = status[t]]
        /\ UNCHANGED <<status, suspend, preempt_stop, runnable, parked, stopped>>

SetStop(t, b) == preempt_stop' = [preempt_stop EXCEPT ![t] = b]

\* cas_from_preempted: whoever wins has to ready the thread.
Take(s) ==
    LET t == hand[s]
    IN  /\ pc[s] = "take"
        /\ IF Is(t, "PREEMPTED")
           THEN /\ Step(s, "take", "taken")
                /\ status' = [status EXCEPT ![t] = "WAITING"]
                /\ seen' = [seen EXCEPT ![s] = "WAITING"]
                /\ stopped' = [stopped EXCEPT ![s] = TRUE]
           ELSE Step(s, "take", "look") /\ UNCHANGED <<status, seen, stopped>>
        /\ UNCHANGED <<suspend, preempt_stop, runnable, parked, hand>>

Taken(s) ==
    /\ Step(s, "taken", "claim")
    /\ SetStop(hand[s], FALSE)
    /\ UNCHANGED <<status, suspend, runnable, parked, hand, seen, stopped>>

\* Mutant: the bit is set whatever the status has become.
ClaimBlindly(s) ==
    /\ Step(s, "claim", "claimed")
    /\ suspend' = [suspend EXCEPT ![hand[s]] = TRUE]
    /\ UNCHANGED <<status, preempt_stop, runnable, parked, hand, seen, stopped>>

\* cas_to_suspend at a safe point
Claim(s) ==
    LET t == hand[s]
    IN  /\ pc[s] = "claim"
        /\ IF Is(t, seen[s])
           THEN Step(s, "claim", "claimed") /\ suspend' = [suspend EXCEPT ![t] = TRUE]
           ELSE Step(s, "claim", "look") /\ UNCHANGED suspend
        /\ UNCHANGED <<status, preempt_stop, runnable, parked, hand, seen, stopped>>

\* The function returns: the thread is suspended.
Claimed(s) ==
    /\ Step(s, "claimed", "suspended")
    /\ SetStop(hand[s], FALSE)
    /\ UNCHANGED <<status, suspend, runnable, parked, hand, seen, stopped>>

\* Ask a running thread to stop: bit, request, bit back.
Request(s) ==
    LET t == hand[s]
    IN  /\ pc[s] = "request"
        /\ IF Is(t, "RUNNING")
           THEN Step(s, "request", "requested") /\ suspend' = [suspend EXCEPT ![t] = TRUE]
           ELSE Step(s, "request", "look") /\ UNCHANGED suspend
        /\ UNCHANGED <<status, preempt_stop, runnable, parked, hand, seen, stopped>>

Requested(s) ==
    /\ Step(s, "requested", "release")
    /\ SetStop(hand[s], TRUE)
    /\ UNCHANGED <<status, suspend, runnable, parked, hand, seen, stopped>>

\* cas_from_suspend; its assertion is SuspendBitHeld.
Release(s) ==
    /\ Step(s, "release", "look")
    /\ suspend' = [suspend EXCEPT ![hand[s]] = FALSE]
    /\ UNCHANGED <<status, preempt_stop, runnable, parked, hand, seen, stopped>>

----------------------------------------------------------------------------
(* scheduler_resume_thread                                                 *)

\* Mutant: a thread that was stopped is not readied.
ResumeOnly(s) ==
    /\ Step(s, "suspended", "out") /\ Holds(s, None)
    /\ suspend' = [suspend EXCEPT ![hand[s]] = FALSE]
    /\ UNCHANGED <<status, preempt_stop, runnable, parked, seen, stopped>>

Resume(s) ==
    /\ Step(s, "suspended", IF stopped[s] THEN "ready" ELSE "out")
    /\ Holds(s, IF stopped[s] THEN hand[s] ELSE None)
    /\ suspend' = [suspend EXCEPT ![hand[s]] = FALSE]
    /\ UNCHANGED <<status, preempt_stop, runnable, parked, seen, stopped>>

----------------------------------------------------------------------------

CpuStep(c) ==
    \/ \E t \in Threads : Find(c, t)
    \/ Execute(c) \/ Yield(c) \/ Stop(c) \/ Requeue(c) \/ Put(c) \/ Park(c) \/ Drop(c)

WakerStep(w) == Ready(w, "idle") \/ \E t \in Threads : Wake(w, t) \/ Create(w, t)

SuspenderStep(s) ==
    \/ \E t \in Threads : SuspendCall(s, t)
    \/ Look(s) \/ Take(s) \/ Taken(s) \/ Claim(s) \/ Claimed(s)
    \/ Request(s) \/ Requested(s) \/ Release(s) \/ Resume(s) \/ Ready(s, "out")

Next ==
    \/ \E c \in Cpus : CpuStep(c)
    \/ \E w \in Wakers : WakerStep(w)
    \/ \E s \in Suspenders : SuspenderStep(s)

Spec == Init /\ [][Next]_vars

----------------------------------------------------------------------------
(* Properties                                                              *)

CpuLabels == {"idle", "execute", "run", "stop", "requeue", "put"}
SuspenderLabels == {"out", "look", "take", "taken", "claim", "claimed", "request", "requested",
                    "release", "suspended", "ready"}

\* Every variable keeps its type.
TypeOK ==
    /\ status \in [Threads -> States]
    /\ suspend \in [Threads -> BOOLEAN] /\ preempt_stop \in [Threads -> BOOLEAN]
    /\ runnable \subseteq Threads /\ parked \subseteq Threads
    /\ pc \in [Actors -> CpuLabels \cup SuspenderLabels]
    /\ hand \in [Actors -> Threads \cup {None}]
    /\ seen \in [Suspenders -> States] /\ stopped \in [Suspenders -> BOOLEAN]

\* The actors that have set the suspend bit of t and not cleared it.
Holders(t) == {s \in Suspenders : hand[s] = t /\ pc[s] \in {"claimed", "suspended", "requested", "release"}}

\* The suspend bit is a lock: set exactly while one suspender holds it, so
\* that the CAS of cas_from_suspend, which is asserted, cannot fail.
SuspendBitHeld ==
    \A t \in Threads :
        /\ suspend[t] <=> Holders(t) # {}
        /\ \A r, s \in Holders(t) : r = s

\* From the return of scheduler_suspend_thread to the resume the thread runs
\* nowhere, whatever was readying, running or parking it meanwhile.
SuspendedIsStill ==
    \A s \in Suspenders : pc[s] \in {"claimed", "suspended"} =>
        \A c \in Cpus : hand[c] = hand[s] => pc[c] \notin {"run", "stop", "requeue"}

\* Nobody changes the status of a suspended thread under the suspender that
\* looks at it: the bit goes before the status moves.
FrozenWhileSuspended ==
    [][\A t \in Threads : suspend[t] => status'[t] = status[t]]_vars

\* Those who have t in hand in order to run it, queue it or ready it.
Keepers(t) == {c \in Cpus \cup Wakers : hand[c] = t}
              \cup {s \in Suspenders : hand[s] = t /\ (pc[s] = "ready" \/ (stopped[s] /\ pc[s] # "out"))}

\* A thread that is not dead or stopped is always known to exactly one of the
\* run queues, a waker, a CPU, and the suspender that stopped it: it is never
\* forgotten, and nobody readies it twice.
OneKeeper ==
    \A t \in Threads :
        Cardinality(Keepers(t)) + Cardinality(runnable \cap {t}) + Cardinality(parked \cap {t})
            = IF status[t] \in {"DEAD", "PREEMPTED"} THEN 0 ELSE 1

\* thread.h says of THREAD_STATUS_PREEMPTED that the thread stopped itself
\* for a suspend preemption: some suspender is still after it.
PreemptedForASuspend ==
    \A t \in Threads : status[t] = "PREEMPTED" => \E s \in Suspenders : hand[s] = t /\ pc[s] # "out"
=============================================================================
