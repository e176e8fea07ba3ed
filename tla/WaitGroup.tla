----------------------------- MODULE WaitGroup -----------------------------
(***************************************************************************)
(* The wait group of kernel/sync/wait_group.c: a counter of jobs and a     *)
(* count of waiters in one 64-bit word, and a semaphore, abstracted to its *)
(* permits (see SemaphoreClient).                                          *)
(*                                                                         *)
(* The client follows the rule the comments state: it raises the counter   *)
(* from 0 only when no call of wait_group_wait is under way.               *)
(***************************************************************************)
EXTENDS Integers, FiniteSets

CONSTANTS Workers,      \* the threads that add and finish jobs
          Waiters,      \* the threads that wait for the jobs
          MaxJobs       \* bound on the jobs under way

VARIABLES
    state,      \* wg->state: [v |-> counter, w |-> waiters]
    sema,       \* permits of wg->sema
    jobs,       \* the jobs the client has added and not yet finished
    pc,         \* where each thread is
    loc         \* the local copy of the word: `state` or, in the loop, w

Users == Workers \cup Waiters

vars == <<state, sema, jobs, pc, loc>>

Zero == [v |-> 0, w |-> 0]

Goto(t, l) == pc' = [pc EXCEPT ![t] = l]

Init ==
    /\ state = Zero
    /\ sema = 0
    /\ jobs = 0
    /\ pc = [t \in Users |-> "idle"]
    /\ loc = [t \in Users |-> Zero]

----------------------------------------------------------------------------
InWait == {t \in Users : pc[t] \in {"wait", "cas", "sleep", "woken"}}

MayAdd == state.v > 0 \/ InWait = {}
\* wait_group_add up to its return or its slow path: the atomic add on the
\* counter half and the tests on the value it left.
Added(t, delta) ==
    LET new == [state EXCEPT !.v = @ + delta]
    IN  /\ pc[t] = "idle"
        /\ state' = new
        /\ IF new.v > 0 \/ new.w = 0
           THEN UNCHANGED <<pc, loc>>
           ELSE Goto(t, "sanity") /\ loc' = [loc EXCEPT ![t] = new]
        /\ UNCHANGED sema

Add(t) ==
    /\ jobs < MaxJobs /\ MayAdd
    /\ Added(t, 1)
    /\ jobs' = jobs + 1

\* wait_group_done by the thread that ran a job.
Done(t) ==
    /\ jobs > 0
    /\ Added(t, -1)
    /\ jobs' = jobs - 1

\* The sanity check halts the machine when the word has changed.
Sanity(t) ==
    /\ pc[t] = "sanity"
    /\ state = loc[t]
    /\ Goto(t, "reset")
    /\ UNCHANGED <<state, sema, jobs, loc>>
\* Mutant: the waiters stay in the word.
ResetForgotten(t) ==
    /\ pc[t] = "reset"
    /\ Goto(t, "release")
    /\ UNCHANGED <<state, sema, jobs, loc>>

Reset(t) ==
    /\ pc[t] = "reset"
    /\ state' = Zero
    /\ Goto(t, "release")
    /\ UNCHANGED <<sema, jobs, loc>>

\* The loop `for (; w != 0; w--)`, entered with w # 0.
Release(t) ==
    /\ pc[t] = "release"
    /\ sema' = sema + 1
    /\ loc' = [loc EXCEPT ![t].w = @ - 1]
    /\ Goto(t, IF loc[t].w = 1 THEN "idle" ELSE "release")
    /\ UNCHANGED <<state, jobs>>

----------------------------------------------------------------------------
WaitCall(t) ==
    /\ pc[t] = "idle"
    /\ Goto(t, "wait")
    /\ UNCHANGED <<state, sema, jobs, loc>>

WaitLoad(t) ==
    /\ pc[t] = "wait"
    /\ IF state.v = 0
       THEN Goto(t, "idle") /\ UNCHANGED loc
       ELSE Goto(t, "cas") /\ loc' = [loc EXCEPT ![t] = state]
    /\ UNCHANGED <<state, sema, jobs>>
\* Mutant: the waiter is added without comparing the word.
WaitAdd(t) ==
    /\ pc[t] = "cas"
    /\ state' = [state EXCEPT !.w = @ + 1]
    /\ Goto(t, "sleep")
    /\ loc' = [loc EXCEPT ![t] = Zero]
    /\ UNCHANGED <<sema, jobs>>

WaitCas(t) ==
    /\ pc[t] = "cas"
    /\ IF state = loc[t]
       THEN state' = [state EXCEPT !.w = @ + 1] /\ Goto(t, "sleep")
       ELSE UNCHANGED state /\ Goto(t, "wait")
    /\ loc' = [loc EXCEPT ![t] = Zero]
    /\ UNCHANGED <<sema, jobs>>

WaitAcquired(t) ==
    /\ pc[t] = "sleep"
    /\ sema > 0
    /\ sema' = sema - 1
    /\ Goto(t, "woken")
    /\ UNCHANGED <<state, jobs, loc>>

\* The assertion on the word has a string as its condition and never fires.
WaitReturn(t) ==
    /\ pc[t] = "woken"
    /\ Goto(t, "idle")
    /\ UNCHANGED <<state, sema, jobs, loc>>

Inside(t) ==
    Sanity(t) \/ Reset(t) \/ Release(t) \/ WaitLoad(t) \/ WaitCas(t) \/ WaitAcquired(t) \/ WaitReturn(t)

Next ==
    \/ \E t \in Workers : Add(t) \/ Done(t)
    \/ \E t \in Waiters : WaitCall(t)
    \/ \E t \in Users : Inside(t)

Spec == Init /\ [][Next]_vars

\* A thread inside a call keeps running.
FairSpec == Spec /\ \A t \in Users : WF_vars(Inside(t))

----------------------------------------------------------------------------
(* Properties                                                              *)

\* Every variable keeps its type; neither half of the word goes below 0.
TypeOK ==
    /\ state \in [v : Nat, w : Nat]
    /\ sema \in Nat /\ jobs \in Nat
    /\ pc \in [Users -> {"idle", "sanity", "reset", "release", "wait", "cas", "sleep", "woken"}]
    /\ loc \in [Users -> [v : Nat, w : Nat]]

Releasing == {t \in Users : pc[t] = "release"}

\* Every registered waiter is counted once: in the word, in the loop of the
\* thread that brought the counter to 0, or by a permit.  None is left behind
\* when the word is reset to 0.
WaitersAccounted ==
    Cardinality({t \in Users : pc[t] = "sleep"}) =
        state.w + sema + (IF Releasing = {} THEN 0 ELSE loc[CHOOSE t \in Releasing : TRUE].w)

\* A registered waiter does return once the counter is 0.
WaitersReturn ==
    \A t \in Users : (pc[t] = "sleep" /\ state.v = 0) ~> pc[t] = "idle"

=============================================================================
