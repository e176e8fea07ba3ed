-------------------------- MODULE SemaphoreClient --------------------------
(***************************************************************************)
(* The most general well-behaved client of one semaphore, and what the     *)
(* semaphore promises to it.  A thread acquires and then either releases   *)
(* its permit (hammer_semaphore of kernel/sync/semaphore.c) or uses it up; *)
(* a thread without a permit may post a new one, as wait_group_add does    *)
(* for its waiters.  Every call may choose the front of the queue and the  *)
(* direct hand-off, as mutex.c does.                                       *)
(***************************************************************************)
EXTENDS Semaphore

CONSTANTS Permits,      \* the initial value
          MaxCredit     \* bound on the number of permits that exist

ASSUME PermitsAssumption == Permits \in Nat /\ MaxCredit \in Nat /\ Permits <= MaxCredit

VARIABLES client,       \* what each thread is doing with the semaphore
          credit        \* the permits that exist, free or owned

clientVars == <<value, nwait, lock, waiters, ticket, status, spc, lifo, handoff, wt, client, credit>>

ClientInit ==
    /\ SemInit(Permits)
    /\ client = [t \in Threads |-> "idle"]
    /\ credit = Permits

StartAcquire(t, front) ==
    /\ client[t] = "idle"
    /\ AcquireCall(t, front)
    /\ client' = [client EXCEPT ![t] = "acquiring"]
    /\ UNCHANGED credit

\* The calls of a thread return to it when spc[t] is "idle" again.
Acquired(t) ==
    /\ client[t] = "acquiring"
    /\ SemReturn(t)
    /\ client' = [client EXCEPT ![t] = "held"]
    /\ UNCHANGED credit

StartRelease(t, direct) ==
    /\ client[t] = "held"
    /\ ReleaseCall(t, direct)
    /\ client' = [client EXCEPT ![t] = "releasing"]
    /\ UNCHANGED credit

Post(t, direct) ==
    /\ client[t] = "idle"
    /\ credit < MaxCredit
    /\ ReleaseCall(t, direct)
    /\ client' = [client EXCEPT ![t] = "releasing"]
    /\ credit' = credit + 1

Released(t) ==
    /\ client[t] = "releasing"
    /\ SemReturn(t)
    /\ client' = [client EXCEPT ![t] = "idle"]
    /\ UNCHANGED credit

Consume(t) ==
    /\ client[t] = "held"
    /\ client' = [client EXCEPT ![t] = "idle"]
    /\ credit' = credit - 1
    /\ UNCHANGED semvars

Work(t) == SemStep(t) /\ UNCHANGED <<client, credit>>

ClientNext ==
    \E t \in Threads :
        \/ \E b \in BOOLEAN : StartAcquire(t, b) \/ StartRelease(t, b) \/ Post(t, b)
        \/ Acquired(t) \/ Released(t) \/ Consume(t)
        \/ Work(t)

ClientSpec == ClientInit /\ [][ClientNext]_clientVars

\* A thread inside a call keeps being scheduled; nothing is assumed of the
\* client, which may stop between calls, nor of who wins the spinlock.
FairClientSpec == ClientSpec /\ \A t \in Threads : WF_clientVars(Work(t))

----------------------------------------------------------------------------
(* Properties                                                              *)

\* Every variable keeps its type.
TypeOK ==
    /\ SemTypeOK
    /\ client \in [Threads -> {"idle", "acquiring", "held", "releasing"}]
    /\ credit \in Int

\* The permit a thread has: it has taken one out of value, or a releaser has
\* taken it out for the thread and left the ticket, or it is about to give
\* one back.
Owners ==
    {t \in Threads :
        \/ client[t] = "held"
        \/ client[t] = "acquiring" /\ (spc[t] \in {"idle", "acq_undo", "acq_unlock"} \/ ticket[t] = 1)
        \/ client[t] = "releasing" /\ spc[t] = "rel_add"}

\* No permit is lost and none is granted twice, whichever way barging
\* acquirers, woken waiters and direct hand-offs interleave: the free permits
\* and the owned ones always add up (semaphore_can_acquire, wt->ticket).
PermitsConserved == value + Cardinality(Owners) = credit

\* The assertions of the wake path: the waiter a releaser holds has no ticket
\* yet ("corrupted semaphore ticket"), and scheduler_ready_thread finds the
\* thread WAITING, so that no wake-up can overtake the parking.
WakeAssertions ==
    \A t \in Threads :
        /\ spc[t] = "rel_grant" => ticket[wt[t]] = 0
        /\ spc[t] = "rel_ready" => status[wt[t]] = "waiting" /\ spc[wt[t]] = "parked"

\* A sleeping thread is never forgotten: it is in the queue or in the hands
\* of exactly one releaser.
SleeperReachable ==
    \A t \in Threads :
        (spc[t] = "parked" /\ status[t] = "waiting") =>
            Cardinality({i \in DOMAIN waiters : waiters[i] = t})
              + Cardinality({r \in Threads : wt[r] = t}) = 1

\* A free permit and a sleeper do not coexist for ever: some thread takes the
\* permit or the queue drains, without help from the client.
PermitReachesSomeone ==
    (value > 0 /\ waiters # << >>) ~> (value = 0 \/ waiters = << >>)
=============================================================================
