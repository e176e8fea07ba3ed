------------------------------- MODULE MCSync -------------------------------
(***************************************************************************)
(* The reader/writer mutex, the wait group and the condition variable in   *)
(* one model: all three are at rest at first, and a behaviour uses one of  *)
(* them.                                                                   *)
(***************************************************************************)
EXTENDS Integers, Sequences, FiniteSets

CONSTANTS Threads, NoThread, MaxReaders, Workers, Waiters, MaxJobs, Half, Start, MaxItems

ASSUME SyncAssumption ==
    /\ IsFiniteSet(Threads) /\ NoThread \notin Threads
    /\ MaxReaders \in Nat /\ Cardinality(Threads) < MaxReaders
    /\ IsFiniteSet(Workers) /\ IsFiniteSet(Waiters) /\ Workers \cap Waiters = {}
    /\ MaxJobs \in Nat /\ MaxItems \in Nat
    /\ Half \in Nat /\ Cardinality(Threads) < Half /\ Start \in 0..(2 * Half - 1)

VARIABLES object,       \* the object this behaviour uses
          mutex, readerCount, readerWait, sem, pc, r,
          state, sema, jobs, wpc, loc,
          wait, notify, llock, list, ticket, asleep, npc, seen, wake, items, cpc

RW == INSTANCE RWMutex
WG == INSTANCE WaitGroup WITH pc <- wpc
CV == INSTANCE Conditional

rwVars == <<readerCount, readerWait, sem, pc, r>>
wgVars == <<state, sema, jobs, wpc, loc>>
cvVars == <<wait, notify, llock, list, ticket, asleep, npc, seen, wake, items, cpc>>
vars == <<object, mutex, rwVars, wgVars, cvVars>>

Init == object \in {"rwmutex", "wait_group", "conditional"} /\ RW!Init /\ WG!Init /\ CV!Init

RWStep == object = "rwmutex" /\ RW!Next /\ UNCHANGED <<object, wgVars, cvVars>>
WGStep == object = "wait_group" /\ WG!Next /\ UNCHANGED <<object, mutex, rwVars, cvVars>>
CVStep == object = "conditional" /\ CV!Next /\ UNCHANGED <<object, rwVars, wgVars>>

Next == RWStep \/ WGStep \/ CVStep

\* A thread inside a call of the wait group keeps running.
Fairness == \A t \in Workers \cup Waiters : WF_wgVars(WG!Inside(t))

Spec == Init /\ [][Next]_vars /\ Fairness

----------------------------------------------------------------------------
\* reader_count never drifts from the readers inside or waiting, less
\* MAX_READERS while a writer is announced (rwmutex.c).
ReaderCountExact == RW!ReaderCountExact

\* Every registered waiter is counted once: in the word, in the loop of the
\* thread that brought the counter to 0, or by a permit (wait_group.c).
WaitersAccounted == WG!WaitersAccounted

\* A registered waiter returns once the counter is 0 (wait_group.c).
WaitersReturn == WG!WaitersReturn

\* The distance of the two counters is the number of tickets still to be
\* notified, when they wrap too (notify_list.c).
TicketsMatchCounters == CV!TicketsMatchCounters

\* When there is an item and a consumer sleeps un-notified, somebody is awake
\* who will take it or wake a consumer (conditional.c).
NoLostSignal == CV!NoLostSignal
=============================================================================
