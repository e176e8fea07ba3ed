------------------------------ MODULE MCStatus ------------------------------
(***************************************************************************)
(* The two status words that other CPUs change by a CAS: that of a thread  *)
(* under suspend and resume, and that of a timer.  The two do not interact *)
(* here: part says which of them moves in a behaviour.                     *)
(***************************************************************************)
EXTENDS Suspend, TimerHeap, Functions, TLC

CONSTANTS Timers, t1, t2, Whens, MaxNow, MaxCalls
VARIABLES part, now, q, tm, client, calls, noPreempt, tpc, tloc, due

\* One timer is periodic, the other is not.
MCPeriod == t1 :> 1 @@ t2 :> 0
T == INSTANCE Timer WITH Period <- MCPeriod, pc <- tpc, loc <- tloc
Symmetry == Permutations(Cpus)

tvars == <<now, q, tm, client, calls, noPreempt, tpc, tloc, due>>
MCVars == <<vars, part, tvars>>
MCInit == Init /\ T!Init /\ part \in {"threads", "timers"}

\* The clients of the timers may have made all their calls.
MCNext ==
    /\ UNCHANGED part
    /\ \/ part = "threads" /\ Next /\ UNCHANGED tvars
       \/ part = "timers" /\ T!Next /\ UNCHANGED vars
       \/ part = "timers" /\ UNCHANGED <<vars, tvars>>

MCSpec == MCInit /\ [][MCNext]_MCVars

\* Timer!HeapsInOrder, StatusMatchesHeaps and FiresWhenDue, of the heaps of
\* timers that check_timers, timer_stop and timer_modify share.
HeapsInOrder == T!HeapsInOrder
StatusMatchesHeaps == T!StatusMatchesHeaps
FiresWhenDue == T!FiresWhenDue

\* The heap operations on every heap of up to HeapLen timers, enough for a node
\* with four children and one with two: what do_add_timer, do_delete_timer0 and
\* do_delete_timer leave is a heap of the right timers, and no place before the
\* index that do_delete_timer returns has changed.
HeapLen == 7
ASSUME HeapOperations ==
    \A n \in 1..HeapLen : \A when \in [1..n + 1 -> 0..2] :
        LET h == [i \in 1..n |-> i] IN
        IsHeap(h, when) =>
            /\ IsHeap(Added(h, when, n + 1), when) /\ Range(Added(h, when, n + 1)) = 1..n + 1
            /\ IsHeap(Deleted0(h, when), when) /\ Range(Deleted0(h, when)) = 2..n
            /\ \A i \in 1..n :
                 LET d == Deleted(h, when, i) IN
                 /\ IsHeap(d, when) /\ Range(d) = (1..n) \ {i}
                 /\ \A k \in 1..SmallestChanged(h, when, i) - 1 : d[k] = h[k]
=============================================================================
