------------------------------- MODULE Timer -------------------------------
(***************************************************************************)
(* The timers of kernel/thread/timer.c.  Every CPU has a heap of timers    *)
(* under a lock, and two words that others read without it: the time of    *)
(* the first timer and the earliest time a timer has been modified to.     *)
(* A timer is stopped and modified from any CPU by changing its status;    *)
(* the heap catches up when a scheduler next runs check_timers, on its own *)
(* CPU's timers or on those of a CPU it steals from.                       *)
(*                                                                         *)
(* A failed assertion stops the CPU, with the locks it holds.  So does the *)
(* use of a timer that has been freed: what happens then is undefined, and *)
(* nothing is claimed of that CPU any more.  A thread that would yield and *)
(* try again simply has not made its call yet.                             *)
(***************************************************************************)
EXTENDS TimerHeap, FiniteSets, Functions

CONSTANTS Cpus, Timers, None,
          Whens,        \* the times a client asks for, positive
          Period,       \* the period each timer is given, 0 for none
          MaxNow,       \* bound on the clock
          MaxCalls      \* bound on the calls of timer_stop and timer_modify

VARIABLES
    now,            \* microtime()
    q,              \* timers_t of each CPU
    tm,             \* the timers
    client,         \* of each timer: "new", "held" by its user or "dropped"
    calls,          \* the calls of timer_stop and timer_modify so far
    noPreempt,      \* the CPUs that timer_modify has left with preemption disabled
    pc, loc,        \* where each CPU is, and its locals
    due             \* when each timer should fire next: None if it should not

vars == <<now, q, tm, client, calls, noPreempt, pc, loc, due>>

NoLoc == [v |-> None, t |-> None, when |-> 0, now |-> 0, i |-> 0, to |-> 0, moved |-> << >>]

Init ==
    /\ now = 1
    /\ q = [c \in Cpus |-> [lock |-> None, heap |-> << >>, timer0 |-> 0, earliest |-> 0, deleted |-> 0]]
    /\ tm = [t \in Timers |-> [status |-> "NO_STATUS", when |-> 0, nextwhen |-> 0, period |-> 0,
                               cpu |-> None, refs |-> 1, live |-> TRUE]]
    /\ client = [t \in Timers |-> "new"]
    /\ calls = 0
    /\ noPreempt = [c \in Cpus |-> FALSE]
    /\ pc = [c \in Cpus |-> "idle"]
    /\ loc = [c \in Cpus |-> NoLoc]
    /\ due = [t \in Timers |-> None]

----------------------------------------------------------------------------
Goto(c, l) == pc' = [pc EXCEPT ![c] = l]
Return(c) == Goto(c, "idle") /\ loc' = [loc EXCEPT ![c] = NoLoc]
Halt(c) == Goto(c, "halt") /\ UNCHANGED loc

When == [t \in Timers |-> tm[t].when]
Modified == {"MODIFIED_EARLIER", "MODIFIED_LATER"}

\* The timers that the next step of c looks at: those of the array it
\* rearranges, one of them where it only reads, or the timer it was called with.
Uses(c) ==
    LET h == q[loc[c].v].heap
        asleep(i) == tm[h[i]].live /\ tm[h[i]].status = "WAITING"
    IN  CASE pc[c] = "run" /\ h # << >> /\ asleep(1) /\ tm[h[1]].when > loc[c].now -> {h[1]}
          [] pc[c] = "adjust" /\ loc[c].i <= Len(h) /\ asleep(loc[c].i) -> {h[loc[c].i]}
          [] pc[c] = "sweep" -> {h[i] : i \in DOMAIN h \cap 1..loc[c].i}
          [] pc[c] = "readd" -> Range(q[c].heap) \cup {loc[c].t}
          [] pc[c] \in {"clean", "adjust", "run", "fire"} -> Range(h) \cup ({loc[c].t} \ {None})
          [] pc[c] # "count" -> {loc[c].t} \ {None}
          [] OTHER -> {}

\* CPU c is at l, and no timer it looks at there has been freed.
At(c, l) == pc[c] = l /\ \A t \in Uses(c) : tm[t].live

\* A queue with the array h: update_timer0_when.
With(queue, h, f) ==
    [queue EXCEPT !.heap = h, !.timer0 = IF h = << >> THEN 0 ELSE f[h[1]].when]

\* deleted_timers <= num_timers / 4; the counter is unsigned.
FewDeleted(c) == q[c].deleted \in 0..(Len(q[c].heap) \div 4)

Earlier(a, b) == IF a = 0 \/ (b # 0 /\ b < a) THEN b ELSE a
nobarrier_wake_time(c) == Earlier(q[c].timer0, q[c].earliest)

\* release_timer of the timers in gone: the last reference frees the timer.
Released(f, gone) ==
    [t \in Timers |-> IF t \in gone THEN [f[t] EXCEPT !.refs = @ - 1, !.live = @ /\ f[t].refs # 1] ELSE f[t]]

\* do_delete_timer0 by CPU c on the heap of loc[c].v, with the status the
\* timer gets and the release of the heap's reference.  The assertion wants
\* the timer to be on the CPU that executes this.
RemoveFirst(c, status, more, next) ==
    LET v == loc[c].v
        t == q[v].heap[1]
    IN  IF tm[t].cpu = c
        THEN /\ tm' = Released([tm EXCEPT ![t].status = status, ![t].cpu = None], {t})
             /\ q' = [q EXCEPT ![v] = [With(@, Deleted0(@.heap, When), tm) EXCEPT
                                         !.deleted = @ + more,
                                         !.lock = IF next = "func" THEN None ELSE @]]
             /\ Goto(c, next) /\ UNCHANGED loc
        ELSE /\ tm' = [tm EXCEPT ![t].status = IF next = "func" THEN "RUNNING" ELSE "REMOVING"]
             /\ Halt(c) /\ UNCHANGED q

\* The timers after do_add_timer by CPU c.
AddedBy(c, t, f) == [f EXCEPT ![t].cpu = c, ![t].refs = @ + 1]

----------------------------------------------------------------------------
(* timer_start, timer_stop, timer_modify and the release of a timer        *)

Start(c, t, w) ==
    /\ pc[c] = "idle" /\ client[t] = "new"
    /\ client' = [client EXCEPT ![t] = "starting"]
    /\ tm' = [tm EXCEPT ![t].status = "WAITING", ![t].when = w, ![t].period = Period[t]]
    /\ due' = [due EXCEPT ![t] = w]
    /\ Goto(c, "start") /\ loc' = [loc EXCEPT ![c].t = t, ![c].v = c]
    /\ UNCHANGED <<now, q, calls, noPreempt>>

StartLock(c) ==
    /\ At(c, "start") /\ q[c].lock = None
    /\ q' = [q EXCEPT ![c].lock = c]
    /\ Goto(c, "clean")
    /\ UNCHANGED <<now, tm, client, calls, noPreempt, loc, due>>

\* clean_timers finds a modified timer at the head and moves it; the assertion
\* then wants the CAS from MOVING to WAITING to fail, and it does not.
CleanMoved(c, t) ==
    LET f == [tm EXCEPT ![t].when = tm[t].nextwhen, ![t].status = "WAITING"]
        w == [u \in Timers |-> f[u].when]
    IN  /\ tm[t].status \in Modified
        /\ tm' = AddedBy(c, t, f)
        /\ q' = [q EXCEPT ![c] = With(@, Added(Deleted0(@.heap, w), w, t), f)]
        /\ Halt(c)

\* One round of clean_timers.
Clean(c) ==
    /\ At(c, "clean") /\ q[c].heap # << >>
    /\ LET t == q[c].heap[1]
       IN  \/ tm[t].cpu # c /\ Halt(c) /\ UNCHANGED <<q, tm>>
           \/ tm[t].cpu = c /\ tm[t].status = "DELETED" /\ RemoveFirst(c, "REMOVED", -1, "clean")
           \/ tm[t].cpu = c /\ CleanMoved(c, t)
    /\ UNCHANGED <<now, client, calls, noPreempt, due>>

\* clean_timers has returned, at the latest because someone wants to preempt
\* the thread.
StartAdd(c) ==
    LET t == loc[c].t
    IN  /\ At(c, "clean")
        /\ tm' = AddedBy(c, t, tm)
        /\ q' = [q EXCEPT ![c] = [With(@, Added(@.heap, When, t), tm) EXCEPT !.lock = None]]
        /\ client' = [client EXCEPT ![t] = "held"]
        /\ Return(c)
        /\ UNCHANGED <<now, calls, noPreempt, due>>

Stop(c, t) ==
    /\ pc[c] = "idle" /\ client[t] = "held" /\ tm[t].live /\ calls < MaxCalls
    /\ tm[t].status \in Modified \cup {"WAITING"}
    /\ tm' = [tm EXCEPT ![t].status = "MODIFYING"]
    /\ calls' = calls + 1
    /\ due' = [due EXCEPT ![t] = None]
    /\ Goto(c, "mark") /\ loc' = [loc EXCEPT ![c].t = t, ![c].v = tm[t].cpu]
    /\ UNCHANGED <<now, q, client, noPreempt>>

StopMark(c) ==
    /\ At(c, "mark")
    /\ tm' = [tm EXCEPT ![loc[c].t].status = "DELETED"]
    /\ Goto(c, "count")
    /\ UNCHANGED <<now, q, client, calls, noPreempt, loc, due>>

StopCount(c) ==
    /\ At(c, "count")
    /\ q' = [q EXCEPT ![loc[c].v].deleted = @ + 1]
    /\ Return(c)
    /\ UNCHANGED <<now, tm, client, calls, noPreempt, due>>

\* timer_modify has got the timer: pending, deleted or no longer in a heap.
Modify(c, t, w) ==
    LET removed == tm[t].status \in {"NO_STATUS", "REMOVED"}
    IN  /\ pc[c] = "idle" /\ client[t] = "held" /\ tm[t].live /\ calls < MaxCalls
        /\ tm[t].status \in Modified \cup {"WAITING", "DELETED", "NO_STATUS", "REMOVED"}
        /\ tm' = [tm EXCEPT ![t].status = "MODIFYING", ![t].period = Period[t],
                            ![t].when = IF removed THEN w ELSE @]
        /\ q' = IF tm[t].status = "DELETED" THEN [q EXCEPT ![tm[t].cpu].deleted = @ - 1] ELSE q
        /\ calls' = calls + 1
        /\ due' = [due EXCEPT ![t] = w]
        /\ Goto(c, IF removed THEN "readd" ELSE "nextwhen")
        /\ loc' = [loc EXCEPT ![c].t = t, ![c].when = w]
        /\ UNCHANGED <<now, client, noPreempt>>

ModifyAdd(c) ==
    LET t == loc[c].t
    IN  /\ At(c, "readd") /\ q[c].lock = None
        /\ IF tm[t].cpu = None
           THEN /\ tm' = AddedBy(c, t, tm)
                /\ q' = [q EXCEPT ![c] = With(@, Added(@.heap, When, t), tm)]
                /\ Goto(c, "waiting") /\ UNCHANGED loc
           ELSE Halt(c) /\ UNCHANGED <<q, tm>>
        /\ UNCHANGED <<now, client, calls, noPreempt, due>>

\* Mutant: the new time goes to the field the heap is ordered by.
ModifyInPlace(c) ==
    /\ At(c, "nextwhen")
    /\ tm' = [tm EXCEPT ![loc[c].t].when = loc[c].when]
    /\ Goto(c, IF loc[c].when < tm[loc[c].t].when THEN "earlier" ELSE "later")
    /\ UNCHANGED <<now, q, client, calls, noPreempt, loc, due>>

\* update_timer_modified_earliest on the CPU the timer is on.
ModifyNext(c) ==
    LET t == loc[c].t
        w == loc[c].when
    IN  /\ At(c, "nextwhen")
        /\ tm' = [tm EXCEPT ![t].nextwhen = w]
        /\ q' = IF w < tm[t].when
                THEN [q EXCEPT ![tm[t].cpu].earliest = IF @ # 0 /\ @ < w THEN @ ELSE w]
                ELSE q
        /\ Goto(c, IF w < tm[t].when THEN "earlier" ELSE "later")
        /\ UNCHANGED <<now, client, calls, noPreempt, loc, due>>

\* The last CAS of timer_modify, which leaves with preempt_disable.
ModifySet(c) ==
    /\ \E l \in {"waiting", "earlier", "later"} : At(c, l)
    /\ tm' = [tm EXCEPT ![loc[c].t].status = CASE pc[c] = "waiting" -> "WAITING"
                                               [] pc[c] = "earlier" -> "MODIFIED_EARLIER"
                                               [] pc[c] = "later" -> "MODIFIED_LATER"]
    /\ noPreempt' = [noPreempt EXCEPT ![c] = TRUE]
    /\ Return(c)
    /\ UNCHANGED <<now, q, client, calls, due>>

\* release_timer by the user, as after() does at once.
Drop(c, t) ==
    /\ pc[c] = "idle" /\ client[t] = "held" /\ tm[t].live
    /\ \A d \in Cpus : loc[d].t # t
    /\ client' = [client EXCEPT ![t] = "dropped"]
    /\ tm' = Released(tm, {t})
    /\ UNCHANGED <<now, q, calls, noPreempt, pc, loc, due>>

\* enter_scheduler asserts that preemption was not disabled.
EnterScheduler(c) ==
    /\ pc[c] = "idle" /\ noPreempt[c]
    /\ Halt(c)
    /\ UNCHANGED <<now, q, tm, client, calls, noPreempt, due>>

----------------------------------------------------------------------------
(* check_timers by the scheduler of c on the timers of v                   *)

Check(c, v) ==
    LET next == nobarrier_wake_time(v)
    IN  /\ pc[c] = "idle" /\ ~noPreempt[c]
        /\ next # 0
        /\ now >= next \/ (v = c /\ ~FewDeleted(v))
        /\ Goto(c, "check") /\ loc' = [loc EXCEPT ![c].v = v, ![c].now = now]
        /\ UNCHANGED <<now, q, tm, client, calls, noPreempt, due>>

\* The lock, and the start of adjust_timers.
CheckLock(c) ==
    LET v == loc[c].v
        adjust == q[v].earliest # 0 /\ q[v].earliest <= loc[c].now
    IN  /\ At(c, "check") /\ q[v].lock = None
        /\ q' = [q EXCEPT ![v].lock = c,
                          ![v].earliest = IF q[v].heap # << >> /\ adjust THEN 0 ELSE @]
        /\ Goto(c, IF q[v].heap = << >> THEN "clear" ELSE IF adjust THEN "adjust" ELSE "run")
        /\ loc' = [loc EXCEPT ![c].i = 1]
        /\ UNCHANGED <<now, tm, client, calls, noPreempt, due>>

\* Mutant: a modified timer is made to wait where it is, with its old time.
AdjustInPlace(c) ==
    LET t == q[loc[c].v].heap[loc[c].i]
    IN  /\ At(c, "adjust") /\ loc[c].i <= Len(q[loc[c].v].heap)
        /\ tm[t].status \in Modified \cup {"WAITING"}
        /\ tm' = [tm EXCEPT ![t].status = "WAITING"]
        /\ loc' = [loc EXCEPT ![c].i = @ + 1]
        /\ UNCHANGED <<now, q, client, calls, noPreempt, pc, due>>

\* One round of adjust_timers: skip a waiting timer, take a deleted one off
\* the heap, or a modified one to add it again afterwards.
\* The yield at a timer that is being modified enters the scheduler from the
\* scheduler, whose assertion fails.
Adjust(c) ==
    LET v == loc[c].v
        h == q[v].heap
        i == loc[c].i
        t == h[i]
        gone == [With(q[v], Deleted(h, When, i), tm) EXCEPT
                   !.deleted = IF tm[t].status = "DELETED" THEN @ - 1 ELSE @]
        back == SmallestChanged(h, When, i)
    IN  /\ At(c, "adjust") /\ i <= Len(h)
        /\ \/ /\ tm[t].status = "WAITING"
              /\ loc' = [loc EXCEPT ![c].i = i + 1]
              /\ UNCHANGED <<q, tm, pc>>
           \/ /\ tm[t].status = "DELETED"
              /\ tm' = Released([tm EXCEPT ![t].status = "REMOVED", ![t].cpu = None], {t})
              /\ q' = [q EXCEPT ![v] = gone]
              /\ loc' = [loc EXCEPT ![c].i = back]
              /\ UNCHANGED pc
           \/ /\ tm[t].status \in Modified
              /\ tm' = [tm EXCEPT ![t].status = "MOVING", ![t].cpu = None,
                                  ![t].when = tm[t].nextwhen]
              /\ q' = [q EXCEPT ![v] = gone]
              /\ loc' = [loc EXCEPT ![c].i = back, ![c].moved = Append(@, t)]
              /\ UNCHANGED pc
           \/ /\ tm[t].status \notin Modified \cup {"WAITING", "DELETED"}
              /\ Halt(c) /\ UNCHANGED <<q, tm>>
        /\ UNCHANGED <<now, client, calls, noPreempt, due>>

\* add_adjusted_timers; do_add_timer records the CPU that executes it.
AddAdjusted(c) ==
    LET v == loc[c].v
        t == Head(loc[c].moved)
    IN  /\ At(c, "adjust") /\ loc[c].i > Len(q[v].heap) /\ loc[c].moved # << >>
        /\ tm' = [AddedBy(c, t, tm) EXCEPT ![t].status = "WAITING"]
        /\ q' = [q EXCEPT ![v] = With(@, Added(@.heap, When, t), tm)]
        /\ loc' = [loc EXCEPT ![c].moved = Tail(@), ![c].i = @ + 1]
        /\ UNCHANGED <<now, client, calls, noPreempt, pc, due>>

Adjusted(c) ==
    /\ At(c, "adjust") /\ loc[c].i > Len(q[loc[c].v].heap) /\ loc[c].moved = << >>
    /\ Goto(c, "run")
    /\ UNCHANGED <<now, q, tm, client, calls, noPreempt, loc, due>>

\* run_timer.  A modified timer at the head is removed, not moved.
RunTimer(c) ==
    LET v == loc[c].v
        t == q[v].heap[1]
    IN  /\ At(c, "run") /\ q[v].heap # << >>
        /\ \/ /\ tm[t].status = "WAITING" /\ tm[t].when > loc[c].now
              /\ Goto(c, "clear") /\ UNCHANGED <<q, tm, loc>>
           \/ /\ tm[t].status = "WAITING" /\ tm[t].when <= loc[c].now
              /\ tm' = [tm EXCEPT ![t].status = "RUNNING"]
              /\ Goto(c, "fire") /\ UNCHANGED <<q, loc>>
           \/ tm[t].status = "DELETED" /\ RemoveFirst(c, "REMOVED", -1, "run")
           \/ tm[t].status \in Modified /\ RemoveFirst(c, "REMOVED", 1, "run")
           \/ /\ tm[t].status \notin Modified \cup {"WAITING", "DELETED"}
              /\ Halt(c) /\ UNCHANGED <<q, tm>>
        /\ UNCHANGED <<now, client, calls, noPreempt, due>>

RunEmpty(c) ==
    /\ At(c, "run") /\ q[loc[c].v].heap = << >>
    /\ Goto(c, "clear")
    /\ UNCHANGED <<now, q, tm, client, calls, noPreempt, loc, due>>

\* run_one_timer up to the unlock.
Fire(c) ==
    LET v == loc[c].v
        t == q[v].heap[1]
        p == tm[t].period
        next == tm[t].when + p * (1 + (loc[c].now - tm[t].when) \div p)
        f == [tm EXCEPT ![t].when = next, ![t].status = "WAITING"]
    IN  /\ At(c, "fire")
        /\ \/ /\ p > 0
              /\ tm' = f
              /\ q' = [q EXCEPT ![v] = [With(@, siftdown_timer(@.heap, [When EXCEPT ![t] = next], 1), f)
                                          EXCEPT !.lock = None]]
              /\ due' = [due EXCEPT ![t] = next]
              /\ Goto(c, "func") /\ UNCHANGED loc
           \/ /\ p = 0
              /\ RemoveFirst(c, "NO_STATUS", 0, "func")
              /\ due' = [due EXCEPT ![t] = None]
        /\ UNCHANGED <<now, client, calls, noPreempt>>

\* func returns, and the lock is taken again.
Func(c) ==
    /\ At(c, "func") /\ q[loc[c].v].lock = None
    /\ q' = [q EXCEPT ![loc[c].v].lock = c]
    /\ Goto(c, "run")
    /\ UNCHANGED <<now, tm, client, calls, noPreempt, loc, due>>

\* The end of check_timers: clear_deleted_timers, when there are few.
CheckEnd(c) ==
    LET v == loc[c].v
    IN  /\ At(c, "clear")
        /\ IF v = c /\ FewDeleted(c)
           THEN /\ q' = [q EXCEPT ![c].earliest = 0]
                /\ Goto(c, "sweep") /\ loc' = [loc EXCEPT ![c].i = 1, ![c].to = 0]
           ELSE q' = [q EXCEPT ![v].lock = None] /\ Return(c)
        /\ UNCHANGED <<now, tm, client, calls, noPreempt, due>>

\* One round of clear_deleted_timers; the timers that stay move to the front.
Sweep(c) ==
    LET h == q[c].heap
        i == loc[c].i
        to == loc[c].to + 1
        t == h[i]
        f == IF tm[t].status = "WAITING" THEN tm
             ELSE [tm EXCEPT ![t].when = tm[t].nextwhen, ![t].status = "WAITING"]
        w == [u \in Timers |-> f[u].when]
    IN  /\ At(c, "sweep") /\ i <= Len(h)
        /\ \/ /\ tm[t].status \in Modified \cup {"WAITING"}
              /\ tm' = f
              /\ q' = [q EXCEPT ![c].heap = siftup_timer([h EXCEPT ![to] = t], w, to)]
              /\ loc' = [loc EXCEPT ![c].i = i + 1, ![c].to = to]
              /\ UNCHANGED pc
           \/ /\ tm[t].status = "DELETED"
              /\ tm' = [tm EXCEPT ![t].status = "REMOVED", ![t].cpu = None]
              /\ loc' = [loc EXCEPT ![c].i = i + 1]
              /\ UNCHANGED <<q, pc>>
           \/ /\ tm[t].status \notin Modified \cup {"WAITING", "DELETED"}
              /\ Halt(c) /\ UNCHANGED <<q, tm>>
        /\ UNCHANGED <<now, client, calls, noPreempt, due>>

\* Mutant: the slots at the end stay in the array.
SweepEndUncut(c) ==
    /\ At(c, "sweep") /\ loc[c].i > Len(q[c].heap)
    /\ q' = [q EXCEPT ![c].lock = None]
    /\ Return(c)
    /\ UNCHANGED <<now, tm, client, calls, noPreempt, due>>

\* The slots at the end are released and cut off: the timers that stand there
\* now, not those that were deleted.  update_timer0_when then reads the first
\* timer, which may be one that was just freed.
SweepEnd(c) ==
    LET h == q[c].heap
        to == loc[c].to
        cut == [q[c] EXCEPT !.heap = SubSeq(h, 1, to), !.deleted = @ - (Len(h) - to)]
        f == Released(tm, {h[i] : i \in (to + 1)..Len(h)})
    IN  /\ At(c, "sweep") /\ loc[c].i > Len(h)
        /\ tm' = f
        /\ IF to > 0 /\ ~f[h[1]].live
           THEN q' = [q EXCEPT ![c] = cut] /\ Halt(c)
           ELSE q' = [q EXCEPT ![c] = [With(cut, cut.heap, tm) EXCEPT !.lock = None]] /\ Return(c)
        /\ UNCHANGED <<now, client, calls, noPreempt, due>>

Tick == now < MaxNow /\ now' = now + 1 /\ UNCHANGED <<q, tm, client, calls, noPreempt, pc, loc, due>>

\* A freed timer is looked at, by the scheduler or by a call of its user.
UseFreed(c) ==
    /\ \/ pc[c] # "halt" /\ \E t \in Uses(c) : ~tm[t].live
       \/ pc[c] = "idle" /\ \E t \in Timers : client[t] = "held" /\ ~tm[t].live
    /\ Halt(c)
    /\ UNCHANGED <<now, q, tm, client, calls, noPreempt, due>>

Scheduler(c) ==
    \/ \E v \in Cpus : Check(c, v)
    \/ CheckLock(c) \/ Adjust(c) \/ AddAdjusted(c) \/ Adjusted(c) \/ RunTimer(c) \/ RunEmpty(c)
    \/ Fire(c) \/ Func(c) \/ CheckEnd(c) \/ Sweep(c) \/ SweepEnd(c) \/ EnterScheduler(c)

Client(c) ==
    \/ \E t \in Timers, w \in Whens : Start(c, t, w) \/ Modify(c, t, w)
    \/ \E t \in Timers : Stop(c, t) \/ Drop(c, t)
    \/ StartLock(c) \/ Clean(c) \/ StartAdd(c) \/ StopMark(c) \/ StopCount(c)
    \/ ModifyAdd(c) \/ ModifyNext(c) \/ ModifySet(c)

Next == (\E c \in Cpus : Scheduler(c) \/ Client(c) \/ UseFreed(c)) \/ Tick

Spec == Init /\ [][Next]_vars

----------------------------------------------------------------------------
(* Properties                                                              *)

Places(t) == {<<c, i>> \in Cpus \X (1..Cardinality(Timers)) :
                  i <= Len(q[c].heap) /\ q[c].heap[i] = t}

Heap(c) == Range(q[c].heap)
Freed == {t \in Timers : ~tm[t].live}

\* Every heap nobody works on is in order, whoever has stopped or modified
\* its timers meanwhile, and timer0_when, which the idle loop reads without
\* the lock, is the time of its first timer.  (A freed timer has no time.)
HeapsInOrder ==
    \A c \in Cpus : q[c].lock = None /\ Heap(c) \cap Freed = {} =>
        /\ IsHeap(q[c].heap, When)
        /\ q[c].timer0 = IF q[c].heap = << >> THEN 0 ELSE tm[q[c].heap[1]].when

\* The array of c is being compacted, or was when the CPU stopped.
Sweeping(c) == pc[c] = "sweep" \/ (pc[c] = "halt" /\ q[c].lock = c)

\* What the statuses of timer.h say about the heaps: a pending, running or deleted
\* timer stands in one heap, once; one that was removed, or has run, in none.
StatusMatchesHeaps ==
    \A t \in Timers \ Freed :
        (\A c \in Cpus : Sweeping(c) => t \notin Heap(c)) =>
        /\ Cardinality(Places(t)) <= 1
        /\ tm[t].status \in {"NO_STATUS", "REMOVED", "MOVING"} => Places(t) = {}
        /\ tm[t].status \in Modified \cup {"WAITING", "RUNNING", "DELETED", "REMOVING"}
              /\ client[t] # "starting" => Places(t) # {}

\* A timer function is called only if its timer was started or modified to
\* fire, at a time that has come, and has not been stopped since.  (A timer
\* that is freed before run_one_timer reads it is not read: the CPU stops.)
FiresWhenDue ==
    \A c \in Cpus : pc[c] = "fire" =>
        LET t == q[loc[c].v].heap[1]
        IN  t \notin Freed => due[t] # None /\ due[t] <= loc[c].now

\* ref_count, "how many references we have for this": a timer that a heap nobody
\* works on and its user hold between them has as many references at least, so
\* that it is not freed under them.
HoldersHaveReferences ==
    \A t \in Timers : (\A c \in Cpus : q[c].lock # None => t \notin Heap(c)) =>
        tm[t].refs >= Cardinality(Places(t)) + (IF client[t] = "held" THEN 1 ELSE 0)

\* "the scheduler can also do it from a different CPU": a CPU that runs the
\* timers of another one does not fail an assertion.
StolenTimersRun == \A c \in Cpus : pc[c] = "halt" => loc[c].v \in {c, None}
=============================================================================
