------------------------------ MODULE RunQueue ------------------------------
(***************************************************************************)
(* The run queues of kernel/thread/scheduler.c: on each CPU a lock-free    *)
(* ring that only its own CPU fills and from which every CPU takes, and a  *)
(* `next' slot; one global queue under the scheduler lock.                 *)
(*                                                                         *)
(* A step makes at most one access to a variable that another CPU may be   *)
(* changing.  A CPU reads its own tail and its own ring, which nobody else *)
(* writes, in the step that uses them.  The loop that exchanges `next' is  *)
(* one step, and so is the test and CAS of `next' by its own CPU: the only *)
(* change another CPU makes there is to clear it.                          *)
(*                                                                         *)
(* The rest of the scheduler appears as what it does to the queues: a CPU  *)
(* readies a waiting thread, yields, parks, and looks for the next thread  *)
(* in the order of find_runnable, with the choices that depend on clocks,  *)
(* ticks and random numbers left open.                                     *)
(*                                                                         *)
(* A call on the queue of a CPU ends before the next one there begins.     *)
(* Where the interrupt of a device switches threads in the middle of a put *)
(* that is not so: see PutLate of Idle.                                    *)
(***************************************************************************)
EXTENDS Integers, Sequences, FiniteSets, FiniteSetsExt

CONSTANTS
    Cpus, Threads, None,
    RUN_QUEUE_LEN,
    Width,              \* 2^32: head and tail count modulo this
    Start,              \* the value of every head and tail in the initial state
    MaxOps,             \* bound: how many calls of the scheduler are made in all
    Placements          \* where the threads are when the run starts; the ones
                        \* named nowhere are dead

Half == RUN_QUEUE_LEN \div 2

\* How far n calls can move a tail, beside the threads that timers ready.
Reach(n) == RUN_QUEUE_LEN * (n + 1) + Cardinality(Threads)

\* The places that p fills, each with its thread.
SeatsAt(p, c) ==
    {<<"ring", c, i, p.ring[c][i]>> : i \in DOMAIN p.ring[c]}
    \cup {<<"next", c, 0, p.next[c]>>, <<"current", c, 0, p.current[c]>>}
Seats(p) ==
    {<<"global", None, i, p.global[i]>> : i \in DOMAIN p.global}
    \cup {<<"waiting", None, 0, t>> : t \in p.waiting}
    \cup UNION {SeatsAt(p, c) : c \in Cpus}

Placed(p) == {x[4] : x \in Seats(p)}

ASSUME RunQueueAssumption ==
    /\ None \notin Threads \cup Cpus
    /\ IsFiniteSet(Cpus) /\ Cpus # {} /\ IsFiniteSet(Threads)
    /\ RUN_QUEUE_LEN \in Nat \ {0} /\ Half * 2 = RUN_QUEUE_LEN
    /\ Width \in Nat /\ Width > 2 * RUN_QUEUE_LEN /\ Width % RUN_QUEUE_LEN = 0
    /\ Start \in 0 .. Width - 1 /\ MaxOps \in Nat
    /\ Reach(MaxOps) < Width   \* no counter comes round in one behaviour
    /\ \A p \in Placements :
         /\ p.ring \in [Cpus -> Seq(Threads)] /\ \A c \in Cpus : Len(p.ring[c]) <= RUN_QUEUE_LEN
         /\ p.next \in [Cpus -> Threads \cup {None}] /\ p.current \in [Cpus -> Threads]
         /\ p.global \in Seq(Threads) /\ p.waiting \subseteq Threads
         /\ \A x, y \in Seats(p) : x[4] = y[4] /\ x[4] # None => x = y

VARIABLES
    head, tail, queue, next,    \* local_run_queue_t of each CPU
    global,                     \* m_global_run_queue, its size the length
    lock,                       \* the CPU that holds m_scheduler_lock
    current,                    \* m_current_thread of each CPU
    waiting, dead,              \* the threads that are on no queue
    pc,
    loc,                        \* the locals of each CPU
    ops,                        \* how many calls have been made
    wasEmpty                    \* a ghost, see EmptyOnlyIfEmpty

rings == <<head, tail, queue, next>>
vars == <<head, tail, queue, next, global, lock, current, waiting, dead, pc, loc, ops, wasEmpty>>

Plus(a, n) == (a + n) % Width
Minus(a, b) == (a - b) % Width
Slot(i) == i % RUN_QUEUE_LEN
Size(c) == Minus(tail[c], head[c])

\* The threads of c's ring, oldest first.
Ring(c) == [i \in 1 .. Size(c) |-> queue[c][Slot(head[c] + i - 1)]]

NoLocals == [thread |-> None,       \* the argument of run_queue_put
             found |-> None,        \* what find_runnable is going to return
             batch |-> << >>,       \* threads on their way to or from the global queue
             h |-> 0, t |-> 0, n |-> 0, i |-> 0,
             next |-> None, victim |-> None, steal_next |-> FALSE,
             ran |-> FALSE,         \* timers have run in this steal_work
             return |-> "run"]      \* where run_queue_put or run_queue_get goes back to

InitAt(p) ==
    /\ tail = [c \in Cpus |-> Plus(Start, Len(p.ring[c]))]
    /\ queue = [c \in Cpus |-> [s \in 0 .. RUN_QUEUE_LEN - 1 |->
                    LET i == 1 + ((s - Start) % RUN_QUEUE_LEN)
                    IN  IF i <= Len(p.ring[c]) THEN p.ring[c][i] ELSE None]]
    /\ global = p.global
    /\ current = p.current
    /\ next = p.next
    /\ waiting = p.waiting
    /\ dead = Threads \ Placed(p)

Init ==
    /\ \E p \in Placements : InitAt(p)
    /\ head = [c \in Cpus |-> Start]
    /\ lock = None
    /\ pc = [c \in Cpus |-> "run"]
    /\ loc = [c \in Cpus |-> NoLocals]
    /\ ops = 0
    /\ wasEmpty = [c \in Cpus |-> FALSE]

Goto(c, l) == pc' = [pc EXCEPT ![c] = l]
Forget(c) == loc' = [loc EXCEPT ![c] = NoLocals]
Set(c, l) == loc' = [loc EXCEPT ![c] = l]

\* The locals of steal_work between two attempts.
Fresh(c) == [NoLocals EXCEPT !.ran = loc[c].ran]

\* execute: the thread that was found runs.
Execute(c, t) ==
    /\ current' = [current EXCEPT ![c] = t]
    /\ Goto(c, "run") /\ Forget(c)

----------------------------------------------------------------------------
(* run_queue_put                                                           *)

\* With next = true: the thread takes the slot, and the one it kicks out,
\* if any, goes on to the ring.
PutNext(c, t, return) ==
    /\ next' = [next EXCEPT ![c] = t]
    /\ IF next[c] = None
       THEN Goto(c, return) /\ UNCHANGED loc
       ELSE Goto(c, "put") /\ Set(c, [loc[c] EXCEPT !.thread = next[c], !.return = return])

HasRoom(h, t) == Minus(t, h) < RUN_QUEUE_LEN

PutLoad(c) ==
    /\ pc[c] = "put"
    /\ Set(c, [loc[c] EXCEPT !.h = head[c], !.t = tail[c]])
    /\ Goto(c, IF HasRoom(head[c], tail[c]) THEN "put_write" ELSE "put_slow")
    /\ UNCHANGED <<rings, global, lock, current, waiting, dead, ops>>

PutWrite(c) ==
    /\ pc[c] = "put_write"
    /\ queue' = [queue EXCEPT ![c][Slot(loc[c].t)] = loc[c].thread]
    /\ Goto(c, "put_publish")
    /\ UNCHANGED <<head, tail, next, global, lock, current, waiting, loc, dead, ops>>

\* Back to the caller, the thread no longer in its hands.
PutReturn(c) ==
    /\ Goto(c, loc[c].return)
    /\ Set(c, [Fresh(c) EXCEPT !.found = loc[c].found,
                               !.batch = IF lock = c THEN loc[c].batch ELSE << >>])

PutPublish(c) ==
    /\ pc[c] = "put_publish"
    /\ tail' = [tail EXCEPT ![c] = Plus(loc[c].t, 1)]
    /\ PutReturn(c)
    /\ UNCHANGED <<head, queue, next, global, lock, current, waiting, dead, ops>>

----------------------------------------------------------------------------
(* run_queue_put_slow                                                      *)

\* The older half of the ring, as the copy loop finds it.
HalfOf(c) ==
    [i \in 1 .. Minus(loc[c].t, loc[c].h) \div 2 |-> queue[c][Slot(loc[c].h + i - 1)]]

\* Mutant: the head is moved with a store instead of a CAS.
PutSlowStore(c) ==
    /\ pc[c] = "put_slow"
    /\ head' = [head EXCEPT ![c] = Plus(loc[c].h, Len(HalfOf(c)))]
    /\ Set(c, [loc[c] EXCEPT !.batch = Append(HalfOf(c), loc[c].thread), !.thread = None])
    /\ Goto(c, "put_global")
    /\ UNCHANGED <<tail, queue, next, global, lock, current, waiting, dead, ops>>

\* The CAS fails when a thief has moved the head: then start again.
PutSlow(c) ==
    /\ pc[c] = "put_slow"
    /\ IF head[c] = loc[c].h
       THEN /\ head' = [head EXCEPT ![c] = Plus(loc[c].h, Len(HalfOf(c)))]
            /\ Set(c, [loc[c] EXCEPT !.batch = Append(HalfOf(c), loc[c].thread), !.thread = None])
            /\ Goto(c, "put_global")
       ELSE Goto(c, "put") /\ UNCHANGED <<head, loc>>
    /\ UNCHANGED <<tail, queue, next, global, lock, current, waiting, dead, ops>>

\* thread_queue_push_back_all
PushBackAll(batch) == global \o batch

\* global_run_queue_put_batch, under the scheduler lock.
PutGlobal(c) ==
    /\ pc[c] = "put_global"
    /\ lock = None
    /\ global' = PushBackAll(loc[c].batch)
    /\ PutReturn(c)
    /\ UNCHANGED <<rings, lock, current, waiting, dead, ops>>

----------------------------------------------------------------------------
(* run_queue_get                                                           *)

\* Mutant: with no `next' the ring is not looked at.
GetNextOnly(c) ==
    /\ pc[c] \in {"find", "steal_timers"}
    /\ IF next[c] # None
       THEN next' = [next EXCEPT ![c] = None] /\ Execute(c, next[c])
       ELSE /\ Goto(c, IF pc[c] = "find" THEN "global" ELSE "steal")
            /\ UNCHANGED <<next, current, loc>>
    /\ UNCHANGED <<head, tail, queue, global, lock, waiting, dead, ops>>

GetNext(c) ==
    /\ pc[c] \in {"find", "steal_timers"}
    /\ IF next[c] # None
       THEN next' = [next EXCEPT ![c] = None] /\ Execute(c, next[c])
       ELSE /\ Goto(c, "get")
            /\ Set(c, [NoLocals EXCEPT !.return = IF pc[c] = "find" THEN "global" ELSE "steal",
                                       !.ran = pc[c] = "steal_timers"])
            /\ UNCHANGED <<next, current>>
    /\ UNCHANGED <<head, tail, queue, global, lock, waiting, dead, ops>>

GetLoad(c) ==
    /\ pc[c] = "get"
    /\ IF tail[c] = head[c]
       THEN Goto(c, loc[c].return) /\ Set(c, Fresh(c))
       ELSE Goto(c, "get_cas") /\ Set(c, [loc[c] EXCEPT !.h = head[c]])
    /\ UNCHANGED <<rings, global, lock, current, waiting, dead, ops>>

GetCas(c) ==
    /\ pc[c] = "get_cas"
    /\ IF head[c] = loc[c].h
       THEN /\ head' = [head EXCEPT ![c] = Plus(@, 1)]
            /\ Execute(c, queue[c][Slot(loc[c].h)])
       ELSE Goto(c, "get") /\ UNCHANGED <<head, loc, current>>
    /\ UNCHANGED <<tail, queue, next, global, lock, waiting, dead, ops>>

----------------------------------------------------------------------------
(* global_run_queue_get                                                    *)

\* How many threads to take; max = 0 is no maximum.
Take(max) == Min({(Len(global) \div Cardinality(Cpus)) + 1, Len(global), Half}
                 \cup IF max > 0 THEN {max} ELSE {})

Remaining(n) == SubSeq(global, n + 1, Len(global))

\* The scheduler lock is held until the threads after the first are in the ring.
GlobalTake(c, max) ==
    LET n == Take(max)
    IN  /\ lock' = c
        /\ global' = Remaining(n)
        /\ Set(c, [NoLocals EXCEPT !.found = global[1], !.batch = SubSeq(global, 2, n)])
        /\ Goto(c, "global_rest")

\* Once in a while find_runnable looks at the global queue first.
GlobalTick(c) ==
    /\ pc[c] = "find"
    /\ lock = None /\ global # << >>
    /\ GlobalTake(c, 1)
    /\ UNCHANGED <<rings, current, waiting, dead, ops>>

\* With the local queue empty, and again before going idle.
GlobalGet(c) ==
    /\ pc[c] \in {"global", "idle"}
    /\ lock = None
    /\ IF global # << >>
       THEN GlobalTake(c, 0)
       ELSE Goto(c, IF pc[c] = "global" THEN "steal" ELSE "look") /\ UNCHANGED <<global, lock, loc>>
    /\ UNCHANGED <<rings, current, waiting, dead, ops>>

GlobalRest(c) ==
    /\ pc[c] = "global_rest"
    /\ IF loc[c].batch = << >>
       THEN lock' = None /\ Execute(c, loc[c].found)
       ELSE /\ Set(c, [loc[c] EXCEPT !.thread = Head(loc[c].batch), !.batch = Tail(loc[c].batch),
                                     !.return = "global_rest"])
            /\ Goto(c, "put")
            /\ UNCHANGED <<lock, current>>
    /\ UNCHANGED <<rings, global, waiting, dead, ops>>

----------------------------------------------------------------------------
(* steal_work, run_queue_steal, run_queue_grab                             *)

Steal(c, v, steal_next) ==
    /\ pc[c] = "steal"
    /\ v # c
    /\ Set(c, [Fresh(c) EXCEPT !.t = tail[c], !.victim = v, !.steal_next = steal_next])
    /\ Goto(c, "grab")
    /\ UNCHANGED <<rings, global, lock, current, waiting, dead, ops>>

GrabHead(c) ==
    /\ pc[c] = "grab"
    /\ Set(c, [loc[c] EXCEPT !.h = head[loc[c].victim]])
    /\ Goto(c, "grab_tail")
    /\ UNCHANGED <<rings, global, lock, current, waiting, dead, ops>>

\* Half of what is there, rounded up.
Share(h, t) == Minus(t, h) - (Minus(t, h) \div 2)

\* The head and the tail may be of different times: then start again.
GrabTail(c) ==
    LET n == Share(loc[c].h, tail[loc[c].victim])
    IN  /\ pc[c] = "grab_tail"
        /\ \/ /\ n = 0 /\ ~loc[c].steal_next
              /\ Goto(c, "steal") /\ Set(c, Fresh(c))
           \/ /\ n = 0 /\ loc[c].steal_next
              /\ Goto(c, "grab_next") /\ UNCHANGED loc
           \/ /\ n > Half
              /\ Goto(c, "grab") /\ UNCHANGED loc
           \/ /\ n \in 1 .. Half
              /\ Goto(c, "grab_copy") /\ Set(c, [loc[c] EXCEPT !.n = n, !.i = 0])
        /\ UNCHANGED <<rings, global, lock, current, waiting, dead, ops>>

GrabNext(c) ==
    /\ pc[c] = "grab_next"
    /\ IF next[loc[c].victim] = None
       THEN Goto(c, "steal") /\ Set(c, Fresh(c))
       ELSE Goto(c, "grab_next_cas") /\ Set(c, [loc[c] EXCEPT !.next = next[loc[c].victim]])
    /\ UNCHANGED <<rings, global, lock, current, waiting, dead, ops>>

GrabNextCas(c) ==
    LET v == loc[c].victim
    IN  /\ pc[c] = "grab_next_cas"
        /\ IF next[v] = loc[c].next
           THEN /\ next' = [next EXCEPT ![v] = None]
                /\ queue' = [queue EXCEPT ![c][Slot(loc[c].t)] = loc[c].next]
                /\ Set(c, [loc[c] EXCEPT !.n = 1]) /\ Goto(c, "stolen")
           ELSE Goto(c, "grab") /\ UNCHANGED <<next, queue, loc>>
        /\ UNCHANGED <<head, tail, global, lock, current, waiting, dead, ops>>

\* One slot of the victim's ring into the thief's own, beyond its tail.
GrabCopy(c) ==
    LET v == loc[c].victim
    IN  /\ pc[c] = "grab_copy"
        /\ queue' = [queue EXCEPT ![c][Slot(loc[c].t + loc[c].i)] = queue[v][Slot(loc[c].h + loc[c].i)]]
        /\ Set(c, [loc[c] EXCEPT !.i = @ + 1])
        /\ Goto(c, IF loc[c].i + 1 = loc[c].n THEN "grab_cas" ELSE "grab_copy")
        /\ UNCHANGED <<head, tail, next, global, lock, current, waiting, dead, ops>>

GrabCas(c) ==
    LET v == loc[c].victim
    IN  /\ pc[c] = "grab_cas"
        /\ IF head[v] = loc[c].h
           THEN head' = [head EXCEPT ![v] = Plus(@, loc[c].n)] /\ Goto(c, "stolen")
           ELSE Goto(c, "grab") /\ UNCHANGED head
        /\ UNCHANGED <<tail, queue, next, global, lock, current, waiting, loc, dead, ops>>

\* The last of the stolen threads runs, the others are published in the ring.
Stolen(c) ==
    LET n == loc[c].n - 1
        t == queue[c][Slot(loc[c].t + n)]
    IN  /\ pc[c] = "stolen"
        /\ IF n = 0
           THEN Execute(c, t)
           ELSE Goto(c, "steal_publish") /\ Set(c, [loc[c] EXCEPT !.n = n, !.found = t]) /\ UNCHANGED current
        /\ UNCHANGED <<rings, global, lock, waiting, dead, ops>>

StealPublish(c) ==
    /\ pc[c] = "steal_publish"
    /\ tail' = [tail EXCEPT ![c] = Plus(loc[c].t, loc[c].n)]
    /\ Execute(c, loc[c].found)
    /\ UNCHANGED <<head, queue, next, global, lock, waiting, dead, ops>>

\* Nothing to steal, or too many CPUs are at it: on the way to idle, unless
\* timers have run.
StealFail(c) ==
    /\ pc[c] = "steal"
    /\ Goto(c, IF loc[c].ran THEN "find" ELSE "idle")
    /\ Forget(c)
    /\ UNCHANGED <<rings, global, lock, current, waiting, dead, ops>>

----------------------------------------------------------------------------
(* run_queue_empty, which an idle CPU asks of the others                   *)

EmptyCall(c, v) ==
    /\ pc[c] = "look"
    /\ Set(c, [NoLocals EXCEPT !.victim = v])
    /\ Goto(c, "empty_head")
    /\ UNCHANGED <<rings, global, lock, current, waiting, dead, ops>>

EmptyHead(c) ==
    /\ pc[c] = "empty_head"
    /\ Set(c, [loc[c] EXCEPT !.h = head[loc[c].victim]])
    /\ Goto(c, "empty_tail")
    /\ UNCHANGED <<rings, global, lock, current, waiting, dead, ops>>

EmptyTail(c) ==
    /\ pc[c] = "empty_tail"
    /\ Set(c, [loc[c] EXCEPT !.t = tail[loc[c].victim]])
    /\ Goto(c, "empty_next")
    /\ UNCHANGED <<rings, global, lock, current, waiting, dead, ops>>

EmptyNext(c) ==
    /\ pc[c] = "empty_next"
    /\ Set(c, [loc[c] EXCEPT !.next = next[loc[c].victim]])
    /\ Goto(c, "empty_check")
    /\ UNCHANGED <<rings, global, lock, current, waiting, dead, ops>>

\* Mutant: the tail is not read again.
TailUnread(c) == TRUE

TailUnchanged(c) == loc[c].t = tail[loc[c].victim]

SaysEmpty(c) == TailUnchanged(c) /\ loc[c].h = loc[c].t /\ loc[c].next = None

\* A queue that is not empty sends find_runnable back to its start.
EmptyCheck(c) ==
    /\ pc[c] = "empty_check"
    /\ \/ /\ ~TailUnchanged(c)
          /\ Goto(c, "empty_head") /\ UNCHANGED loc
       \/ /\ TailUnchanged(c)
          /\ Goto(c, IF SaysEmpty(c) THEN "look" ELSE "find") /\ Forget(c)
    /\ UNCHANGED <<rings, global, lock, current, waiting, dead, ops>>

\* The CPU has halted and an interrupt has woken it.
Halt(c) ==
    /\ pc[c] = "look"
    /\ Goto(c, "find")
    /\ UNCHANGED <<rings, global, lock, current, waiting, dead, loc, ops>>

----------------------------------------------------------------------------
(* The callers                                                             *)

Counted == ops < MaxOps /\ ops' = ops + 1

\* scheduler_ready_thread, called by the running thread.
Ready(c, t) ==
    /\ pc[c] = "run" /\ t \in waiting
    /\ Counted
    /\ waiting' = waiting \ {t}
    /\ PutNext(c, t, "run")
    /\ UNCHANGED <<head, tail, queue, global, lock, current, dead>>

\* A timer that find_runnable or steal_work runs readies a thread.
TimerReady(c, t) ==
    /\ pc[c] \in {"find", "steal", "steal_timers"} /\ t \in waiting
    /\ waiting' = waiting \ {t}
    /\ PutNext(c, t, IF pc[c] = "find" THEN "find" ELSE "steal_timers")
    /\ UNCHANGED <<head, tail, queue, global, lock, current, dead, ops>>

\* save_current_thread: the thread goes to the ring, or waits.
Yield(c) ==
    /\ pc[c] = "run"
    /\ Counted
    /\ current' = [current EXCEPT ![c] = None]
    /\ Set(c, [NoLocals EXCEPT !.thread = current[c], !.return = "find"])
    /\ Goto(c, "put")
    /\ UNCHANGED <<rings, global, lock, waiting, dead>>

Park(c) ==
    /\ pc[c] = "run"
    /\ Counted
    /\ waiting' = waiting \cup {current[c]}
    /\ current' = [current EXCEPT ![c] = None]
    /\ Goto(c, "find")
    /\ UNCHANGED <<rings, global, lock, dead, loc>>

\* scheduler_on_drop: the thread is dead.
Drop(c) ==
    /\ pc[c] = "run"
    /\ Counted
    /\ dead' = dead \cup {current[c]}
    /\ current' = [current EXCEPT ![c] = None]
    /\ Goto(c, "find")
    /\ UNCHANGED <<rings, global, lock, waiting, loc>>

CpuStep(c) ==
    \/ Yield(c) \/ Park(c) \/ Drop(c) \/ \E t \in Threads : Ready(c, t) \/ TimerReady(c, t)
    \/ PutLoad(c) \/ PutWrite(c) \/ PutPublish(c) \/ PutSlow(c) \/ PutGlobal(c)
    \/ GetNext(c) \/ GetLoad(c) \/ GetCas(c)
    \/ GlobalTick(c) \/ GlobalGet(c) \/ GlobalRest(c)
    \/ \E v \in Cpus : \/ \E steal_next \in BOOLEAN : Steal(c, v, steal_next)
                       \/ EmptyCall(c, v)
    \/ GrabHead(c) \/ GrabTail(c) \/ GrabNext(c) \/ GrabNextCas(c) \/ GrabCopy(c) \/ GrabCas(c)
    \/ Stolen(c) \/ StealPublish(c) \/ StealFail(c)
    \/ EmptyHead(c) \/ EmptyTail(c) \/ EmptyNext(c) \/ EmptyCheck(c) \/ Halt(c)

ReallyEmpty(v) == tail[v] = head[v] /\ next[v] = None

Asking == {"empty_head", "empty_tail", "empty_next", "empty_check"}

\* The ghost: c's present question has had a moment at which the answer is yes.
Observe ==
    wasEmpty' = [c \in Cpus |->
                    /\ pc'[c] \in Asking
                    /\ (pc[c] \in Asking /\ wasEmpty[c]) \/ ReallyEmpty(loc[c].victim)']

Next == (\E c \in Cpus : CpuStep(c)) /\ Observe

Spec == Init /\ [][Next]_vars

----------------------------------------------------------------------------
(* Properties                                                              *)

ThreadOrNone == Threads \cup {None}

Labels == {"run", "find", "put", "put_write", "put_publish", "put_slow", "put_global",
           "get", "get_cas", "global", "global_rest", "idle", "look",
           "steal", "steal_timers", "grab", "grab_tail", "grab_next", "grab_next_cas",
           "grab_copy", "grab_cas", "stolen", "steal_publish"} \cup Asking

\* Every variable keeps its type.
TypeOK ==
    /\ head \in [Cpus -> 0 .. Width - 1] /\ tail \in [Cpus -> 0 .. Width - 1]
    /\ queue \in [Cpus -> [0 .. RUN_QUEUE_LEN - 1 -> ThreadOrNone]]
    /\ next \in [Cpus -> ThreadOrNone]
    /\ global \in Seq(Threads)
    /\ lock \in Cpus \cup {None}
    /\ current \in [Cpus -> ThreadOrNone]
    /\ waiting \subseteq Threads /\ dead \subseteq Threads
    /\ pc \in [Cpus -> Labels]
    /\ loc \in [Cpus -> [thread : ThreadOrNone, found : ThreadOrNone, batch : Seq(Threads),
                         h : 0 .. Width - 1, t : 0 .. Width - 1, n : Nat, i : Nat,
                         next : ThreadOrNone, victim : Cpus \cup {None}, steal_next : BOOLEAN, ran : BOOLEAN,
                         return : Labels]]
    /\ ops \in 0 .. MaxOps
    /\ wasEmpty \in [Cpus -> BOOLEAN]

\* The slots beyond c's tail that hold threads c has stolen and not published.
Unpublished(c) ==
    IF pc[c] \in {"stolen", "steal_publish"} THEN {Slot(loc[c].t + i) : i \in 0 .. loc[c].n - 1} ELSE {}

\* The places that hold thread t.
PlacesOf(t) ==
    {<<"waiting">> : x \in waiting \cap {t}} \cup {<<"dead">> : x \in dead \cap {t}}
    \cup {<<"global", i>> : i \in {j \in DOMAIN global : global[j] = t}}
    \cup UNION {
           {<<"ring", c, i>> : i \in {j \in DOMAIN Ring(c) : Ring(c)[j] = t}}
           \cup {<<"stolen", c, s>> : s \in {j \in Unpublished(c) : queue[c][j] = t}}
           \cup {<<"batch", c, i>> : i \in {j \in DOMAIN loc[c].batch : loc[c].batch[j] = t}}
           \cup {<<p[1], c>> : p \in {q \in {<<"next", next[c]>>, <<"current", current[c]>>,
                                            <<"thread", loc[c].thread>>, <<"found", loc[c].found>>} : q[2] = t}}
         : c \in Cpus}

\* Wherever the producers, the consumers and the thieves of the rings are,
\* every thread is in exactly one place: one queue, one CPU, one pair of hands.
NoThreadLostOrDuplicated == \A t \in Threads : Cardinality(PlacesOf(t)) = 1

\* The assertion of run_queue_steal: the stolen threads fit.
StealHasRoom ==
    \A c \in Cpus : pc[c] = "steal_publish" => Minus(loc[c].t, head[c]) + loc[c].n < RUN_QUEUE_LEN

\* run_queue_empty answers yes only if the ring and `next' were both empty
\* at one and the same moment of the call.
EmptyOnlyIfEmpty == \A c \in Cpus : pc[c] = "empty_check" /\ SaysEmpty(c) => wasEmpty[c]
=============================================================================
