------------------------------ MODULE Waitable ------------------------------
(***************************************************************************)
(* The channels of kernel/thread/waitable.c: send, wait (receive), close   *)
(* and select over several of them.  A waitable carries no data, only a    *)
(* count of what has been sent and not received.                           *)
(*                                                                         *)
(* A send or a wait holds the waitable's spinlock from its first to its    *)
(* last access, so its critical section is one step; what it does after    *)
(* the unlock (waking a thread) is a step of its own.  A close takes one   *)
(* thread off a queue per step: a select it finds there may be claimed     *)
(* through another waitable in between.  A select takes several locks, one *)
(* step each, in the order of the addresses, here the order of the numbers *)
(* that name the waitables.  scheduler_park makes the thread WAITING and   *)
(* then lets the callback release the locks, which goes on after another   *)
(* CPU may already have woken the thread.                                  *)
(***************************************************************************)
EXTENDS Integers, Sequences, SequencesExt, FiniteSets, FiniteSetsExt

CONSTANTS Threads, NoThread,
          Waitables,    \* a set of numbers: the addresses
          Size,         \* w->size of each waitable
          Calls,        \* the cases <<w, dir>> a plain send or wait is called with
          Selects       \* the sets of cases <<w, dir>> a select may be given

Dirs == {"send", "wait"}
Cases == Waitables \X Dirs
NoCase == <<0, "none">>

ASSUME WaitableAssumption ==
    /\ NoThread \notin Threads /\ IsFiniteSet(Threads)
    /\ Waitables \subseteq Nat \ {0} /\ IsFiniteSet(Waitables)
    /\ Size \in [Waitables -> Nat]
    /\ Calls \subseteq Cases
    /\ Selects \subseteq SUBSET Cases /\ {} \notin Selects   \* the arrays on its stack have a size

VARIABLES
    count, closed,      \* of each waitable
    queue,              \* queue[c]: the threads enqueued for a case, first to last
    lock,               \* the thread that holds w->lock
    status,             \* of each thread
    select_done,        \* of each thread: somebody has won the race to wake it
    waker, success,     \* the descriptor that woke the thread and its `success`
    pc,
    op,                 \* the cases of the present call, and whether it blocks
    todo,               \* the threads the caller has yet to ready
    unlocks,            \* the locks the park callback has yet to release
    credit              \* a ghost: the sends that have returned success, less
                        \* the receives that have, of each waitable

vars == <<count, closed, queue, lock, status, select_done, waker, success, pc, op, todo, unlocks, credit>>

NoOp == [cases |-> {}, block |-> FALSE, select |-> FALSE]

Goto(t, l) == pc' = [pc EXCEPT ![t] = l]
Return(t) == Goto(t, "idle") /\ op' = [op EXCEPT ![t] = NoOp]

Init ==
    /\ count = [w \in Waitables |-> 0]
    /\ closed = [w \in Waitables |-> FALSE]
    /\ queue = [c \in Cases |-> << >>]
    /\ lock = [w \in Waitables |-> NoThread]
    /\ status = [t \in Threads |-> "running"]
    /\ select_done = [t \in Threads |-> FALSE]
    /\ waker = [t \in Threads |-> NoCase]
    /\ success = [t \in Threads |-> FALSE]
    /\ pc = [t \in Threads |-> "idle"]
    /\ op = [t \in Threads |-> NoOp]
    /\ todo = [t \in Threads |-> << >>]
    /\ unlocks = [t \in Threads |-> {}]
    /\ credit = [w \in Waitables |-> 0]

----------------------------------------------------------------------------
(* wait_queue_dequeue: descriptors of selects that somebody else has won   *)
(* are dropped on the way to the first one that can be taken.              *)

Live(t) == ~(op[t].select /\ select_done[t])

LiveIn(c) == {i \in DOMAIN queue[c] : Live(queue[c][i])}

HasLive(c) == LiveIn(c) # {}
First(c) == queue[c][Min(LiveIn(c))]
Rest(c) == SubSeq(queue[c], Min(LiveIn(c)) + 1, Len(queue[c]))
\* Mutant: select_done is not set.
ClaimUnmarked(t) == select_done

\* The CAS on select_done claims the thread for its waker.
Claim(t) == [select_done EXCEPT ![t] = op[t].select]

Opposite(dir) == IF dir = "send" THEN "wait" ELSE "send"

\* Take a thread waiting for the other direction, or what the count allows.
Partner(c) == <<c[1], Opposite(c[2])>>

CountAllows(c) == IF c[2] = "send" THEN count[c[1]] < Size[c[1]] ELSE count[c[1]] > 0
Moved(f, c) == [f EXCEPT ![c[1]] = IF c[2] = "send" THEN @ + 1 ELSE @ - 1]
Counted(c) == Moved(count, c)
Credited(c) == Moved(credit, c)

\* waitable_full and waitable_empty, as the lock-free fast paths read them.
LooksHopeless(c) ==
    IF Size[c[1]] = 0 THEN queue[Partner(c)] = << >> ELSE ~CountAllows(c)

----------------------------------------------------------------------------
(* waitable_send and waitable_wait                                         *)

Call(t, c, block) ==
    /\ pc[t] = "idle"
    /\ op' = [op EXCEPT ![t] = [cases |-> {c}, block |-> block, select |-> FALSE]]
    /\ Goto(t, "op")
    /\ UNCHANGED <<count, closed, queue, lock, status, select_done, waker, success, todo, unlocks, credit>>

TheCase(t) == CHOOSE c \in op[t].cases : TRUE

\* A failed non-blocking operation that does not even take the lock.
FastFail(t) ==
    LET c == TheCase(t)
    IN  /\ pc[t] = "op" /\ ~op[t].block
        /\ c[2] = "send" => ~closed[c[1]]
        /\ LooksHopeless(c)
        /\ Return(t)
        /\ UNCHANGED <<count, closed, queue, lock, status, select_done, waker, success, todo, unlocks, credit>>

\* The critical section.  A closed waitable refuses senders and lets receivers
\* have what is left in the count.
Operate(t) ==
    LET c == TheCase(t)
        w == c[1]
        p == Partner(c)
        refused == closed[w] /\ (c[2] = "send" \/ count[w] = 0)
    IN  /\ pc[t] = "op"
        /\ lock[w] = NoThread
        /\ \/ /\ refused
              /\ Return(t)
              /\ UNCHANGED <<count, queue, status, select_done, todo, credit>>
           \/ /\ ~refused /\ ~closed[w] /\ HasLive(p)
              /\ queue' = [queue EXCEPT ![p] = Rest(p)]
              /\ select_done' = Claim(First(p))
              /\ todo' = [todo EXCEPT ![t] = <<First(p)>>]
              /\ Goto(t, "ready")
              /\ UNCHANGED <<count, status, op, credit>>
           \/ /\ ~refused /\ (closed[w] \/ ~HasLive(p)) /\ CountAllows(c)
              /\ queue' = IF closed[w] THEN queue ELSE [queue EXCEPT ![p] = << >>]
              /\ count' = Counted(c)
              /\ credit' = Credited(c)
              /\ Return(t)
              /\ UNCHANGED <<status, select_done, todo>>
           \/ /\ ~closed[w] /\ ~HasLive(p) /\ ~CountAllows(c) /\ ~op[t].block
              /\ queue' = [queue EXCEPT ![p] = << >>]
              /\ Return(t)
              /\ UNCHANGED <<count, status, select_done, todo, credit>>
           \/ /\ ~closed[w] /\ ~HasLive(p) /\ ~CountAllows(c) /\ op[t].block
              /\ queue' = [queue EXCEPT ![p] = << >>, ![c] = Append(@, t)]
              /\ status' = [status EXCEPT ![t] = "waiting"]
              /\ Goto(t, "parked")
              /\ UNCHANGED <<count, select_done, op, todo, credit>>
        /\ UNCHANGED <<closed, lock, waker, success, unlocks>>

\* After the unlock: waker and success are written and the thread is readied.
\* The descriptor is the one for the direction opposite to the caller's case.
Ready(t) ==
    LET u == Head(todo[t])
    IN  /\ pc[t] = "ready"
        /\ waker' = [waker EXCEPT ![u] = Partner(TheCase(t))]
        /\ success' = [success EXCEPT ![u] = TRUE]
        /\ status' = [status EXCEPT ![u] = "runnable"]
        /\ todo' = [todo EXCEPT ![t] = << >>]
        /\ credit' = Credited(TheCase(t))
        /\ Return(t)
        /\ UNCHANGED <<count, closed, queue, lock, select_done, unlocks>>
\* Mutant: a call woken by a close reports success.
WokenAlwaysSuccess(t) ==
    /\ pc[t] = "parked" /\ ~op[t].select
    /\ status[t] = "runnable"
    /\ status' = [status EXCEPT ![t] = "running"]
    /\ success' = [success EXCEPT ![t] = FALSE]
    /\ credit' = Credited(TheCase(t))
    /\ Return(t)
    /\ UNCHANGED <<count, closed, queue, lock, select_done, waker, todo, unlocks>>

\* The blocked operation has been completed by somebody else.
Woken(t) ==
    /\ pc[t] = "parked" /\ ~op[t].select
    /\ status[t] = "runnable"
    /\ status' = [status EXCEPT ![t] = "running"]
    /\ success' = [success EXCEPT ![t] = FALSE]
    /\ credit' = IF success[t] THEN Credited(TheCase(t)) ELSE credit
    /\ Return(t)
    /\ UNCHANGED <<count, closed, queue, lock, select_done, waker, todo, unlocks>>

----------------------------------------------------------------------------
(* waitable_close                                                          *)

Ws(t) == {c[1] : c \in op[t].cases}
UnlockAll(t) == [w \in Waitables |-> IF lock[w] = t THEN NoThread ELSE lock[w]]
TheWaitable(t) == CHOOSE w \in Ws(t) : TRUE

Close(t, w) ==
    /\ pc[t] = "idle"
    /\ lock[w] = NoThread
    /\ ~closed[w]
    /\ closed' = [closed EXCEPT ![w] = TRUE]
    /\ lock' = [lock EXCEPT ![w] = t]
    /\ op' = [op EXCEPT ![t].cases = {w} \X Dirs]
    /\ Goto(t, "closing")
    /\ UNCHANGED <<count, queue, status, select_done, waker, success, todo, unlocks, credit>>

\* The loops of waitable_close, the receivers' queue first.  What they dequeue is
\* pushed on a list linked by sched_link.
CloseTake(t, dir) ==
    LET w == TheWaitable(t)
        p == <<w, dir>>
        u == First(p)
    IN  /\ pc[t] = "closing"
        /\ HasLive(p) /\ (dir = "send" => ~HasLive(<<w, "wait">>))
        /\ queue' = [c \in Cases |-> IF c = p THEN Rest(p) ELSE IF c = <<w, "wait">> THEN << >> ELSE queue[c]]
        /\ select_done' = Claim(u)
        /\ waker' = [waker EXCEPT ![u] = p]
        /\ success' = [success EXCEPT ![u] = FALSE]
        /\ todo' = [todo EXCEPT ![t] = <<u>> \o @]
        /\ UNCHANGED <<count, closed, lock, status, pc, op, unlocks, credit>>

\* Mutant: the senders are not released.
CloseUnlockEarly(t) ==
    LET w == TheWaitable(t)
    IN  /\ pc[t] = "closing"
        /\ ~HasLive(<<w, "wait">>)
        /\ queue' = [queue EXCEPT ![<<w, "wait">>] = << >>]
        /\ lock' = UnlockAll(t)
        /\ op' = [op EXCEPT ![t] = NoOp]
        /\ Goto(t, IF todo[t] = << >> THEN "idle" ELSE "close")
        /\ UNCHANGED <<count, closed, status, select_done, waker, success, todo, unlocks, credit>>

CloseUnlock(t) ==
    LET ps == {TheWaitable(t)} \X Dirs
    IN  /\ pc[t] = "closing"
        /\ \A p \in ps : ~HasLive(p)
        /\ queue' = [c \in Cases |-> IF c \in ps THEN << >> ELSE queue[c]]
        /\ lock' = UnlockAll(t)
        /\ op' = [op EXCEPT ![t] = NoOp]
        /\ Goto(t, IF todo[t] = << >> THEN "idle" ELSE "close")
        /\ UNCHANGED <<count, closed, status, select_done, waker, success, todo, unlocks, credit>>

\* The last thread that was dequeued is readied first.
CloseReady(t) ==
    /\ pc[t] = "close"
    /\ status' = [status EXCEPT ![Head(todo[t])] = "runnable"]
    /\ todo' = [todo EXCEPT ![t] = Tail(@)]
    /\ Goto(t, IF Len(todo[t]) = 1 THEN "idle" ELSE "close")
    /\ UNCHANGED <<count, closed, queue, lock, select_done, waker, success, op, unlocks, credit>>

----------------------------------------------------------------------------
(* waitable_select                                                         *)

SelectCall(t, cases, block) ==
    /\ pc[t] = "idle"
    /\ op' = [op EXCEPT ![t] = [cases |-> cases, block |-> block, select |-> TRUE]]
    /\ Goto(t, "sel_lock")
    /\ UNCHANGED <<count, closed, queue, lock, status, select_done, waker, success, todo, unlocks, credit>>

\* The locks taken by the thread's own code, not those its park callback has
\* yet to release.
Held(t) == {w \in Waitables : lock[w] = t} \ unlocks[t]
\* Mutant: the locks are taken in the order of the cases, whatever it is.
SelectLockAnyOrder(t) ==
    /\ pc[t] \in {"sel_lock", "sel_relock"}
    /\ \E w \in Ws(t) \ Held(t) :
           /\ lock[w] = NoThread
           /\ lock' = [lock EXCEPT ![w] = t]
           /\ IF Ws(t) \ Held(t) = {w}
              THEN Goto(t, IF pc[t] = "sel_lock" THEN "sel_pass1" ELSE "sel_pass3")
              ELSE UNCHANGED pc
    /\ UNCHANGED <<count, closed, queue, status, select_done, waker, success, op, todo, unlocks, credit>>

\* waitable_select_lock, one lock of the lock order at a time.
SelectLock(t) ==
    /\ pc[t] \in {"sel_lock", "sel_relock"}
    /\ LET w == Min(Ws(t) \ Held(t))
       IN  /\ lock[w] = NoThread
           /\ lock' = [lock EXCEPT ![w] = t]
           /\ IF Ws(t) \ Held(t) = {w}
              THEN Goto(t, IF pc[t] = "sel_lock" THEN "sel_pass1" ELSE "sel_pass3")
              ELSE UNCHANGED pc
    /\ UNCHANGED <<count, closed, queue, status, select_done, waker, success, op, todo, unlocks, credit>>

Takes(c) == HasLive(Partner(c)) /\ (c[2] = "send" => ~closed[c[1]])
EndsClosed(c) == closed[c[1]] /\ ~Takes(c) /\ (c[2] = "send" \/ count[c[1]] = 0)
Possible(c) == Takes(c) \/ CountAllows(c) \/ EndsClosed(c)

\* Pass 1 looks at the cases in a random order.  The ones it looked at before
\* the chosen one had no live partner: their queues are left empty.
Emptied(skipped) == [p \in Cases |-> IF \E c \in skipped : p = Partner(c) THEN << >> ELSE queue[p]]

SelectPass1(t) ==
    /\ pc[t] = "sel_pass1"
    /\ \E c \in op[t].cases, skipped \in SUBSET {d \in op[t].cases : ~Possible(d)} :
          /\ Possible(c)
          /\ lock' = UnlockAll(t)
          /\ \/ /\ Takes(c)
                /\ queue' = [Emptied(skipped) EXCEPT ![Partner(c)] = Rest(Partner(c))]
                /\ select_done' = Claim(First(Partner(c)))
                /\ todo' = [todo EXCEPT ![t] = <<First(Partner(c))>>]
                /\ op' = [op EXCEPT ![t].cases = {c}]
                /\ Goto(t, "ready")
                /\ UNCHANGED <<count, credit>>
             \/ /\ ~Takes(c)
                /\ queue' = Emptied(skipped)
                /\ count' = IF EndsClosed(c) THEN count ELSE Counted(c)
                /\ credit' = IF EndsClosed(c) THEN credit ELSE Credited(c)
                /\ Return(t)
                /\ UNCHANGED <<select_done, todo>>
    /\ UNCHANGED <<closed, status, waker, success, unlocks>>

\* Pass 2: nothing to do at once.  Enqueue on every case and park.
SelectPass2(t) ==
    /\ pc[t] = "sel_pass1"
    /\ \A c \in op[t].cases : ~Possible(c)
    /\ IF op[t].block
       THEN /\ queue' = [p \in Cases |-> IF p \in op[t].cases THEN Append(Emptied(op[t].cases)[p], t)
                                          ELSE Emptied(op[t].cases)[p]]
            /\ waker' = [waker EXCEPT ![t] = NoCase]
            /\ status' = [status EXCEPT ![t] = "waiting"]
            /\ unlocks' = [unlocks EXCEPT ![t] = Ws(t)]
            /\ Goto(t, "parked")
            /\ UNCHANGED <<lock, op>>
       ELSE /\ queue' = Emptied(op[t].cases)
            /\ lock' = UnlockAll(t)
            /\ Return(t)
            /\ UNCHANGED <<waker, status, unlocks>>
    /\ UNCHANGED <<count, closed, select_done, success, todo, credit>>

\* waitable_select_park, run by the CPU that parked the thread, in the lock order.
SelectParkUnlock(t) ==
    /\ unlocks[t] # {}
    /\ lock' = [lock EXCEPT ![Min(unlocks[t])] = NoThread]
    /\ unlocks' = [unlocks EXCEPT ![t] = @ \ {Min(@)}]
    /\ UNCHANGED <<count, closed, queue, status, select_done, waker, success, pc, op, todo, credit>>

\* The thread runs again and goes to lock all the waitables.  The CPU of the
\* park callback may still hold some of them.
SelectWoken(t) ==
    /\ pc[t] = "parked" /\ op[t].select
    /\ status[t] = "runnable"
    /\ status' = [status EXCEPT ![t] = "running"]
    /\ Goto(t, "sel_relock")
    /\ UNCHANGED <<count, closed, queue, lock, select_done, waker, success, op, todo, unlocks, credit>>
\* Mutant: the descriptors of the other cases stay in their queues.
SelectPass3Leaves(t) ==
    /\ pc[t] = "sel_pass3"
    /\ select_done' = [select_done EXCEPT ![t] = FALSE]
    /\ waker' = [waker EXCEPT ![t] = NoCase]
    /\ success' = [success EXCEPT ![t] = FALSE]
    /\ credit' = IF success[t] /\ waker[t] # NoCase THEN Credited(waker[t]) ELSE credit
    /\ lock' = UnlockAll(t)
    /\ Return(t)
    /\ UNCHANGED <<count, closed, queue, status, todo, unlocks>>

\* Pass 3: take the descriptors of the other cases out of their queues.
SelectPass3(t) ==
    /\ pc[t] = "sel_pass3"
    /\ select_done' = [select_done EXCEPT ![t] = FALSE]
    /\ queue' = [p \in Cases |-> IF p \in op[t].cases \ {waker[t]} THEN RemoveFirst(queue[p], t)
                                  ELSE queue[p]]
    /\ waker' = [waker EXCEPT ![t] = NoCase]
    /\ success' = [success EXCEPT ![t] = FALSE]
    /\ credit' = IF success[t] THEN Credited(waker[t]) ELSE credit
    /\ lock' = UnlockAll(t)
    /\ Return(t)
    /\ UNCHANGED <<count, closed, status, todo, unlocks>>

----------------------------------------------------------------------------
Inside(t) ==
    \/ FastFail(t) \/ Operate(t) \/ Ready(t) \/ Woken(t)
    \/ (\E dir \in Dirs : CloseTake(t, dir)) \/ CloseUnlock(t) \/ CloseReady(t)
    \/ SelectLock(t) \/ SelectPass1(t) \/ SelectPass2(t) \/ SelectParkUnlock(t) \/ SelectWoken(t)
    \/ SelectPass3(t)

Start(t) ==
    \/ \E c \in Calls, block \in BOOLEAN : Call(t, c, block)
    \/ \E cases \in Selects, block \in BOOLEAN : SelectCall(t, cases, block)
    \/ \E w \in Waitables : Close(t, w)

Next == \E t \in Threads : Start(t) \/ Inside(t)

Spec == Init /\ [][Next]_vars

----------------------------------------------------------------------------
(* Properties                                                              *)

\* Every variable keeps its type; count stays between 0 and size.
TypeOK ==
    /\ count \in [Waitables -> Nat] /\ closed \in [Waitables -> BOOLEAN]
    /\ \A w \in Waitables : count[w] <= Size[w]
    /\ queue \in [Cases -> Seq(Threads)]
    /\ lock \in [Waitables -> Threads \cup {NoThread}]
    /\ status \in [Threads -> {"running", "waiting", "runnable"}]
    /\ select_done \in [Threads -> BOOLEAN] /\ success \in [Threads -> BOOLEAN]
    /\ waker \in [Threads -> Cases \cup {NoCase}]
    /\ pc \in [Threads -> {"idle", "op", "ready", "parked", "closing", "close", "sel_lock", "sel_pass1", "sel_relock", "sel_pass3"}]
    /\ op \in [Threads -> [cases : SUBSET Cases, block : BOOLEAN, select : BOOLEAN]]
    /\ todo \in [Threads -> Seq(Threads)] /\ unlocks \in [Threads -> SUBSET Waitables]
    /\ credit \in [Waitables -> Int]

\* u has been taken off a queue by a thread that has yet to ready it.
ToBeReadied(u) == \E t \in Threads : u \in Range(todo[t])
Asleep(u) == pc[u] = "parked" /\ status[u] = "waiting" /\ ~ToBeReadied(u)

\* scheduler_ready_thread asserts (cas_thread_state) that the thread it readies
\* is WAITING.  So no thread is ever claimed by two of the send, receive, close
\* and select calls that race for it: the CAS on select_done decides between
\* them, although its descriptors stand in several queues under several locks.
ReadiedOnceWhileWaiting ==
    \A t1, t2 \in Threads : \A i \in DOMAIN todo[t1], j \in DOMAIN todo[t2] :
        /\ status[todo[t1][i]] = "waiting"
        /\ todo[t1][i] = todo[t2][j] => t1 = t2 /\ i = j

\* A sleeping thread stands exactly once in the queue of every case of its call,
\* so that none of the partners misses it, and a descriptor in a queue belongs
\* to a call that is still in progress: pass 3 leaves no descriptor behind in a
\* queue when it gives it back to the cache.
DescriptorsExact ==
    \A c \in Cases, t \in Threads :
        LET copies == Cardinality({i \in DOMAIN queue[c] : queue[c][i] = t})
        IN  /\ Asleep(t) /\ c \in op[t].cases => copies = 1
            /\ copies # 0 => /\ c \in op[t].cases /\ copies = 1
                             /\ ~Asleep(t) => op[t].select /\ pc[t] \in {"parked", "sel_relock", "sel_pass3"}

\* What sleeps on a waitable nobody is working on could not have proceeded: no
\* receiver sleeps while there is something to receive or a sender sleeps too,
\* no sender sleeps while there is room, and nobody sleeps on a closed one.
NobodySleepsInVain ==
    \A w \in Waitables, u \in Threads :
        lock[w] = NoThread /\ Asleep(u) =>
            /\ <<w, "wait">> \in op[u].cases => count[w] = 0
            /\ <<w, "send">> \in op[u].cases => count[w] = Size[w]
            /\ \A dir \in Dirs : <<w, dir>> \in op[u].cases =>
                  /\ ~closed[w]
                  /\ \A v \in Threads \ {u} : Asleep(v) => <<w, Opposite(dir)>> \notin op[v].cases

\* The threads that have completed a case but whose call has not returned yet.
Completed(c) ==
    {t \in Threads :
        \/ pc[t] = "ready" /\ TheCase(t) = c
        \/ \E s \in Threads : pc[s] = "ready" /\ t \in Range(todo[s]) /\ Partner(TheCase(s)) = c
        \/ /\ pc[t] \in {"parked", "sel_relock", "sel_pass3"}
           /\ success[t] /\ waker[t] = c}

\* Every send that reports success is received by exactly one receive that
\* reports success or is still counted: nothing is lost, doubled or made up by
\* the direct hand-over to a sleeper, by a select that is offered several cases
\* at once, or by a close.
EverySendReceivedOnce ==
    \A w \in Waitables :
        credit[w] + Cardinality(Completed(<<w, "send">>)) - Cardinality(Completed(<<w, "wait">>)) = count[w]

\* The selects take several spinlocks, also while the callback of their own park
\* still holds some.  Whenever a call is inside and not asleep, some call can
\* take a step: the locking order leaves no cycle.
NoLockDeadlock ==
    (\E t \in Threads : pc[t] # "idle" /\ ~(Asleep(t) /\ unlocks[t] = {}))
        => \E t \in Threads : ENABLED Inside(t)

=============================================================================
