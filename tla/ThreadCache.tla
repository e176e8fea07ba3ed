---------------------------- MODULE ThreadCache ----------------------------
(***************************************************************************)
(* Thread descriptors and stacks, kernel/thread/thread.c and                *)
(* kernel/mem/stack.c: dead descriptors wait in a list per CPU and a global *)
(* list, each with its count, and are used again by create_thread with      *)
(* their stack.                                                             *)
(*                                                                         *)
(* Neither call protects a list.  get_free_thread finds the one of its CPU  *)
(* before it disables preemption, release_thread disables nothing, so that  *)
(* a thread works on the list of a CPU it has left, with the count of the   *)
(* one it is on.  `torn' is set when two calls are in one list at the same  *)
(* time, and when a list is taken to be longer than it is; nothing is       *)
(* claimed from then on.                                                    *)
(***************************************************************************)
EXTENDS Integers, Sequences, SequencesExt

CONSTANTS Cpus, Threads,
          Callers,              \* threads that create threads and release references
          Half,                 \* 32: a CPU keeps less than 2 * Half dead threads
          Stacks,               \* stacks that fit between STACK_POOL_START and _END
          MaxDrift,             \* bound on how far a count is off when a caller moves
          Gone

VARIABLES
    local, count,       \* m_free_threads, m_free_threads_count of each CPU
    global, total,      \* m_global_free_threads, m_global_free_threads_count
    status, refs,       \* status and ref_count of a descriptor
    stack,              \* stack_top; 0 where malloc has the descriptor
    next,               \* m_next_stack
    unused,             \* m_stack_free_list
    all,                \* g_all_threads
    call,               \* of each caller: where it is in create_thread or release_thread,
                        \* the CPU it is on, the CPU of its list, its descriptor
    owed,               \* references that callers took with put_thread
    torn

tvars == <<local, count, global, total, status, refs, stack, next, unused, all, call, owed, torn>>

NoCall == [at |-> "none", cpu |-> Gone, base |-> Gone, new |-> Gone]

Init ==
    /\ local = [c \in Cpus |-> <<>>] /\ count = [c \in Cpus |-> 0] /\ global = <<>> /\ total = 0
    /\ status = [t \in Threads |-> "idle"] /\ refs = [t \in Threads |-> 0] /\ stack = [t \in Threads |-> 0]
    /\ next = 1 /\ unused = <<>> /\ all = {} /\ call = [k \in Callers |-> NoCall] /\ owed = {} /\ torn = FALSE

Pushed(list, t) == <<t>> \o list

\* The calls between the first access to the list of CPU c and the last.
Inside(c) == {k \in Callers : call[k].at \in {"get", "push"} /\ call[k].base = c}

\* get_free_thread up to scheduler_preempt_disable.
Call(k) ==
    /\ call[k].at = "none" /\ ~torn
    /\ \E c \in Cpus : call' = [call EXCEPT ![k] = [NoCall EXCEPT !.at = "base", !.cpu = c, !.base = c]]
    /\ UNCHANGED <<local, count, global, total, status, refs, stack, next, unused, all, owed, torn>>

\* The caller is preempted and goes on at another CPU.  The interrupt of a device
\* switches it out where preemption is disabled, too (see Idle).
Migrate(k, c) ==
    /\ call[k].at \in {"base", "get", "push"} /\ c # call[k].cpu /\ ~torn
    /\ \A d \in Cpus : count[d] - Len(local[d]) \in -MaxDrift..MaxDrift
    /\ call' = [call EXCEPT ![k] = [@ EXCEPT !.cpu = c]]
    /\ UNCHANGED <<local, count, global, total, status, refs, stack, next, unused, all, owed, torn>>

Enter(k) ==
    /\ call[k].at = "base" /\ ~torn
    /\ call' = [call EXCEPT ![k] = [@ EXCEPT !.at = "get"]]
    /\ torn' = (Inside(call[k].base) # {})
    /\ UNCHANGED <<local, count, global, total, status, refs, stack, next, unused, all, owed>>

\* An empty list takes threads of the global one, which are pushed one by one,
\* until the count of the CPU is Half; where it is already, the loop is endless.
GetFree(k) ==
    LET b == call[k].base
        c == call[k].cpu
        room == IF local[b] # <<>> \/ count[c] >= Half THEN 0 ELSE Half - count[c]
        n == IF room < Len(global) THEN room ELSE Len(global)
        list == Reverse(SubSeq(global, 1, n)) \o local[b]
    IN  /\ call[k].at = "get" /\ ~torn
        /\ list # <<>> \/ global = <<>>
        /\ global' = SubSeq(global, n + 1, Len(global)) /\ total' = total - n
        /\ \/ list = <<>> /\ call' = [call EXCEPT ![k] = [NoCall EXCEPT !.at = "alloc"]] /\ UNCHANGED <<local, count>>
           \/ /\ list # <<>>
              /\ local' = [local EXCEPT ![b] = Tail(list)] /\ count' = [count EXCEPT ![c] = @ + n - 1]
              /\ call' = [call EXCEPT ![k] = [NoCall EXCEPT !.at = "setup", !.new = Head(list)]]
        /\ UNCHANGED <<status, refs, stack, next, unused, all, owed, torn>>

\* alloc_stack: the last stack that was freed, else the next of the pool.
alloc_stack ==
    IF unused # <<>> THEN [top |-> Head(unused), next |-> next, unused |-> Tail(unused)]
    ELSE IF next > Stacks THEN [top |-> 0, next |-> next, unused |-> unused]
    ELSE [top |-> next, next |-> next + 1, unused |-> unused]

\* alloc_thread; when the memory for the tcb is missing the descriptor is freed
\* and the stack is not.
AllocThread(k) ==
    /\ call[k].at = "alloc" /\ ~torn
    /\ \/ call' = [call EXCEPT ![k] = NoCall] /\ UNCHANGED <<status, stack, next, unused, all>>
       \/ /\ next' = alloc_stack.next /\ unused' = alloc_stack.unused
          /\ \/ call' = [call EXCEPT ![k] = NoCall] /\ UNCHANGED <<status, stack, all>>
             \/ /\ alloc_stack.top # 0
                /\ \E t \in Threads :
                      /\ stack[t] = 0
                      /\ stack' = [stack EXCEPT ![t] = alloc_stack.top]
                      /\ status' = [status EXCEPT ![t] = "dead"]
                      /\ all' = all \union {t}
                      /\ call' = [call EXCEPT ![k] = [NoCall EXCEPT !.at = "setup", !.new = t]]
    /\ UNCHANGED <<local, count, global, total, refs, owed, torn>>

\* The rest of create_thread: one reference, and the thread is waiting; its
\* creator may take a reference of its own before it readies it.
Setup(k) ==
    /\ call[k].at = "setup" /\ ~torn
    /\ LET t == call[k].new IN
       /\ status[t] = "dead"
       /\ status' = [status EXCEPT ![t] = "waiting"]
       /\ \/ refs' = [refs EXCEPT ![t] = 1] /\ UNCHANGED owed
          \/ refs' = [refs EXCEPT ![t] = 2] /\ owed' = owed \union {t}
    /\ call' = [call EXCEPT ![k] = NoCall]
    /\ UNCHANGED <<local, count, global, total, stack, next, unused, all, torn>>

\* MUTANT: the count is tested after the subtraction.
LastRefOneLeft(t) == refs[t] <= 2

\* release_thread: who takes the last reference puts the descriptor into a list.
LastRef(t) == refs[t] = 1

\* The push into the list of CPU b and the count of CPU c; when that count is
\* too high, threads of the list go to the global one, whether there are any or
\* not.
Push(b, c, t) ==
    LET list == Pushed(local[b], t)
        n == IF count[c] + 1 >= 2 * Half THEN count[c] + 2 - Half ELSE 0
    IN  \/ n > Len(list) /\ torn' = TRUE /\ UNCHANGED <<local, count, global, total>>
        \/ /\ n <= Len(list)
           /\ local' = [local EXCEPT ![b] = SubSeq(list, n + 1, Len(list))]
           /\ count' = [count EXCEPT ![c] = @ + 1 - n]
           /\ global' = Reverse(SubSeq(list, 1, n)) \o global
           /\ total' = total + n /\ UNCHANGED torn

\* A caller's release, which may be preempted like any other code of a thread:
\* the reference with the address of the list, and the push.
ReleaseCallerRef(k, t) ==
    /\ call[k].at = "none" /\ ~torn
    /\ t \in owed /\ status[t] \in {"dead", "dropped"}
    /\ owed' = owed \ {t} /\ refs' = [refs EXCEPT ![t] = @ - 1]
    /\ \/ ~LastRef(t) /\ UNCHANGED <<call, torn>>
       \/ /\ LastRef(t)
          /\ \E c \in Cpus :
                /\ call' = [call EXCEPT ![k] = [at |-> "push", cpu |-> c, base |-> c, new |-> t]]
                /\ torn' = (Inside(c) # {})
    /\ UNCHANGED <<local, count, global, total, status, stack, next, unused, all>>

ReleasePush(k) ==
    /\ call[k].at = "push" /\ ~torn
    /\ Push(call[k].base, call[k].cpu, call[k].new)
    /\ call' = [call EXCEPT ![k] = NoCall]
    /\ UNCHANGED <<status, refs, stack, next, unused, all, owed>>

\* scheduler_on_drop: the status first, then the reference of the scheduler.
Drop(t) ==
    /\ status[t] = "waiting" /\ ~torn
    /\ status' = [status EXCEPT ![t] = "dropped"]
    /\ UNCHANGED <<local, count, global, total, refs, stack, next, unused, all, call, owed, torn>>

\* Nothing interrupts the scheduler on its CPU, but calls of other threads may be
\* inside of its list.
DropRelease(c, t) ==
    /\ status[t] = "dropped" /\ ~torn
    /\ status' = [status EXCEPT ![t] = "dead"]
    /\ refs' = [refs EXCEPT ![t] = @ - 1]
    /\ \/ ~LastRef(t) /\ UNCHANGED <<local, count, global, total, torn>>
       \/ LastRef(t) /\ Inside(c) # {} /\ torn' = TRUE /\ UNCHANGED <<local, count, global, total>>
       \/ LastRef(t) /\ Inside(c) = {} /\ Push(c, c, t)
    /\ UNCHANGED <<stack, next, unused, all, call, owed>>

\* reclaim_free_threads, under the lock of the global list (nothing in the
\* kernel calls it yet).  g_all_threads keeps the pointers.
Reclaim ==
    /\ global # <<>> /\ ~torn
    /\ global' = <<>> /\ total' = total - Len(global)
    /\ unused' = Reverse([i \in 1..Len(global) |-> stack[global[i]]]) \o unused
    /\ stack' = [t \in Threads |-> IF t \in ToSet(global) THEN 0 ELSE stack[t]]
    /\ status' = [t \in Threads |-> IF t \in ToSet(global) THEN "idle" ELSE status[t]]
    /\ UNCHANGED <<local, count, refs, next, all, call, owed, torn>>

Next ==
    \/ \E k \in Callers : Call(k) \/ Enter(k) \/ GetFree(k) \/ AllocThread(k) \/ Setup(k) \/ ReleasePush(k)
    \/ \E k \in Callers, c \in Cpus : Migrate(k, c)
    \/ \E k \in Callers, t \in Threads : ReleaseCallerRef(k, t)
    \/ \E c \in Cpus, t \in Threads : DropRelease(c, t)
    \/ \E t \in Threads : Drop(t)
    \/ Reclaim

\* The places in the lists a descriptor is in.
Listed(t) == (UNION {{<<c, i>> : i \in {j \in DOMAIN local[c] : local[c][j] = t}} : c \in Cpus})
             \union {<<Gone, i>> : i \in {j \in DOMAIN global : global[j] = t}}

\* create_thread never hands out a descriptor or a stack somebody else has, in
\* whatever list a call pushes and from whatever list it takes, as long as the
\* calls do not meet in one: a dead descriptor is in one list and nobody has a
\* reference to it or is about to use or to list it, and no stack has two owners
\* (kernel/thread/thread.c, stack.c).
ThreadsHeldOnce ==
    torn \/
    /\ total = Len(global)
    /\ \A t \in Threads :
          LET held == {k \in Callers : call[k].new = t} IN
          /\ refs[t] > 0 \/ held # {} => Listed(t) = {}
          /\ held # {} => refs[t] = 0 /\ \A k, l \in held : k = l
          /\ stack[t] # 0 /\ status[t] = "dead" /\ refs[t] = 0 /\ held = {} => \E p \in Listed(t) : Listed(t) = {p}
          /\ stack[t] # 0 => /\ stack[t] \notin ToSet(unused) /\ t \in all
                             /\ \A u \in Threads \ {t} : stack[u] # stack[t]

\* "Must be called from a context with no preemption": no two calls meet in the
\* list of a CPU.
ListsAreOfOneCpu == ~torn
=============================================================================
