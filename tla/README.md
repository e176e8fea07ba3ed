# Pentagon: a TLA+ verification project

Pentagon is a bare-metal kernel in C with a .NET runtime on top.  Its threading
subsystem (scheduler, timers, channels, synchronisation primitives) is a
translation of the Go runtime into C; the drivers and the class library are C#.
This directory models the parts of it that carry the concurrency.  Paths below
are relative to `src/`.

## 1. Inventory

| component | source | state | operations | hard behaviour |
|---|---|---|---|---|
| spinlocks | `kernel/sync/spinlock.c`, `irq_spinlock.c` | `locked` (+ saved interrupt flag) | lock, try_lock, unlock | a CPU spinning on a lock its own interrupted thread holds |
| semaphore | `kernel/sync/semaphore.c` | `value`, `nwait`, `lock`, list `waiters` | acquire(lifo), release(handoff) | lost wakeup between the value test and the enqueue, direct hand-off |
| mutex | `kernel/sync/mutex.c` | one word: LOCKED, WOKEN, STARVING, waiter count; a semaphore | lock, try_lock, unlock | races of CAS loops, starvation mode, two waiters woken |
| rwmutex | `kernel/sync/rwmutex.c` | `reader_count`, `reader_wait`, mutex, two semaphores | rlock, runlock, lock, unlock | old against new value of an atomic add |
| wait group | `kernel/sync/wait_group.c` | one word: counter and waiter count; a semaphore | add, done, wait | the counter reaching 0 while a waiter is registering |
| notify list, conditional | `kernel/sync/notify_list.c`, `conditional.c` | ticket counters `wait`, `notify`, list of parked threads | add, wait, notify_one, notify_all | a notification between taking a ticket and parking; tickets that wrap |
| waitable (channel) | `kernel/thread/waitable.c` | `count`, `size`, `closed`, two queues, `ref_count` | send, wait, close, select, after, release | select woken by two cases, close with sleepers, lock order |
| run queues | `kernel/thread/scheduler.c` | per-CPU ring (`head`, `tail`, `queue`), `next`; global queue | put, get, grab, steal, put_slow | lock-free ring, 32-bit counters, thieves |
| scheduler | `kernel/thread/scheduler.c` | thread status, current thread, idle mask, spinning and polling state | ready, park, yield, drop, suspend, resume, find_runnable | suspend racing with ready, an idle CPU missing work |
| timers | `kernel/thread/timer.c` | per-CPU 4-ary heap, per-timer status word | start, stop, modify, check_timers | status transitions by several CPUs, stolen timers |
| threads, wait descriptors | `kernel/thread/thread.c` | ref count, free lists, descriptor caches | create, exit, release, acquire/release descriptor | hand-over between CPU-local and global lists |
| IRQ | `kernel/irq/irq.c`, `kernel/arch/idt.c`, `apic.c` | vector table, waiting thread | alloc_irq, irq_wait, irq_dispatch | an interrupt that switches threads inside a section that must not be preempted |
| physical, virtual memory, stacks, kernel heap | `kernel/mem/*` | buddy tree, reserve pool, page tables, free stacks, TLSF lists | palloc, pfree, vmm_map, alloc_stack, malloc | page fault inside the allocator, exhausted pools |
| object heap | `kernel/runtime/dotnet/heap.c` | page tables of the heap, object colours, locks | heap_alloc, heap_free, heap_reclaim | allocation racing with reclaim, failure half way |
| class library: threading | `Pentagon/Corelib/System/Threading/*` | wrappers of waitables, Task state flags, continuations | Monitor, WaitHandle, Task | completion racing with a continuation |
| drivers | `Pentagon/Pentagon/*` | virtio rings, PCI configuration, regions | queue, interrupt loop | a list that shrinks under its loop, rings shorter than their indices, the free list of descriptors |
| boot | `kernel/kernel.c`, `mem/early.c`, `thread/cpu_local.c`, `arch/gdt.c` | memory map, startup counters | `_start`, `per_cpu_start`, `palloc_reclaim` | allocators that follow each other over the same memory, CPUs that leave the bootloader's stacks |
| debug, libc, printf, ELF | the rest | - | - | straight-line code |

How they interact: every blocking primitive parks its thread with
`scheduler_park(callback, arg)`, which makes the thread WAITING, leaves its
stack and only then runs the callback that releases the caller's spinlock; a
waker calls `scheduler_ready_thread`, which asserts that the thread is WAITING
and puts it on the waker's own run queue.  Mutex, rwmutex and wait group are
built on the semaphore; conditional on the notify list and the mutex; `after`
on timers and waitables; the class library on waitables and mutexes; timers and
interrupts run inside the scheduler's `find_runnable` or out of an idle `hlt`.

What makes each of them correct:

* semaphore: permits are conserved, no wake-up is missed, every sleeper can be found;
* mutex: exclusion, a waiter count that does not exceed the waiters, nobody asleep on a free mutex;
* rwmutex: writers exclude everybody, readers behind a writer are released;
* notify list: the n-th notification goes to the n-th ticket, asleep or not, across the wrap;
* wait group: every waiter registered before the counter reaches 0 returns, once;
* waitable: every send is received once, a select is woken by one partner, no descriptor outlives its call, close frees everybody;
* run queues: every runnable thread is in exactly one place;
* status: a suspended thread stays where it is, somebody is responsible for each stopped thread, a thread is readied once;
* scheduler: no CPU sleeps while work that nobody else will take is queued;
* timers: the heap order, each timer in one heap, a stopped timer does not fire, a modified one is not lost;
* descriptor cache, allocators, virtqueue: conservation of what is handed out and given back;
* interrupts: handlers nest on their stacks, what the local APIC has in service is being handled;
* boot: the early allocator, the buddy allocator and the bootloader never share a page;
* wait handle: a waitable lives as long as somebody holds a counted reference.

## 2. Plan

Modelled so far: the synchronisation primitives, the waitables and the wait
handles over them, the run queues, the thread status, the idle loop with
interrupt dispatch, the timers with their reference counts, the caches of descriptors and stacks, the
kernel heap, physical memory and demand paging, the object heap, interrupt
nesting, the boot and the virtio driver (section 3).  What is left, in this
order:

1. Proofs: `StatusMatchesHeaps` and `FiresWhenDue` of `Timer` (section 6 lists
   what is only model-checked).
2. Refinement: `RunQueue` against the sets of threads that `Idle` and `Suspend`
   use, `SemaphoreClient` against a counting semaphore with a set of waiters.
3. Models: unmapping and permissions of pages together with the TLBs; the arena.

## 3. Modules and code

Every action is one access to shared state, or one critical section of a
spinlock when nothing inside it can be seen from outside; names follow the
functions and fields of the code.  Atomic operations are sequentially
consistent in the models: on x86-64 the locked instructions the compiler emits
for the read-modify-writes order everything around them, and the plain loads and
stores of the run queue are acquire and release, which is what x86 gives anyway;
a store that is overtaken by a later load (the only reordering left) is not
modelled.

| module | models | state and actions |
|---|---|---|
| `Semaphore` | `semaphore_acquire`, `semaphore_release` and the waiter list | `value`, `nwait`, `lock`, `waiters`, ticket of each descriptor; one action per atomic operation or list operation of the two functions, `AcquirePark` and `AcquireParkUnlock` for the two halves of the park |
| `SemaphoreClient` | a client that acquires, releases, posts and uses up permits | the contract, with the number of permits in existence as a ghost |
| `Mutex` | `mutex_lock`, `_lock_slow`, `_try_lock`, `_unlock`, `_unlock_slow`, over the full `Semaphore` | the word as an integer; one action per read or CAS; spinning and the starvation clock are free choices, `wait_start_time` starts with any value |
| `Lock` | what `mutex.h` promises | a holder and the threads that ask; `Mutex` implements it (`ImplementsLock`) |
| `RWMutex` | the four operations of the rwmutex | one action per atomic add; the mutex is an owner, the semaphores are counters |
| `NotifyList`, `Conditional` | the ticket list; `conditional_wait`, `_signal`, `_broadcast` under a mutex, with producers and consumers of items | tickets modulo `2*Half`; an abstract mutex |
| `WaitGroup` | add, done and wait on the packed word | the word as two numbers, every atomic access a step; the semaphore is a counter |
| `Waitable` | send, wait, close and select | per case a queue; select locks, passes 1 to 3, park callback and unlock step by step; a close marks, takes its sleepers one by one, unlocks and readies them one by one |
| `WaitHandle` | events, semaphores and mutexes of the class library, `Thread.Sleep`, `after`, `send_timer`, the reference counts of waitables | a handle's field, the waitables with their counts, the callers with what they have read; `Dispose` tests, releases and clears the field in three steps, at any moment, and a caller that has tested the field reads it again (`Reread`); where a caller touches a freed waitable, or gives back a reference of the handle that another `Dispose` or a `Reset` has given back, the behaviour ends (`fault`); send, receive, close and select are single steps, as `Waitable` justifies; allocation does not fail |
| `RunQueue` | the rings, `next`, the global queue and the order in which `find_runnable` looks | every access to a variable another CPU may change is a step; clock, tick and random choices are left open; two calls of one CPU do not overlap, for the device interrupt that breaks this see `Idle` |
| `Suspend` | the status word with its suspend bit, `preempt_stop`, and everything that moves a thread between run queue, CPU, waker and death | run queues are a set; `cas_thread_state`, which retries, is an enabling condition |
| `Idle` | `find_runnable` with its timers, stealing, spinning, last recheck, polling and `hlt`; `wake_cpu`, `scheduler_wake_poller`; `irq_wait`, `irq_dispatch`, `scheduler_schedule_thread`; preemption depth | one action per shared access between the marks of the code; run queues are sets, the timers of a CPU a time; `scheduler_ready_thread` has its thread in hand between its CAS and its put, where a device interrupt (which `PRIORITY_NO_PREEMPT` does not mask) may switch it out: it then starts the put on another CPU (`PutReady`) or goes on with the old ring and loses a thread, where the behaviour ends (`PutLate`) |
| `TimerHeap` | the 4-ary heap: sift up, sift down, add, delete | functions, no state |
| `Timer` | `timer_start`, `_stop`, `_modify`, `release_timer`, `clean_timers`, `check_timers` with `adjust_timers`, `run_timer`, `clear_deleted_timers` | the status word and the reference count of each timer, the heap and the two published times of each CPU; a timer is freed with its last reference, in a heap or not, and the step of a CPU that looks at a freed one stops it (`Uses`, `UseFreed`), as a failed assertion does, with its locks |
| `ThreadCache` | free thread descriptors per CPU and global, `create_thread`, `release_thread`, `reclaim_free_threads`, the stack pool | lists with their counts, references, stacks; each caller with the CPU it is on and the CPU whose list it has read, between which it may be moved (`Migrate`), in `get_free_thread` and in `release_thread`; two calls in one list at once, or a transfer of more threads than the list has, set `torn`, where the behaviour ends |
| `WaitCache` | `acquire_waiting_thread`, `release_waiting_thread` | arrays per CPU, the global chain by its links |
| `Tlsf` | `malloc`, `realloc`, `free` over the TLSF allocator | block headers by address, free lists, bitmaps; sizes in words, with fewer size classes |
| `Memory` | `palloc`, `pfree` and the reserve, `vmm_map`, `vmm_alloc`, page tables on demand, the page-fault handler | a stack of activities per CPU, so that a fault interrupts any of them; the buddy tree is a set of frames (external) |
| `ObjectHeap` | `heap_alloc`, `heap_free`, `heap_reclaim`, `heap_iterate_objects`, `heap_iterate_dirty_objects` | regions with their locks, page tables, pages and the colours of objects; whether a page is dirty is a free choice |
| `Interrupts` | `alloc_irq`, stubs, `common_interrupt_handler`, IST stacks, task priority, end of interrupt, IRQ dispatch out of a handler | the frames on the stacks of one CPU; the APIC's in-service and request sets |
| `Boot` | `_start`, `per_cpu_start`, early allocator, `init_vmm`, `init_palloc`, CPU-local areas, TSS, `palloc_reclaim` | the type and the owner of each page, the two counters, where each CPU stands |
| `Drivers` | `Kernel.Main`, PCI scan, `ResourceManager`, set-up of a virtio device, `QueueInfo`, `VirtioBlock.Read` | descriptors by their links, both rings with their indices, of which the rings as the driver sees them are shorter, so that it throws before an index wraps; a function without MSI-X, a vector that could not be allocated and a queue without entries; no callback is registered while the scan adds; the device is external |
| `SelectOrder` | the heap sort by which `waitable_select` orders its locks, and the order of its polls | functions, no state; evaluated in `MCWaitable` |
| `WaitQueue` | `enqueue`, `dequeue` and `dequeue_waiting_thread` of the doubly linked queues of a waitable | functions over the links; evaluated in `MCWaitable` against the sequence they stand for |
| `RandomOrder` | `random_order`, its coprimes and its enumeration of the CPUs | functions, no state; evaluated in `MCIdle` |
| `SemaphoreMutexProofs`, `SyncProofs`, `WaitableProofs`, `RunQueueProofs`, `SuspendProofs`, `IdleProofs`, `MemoryProofs`, `ResourceProofs` | theorems | section 6 |

`MC*` modules give the instances.  `MCStatus`, `MCSync`, `MCMemory` and `MCResources` put
several components that do not interact into one run: the variable `object` or
`part` chooses at the start which of them moves, the others stay in their initial
state, so that the states of the run are the sum and not the product.

How the modules lean on each other.  `Mutex` is composed with the full
`Semaphore`.  `RWMutex`, `WaitGroup` and `Conditional` replace the mutex and the
semaphore under them by their contracts: the mutex by a lock, which `Mutex`
implements, the semaphore by a counter, which `SemaphoreClient` checks and
`SemaphoreMutexProofs` proves.  `Suspend` and `Idle` replace the run queues by sets,
which is the conservation `RunQueueProofs` proves for calls that do not cut each other
in two (`Idle` adds the one that does); `Idle` replaces the timers of a CPU
by the time of the first one, `ObjectHeap` the physical memory by a number of
frames, `WaitHandle` the waitable by its contract.

Each module of the first group states the types of its variables (`TypeOK`,
`MutexTypeOK`).  They are proved where section 6 has a proof, which
builds on them, and are documentation elsewhere; the runs check what relates
several pieces of state.

Definitions marked "Mutant", or placed before a definition as its mistaken form,
are plausible mistakes in the code next to them.  No specification uses them;
each belongs to the property it makes fail, which shows that the property depends
on that line.

## 4. Runs

| run | module | what it shows | instance |
|---|---|---|---|
| `semaphore` | `SemaphoreClient` | conservation, missed wake-ups, assertions, reachability of sleepers, progress | 3 threads, 1 to 2 permits |
| `mutex` | `MCMutex` | implements `Lock`; no more waiters counted than there are, nobody stranded, no deadlock | 3 threads, 1 spin |
| `sync` | `MCSync` | rwmutex: `reader_count` exact; conditional: tickets match counters across the wrap, no signal lost; wait group: waiters accounted for and returning | 3 threads; counters of 8 values starting at 6; 2 workers, 3 waiters, 2 jobs |
| `waitable` | `MCWaitable` | one waker per sleeper, sends received once, exact queues, no lock deadlock | 3 threads, an unbuffered and a buffered waitable, selects over both |
| `runqueue` | `MCRunQueue` | no thread lost or doubled, room for stolen threads, honest `run_queue_empty` | 2 CPUs, rings of 4, counters wrapping, 3 calls from 4 placements |
| `status` | `MCStatus` | threads: the suspend bit is a lock, suspended threads are still and frozen, one keeper; timers: heaps in order, status and heap agree, no timer fires early or after it was stopped; the heap functions on all heaps of up to 7 timers | 2 threads, 2 CPUs, 2 suspenders, 1 waker; 2 CPUs, 2 timers (one periodic), 2 calls of stop and modify, clock to 2 |
| `idle` | `MCIdle` | threads in one place, no work left behind by sleeping CPUs, sleepers visible to `wake_cpu` | 2 CPUs, 2 threads, a device with 1 interrupt, clock to 2; and 3 threads with a clock that stands still |
| `memory` | `MCMemory` | frames in one place, objects keep their pages, handlers nest, boot memory apart, references counted | 2 CPUs; 4 frames, a reserve of 2; 2 regions and 6 frames; 7 pages of any type; 2 callers and 3 waitables |
| `resources` | `MCResources` | threads and stacks held once, clean wait descriptors, TLSF sound, virtqueue and PCI resources | 2 CPUs, 3 thread descriptors and 2 callers, 5 wait descriptors, a pool of 36 words, a queue of 16, 3 reads |
| `rw_exclusion` | `RWMutex` | **violated**: a writer enters while readers read (`rwmutex.c:73`) | 3 threads |
| `suspend_stale` | `Suspend` | **violated**: a reused descriptor keeps `preempt_stop` and its new thread stops for nobody (`thread.c:383`) | 1 suspender |
| `timer_free` | `MCTimer` | **violated**: a sweep releases a timer that stays in the heap (`timer.c:633`) | 2 CPUs, 2 timers, 3 calls |

Why the bounds are enough.  The races of the primitives are between two parties
over a word or a lock; a third thread adds the newcomer that barges in between,
and further ones repeat a role.  `MaxCredit` 2 lets a permit be posted while one
is held.  The conditional's counters start just below their wrap, and `Half` 4
exceeds the tickets in use, as 2^31 does in the code.  In `RunQueue` a ring of 4
has a half worth stealing (2); the placements (a full ring beside an empty one,
two nearly full ones, an empty one with only `next`) are states that earlier
calls produce, and three calls from there suffice to overflow, steal and take
back concurrently; `Width` is larger than the counters move in a run, so that
no CAS succeeds by a coincidence that 2^32 rules out in practice.  `Suspend` is
unbounded: descriptors are reused and suspenders return for ever.

In `Timer` two timers and two calls let one CPU modify a timer while another
has just read its status, in a heap whose order the change breaks (the three
properties also hold with three calls, which takes longer than a run of this
project should); shapes of larger heaps are left to the functions, for which seven places give a node
with four children and one with two.  `Idle` needs a sleeper and someone who makes work;
`QueueLen` 1 lets the ring overflow into the global queue.  A put that is cut in
two takes three threads, the one that puts, the one it puts and the driver, for
which the run has a second instance with a clock that stands still.  `Memory` has fewer
frames than the operations can ask for, so that each path of exhaustion is
taken, and a reserve of two, for a fault in a fault.  `Boot` enumerates every
memory map of seven pages.  A cache of 4 (`WtHalf` 2) beside 5 wait descriptors
moves a half between the lists; `Tlsf` with 36 words of pool and requests of 1, 5
and 8 words reaches small and large classes, splits, alignment gaps, merges on
both sides and exhaustion, all below `block_size_max` (a realloc of that size or more
is in section 7); `Drivers` reads up to three times from a queue of 16, of which
the third finds the used ring at its end.  `ThreadCache` with lists of at most one
(`Half` 1), three descriptors and two callers has a caller that pushes into, takes
from or refills the list of a CPU it has left, beside another that comes and goes;
`MaxDrift` bounds by how much a count may be off when somebody moves (the property
also holds with `Half` 2, four descriptors and no drift).  `WaitHandle` with two callers and three waitables has a Reset beside a wait with
a timeout or a Dispose, the old and the new waitable and the timeout's.

Deadlock is not checked where the client may legitimately stop: acquiring more
permits than exist, waiting for a signal nobody sends, sending without a
receiver, an rwmutex that strands its readers (section 7), calls used up,
a CPU that a failed assertion has stopped.

## 5. Fairness

Two liveness properties are checked, `PermitReachesSomeone` and `WaitersReturn`,
under weak fairness of each thread's steps *inside* a call (`FairClientSpec`
of `SemaphoreClient`, `FairSpec` of `WaitGroup`).  A thread inside a call is either running, in
which case its CPU executes it and preemption brings it back through the run
queue, or spinning on a spinlock whose holder is running with preemption off.
A sleeping thread is not scheduled: its step is disabled until somebody readies
it.  Nothing is assumed of clients between calls, nor of who wins a spinlock or
a CAS.

`NoLostWork` of `Idle` is the safety form of progress there: when every CPU sleeps
and no wake-up is pending, no thread is queued.

## 6. What is proved

Everything below holds for every value of the constants that satisfies the named
`ASSUME`s of the modules: finite sets of threads, CPUs, frames or callers with a
null value outside them; for the rwmutex fewer threads than
`RWMUTEX_MAX_READERS`, for the notify list fewer than half the range of a counter
(2^31 in the code) and no thread that stands between drawing a ticket and checking
it through as many notifications (`MayAdvance`, a bound of the model that the code
does not test), without which neither is correct; for the run queues a number of
calls in which no counter comes round (below).  Each theorem rests on an
inductive invariant, with one lemma per action; the invariants were model-checked
before they were proved.

**Semaphore** (`SemaphoreMutexProofs`): the types and the four safety
properties of the run `semaphore`.  None is inductive alone.  The common
strengthening is `Shape`: the types; who holds the lock is where the lock is held
(`LockInv`); `nwait` is the length of the queue, plus one while the lock holder
has announced itself (`NwaitInv`); the queue has no duplicates and holds exactly
threads that sleep or are about to (`QueueInv`); a descriptor in a releaser's hand
is out of the queue, held by one releaser, with its ticket unset until the grant
(`WtInv`); status and program counter agree (`StatusInv`).  On top of it the
missed-wake-up and conservation theorems follow the cardinality of two sets
(`InFlight`, `Owners`) through each action.  The lemmas about `Shape` do not know the
client of the semaphore, so that the proof about the mutex uses them too.

**Mutex** (`SemaphoreMutexProofs`): `Mutex`, over the full semaphore, implements `Lock`;
the waiter count never exceeds the waiters; nobody sleeps on a mutex that no
thread is going to unlock.  The argument is about a *baton*: the permit of the
semaphore, the sleeper it was granted to, the woken thread that competes, or the
spinner that has set WOKEN.  There is at most one (`BatonInv`); WOKEN is set
exactly while it is under way in normal mode (`WokenInv`); in starvation mode the
mutex is locked or handed to it (`StarvingInv`); the word's count is the number of
waiters less the one the baton is meant for (`CountInv`); and a free mutex with
waiters and no baton has an unlocker that is about to make one (`WakingInv`).
`WordArithmetic` shows that adding a constant of `mutex.c` to the word touches one
field.

**Wait group, rwmutex, conditional** (`SyncProofs`): each registered waiter of a
wait group is counted once, because the thread that brought the counter to 0 is
alone in the slow path and the word stands still under it (`SlowInv`).
`reader_count` is the number of readers less `RWMUTEX_MAX_READERS` while a writer
that owns the mutex is announced (`RWInv`) - the count is right although what
`rwmutex.c` does with it is not (section 7).  The tickets between the two counters
of a notify list are those of its un-notified threads, each drawn once, across the
wrap (`CVTickets`); no signal is lost because, while somebody waits un-notified,
there is for every item a consumer that will look or a producer that will notify
(`CVSignal`).

**Waitables** (`WaitableProofs`): the types and four of the five invariants of the run
`waitable`, for any threads, waitables and sets of selects.  `OpInv` says what kind
of call (a single case, a select, a close) a thread is in at each program counter, and
that it is parked exactly while its status is not running.  `LockInv` says which locks
a select and a close hold: the waitables that a parked select has yet to unlock, and
all those of a select in its first pass or of a close at work.  `TodoInv` is about the
threads that a waker or a close has taken and has yet to ready: each is owed by one
thread only, is WAITING, has its `select_done` set if it is in a select, and the
descriptor through which it was taken has left its queue.  `QueueInv` says who stands
in the queues, each once: the sleepers, in those of all their cases, and the selects
that have been won and have not cleaned up, in some of theirs.  That a thread is
readied once, while WAITING, follows from the two: whoever takes a thread finds it in
a queue as a sleeper, or sees `select_done` and passes over it.  `SleepInv` is
`NobodySleepsInVain` without its restriction to unlocked waitables, except that a
close at work may have sleepers left on its closed waitable.  `CreditInv` follows the
difference of sends and receives through the partners that have been completed by
their waker and have not returned.

**Run queues** (`RunQueueProofs`): the three invariants of the run `runqueue`, for any
CPUs, threads, even ring length and starting value of the counters.  Two assumptions
of `RunQueueAssumption` matter.  `Reach(MaxOps) < Width`: the calls of a behaviour do
not bring a counter round to its own value; with 2^32 and 256 that is about 2^24
calls.  Without it the theorems are false: a CAS on `head` succeeds by coincidence when
a thief sleeps through `Width` operations.  And a placement, from which a behaviour
starts, names no thread twice.  The argument has two storeys.

*The counters* (`CountersInv`).  `U` measures a counter from `Start`, so that the
wrap disappears: `H(c)` and `T(c)` are ordinary numbers with H <= T <= H +
`RUN_QUEUE_LEN` (`RingInv`) that only grow.  What a CPU remembers of another's head is
a lower bound of it, and what it means to take is below the tail; hence a CAS that
succeeds has compared with the head of this very moment (`ThiefInv`, `GetInv`,
`AskInv`).  A CPU that steals has an empty ring, because only the owner of a ring fills
it (`EmptyPcs`), and a batch from the global queue fits (`PutInv`).  `ReachInv`
bounds each tail by the calls made and the entries still to come, so
that the measure itself never wraps.  `StolenThreadsFit` and `EmptyAnswersAreTrue`
follow from this storey alone.

*The threads* (`PlacesInv`).  `HandInv` says which hands of a CPU (`current`,
`thread`, `found`, a batch) are full at which program counter.  `CopyInv` says that
what a CPU has written beyond its own tail, or copied out of a victim's ring, is what
that ring holds, as long as the victim's head is still what was read; when it is not,
the CAS fails and the copy is forgotten.  `FilledAt` says that no published entry is
empty and none is there twice, `OneHolder` that every thread has exactly one of the
kinds of holder (`HeldBy`).  Each action hands threads from one holder to another
(`Handed`, `GivesTo`); `PlacesHeld` and `HolderPlace` then turn one holder into the
one place that `NoThreadLostOrDuplicated` counts.

**Suspend** (`SuspendProofs`): the suspend bit is held by exactly one suspender, no
CPU executes a suspended thread, no step changes a suspended status, and every
thread is in one place (`OneKeeper`).  The first three need that a thread on a CPU
is RUNNING and on one CPU only, and that a suspender goes for the bit of a thread
it has seen at rest; the last needs which status a thread has in which place
(`PlaceInv`) and that no two places have the same thread (`KeptInv`).

**Idle loop** (`IdleProofs`): the three invariants of the run `idle`, for any number
of CPUs with a CPU 0 (`IdleAssumption`).  `SleepInv` follows the idle mask and the
spinning CPUs through `find_runnable`; a dispatch out of `hlt` leaves the CPU in
the mask, so that the count can only be ahead of it.  `WorkInv` is why no work is
left behind: a CPU past its last look at its own queue never has a thread there,
because nobody else fills it, and while the global queue has a thread some CPU is
outside the stretch from `cpu_put_idle` to `cpu_wake_idle`, because who fills it is
awake and the last one to enter has seen it empty under the lock.  The theorem
needs no wake-up interrupt: those matter for how soon a thread runs, which is
liveness.  `HandInv` says which CPUs have a current or a picked thread and that the
waiter of an open interrupt is parked; `AwayInv` that a thread holds another exactly
while it is in a put, that no two hold the same, and that what is held is neither
parked nor lost; `Placed` says that no two places have the same thread, from which
the sum in `ThreadsInOnePlace` follows.  "Lost by a put that was cut in two" is one of
the places: the theorem says that nothing else loses a thread, and that even this
doubles none; that it happens is in section 7.

**Boot, interrupts, wait handles** (`MemoryProofs`).  `BootInv` separates the two
uses of `m_startup_count` by where the BSP is, and says that what the early
allocator has handed out is no longer in the memory map from which the buddy is
built.  `InterruptInv` says that there are at most two handlers, that the outer one
of two is in `find_runnable`, and what the APIC has in service is what the
handlers serve, or the time slice left behind by a dispatch out of the idle loop.
`HandleInv` says what each caller knows at each point (`Good`, `Fits`: what it has read
was made, and may be freed), that what the field still shows between the release and
the clearing of a `Dispose` (`stale`) has no reference of the handle any more, and that
a waitable's count is the cardinality of the set of its referents.  The theorem ends
where a caller without a reference touches what was freed (`fault`), which the code
does not prevent (section 7).

**Physical memory** (`MemoryProofs`): `FramesInOnePlace`.  `FrameInv` says who may
stand on whom in the stack of activities of a CPU (a `palloc` on the vmm that
called it, the vmm of a fault on the `palloc` or `pfree` whose stack grew), which
frames each of them may carry and whether the direct map reaches them, that one
activity in the system is behind the lock of the vmm, so that the page table is
allocated once, and that `m_lock_cpu` names a CPU inside `palloc` or `pfree`, so
that a reserved page is always returned to a vmm.  The lock of `palloc` itself is
not needed: the steps on the buddy and the reserve are atomic in the model.

**Object heap** (`MemoryProofs`): `ObjectsKeepTheirPages`.  A CPU that stands
at a slot has the lock of that area (`HeapCpus`); the pages of a slot are present
together, below the page table of their region, and a live object has all of its pages
(`HeapStores`); what the holder of a lock has found stays so: the slots a reclaim that
will free the page table has passed are empty, and the slot an iteration is inside the
callback of is there (`HeapKnown`); the free frames, the mapped pages and the page
tables add up to `HeapFrames` (`HeapCount`).  It holds as long as no
allocation of several pages has run out of them half way (`torn`): `heap.c:225` then
leaves entries for pages it has given back, and nothing is claimed from there on.

**Thread descriptors and stacks** (`ResourceProofs`): `ThreadsHeldOnce`.  `ListInv`: no
descriptor is in two lists, or in one twice; `CountInv`: the count of the global list
is exact, while those of the CPUs are any numbers, as a caller that was moved counts
at one CPU what it takes from the list of another; `CallInv`: which calls have a
descriptor, and no two the same; `DescriptorInv`: the references of a descriptor are those of the scheduler
and of its creator, and one that is dead without any is in a list or with a call, and
not in both; `StackInv`: a stack below `m_next_stack` is unused, or of one descriptor,
or lost, so that neither `alloc_stack` nor `reclaim_free_threads` gives it to a
second.  It ends at `torn`: two calls in one list at once, which neither a lock nor
disabled preemption prevents (section 7), or a count of one CPU by which more is taken
from the list of another than it has.

**Wait descriptors** (`ResourceProofs`): `WaitersGetCleanDescriptors`.  There is a
sequence without repetitions that the links follow from `m_global_wt_cache` to NULL,
apart from everything held or in an array (`WaitInv`); what is held, in an array or
not yet allocated has no link.  The walk along the links (`FirstOf`) is a recursive
function: the prefixes of that sequence satisfy its equation, and a smallest index at
which the two differed would contradict it (`FirstOfIs`).  The descriptors a transfer
loses (section 7) are in none of these places, which is why they do no further harm.

**Drivers** (`ResourceProofs`): `DriversSound`.  `BusInv`: while the scan runs, the list
of resources has exactly the functions found that come before the one it stands at;
while the driver is offered them, a function found has been offered or stands behind
the place of the loop, never both, and what stands before that place is what was
offered and left (the list shrinks under the loop when a device is taken).
`QueueInv`: the free list is a chain without repetitions that ends; there is at most
one request, and it is written, notified, at the device or returned, each with what
the four ring indices and the interrupt then are; its three descriptors are not on the
free list.  The walk along the free list is treated like that of the wait descriptors.

Only model-checked, and why:

* `PermitReachesSomeone` and `WaitersReturn`: liveness under fairness;
  `NoLockDeadlock` of `Waitable` is about ENABLED.
* `HeapsInOrder` and the evaluated facts about `TimerHeap`, `SelectOrder`,
  `WaitQueue`, `RandomOrder`, `AllocIrq`; `HeapSound`: what a recursive definition or
  a loop over a data structure computes for every input is an induction over data.
* `StatusMatchesHeaps` and `FiresWhenDue` of `Timer`: no proof yet; that a sift
  neither loses nor doubles a timer is again about a loop over the heap.

## 7. Where code and comments disagree

With a run: `rw_exclusion`, `suspend_stale`, `timer_free` above.  In the last,
`clear_deleted_timers` (`timer.c:632-635`) moves the timers that stay to the front of
the array and releases what lies behind them, which are copies of those that stay as
often as deleted ones: a deleted timer that was overwritten keeps its reference for
ever, and one that stays in the heap loses its own and is freed there with the
client's.

Refuted by a model, stated in its module beside the checked properties, without a
run of its own:

* `StolenTimersRun` (`Timer`): `timer.c` says that "the scheduler can also do it
  from a different CPU"; the thief fails the assertions on the CPU at
  `timer.c:200`.
* `NeverMissesThePoller` (`Idle`): `scheduler.c:851-854` says the wake-up is never
  missed; `find_runnable` writes `m_poll_until` and `m_polling_cpu` one after the
  other, and a timer added in between wakes nobody.
* `PutsAreWhole` (`Idle`): `run_queue_put` is to put the thread on a queue; a device
  interrupt, which `PRIORITY_NO_PREEMPT` does not mask, switches a thread out of the
  put of `scheduler_ready_thread` (`scheduler.c:513`, `irq.c:83`), and it goes on with
  the ring and the tail of a CPU it has left.  Refuted with the three threads of
  the second instance of the run `idle`.
* `ListsAreOfOneCpu` (`ThreadCache`): `thread.h:264` says of `release_thread` "Must be
  called from a context with no preemption", but `waitable.c:651` and `:679` call it
  with preemption on, and `get_free_thread` reads its list before it disables it: two
  calls meet in the list of one CPU.
* `FaultsMapAbsentPages` (`Memory`): `vmm.c:409` expects a fault on a page that is
  not present; two CPUs that fault on one heap page both map it, and the second
  replaces the frame of the first with what was written to it.
  `PallocFaultsAreServed`: a fault inside `palloc` is to be served from the reserve,
  but first waits for the lock of the vmm, whose holder may wait for this `palloc`.
* `TimeSlicesEnd` (`Interrupts`): a thread dispatched out of `hlt` leaves the
  interrupted vector in service, and preemption interrupts of its class wait.
* `ReclaimAfterStacks` (`Boot`): `kernel.c:351-352` counts CPUs that have left the
  bootloader's stack, but each CPU raises the counter while still on it.
* `TransferKeepsAll` (`WaitCache`): `thread.c:131` makes the last of a chain the
  head of the global cache, the others are lost.
* `ReallocKeepsTheBuffer` (`Tlsf`): `tlsf.c:1203` says a request that cannot be
  satisfied leaves the buffer untouched; one of the maximal size or more is
  adjusted to 0 and shrinks it.
* `WaitersHoldReferences` (`WaitHandle`): `EventWaitHandle.cs:76-77` says whoever
  waits holds a reference; `WaitOne()` takes none, a wait with a timeout takes its
  own after reading the field, and `after()` (`waitable.c:591`) after starting the
  timer; `Dispose` (`WaitHandle.cs:39-45`) tests, releases and clears in three steps, so
  that a second one, or a `Reset` in between, releases twice.

Noticed on the way:

* `mutex.c:54`: `wait_start_time` is read uninitialised at `:116`, so that a
  first-time waiter may queue at the front.
* `rwmutex.c:80`: the number of readers to release is computed from the value
  before the addition, which is negative, so readers blocked behind a writer
  sleep on; `rwmutex.c:51` compares the value before the subtraction too.
* `mutex.c:204-208` says newcomers do not acquire a starving mutex; one that has
  counted itself a waiter can take the permit of the hand-off on the easy path of
  the semaphore before the head of the queue is woken.
* `wait_group.c:89` asserts a string literal, which never fails.
* `scheduler.c:1050` "Check all runqueues once again." tests the idle CPUs only.
* `scheduler.c:208-210` truncates the idle mask to an int and drops the word index, so
  that the wrong CPU or none is woken from CPU 32 on; `Woken` of `Idle` does the same.
* `scheduler.c:998` subtracts unsigned numbers: with more idle CPUs counted than there
  are (a dispatch out of `hlt` does not count down) every CPU may spin.
* `timer.c:319` asserts that a CAS fails; `timer.c:829` and `:851` disable
  preemption where they should enable it; `timer.c:934` compares with `<=` where
  "a lot of deleted timers" is meant.
* `irq.c:78-83` schedules the waiting thread even when there is none; `irq.c:20`
  has one entry less than there are vectors; `internal_calls.c:132` ignores the
  error of `alloc_irq`.
* `heap.c:225` leaves page-table entries of pages it has given back; no TLB
  shoot-down follows a reclaim.  `heap.c:583` clears the dirty bit in the table of the
  4 KB pages for an object pool of 2 MB pages, at an index of another page.
  `heap.c:81` allocates `26 * (512 / CPUs)` locks and `heap.c:186` indexes them with
  `26 * pool + region`, which leaves the array from 20 CPUs on and makes pools share
  locks from 26 on; `ObjectHeap` has a lock per region.
* `thread.c:369` leaves the stack of a thread whose set-up fails.
* `VirtioDevice.cs:152-154` frees only the last descriptor of a chain;
  `:191` and `:209` compute the lengths of the rings with divisions that do not fit the
  element sizes; `ResourceManager.Add` has its lock commented out.
* `WaitHandle.cs:76` makes `WaitOne()` return false on a manual-reset event that is
  set, as the waitable is then closed.

## 8. Not modelled

* Third-party and textbook code: `stb_ds`, printf, libc, ELF headers, qsort.  The
  buddy tree and the .NET runtime are submodules whose source is not in this
  repository; the first is external in `Memory` and `Boot`, the second is left out.
* TLBs, `vmm_set_perms`, `vmm_unmap`, 2 MB mappings, and the encoding of page tables, descriptors and
  registers; ACPI tables and TSC calibration, one-time walks over hardware
  without a state of their own.
* The arena, a bump allocator.
* Tasks of the class library: no method starts a task, `SetContinuationForAwait` is
  empty and an exception set on a task never completes it, so that the
  states a model would explore cannot be entered.  `Task.cs:210` exchanges the
  continuation by a read and a write, which would matter once they can.
* `Monitor`, most of `Thread` and the sequential data types of the class library.
* Of modelled components: the wording of warnings, statistics, and the
  `hammer_*` self tests other than as clients; failing allocations in `WaitHandle`.
