-------------------------------- MODULE Idle --------------------------------
(***************************************************************************)
(* How CPUs go to sleep and are woken: find_runnable of                    *)
(* kernel/thread/scheduler.c with the idle mask, the spinning CPUs and the *)
(* poller, the wake-up IPI, the preemption depth, and the device interrupt *)
(* of kernel/irq/irq.c, which switches to the thread that waits for it     *)
(* wherever the CPU is: in a thread or in the hlt of the idle loop.        *)
(*                                                                         *)
(* A run queue is a set (RunQueue has its rings) and a CPU's timers are    *)
(* the time of the first one (see Timer).  A failed assertion stops the    *)
(* CPU: a behaviour ends there.  It also ends where a thread goes on with  *)
(* a run_queue_put that an interrupt has cut in two: see PutLate.          *)
(***************************************************************************)
EXTENDS Integers, FiniteSets, FiniteSetsExt

CONSTANTS Cpus,         \* get_cpu_id() of each CPU, numbers
          Threads, None,
          QueueLen,     \* threads a local queue holds
          MaxNow,       \* bound on the clock
          MaxIrqs       \* bound on the interrupts of the device

\* There is a CPU 0, the one device interrupts go to, and finitely many others.
ASSUME IdleAssumption ==
    /\ Cpus \subseteq Nat /\ 0 \in Cpus /\ IsFiniteSet(Cpus)
    /\ None \notin Threads

VARIABLES
    pc, loc,            \* where each CPU is, and the locals of find_runnable
    cur,                \* m_current_thread
    run, glob,          \* the local run queues and the global one
    blocked,            \* the threads that are parked
    at,                 \* where each thread is, the time of its timer, the thread it readies
    lost,               \* threads that are in no queue any more
    idle, idleCount,    \* m_idle_cpus, m_idle_cpus_count
    spinning, nspin,    \* m_spinning, m_number_spinning
    lastPoll, pollUntil, pollingCpu,
    timers, when,       \* m_timer_cpus; nobarrier_wake_time
    now,                \* microtime()
    ipi,                \* CPUs with an IRQ_WAKEUP pending
    depth, cr8,         \* m_preempt_disable_depth and the task priority
    waiter, masked,     \* waiting_thread of the device, and its mask
    irqs                \* interrupts the device still raises

sched == <<idle, idleCount, spinning, nspin>>
poll == <<lastPoll, pollUntil, pollingCpu>>
time == <<timers, when, now>>
prio == <<depth, cr8>>
dev == <<waiter, masked, irqs>>
where == <<cur, run, glob, blocked, at, lost>>
vars == <<pc, loc, sched, poll, time, ipi, prio, dev, where>>

NORMAL == 1
NO_PREEMPT == 2
IrqCpu == 0             \* the destination of every MSI-X message
User == [step |-> "user", when |-> 0, hand |-> None]

\* The priority classes of IRQ_PREEMPT, IRQ_WAKEUP and the device's vector.  A
\* CPU takes an interrupt whose class is above its task priority (the EOI that
\* follows a switch is left out).
Class == [preempt |-> 2, wakeup |-> 3, device |-> 4]
Takes(c, v) == Class[v] > cr8[c]
NoLoc == [poll |-> 0, was |-> FALSE, left |-> {}, t |-> None]

\* scheduler_startup on every CPU: dropping the boot thread leads to
\* find_runnable, with the first threads in the global queue.
Init ==
    /\ pc = [c \in Cpus |-> "find"] /\ loc = [c \in Cpus |-> NoLoc]
    /\ cur = [c \in Cpus |-> None] /\ run = [c \in Cpus |-> {}] /\ glob = Threads
    /\ blocked = {} /\ at = [t \in Threads |-> User] /\ lost = {}
    /\ idle = {} /\ idleCount = 0 /\ spinning = {} /\ nspin = 0
    /\ lastPoll = 1 /\ pollUntil = 0 /\ pollingCpu = None
    /\ timers = {} /\ when = [c \in Cpus |-> 0] /\ now = 1
    /\ ipi = {} /\ depth = [c \in Cpus |-> 0] /\ cr8 = [c \in Cpus |-> NO_PREEMPT]
    /\ waiter = None /\ masked = TRUE /\ irqs = MaxIrqs

Goto(c, l) == pc' = [pc EXCEPT ![c] = l]
Set(c, f, x) == loc' = [loc EXCEPT ![c][f] = x]

----------------------------------------------------------------------------
(* find_runnable                                                           *)

\* run_queue_put: an overflow moves half of the queue to the global one.
Put(c, t) ==
    \/ /\ Cardinality(run[c]) < QueueLen
       /\ run' = [run EXCEPT ![c] = @ \cup {t}] /\ UNCHANGED glob
    \/ /\ Cardinality(run[c]) >= QueueLen
       /\ \E out \in kSubset(Cardinality(run[c]) \div 2 + 1, run[c] \cup {t}) :
            /\ run' = [run EXCEPT ![c] = (@ \cup {t}) \ out]
            /\ glob' = glob \cup out

\* scheduler_ready_thread between its preempt_disable and its preempt_enable.
Disabled(c) == [cr8 EXCEPT ![c] = IF depth[c] = 0 THEN NO_PREEMPT ELSE @]
Enabled(c) == [cr8 EXCEPT ![c] = IF depth[c] = 1 THEN NORMAL ELSE @]

\* The locals of a round.  check_timers of the own CPU: the first due timer
\* wakes a thread, whose preempt_enable leaves the scheduler at PRIORITY_NORMAL.
CheckTimers(c) ==
    LET due == when[c] # 0 /\ when[c] <= now
        wakes == due /\ blocked \ {waiter} # {}
    IN  /\ pc[c] = "find"
        /\ when' = [when EXCEPT ![c] = IF due THEN 0 ELSE @]
        /\ loc' = [loc EXCEPT ![c] = [NoLoc EXCEPT !.poll = when'[c]]]
        /\ Goto(c, IF wakes THEN "wake" ELSE "work")
        /\ \/ ~wakes /\ UNCHANGED <<run, glob, blocked, cr8>>
           \/ /\ wakes
              /\ \E t \in blocked \ {waiter} : Put(c, t) /\ blocked' = blocked \ {t}
              /\ cr8' = [cr8 EXCEPT ![c] = IF depth[c] = 0 THEN NORMAL ELSE @]
        /\ UNCHANGED <<sched, poll, timers, now, ipi, depth, dev, cur, at, lost>>

\* wake_cpu: the CPU that gets the interrupt.  A word of the idle mask has 64
\* bits and is read into an int of 32; the last word with a bit wins, and its
\* index is not added to the number of the bit.
Woken ==
    LET seen == {d \in idle : d % 64 < 32}
        word == Max({d \div 64 : d \in seen})
    IN  IF idleCount = 0 \/ seen = {} THEN {} ELSE {Min({d % 64 : d \in {e \in seen : e \div 64 = word}})}

WakeCpu(c) ==
    /\ pc[c] = "wake"
    /\ ipi' = ipi \cup Woken
    /\ Goto(c, "work")
    /\ UNCHANGED <<loc, sched, poll, time, prio, dev, where>>

\* global_run_queue_get(max): the share of a CPU, its rest into the local queue.
GlobalGet(c, max) ==
    LET share == Min({Cardinality(glob) \div Cardinality(Cpus) + 1, Cardinality(glob), max})
    IN  \E take \in kSubset(share, glob) : \E t \in take :
            /\ glob' = glob \ take /\ run' = [run EXCEPT ![c] = @ \cup (take \ {t})]
            /\ Set(c, "t", t) /\ Goto(c, "found")

\* The global queue once in a while, the local one, the global one.
FindWork(c) ==
    /\ pc[c] = "work"
    /\ \/ glob # {} /\ GlobalGet(c, 1)
       \/ \E t \in run[c] : /\ run' = [run EXCEPT ![c] = @ \ {t}] /\ UNCHANGED glob
                            /\ Set(c, "t", t) /\ Goto(c, "found")
       \/ run[c] = {} /\ glob # {} /\ GlobalGet(c, Cardinality(glob))
    /\ UNCHANGED <<sched, poll, time, ipi, prio, dev, cur, blocked, at, lost>>

\* A CPU without work spins, unless half of the busy CPUs do; the difference
\* is unsigned, and the count of the idle CPUs may be ahead of them.
MaySpin(c) ==
    \/ c \in spinning
    \/ idleCount > Cardinality(Cpus)
    \/ 2 * nspin < Cardinality(Cpus) - idleCount

\* MUTANT: the local queue is not looked at again.
StartSpinBlind(c) ==
    LET spins == MaySpin(c)
    IN  /\ pc[c] = "work" /\ glob = {}
        /\ spinning' = IF spins THEN spinning \cup {c} ELSE spinning
        /\ nspin' = IF spins /\ c \notin spinning THEN nspin + 1 ELSE nspin
        /\ Set(c, "left", IF spins THEN Cpus \ {c} ELSE {})
        /\ Goto(c, IF spins THEN "steal" ELSE "idle")
        /\ UNCHANGED <<idle, idleCount, poll, time, ipi, prio, dev, where>>

StartSpin(c) ==
    LET spins == MaySpin(c)
    IN  /\ pc[c] = "work" /\ run[c] = {} /\ glob = {}
        /\ spinning' = IF spins THEN spinning \cup {c} ELSE spinning
        /\ nspin' = IF spins /\ c \notin spinning THEN nspin + 1 ELSE nspin
        /\ Set(c, "left", IF spins THEN Cpus \ {c} ELSE {})
        /\ Goto(c, IF spins THEN "steal" ELSE "idle")
        /\ UNCHANGED <<idle, idleCount, poll, time, ipi, prio, dev, where>>

\* steal_work looks at one CPU, in any order.  The timers it would run are of
\* another CPU: see Timer!StolenTimersRun.
StealFrom(c, v) ==
    /\ pc[c] = "steal" /\ v \in loc[c].left
    /\ LET due == v \in timers /\ when[v] # 0 /\ when[v] <= now
           later == v \in timers /\ when[v] > now /\ (loc[c].poll = 0 \/ when[v] < loc[c].poll)
           next == [loc[c] EXCEPT !.left = @ \ {v}, !.poll = IF later THEN when[v] ELSE @]
       IN  \/ due /\ Goto(c, "halt") /\ UNCHANGED <<loc, run>>
           \/ /\ ~due /\ v \notin idle
              /\ \E t \in run[v] : \E more \in SUBSET (run[v] \ {t}) :
                    /\ Cardinality(more) + 1 = Cardinality(run[v]) - Cardinality(run[v]) \div 2
                    /\ run' = [run EXCEPT ![v] = @ \ (more \cup {t}), ![c] = @ \cup more]
                    /\ Set(c, "t", t)
              /\ Goto(c, "found")
           \/ /\ ~due /\ (v \in idle \/ run[v] = {})
              /\ loc' = [loc EXCEPT ![c] = next]
              /\ Goto(c, IF next.left = {} THEN "idle" ELSE "steal") /\ UNCHANGED run
    /\ UNCHANGED <<sched, poll, time, ipi, prio, dev, cur, glob, blocked, at, lost>>

\* Under the scheduler lock: the global queue one last time, or cpu_put_idle
\* with update_cpu_timers_mask.
PutIdle(c) ==
    /\ pc[c] = "idle"
    /\ \/ glob # {} /\ GlobalGet(c, Cardinality(glob)) /\ UNCHANGED <<timers, idle, idleCount>>
       \/ /\ glob = {}
          /\ timers' = IF when[c] = 0 THEN timers \ {c} ELSE timers
          /\ idle' = idle \cup {c} /\ idleCount' = idleCount + 1
          /\ Set(c, "was", c \in spinning)
          /\ Goto(c, IF c \in spinning THEN "recheck" ELSE "poll")
          /\ UNCHANGED <<glob, run>>
    /\ UNCHANGED <<spinning, nspin, poll, when, now, ipi, prio, dev, cur, blocked, at, lost>>

\* cpu_wake_idle
WakeIdle(c) == idle' = idle \ {c} /\ idleCount' = idleCount - 1 /\ timers' = timers \cup {c}

\* MUTANT: the CPU spins again without adding itself to m_number_spinning.
RecheckUncounted(c) ==
    LET times == ({when[v] : v \in timers} \cup {loc[c].poll}) \ {0}
    IN  /\ pc[c] = "recheck"
        /\ \/ /\ \E v \in idle : run[v] # {}
              /\ WakeIdle(c) /\ nspin' = nspin - 1 /\ UNCHANGED spinning
              /\ loc' = [loc EXCEPT ![c] = NoLoc] /\ Goto(c, "find")
           \/ /\ \A v \in idle : run[v] = {}
              /\ spinning' = spinning \ {c} /\ nspin' = nspin - 1
              /\ Set(c, "poll", IF times = {} THEN 0 ELSE Min(times))
              /\ Goto(c, "poll") /\ UNCHANGED <<idle, idleCount, timers>>
        /\ UNCHANGED <<poll, when, now, ipi, prio, dev, where>>

\* No longer spinning: all run queues once again, but only those of idle CPUs;
\* then the timers.
Recheck(c) ==
    LET times == ({when[v] : v \in timers} \cup {loc[c].poll}) \ {0}
    IN  /\ pc[c] = "recheck"
        /\ \/ /\ \E v \in idle : run[v] # {}
              /\ WakeIdle(c) /\ UNCHANGED <<spinning, nspin>>
              /\ loc' = [loc EXCEPT ![c] = NoLoc] /\ Goto(c, "find")
           \/ /\ \A v \in idle : run[v] = {}
              /\ spinning' = spinning \ {c} /\ nspin' = nspin - 1
              /\ Set(c, "poll", IF times = {} THEN 0 ELSE Min(times))
              /\ Goto(c, "poll") /\ UNCHANGED <<idle, idleCount, timers>>
        /\ UNCHANGED <<poll, when, now, ipi, prio, dev, where>>

\* The CPU that clears m_last_poll is the poller.  Another one interrupts a
\* poller that sleeps too long, and halts.
TakePoll(c) ==
    /\ pc[c] = "poll"
    /\ \/ /\ loc[c].poll # 0 /\ lastPoll # 0
          /\ lastPoll' = 0 /\ Goto(c, "until") /\ UNCHANGED ipi
       \/ /\ loc[c].poll # 0 /\ lastPoll = 0
          /\ ipi' = IF pollUntil = 0 \/ pollUntil > loc[c].poll THEN ipi \cup ({pollingCpu} \ {None}) ELSE ipi
          /\ Goto(c, "hlt") /\ UNCHANGED lastPoll
       \/ loc[c].poll = 0 /\ Goto(c, "hlt") /\ UNCHANGED <<lastPoll, ipi>>
    /\ loc' = [loc EXCEPT ![c] = IF pc'[c] = "hlt" THEN NoLoc ELSE @]
    /\ UNCHANGED <<sched, pollUntil, pollingCpu, time, prio, dev, where>>

PollUntil(c) ==
    /\ pc[c] = "until"
    /\ pollUntil' = loc[c].poll
    /\ Goto(c, IF loc[c].poll > now THEN "pollcpu" ELSE "polled")
    /\ UNCHANGED <<loc, sched, lastPoll, pollingCpu, time, ipi, prio, dev, where>>

PollCpu(c) ==
    /\ pc[c] = "pollcpu"
    /\ pollingCpu' = c
    /\ Goto(c, "pollhlt")
    /\ UNCHANGED <<loc, sched, lastPoll, pollUntil, time, ipi, prio, dev, where>>

\* The wake-up interrupt ends either hlt, and does nothing to a thread.
Wakeup(c) ==
    /\ pc[c] \in {"hlt", "pollhlt", "thread"} /\ c \in ipi /\ Takes(c, "wakeup")
    /\ ipi' = ipi \ {c}
    /\ pollingCpu' = IF pc[c] = "pollhlt" THEN None ELSE pollingCpu
    /\ Goto(c, CASE pc[c] = "hlt" -> "woken" [] pc[c] = "pollhlt" -> "polled" [] OTHER -> "thread")
    /\ UNCHANGED <<loc, sched, lastPoll, pollUntil, time, prio, dev, where>>

PollEnd(c) ==
    /\ pc[c] = "polled"
    /\ pollUntil' = 0 /\ lastPoll' = 1
    /\ Goto(c, "again")
    /\ UNCHANGED <<loc, sched, pollingCpu, time, ipi, prio, dev, where>>

\* cpu_wake_idle under the lock; a poller that was spinning spins again.
Woke(c) ==
    LET spins == pc[c] = "again" /\ loc[c].was
    IN  /\ pc[c] \in {"woken", "again"}
        /\ WakeIdle(c)
        /\ spinning' = IF spins THEN spinning \cup {c} ELSE spinning
        /\ nspin' = IF spins THEN nspin + 1 ELSE nspin
        /\ loc' = [loc EXCEPT ![c] = NoLoc] /\ Goto(c, "find")
        /\ UNCHANGED <<poll, when, now, ipi, prio, dev, where>>

\* The time slice ends inside find_runnable: save_current_thread asserts that
\* there is a thread.
PreemptIdle(c) ==
    /\ pc[c] \in {"hlt", "pollhlt"} /\ Takes(c, "preempt")
    /\ Goto(c, "halt")
    /\ UNCHANGED <<loc, sched, poll, time, ipi, prio, dev, where>>

\* schedule: a spinning CPU that found work wakes another one.  execute,
\* exit_scheduler.
Schedule(c) ==
    /\ pc[c] = "found"
    /\ spinning' = spinning \ {c}
    /\ nspin' = IF c \in spinning THEN nspin - 1 ELSE nspin
    /\ ipi' = IF c \in spinning THEN ipi \cup Woken ELSE ipi
    /\ cur' = [cur EXCEPT ![c] = loc[c].t]
    /\ loc' = [loc EXCEPT ![c] = NoLoc]
    /\ cr8' = [cr8 EXCEPT ![c] = NORMAL]
    /\ Goto(c, "thread")
    /\ UNCHANGED <<idle, idleCount, poll, time, depth, dev, run, glob, blocked, at, lost>>

----------------------------------------------------------------------------
(* The threads                                                             *)

At(c, step) == pc[c] = "thread" /\ at[cur[c]].step = step
Then(c, step) == at' = [at EXCEPT ![cur[c]].step = step]

\* scheduler_ready_thread: up to run_queue_put, the put, wake_cpu, and the end.
Ready(c) ==
    /\ At(c, "user")
    /\ depth' = [depth EXCEPT ![c] = @ + 1] /\ cr8' = Disabled(c)
    /\ \E t \in blocked \ {waiter} :
         /\ blocked' = blocked \ {t}
         /\ at' = [at EXCEPT ![cur[c]].step = "put", ![cur[c]].hand = t]
    /\ UNCHANGED <<pc, loc, sched, poll, time, ipi, dev, cur, run, glob, lost>>

\* run_queue_put by a thread.  One that was switched out inside of it may not
\* have read anything yet.
PutReady(c) ==
    /\ At(c, "put") \/ At(c, "late")
    /\ Put(c, at[cur[c]].hand)
    /\ at' = [at EXCEPT ![cur[c]].step = "wake", ![cur[c]].hand = None]
    /\ UNCHANGED <<pc, loc, sched, poll, time, ipi, prio, dev, cur, blocked, lost>>

\* Or it goes on with the ring and the tail it has read: the ring of the CPU it
\* has left, in which the thread itself has been put since.  It stores into a
\* slot the head has passed and sets the tail back, so that the thread it puts
\* (or the one it has kicked out of next) is in no queue.  What else the ring
\* then holds or lacks is not followed: the behaviour ends.
PutLate(c) ==
    /\ At(c, "late")
    /\ lost' = lost \cup {at[cur[c]].hand}
    /\ at' = [at EXCEPT ![cur[c]].hand = None, ![cur[c]].step = "wake"]
    /\ Goto(c, "halt")
    /\ UNCHANGED <<loc, sched, poll, time, ipi, prio, dev, cur, run, glob, blocked>>

\* The thread is switched out: PRIORITY_NO_PREEMPT does not keep off a device.
SwitchedOut(c) == [at EXCEPT ![cur[c]].step = IF @ = "put" THEN "late" ELSE @]

ThreadWakes(c) ==
    /\ \/ At(c, "wake") /\ Then(c, "enable")
       \/ At(c, "try") /\ at' = [at EXCEPT ![cur[c]] = User]
    /\ ipi' = ipi \cup Woken
    /\ UNCHANGED <<pc, loc, sched, poll, time, prio, dev, cur, run, glob, blocked, lost>>

PreemptEnable(c) ==
    /\ At(c, "enable")
    /\ depth' = [depth EXCEPT ![c] = @ - 1] /\ cr8' = Enabled(c)
    /\ Then(c, "user")
    /\ UNCHANGED <<pc, loc, sched, poll, time, ipi, dev, cur, run, glob, blocked, lost>>

\* timer_start with a timer that becomes the first of the CPU.
AddTimer(c) ==
    /\ At(c, "user")
    /\ \E w \in (now + 1)..MaxNow :
         /\ when[c] = 0 \/ w < when[c]
         /\ when' = [when EXCEPT ![c] = w]
         /\ at' = [at EXCEPT ![cur[c]].step = "poke", ![cur[c]].when = w]
    /\ UNCHANGED <<pc, loc, sched, poll, timers, now, ipi, prio, dev, cur, run, glob, blocked, lost>>

\* scheduler_wake_poller: its three loads, and break_poller.
WakePoller(c) ==
    /\ \/ /\ At(c, "poke")
          /\ Then(c, IF lastPoll = 0 THEN "until" ELSE "try")
          /\ UNCHANGED ipi
       \/ /\ At(c, "until")
          /\ IF pollUntil = 0 \/ pollUntil > at[cur[c]].when
               THEN Then(c, "break") ELSE at' = [at EXCEPT ![cur[c]] = User]
          /\ UNCHANGED ipi
       \/ /\ At(c, "break")
          /\ ipi' = ipi \cup ({pollingCpu} \ {None})
          /\ at' = [at EXCEPT ![cur[c]] = User]
    /\ UNCHANGED <<pc, loc, sched, poll, time, prio, dev, cur, run, glob, blocked, lost>>

\* enter_scheduler, and save_current_thread with the thread runnable or parked.
SaveRunnable(c) ==
    /\ cr8' = [cr8 EXCEPT ![c] = NO_PREEMPT]
    /\ cur' = [cur EXCEPT ![c] = None] /\ Put(c, cur[c]) /\ at' = SwitchedOut(c)
    /\ Goto(c, "find")
    /\ UNCHANGED <<loc, sched, poll, time, ipi, depth, dev, blocked, lost>>

SaveParked(c) ==
    /\ cr8' = [cr8 EXCEPT ![c] = NO_PREEMPT]
    /\ cur' = [cur EXCEPT ![c] = None] /\ blocked' = blocked \cup {cur[c]}
    /\ Goto(c, "find")
    /\ UNCHANGED <<loc, sched, poll, time, ipi, depth, run, glob, at, lost, irqs>>

\* The end of the time slice: IRQ_PREEMPT.  scheduler_yield returns unless the
\* depth is 0.
Preempt(c) == pc[c] = "thread" /\ Takes(c, "preempt") /\ SaveRunnable(c)
Yield(c) == At(c, "user") /\ depth[c] = 0 /\ SaveRunnable(c)

Park(c) == At(c, "user") /\ cr8[c] < NO_PREEMPT /\ SaveParked(c) /\ UNCHANGED <<waiter, masked>>

\* enter_scheduler asserts the priority.
ParkAsserts(c) ==
    /\ At(c, "user") /\ cr8[c] >= NO_PREEMPT
    /\ Goto(c, "halt")
    /\ UNCHANGED <<loc, sched, poll, time, ipi, prio, dev, where>>

\* irq_wait: the callback of the park unmasks the device.  One thread, its
\* driver's, waits for a device.
IrqWait(c) ==
    /\ At(c, "user") /\ waiter = None /\ cr8[c] < NO_PREEMPT
    /\ waiter' = cur[c] /\ masked' = FALSE
    /\ SaveParked(c)

\* MUTANT: the interrupt is left unmasked.
DispatchUnmasked(c) ==
    /\ c = IrqCpu /\ ~masked /\ waiter # None /\ irqs > 0 /\ Takes(c, "device")
    /\ \/ pc[c] = "thread" /\ Put(c, cur[c]) /\ at' = SwitchedOut(c) /\ UNCHANGED cr8
       \/ /\ pc[c] \in {"hlt", "pollhlt"} /\ cr8[c] = NO_PREEMPT
          /\ cr8' = [cr8 EXCEPT ![c] = NORMAL] /\ UNCHANGED <<run, glob, at>>
    /\ cur' = [cur EXCEPT ![c] = waiter] /\ blocked' = blocked \ {waiter}
    /\ waiter' = None /\ UNCHANGED masked /\ irqs' = irqs - 1
    /\ loc' = [loc EXCEPT ![c] = NoLoc]
    /\ Goto(c, "thread")
    /\ UNCHANGED <<sched, poll, time, ipi, depth, lost>>

\* irq_dispatch with scheduler_schedule_thread: in a thread, whatever it is
\* doing, or in a hlt of find_runnable, which is abandoned as it is.
Dispatch(c) ==
    /\ c = IrqCpu /\ ~masked /\ waiter # None /\ irqs > 0 /\ Takes(c, "device")
    /\ \/ pc[c] = "thread" /\ Put(c, cur[c]) /\ at' = SwitchedOut(c) /\ UNCHANGED cr8
       \/ /\ pc[c] \in {"hlt", "pollhlt"} /\ cr8[c] = NO_PREEMPT
          /\ cr8' = [cr8 EXCEPT ![c] = NORMAL] /\ UNCHANGED <<run, glob, at>>
    /\ cur' = [cur EXCEPT ![c] = waiter] /\ blocked' = blocked \ {waiter}
    /\ waiter' = None /\ masked' = TRUE /\ irqs' = irqs - 1
    /\ loc' = [loc EXCEPT ![c] = NoLoc]
    /\ Goto(c, "thread")
    /\ UNCHANGED <<sched, poll, time, ipi, depth, lost>>

\* scheduler_schedule_thread asserts the priority of the idle loop.
DispatchAsserts(c) ==
    /\ c = IrqCpu /\ ~masked /\ waiter # None /\ irqs > 0 /\ pc[c] \in {"hlt", "pollhlt"} /\ cr8[c] # NO_PREEMPT
    /\ Goto(c, "halt")
    /\ UNCHANGED <<loc, sched, poll, time, ipi, prio, dev, where>>

Tick == now < MaxNow /\ now' = now + 1 /\ UNCHANGED <<pc, loc, sched, poll, timers, when, ipi, prio, dev, where>>

FindRunnable(c) ==
    \/ CheckTimers(c) \/ WakeCpu(c) \/ FindWork(c) \/ StartSpin(c)
    \/ \E v \in Cpus : StealFrom(c, v)
    \/ PutIdle(c) \/ Recheck(c) \/ TakePoll(c) \/ PollUntil(c) \/ PollCpu(c)
    \/ PollEnd(c) \/ Woke(c) \/ Schedule(c)
Interrupt(c) == Wakeup(c) \/ PreemptIdle(c) \/ Preempt(c) \/ Dispatch(c) \/ DispatchAsserts(c)
Thread(c) ==
    \/ Ready(c) \/ PutReady(c) \/ PutLate(c) \/ ThreadWakes(c) \/ PreemptEnable(c) \/ AddTimer(c) \/ WakePoller(c)
    \/ Yield(c) \/ Park(c) \/ ParkAsserts(c) \/ IrqWait(c)

Next ==
    /\ \A c \in Cpus : pc[c] # "halt"
    /\ Tick \/ \E c \in Cpus : FindRunnable(c) \/ Interrupt(c) \/ Thread(c)

Spec == Init /\ [][Next]_vars

----------------------------------------------------------------------------
\* Every thread is in one place: running on one CPU, picked by one CPU, in one
\* run queue, parked, in the hands of one thread that readies it, or lost by a
\* put that was cut in two, and never in a second one; and the device whose
\* interrupt is open finds its thread parked.
ThreadsInOnePlace ==
    /\ \A t \in DOMAIN at :
         Cardinality({c \in Cpus : cur[c] = t}) + Cardinality({c \in Cpus : loc[c].t = t})
           + Cardinality({c \in Cpus : t \in run[c]}) + Cardinality({u \in DOMAIN at : at[u].hand = t})
           + (IF t \in glob THEN 1 ELSE 0) + (IF t \in blocked THEN 1 ELSE 0)
           + (IF t \in lost THEN 1 ELSE 0) = 1
    /\ ~masked => waiter \in blocked

\* run_queue_put puts the thread on the local queue, or "if the local run queue
\* is full the thread will be put to the global queue": none is lost.
PutsAreWhole == lost = {}

\* The CPUs do not all sleep while a thread could run, unless one of them has
\* failed an assertion: the look at the global queue under the scheduler lock,
\* after the last one at the CPU's own, leaves no work behind, although device
\* interrupts run threads out of hlt.
NoLostWork ==
    (\A c \in Cpus : pc[c] \in {"hlt", "pollhlt"} /\ c \notin ipi)
      => glob = {} /\ \A c \in Cpus : run[c] = {}

\* A sleeping CPU can be found by wake_cpu: it is in the idle mask, and the
\* count wake_cpu reads first is not below the mask; the number of spinning
\* CPUs that limits the others is exact.
SleepersAreSeen ==
    /\ \A c \in Cpus : pc[c] \in {"poll", "until", "pollcpu", "hlt", "pollhlt"} => c \in idle
    /\ idleCount >= Cardinality(idle)
    /\ nspin = Cardinality(spinning)
    /\ \A c \in spinning : pc[c] \notin {"thread", "hlt", "pollhlt"}

\* scheduler_wake_poller "should never miss a wakeup": when it is about to load
\* m_polling_cpu for a timer that is due before the poll ends, the CPU that is
\* going to sleep that long is the one it finds.
NeverMissesThePoller ==
    \A c, d \in Cpus :
        At(c, "break") /\ pc[d] \in {"pollcpu", "pollhlt"} /\ pollUntil > at[cur[c]].when
          => pollingCpu = d \/ d \in ipi
=============================================================================
