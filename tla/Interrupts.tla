----------------------------- MODULE Interrupts -----------------------------
(***************************************************************************)
(* The interrupts of one CPU: the descriptor table and its stacks          *)
(* (kernel/arch/idt.c, gdt.c), the local APIC with its in-service          *)
(* interrupts and the task priority (apic.c, irq.h), the common handler,   *)
(* and the dispatch of a device's interrupt (kernel/irq/irq.c).            *)
(*                                                                         *)
(* A frame is a handler in progress: its vector and how far it is.  The    *)
(* registers that the stubs push and pop are the context below it: a       *)
(* thread, or find_runnable inside an outer frame.                         *)
(***************************************************************************)
EXTENDS Integers, Sequences, SequencesExt, FiniteSetsExt

VARIABLES
    frames,             \* the handlers in progress, the innermost one last
    current,            \* m_current_thread is not NULL
    cr8,                \* the task priority
    ints,               \* the interrupt flag
    isr, irr,           \* interrupts in service and pending in the local APIC
    waiting,            \* a thread waits for the device, which is unmasked
    gone,               \* vectors of frames that scheduler_schedule_thread destroyed
    halted              \* an assertion or an exception stopped the CPU

ivars == <<frames, current, cr8, ints, isr, irr, waiting, gone, halted>>

NORMAL == 1
NO_PREEMPT == 2
Hardware == {"preempt", "wakeup", "device"}
Scheduler == {"preempt", "yield", "park", "drop"}
Class == [preempt |-> 2, wakeup |-> 3, device |-> 4]

\* The stacks that init_idt gives the exceptions.
ExceptionIst(v) == IF v = "nmi" THEN 2 ELSE IF v \in {"doublefault", "protection", "pagefault"} THEN 3 ELSE 1

\* The wake-up interrupt gets the stack of the scheduler.
IstShared(v) == IF v \in Scheduler \cup {"wakeup"} THEN 4 ELSE IF v \in {"device", "spurious"} THEN 0 ELSE ExceptionIst(v)

\* The stack of a vector in the table of init_idt, 0 for the one that is in use.
Ist(v) == IF v \in Scheduler THEN 4 ELSE IF v \in {"wakeup", "device", "spurious"} THEN 0 ELSE ExceptionIst(v)

\* alloc_irq: of the n entries of m_irqs, those in `taken' have an owner.  The
\* first of `count' entries in a row that have none, or -1, its error.
AllocIrq(n, taken, count) ==
    LET found[e \in 0..n - 1] == IF e \in taken THEN 0 ELSE 1 + (IF e = 0 THEN 0 ELSE found[e - 1])
        ends == {e \in 0..n - 1 : found[e] = count}
    IN  IF ends = {} THEN -1 ELSE Min(ends) - (count - 1)

\* scheduler_startup has dropped to the first thread.
Init ==
    /\ frames = <<>> /\ current = TRUE /\ cr8 = NORMAL /\ ints = TRUE
    /\ isr = {} /\ irr = {} /\ waiting = FALSE /\ gone = {} /\ halted = FALSE

Inner(at) == frames # <<>> /\ Last(frames).at = at
Enter(v) == frames' = Append(frames, [v |-> v, at |-> "enter"]) /\ ints' = FALSE
Thread == frames = <<>>
Halts == halted' = TRUE /\ UNCHANGED <<frames, current, cr8, ints, isr, irr, waiting, gone>>

\* The deadline of the time slice, send_ipi of another CPU, the device.
Raise(v) ==
    /\ v \in Hardware \ irr /\ (v = "device" => waiting)
    /\ irr' = irr \cup {v}
    /\ UNCHANGED <<frames, current, cr8, ints, isr, waiting, gone, halted>>

\* The local APIC delivers what is above the task priority and all in service.
Deliver(v) ==
    /\ v \in irr /\ ints /\ \A p \in {cr8} \cup {Class[u] : u \in isr} : Class[v] > p
    /\ irr' = irr \ {v} /\ isr' = isr \cup {v}
    /\ Enter(v)
    /\ UNCHANGED <<current, cr8, waiting, gone, halted>>

Spurious ==
    /\ ints /\ (frames # <<>> => Last(frames).v # "spurious")
    /\ Enter("spurious")
    /\ UNCHANGED <<current, cr8, isr, irr, waiting, gone, halted>>

\* scheduler_yield, scheduler_park (of irq_wait: its callback unmasks the
\* device), scheduler_drop_current.
SoftInt(v, wait) ==
    /\ Thread
    /\ Enter(v)
    /\ waiting' = (waiting \/ wait)
    /\ UNCHANGED <<current, cr8, isr, irr, gone, halted>>

\* A page of a stack or of the kernel heap, which the scheduler uses too.
PageFault ==
    /\ Thread \/ Inner("find")
    /\ frames' = Append(frames, [v |-> "pagefault", at |-> "enter"]) /\ ints' = FALSE
    /\ UNCHANGED <<current, cr8, isr, irr, waiting, gone, halted>>

\* common_exception_handler: the fault is served; any other exception stops the CPU.
ServeFault ==
    /\ Inner("enter") /\ Last(frames).v = "pagefault"
    /\ frames' = Front(frames) /\ ints' = (Len(frames) = 1)
    /\ UNCHANGED <<current, cr8, isr, irr, waiting, gone, halted>>

Exception == Thread /\ Halts

\* scheduler_preempt_disable and enable of the thread.
Priority ==
    /\ Thread
    /\ cr8' = IF cr8 = NORMAL THEN NO_PREEMPT ELSE NORMAL
    /\ UNCHANGED <<frames, current, ints, isr, irr, waiting, gone, halted>>

----------------------------------------------------------------------------
(* common_interrupt_handler                                                *)

\* lapic_eoi ends the highest interrupt in service.
Eoi == IF isr = {} THEN {} ELSE isr \ {CHOOSE v \in isr : \A u \in isr : Class[u] <= Class[v]}

\* scheduler_on_schedule, on_park, on_drop: enter_scheduler and save_current_thread
\* with their assertions.
EnterScheduler ==
    /\ Inner("enter") /\ Last(frames).v \in Scheduler
    /\ \/ /\ cr8 < NO_PREEMPT /\ (current \/ Last(frames).v = "drop")
          /\ cr8' = NO_PREEMPT /\ current' = FALSE
          /\ frames' = [frames EXCEPT ![Len(frames)].at = "find"]
          /\ UNCHANGED <<ints, isr, irr, waiting, gone, halted>>
       \/ ~(cr8 < NO_PREEMPT /\ (current \/ Last(frames).v = "drop")) /\ Halts

\* A timer readies a thread: scheduler_preempt_enable lowers the priority.
TimerReadies ==
    /\ Inner("find")
    /\ cr8' = NORMAL
    /\ UNCHANGED <<frames, current, ints, isr, irr, waiting, gone, halted>>

\* find_runnable: sti, hlt; and cli after an interrupt.
Sleep ==
    /\ Inner("find")
    /\ frames' = [frames EXCEPT ![Len(frames)].at = "hlt"] /\ ints' = TRUE
    /\ UNCHANGED <<current, cr8, isr, irr, waiting, gone, halted>>

Awake ==
    /\ Inner("woke")
    /\ frames' = [frames EXCEPT ![Len(frames)].at = "find"] /\ ints' = FALSE
    /\ UNCHANGED <<current, cr8, isr, irr, waiting, gone, halted>>

\* schedule, exit_scheduler, and the EOI of IRQ_PREEMPT.
RunThread ==
    /\ Inner("find")
    /\ frames' = Front(frames) /\ current' = TRUE /\ cr8' = NORMAL /\ ints' = TRUE
    /\ isr' = IF Last(frames).v = "preempt" THEN Eoi ELSE isr
    /\ UNCHANGED <<irr, waiting, gone, halted>>

\* IRQ_WAKEUP and IRQ_SPURIOUS, which has no EOI, do nothing but end a hlt.
Nothing ==
    /\ Inner("enter") /\ Last(frames).v \in {"wakeup", "spurious"}
    /\ LET outer == Front(frames)
       IN  frames' = IF outer = <<>> THEN outer ELSE [outer EXCEPT ![Len(outer)].at = "woke"]
    /\ isr' = IF Last(frames).v = "wakeup" THEN Eoi ELSE isr
    /\ ints' = TRUE
    /\ UNCHANGED <<current, cr8, irr, waiting, gone, halted>>

\* irq_dispatch with scheduler_schedule_thread: the interrupted thread is saved,
\* or find_runnable is destroyed.
Dispatch ==
    /\ Inner("enter") /\ Last(frames).v = "device"
    /\ \/ /\ current \/ cr8 = NO_PREEMPT
          /\ cr8' = IF current THEN cr8 ELSE NORMAL
          /\ frames' = <<>> /\ gone' = gone \cup ({f.v : f \in ToSet(Front(frames))} \cap Hardware)
          /\ current' = TRUE /\ ints' = TRUE /\ waiting' = FALSE /\ isr' = Eoi
          /\ UNCHANGED <<irr, halted>>
       \/ ~current /\ cr8 # NO_PREEMPT /\ Halts

Handler == EnterScheduler \/ TimerReadies \/ Sleep \/ Awake \/ RunThread \/ Nothing \/ Dispatch \/ ServeFault

Next ==
    /\ ~halted
    /\ \/ \E v \in Hardware : Raise(v) \/ Deliver(v)
       \/ \E v \in {"yield", "park", "drop"} : SoftInt(v, FALSE)
       \/ ~waiting /\ SoftInt("park", TRUE)
       \/ Spurious \/ PageFault \/ Exception \/ Priority \/ Handler

----------------------------------------------------------------------------
\* Handlers nest: no handler starts on the stack of another one that is not
\* finished, and every EOI ends the interrupt of the handler that sends it, so
\* that what is in service is what is being handled, and what a dispatch out of
\* the idle loop has left there (see TimeSlicesEnd).  An interrupt that
\* stops the CPU with an assertion is excepted.
HandlersNest ==
    \/ halted \/ (Inner("enter") /\ Last(frames).v = "preempt" /\ ~current)
    \/ /\ \A i, j \in DOMAIN frames : i # j /\ Ist(frames[i].v) = Ist(frames[j].v) => Ist(frames[i].v) = 0
       /\ isr = ({f.v : f \in ToSet(frames)} \cap Hardware) \cup gone

\* IRQ_PREEMPT "is blocked by GC priority and above": at normal priority a
\* thread can be preempted.
TimeSlicesEnd == Thread /\ cr8 = NORMAL => "preempt" \notin isr
=============================================================================
