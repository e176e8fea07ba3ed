------------------------------ MODULE MCMemory ------------------------------
(***************************************************************************)
(* The kernel below its threads, one part per behaviour: physical memory   *)
(* and paging (Memory), the object heap on top of them (ObjectHeap), the   *)
(* boot that builds them (Boot), the interrupts they run under             *)
(* (Interrupts), and the waitables that are freed with the last reference  *)
(* of a wait handle (WaitHandle).                                          *)
(***************************************************************************)
EXTENDS Integers, FiniteSets, TLC

CONSTANTS Cpus, None, Frames, HeapPages, Reserve, HeapFrames, Regions, Slots, TopPage,
          Callers, Waitables, Null, MaxCount

ASSUME MemoryAssumption ==
    /\ Cpus \subseteq Nat /\ 0 \in Cpus /\ IsFiniteSet(Cpus) /\ None \notin Cpus
    /\ IsFiniteSet(Frames) /\ IsFiniteSet(HeapPages) /\ None \notin Frames
    /\ IsFiniteSet(Callers) /\ IsFiniteSet(Waitables) /\ Null \notin Waitables \cup Callers
    /\ {"handle", "timer"} \cap Callers = {} /\ Waitables # {}
    /\ {Reserve, HeapFrames, Regions, Slots, TopPage, MaxCount} \subseteq Nat

VARIABLES
    part,               \* the part of the kernel this behaviour is about
    act, pallocLock, vmmLock, lockCpu, free, reserved, mapped, table, direct, owned, leaked,
    pos, lock, level, pte, white, live, heapFree, torn,
    frames, current, cr8, ints, isr, irr, waiting, gone, halted,
    type, entry, buddy, owner, bsp, pc, count, error, go, startup,
    sort, field, stale, wait, timer, caller, fault

M == INSTANCE Memory
H == INSTANCE ObjectHeap WITH Frames <- HeapFrames, free <- heapFree
I == INSTANCE Interrupts
B == INSTANCE Boot
W == INSTANCE WaitHandle

mvars == <<act, pallocLock, vmmLock, lockCpu, free, reserved, mapped, table, direct, owned, leaked>>
hvars == <<pos, lock, level, pte, white, live, heapFree, torn>>
ivars == <<frames, current, cr8, ints, isr, irr, waiting, gone, halted>>
bvars == <<type, entry, buddy, owner, bsp, pc, count, error, go, startup>>
wvars == <<sort, field, stale, wait, timer, caller, fault>>
vars == <<part, mvars, hvars, ivars, bvars, wvars>>

\* The memory map varies only where the boot is looked at, the handle only
\* where the handles are.
Init ==
    /\ part \in {"memory", "heap", "interrupts", "boot", "handles"}
    /\ M!Init /\ H!Init /\ I!Init /\ B!Init /\ W!Init
    /\ part # "boot" => bsp = 0 /\ type = [f \in 1..TopPage |-> "usable"]
    /\ part # "handles" => sort = "auto" /\ wait[field].count = 0

Next ==
    \/ part = "memory" /\ M!Next /\ UNCHANGED <<part, hvars, ivars, bvars, wvars>>
    \/ part = "heap" /\ H!Next /\ UNCHANGED <<part, mvars, ivars, bvars, wvars>>
    \/ part = "interrupts" /\ I!Next /\ UNCHANGED <<part, mvars, hvars, bvars, wvars>>
    \/ part = "boot" /\ B!Next /\ UNCHANGED <<part, mvars, hvars, ivars, wvars>>
    \/ part = "handles" /\ W!Next /\ UNCHANGED <<part, mvars, hvars, ivars, bvars>>

Spec == Init /\ [][Next]_vars

Symmetry == Permutations(Callers)

----------------------------------------------------------------------------
\* alloc_irq finds the lowest entries that nobody has, and fails only if there
\* are none, for every use of a table of IrqEntries.
IrqEntries == 6
ASSUME VectorsHaveOneOwner ==
    \A taken \in SUBSET (0..IrqEntries - 1), n \in 1..3 :
        LET unused(b) == b + n <= IrqEntries /\ \A i \in 0..n - 1 : b + i \notin taken
            b == I!AllocIrq(IrqEntries, taken, n)
        IN  IF \E x \in 0..IrqEntries - 1 : unused(x)
            THEN unused(b) /\ \A x \in 0..b - 1 : ~unused(x)
            ELSE b = -1

\* A frame is in one place, in the middle of palloc and of a fault inside it too
\* (phys.c, vmm.c).
FramesInOnePlace == M!FramesInOnePlace

\* An object that was handed out keeps its color, its pages and its page table
\* while others are freed and reclaimed (heap.c).
ObjectsKeepTheirPages == H!ObjectsKeepTheirPages

\* No handler starts on the stack of an unfinished one, and what is in service
\* in the local APIC is what is being handled (idt.c, apic.c, irq.c).
HandlersNest == I!HandlersNest

\* The early allocator, the buddy built from the same map and the bootloader
\* never have a page in common (early.c, phys.c, kernel.c).
BootMemoryApart == B!BootMemoryApart

\* A waitable is freed with its last counted reference, and only a caller
\* without one touches it afterwards (waitable.c, WaitHandle.cs,
\* EventWaitHandle.cs).
ReferencesExact == W!ReferencesExact
=============================================================================
