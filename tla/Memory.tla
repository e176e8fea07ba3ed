------------------------------- MODULE Memory -------------------------------
(***************************************************************************)
(* Physical and virtual memory: palloc and pfree with the reserved pages   *)
(* for faults inside them (kernel/mem/phys.c), the page tables, the direct *)
(* map and demand paging (kernel/mem/vmm.c), and the operations of managed *)
(* code that lead there (kernel/runtime/dotnet/internal_calls.c).          *)
(*                                                                         *)
(* A CPU runs a stack of activities: palloc or pfree, called by a thread   *)
(* or by the vmm; vmm, that is vmm_alloc or vmm_map, called by a thread or *)
(* by the page fault handler.  A thread's stack may grow, and fault, in    *)
(* any of them; the handler has a stack of its own that is always mapped.  *)
(***************************************************************************)
EXTENDS Naturals, Sequences, FiniteSets, SequencesExt

CONSTANTS Cpus, None, Frames, HeapPages,
          Reserve               \* ARRAY_LEN(m_reserved_pages)

VARIABLES
    act,                \* the activities of each CPU, the innermost one last
    pallocLock, vmmLock,\* their holders
    lockCpu,            \* m_lock_cpu
    free, reserved,     \* frames in the buddy, and in m_reserved_pages
    mapped,             \* the frame of each demand-paged page
    table,              \* the frame of the page table above them
    direct,             \* frames that the direct map reaches
    owned,              \* frames handed to a thread
    leaked              \* frames nobody refers to any more

\* The pages that are mapped on demand: those of the kernel heap, and the next
\* page of the stack of each CPU's thread.
Pages == HeapPages \cup Cpus

mvars == <<act, pallocLock, vmmLock, lockCpu, free, reserved, mapped, table, direct, owned, leaked>>
frames == <<free, reserved, mapped, table, direct, owned, leaked>>

\* op: palloc, pfree, or vmm; at: its next step; page: the page a vmm_alloc maps,
\* None in a vmm_map; frame: what it got or frees; ret: what the palloc it called
\* returned; fault: it runs on the stack of the fault handler.
Activity(op, at, page, frame, fault) ==
    [op |-> op, at |-> at, page |-> page, frame |-> frame, ret |-> None, fault |-> fault]

\* After init_palloc, with the reserve still empty.
Init ==
    /\ act = [c \in Cpus |-> <<>>]
    /\ pallocLock = None /\ vmmLock = None /\ lockCpu = None
    /\ free = Frames /\ reserved = {} /\ direct = Frames
    /\ mapped = [p \in Pages |-> None] /\ table = None /\ owned = {} /\ leaked = {}

Top(c) == Last(act[c])
In(c, op, at) == act[c] # <<>> /\ Top(c).op = op /\ Top(c).at = at
Becomes(c, a) == act' = [act EXCEPT ![c] = Append(Front(@), a)]
Step(c, at) == Becomes(c, [Top(c) EXCEPT !.at = at])
Push(c, a) == act' = [act EXCEPT ![c] = Append(@, a)]

\* The innermost activity returns a frame: to the thread, or to the vmm.
Return(c, frame) ==
    LET outer == Front(act[c])
    IN  act' = [act EXCEPT ![c] = IF outer = <<>> THEN <<>> ELSE Append(Front(outer), [Last(outer) EXCEPT !.ret = frame])]
Returned(c, frame) == owned' = IF Len(act[c]) = 1 THEN owned \cup ({frame} \ {None}) ELSE owned

----------------------------------------------------------------------------
(* Threads                                                                 *)

\* GetMemory and FreeMemory of the internal calls, heap_alloc and heap_free_pml.
StartPalloc(c) ==
    /\ act[c] = <<>>
    /\ Push(c, Activity("palloc", "enter", None, None, FALSE))
    /\ UNCHANGED <<pallocLock, vmmLock, lockCpu, frames>>

StartFree(c) ==
    /\ act[c] = <<>>
    /\ \E f \in owned : Push(c, Activity("pfree", "enter", None, f, FALSE)) /\ owned' = owned \ {f}
    /\ UNCHANGED <<pallocLock, vmmLock, lockCpu, free, reserved, mapped, table, direct, leaked>>

\* vmm_map of device memory.
StartMap(c) ==
    /\ act[c] = <<>>
    /\ Push(c, Activity("vmm", "lock", None, None, FALSE))
    /\ UNCHANGED <<pallocLock, vmmLock, lockCpu, frames>>

\* A thread touches a page of the heap or of its stack; the stack may also grow
\* inside palloc and pfree, where the caller is not the fault handler.
PageFault(c) ==
    /\ \E p \in HeapPages \cup {c} :
         /\ act[c] # <<>> => /\ p = c /\ \A i \in DOMAIN act[c] : ~act[c][i].fault
                             /\ Top(c).op \in {"palloc", "pfree"} /\ Top(c).at \in {"buddy", "fill"}
         /\ mapped[p] = None
         /\ Push(c, Activity("vmm", "lock", p, None, TRUE))
    /\ UNCHANGED <<pallocLock, vmmLock, lockCpu, frames>>

----------------------------------------------------------------------------
(* palloc and pfree                                                        *)

\* irq_alloc: the CPU that holds the lock takes a reserved page.  It asserts that
\* there is one.
IrqAlloc(c) ==
    /\ In(c, "palloc", "enter") /\ lockCpu = c
    /\ \/ \E f \in reserved : reserved' = reserved \ {f} /\ Return(c, f)
       \/ reserved = {} /\ Step(c, "halt") /\ UNCHANGED reserved
    /\ UNCHANGED <<pallocLock, vmmLock, lockCpu, free, mapped, table, direct, owned, leaked>>

\* irq_spinlock_lock, then m_lock_cpu.
Enter(c) ==
    /\ In(c, "pfree", "enter") \/ (In(c, "palloc", "enter") /\ lockCpu # c)
    /\ pallocLock = None
    /\ pallocLock' = c /\ lockCpu' = c
    /\ Step(c, "buddy")
    /\ UNCHANGED <<vmmLock, frames>>

\* buddy_malloc, NULL when the frames have run out; buddy_free.
BuddyMalloc(c) ==
    /\ In(c, "palloc", "buddy")
    /\ \/ \E f \in free : free' = free \ {f} /\ Becomes(c, [Top(c) EXCEPT !.at = "fill", !.frame = f])
       \/ free = {} /\ Step(c, "fill") /\ UNCHANGED free
    /\ UNCHANGED <<pallocLock, vmmLock, lockCpu, reserved, mapped, table, direct, owned, leaked>>

BuddyFree(c) ==
    /\ In(c, "pfree", "buddy")
    /\ free' = free \cup {Top(c).frame}
    /\ Becomes(c, [Top(c) EXCEPT !.at = "unlock", !.frame = None])
    /\ UNCHANGED <<pallocLock, vmmLock, lockCpu, reserved, mapped, table, direct, owned, leaked>>

\* One round of fill_atomic_alloc.
Fill(c) ==
    /\ In(c, "palloc", "fill")
    /\ \/ /\ Cardinality(reserved) < Reserve
          /\ \E f \in free : free' = free \ {f} /\ reserved' = reserved \cup {f}
          /\ UNCHANGED act
       \/ /\ Cardinality(reserved) >= Reserve \/ free = {}
          /\ Step(c, "unlock") /\ UNCHANGED <<free, reserved>>
    /\ UNCHANGED <<pallocLock, vmmLock, lockCpu, mapped, table, direct, owned, leaked>>

\* The end; palloc clears the frame through the direct map.
Unlock(c) ==
    /\ In(c, "palloc", "unlock") \/ In(c, "pfree", "unlock")
    /\ pallocLock' = None /\ lockCpu' = None
    /\ IF Top(c).op = "palloc" THEN Return(c, Top(c).frame) /\ Returned(c, Top(c).frame)
                               ELSE act' = [act EXCEPT ![c] = Front(@)] /\ UNCHANGED owned
    /\ UNCHANGED <<vmmLock, free, reserved, mapped, table, direct, leaked>>

----------------------------------------------------------------------------
(* The vmm                                                                 *)

\* vmm_alloc asks palloc for its page; vmm_map has one.
CallPalloc(c, at) ==
    act' = [act EXCEPT ![c] = Front(@) \o <<[Top(c) EXCEPT !.at = at], Activity("palloc", "enter", None, None, Top(c).fault)>>]

VmmLock(c) ==
    /\ In(c, "vmm", "lock") /\ vmmLock = None
    /\ vmmLock' = c
    /\ IF Top(c).page = None THEN Step(c, "map") ELSE CallPalloc(c, "page")
    /\ UNCHANGED <<pallocLock, lockCpu, frames>>

\* vmm_alloc_page takes the page out of the direct map.
GotPage(c) ==
    /\ In(c, "vmm", "page")
    /\ direct' = direct \ {Top(c).ret}
    /\ Becomes(c, [Top(c) EXCEPT !.at = IF Top(c).ret = None THEN "error" ELSE "map", !.frame = Top(c).ret, !.ret = None])
    /\ UNCHANGED <<pallocLock, vmmLock, lockCpu, free, reserved, mapped, table, owned, leaked>>

\* do_map: vmm_setup_level allocates a missing page table first.
NeedTable(c) ==
    /\ In(c, "vmm", "map") /\ table = None
    /\ CallPalloc(c, "table")
    /\ UNCHANGED <<pallocLock, vmmLock, lockCpu, frames>>

\* Mutant: the page goes back to the buddy, which the direct map no longer reaches.
GotTableFrees(c) ==
    /\ In(c, "vmm", "table")
    /\ \/ /\ Top(c).ret # None
          /\ table' = Top(c).ret /\ direct' = direct \ {Top(c).ret}
          /\ Becomes(c, [Top(c) EXCEPT !.at = "map", !.ret = None])
          /\ UNCHANGED free
       \/ /\ Top(c).ret = None
          /\ free' = free \cup ({Top(c).frame} \ {None})
          /\ Becomes(c, [Top(c) EXCEPT !.at = "error", !.frame = None])
          /\ UNCHANGED <<table, direct>>
    /\ UNCHANGED <<pallocLock, vmmLock, lockCpu, leaked, reserved, mapped, owned>>

\* Without a table the page of vmm_alloc is lost ("TODO: proper cleanup").
GotTable(c) ==
    /\ In(c, "vmm", "table")
    /\ \/ /\ Top(c).ret # None
          /\ table' = Top(c).ret /\ direct' = direct \ {Top(c).ret}
          /\ Becomes(c, [Top(c) EXCEPT !.at = "map", !.ret = None])
          /\ UNCHANGED leaked
       \/ /\ Top(c).ret = None
          /\ leaked' = leaked \cup ({Top(c).frame} \ {None})
          /\ Becomes(c, [Top(c) EXCEPT !.at = "error", !.frame = None])
          /\ UNCHANGED <<table, direct>>
    /\ UNCHANGED <<pallocLock, vmmLock, lockCpu, free, reserved, mapped, owned>>

Leave(c) == vmmLock' = None /\ act' = [act EXCEPT ![c] = Front(@)]

\* The entry is written, and replaces what it held.
MapPage(c) ==
    /\ In(c, "vmm", "map") /\ table # None
    /\ LET p == Top(c).page
       IN  IF p = None THEN UNCHANGED <<mapped, leaked>>
                       ELSE /\ mapped' = [mapped EXCEPT ![p] = Top(c).frame]
                            /\ leaked' = leaked \cup ({mapped[p]} \ {None})
    /\ Leave(c)
    /\ UNCHANGED <<pallocLock, lockCpu, free, reserved, table, direct, owned>>

\* An error of vmm_map goes to its caller; a fault that cannot be served stops
\* the CPU, after the lock is released.
VmmError(c) ==
    /\ In(c, "vmm", "error")
    /\ IF Top(c).fault THEN vmmLock' = None /\ Step(c, "halt") ELSE Leave(c)
    /\ UNCHANGED <<pallocLock, lockCpu, frames>>

Next ==
    \E c \in Cpus :
        \/ StartPalloc(c) \/ StartFree(c) \/ StartMap(c) \/ PageFault(c)
        \/ IrqAlloc(c) \/ Enter(c) \/ BuddyMalloc(c) \/ BuddyFree(c) \/ Fill(c) \/ Unlock(c)
        \/ VmmLock(c) \/ GotPage(c) \/ NeedTable(c) \/ GotTable(c) \/ MapPage(c) \/ VmmError(c)

Spec == Init /\ [][Next]_mvars

----------------------------------------------------------------------------
Held == (UNION {UNION {{act[c][i].frame, act[c][i].ret} : i \in DOMAIN act[c]} : c \in Cpus}) \ {None}
Used == {mapped[p] : p \in Pages} \ {None}

\* A frame is in one place: the buddy, the reserve, a page, the page table, a
\* thread, or on its way; and what palloc and fill_atomic_alloc will clear is
\* reached by the direct map.  A fault in the middle of palloc takes its frames
\* from the reserve without the lock, so nothing else keeps the two apart.
FramesInOnePlace ==
    /\ LET count(f) == Cardinality({S \in {<<"free", free>>, <<"reserved", reserved>>, <<"used", Used>>,
                             <<"table", {table}>>, <<"owned", owned>>, <<"leaked", leaked>>, <<"held", Held>>} : f \in S[2]})
       IN  \A f \in Frames : count(f) = 1
    /\ \A p, q \in Pages : p # q /\ mapped[p] # None => mapped[p] # mapped[q]
    /\ free \cup reserved \cup owned \subseteq direct
    /\ (Used \cup {table}) \cap direct = {}

\* The fault handler maps a page that is not present ("make sure this happens
\* only for non-present page"): it never replaces the frame of another fault on
\* the same page, with what was written to it.
FaultsMapAbsentPages ==
    \A c \in Cpus : In(c, "vmm", "map") /\ Top(c).page # None => mapped[Top(c).page] = None

\* "palloc caused a PF for demand paging (can happen with stack growing) which
\* means that we need to properly be able to allocate memory for such a case":
\* the fault never waits for a vmm lock whose holder waits for this palloc.
PallocFaultsAreServed ==
    \A c \in Cpus :
        In(c, "vmm", "lock") /\ pallocLock = c
          => vmmLock # c /\ \A d \in Cpus : vmmLock = d => ~In(d, "palloc", "enter")
=============================================================================
