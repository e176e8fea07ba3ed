-------------------------------- MODULE Boot --------------------------------
(***************************************************************************)
(* The boot of the kernel: the early allocator, the page tables and the    *)
(* buddy allocator out of the bootloader's memory map (kernel/mem/early.c, *)
(* vmm.c, phys.c), the per-CPU memory (kernel/thread/cpu_local.c,          *)
(* kernel/arch/gdt.c), the start of the other CPUs, and the hand-over to   *)
(* the scheduler and to the startup thread (kernel/kernel.c).              *)
(*                                                                         *)
(* The memory map is a type for every page.  Several pages of one purpose  *)
(* (page tables, the buddy tree, a TSS with its stacks) are one page.      *)
(***************************************************************************)
EXTENDS Naturals, FiniteSets, FiniteSetsExt

CONSTANTS Cpus,         \* lapic_id of each CPU, numbers from 0
          TopPage       \* the pages are 1 .. TopPage

VARIABLES
    type,               \* g_limine_memmap: the type of each page
    entry,              \* pages that are still in its usable entries
    buddy,              \* pages that the buddy allocator has
    owner,              \* pages that were handed out, and to whom
    bsp,                \* bsp_lapic_id
    pc,                 \* where each CPU is
    count, error, go,   \* m_startup_count, m_smp_error, m_start_scheduler
    startup             \* the startup thread

bvars == <<type, entry, buddy, owner, bsp, pc, count, error, go, startup>>

PageFrames == 1..TopPage
Early == {"tables", "tree"}

\* The bootloader jumps to _start on one CPU; the others wait for an address.
Init ==
    /\ type \in [PageFrames -> {"usable", "reclaimable", "reserved"}]
    /\ entry = {f \in PageFrames : type[f] = "usable"} /\ buddy = {} /\ owner = {}
    /\ bsp \in Cpus /\ pc = [c \in Cpus |-> IF c = bsp THEN "vmm" ELSE "bootloader"]
    /\ count = 0 /\ error = FALSE /\ go = FALSE /\ startup = "none"

Goto(c, l) == pc' = [pc EXCEPT ![c] = l]
Halt(c) == Goto(c, "halt") /\ UNCHANGED <<type, entry, buddy, owner, bsp, count, error, go, startup>>

\* early_alloc_page_phys: the first page of the first usable entry, which it cuts
\* off; it asserts that there is one.
EarlyAlloc(c, what, next) ==
    /\ entry # {}
    /\ entry' = entry \ {Min(entry)} /\ owner' = owner \cup {<<Min(entry), what>>}
    /\ Goto(c, next)
    /\ UNCHANGED <<type, buddy, bsp, count, error, go, startup>>

\* palloc and early_palloc, under their lock.
Alloc(c, what, next) ==
    \E f \in buddy :
        /\ buddy' = buddy \ {f} /\ owner' = owner \cup {<<f, what>>}
        /\ Goto(c, next)
        /\ UNCHANGED <<type, entry, bsp, count, error, go, startup>>

\* init_vmm, and the vmm_alloc of init_palloc for the buddy tree: m_early_alloc
\* holds until vmm_switch_allocator.
InitVmm(c) == pc[c] = "vmm" /\ (EarlyAlloc(c, "tables", "tree") \/ (entry = {} /\ Halt(c)))
BuddyTree(c) == pc[c] = "tree" /\ (EarlyAlloc(c, "tree", "palloc") \/ (entry = {} /\ Halt(c)))

\* What the map says now is usable or reclaimable; the gaps between these, from
\* the bottom on, are the unusable ranges.
Listed == entry \cup {f \in PageFrames : type[f] = "reclaimable"}
UnusableBelowTop == {f \in PageFrames : f \notin Listed}

\* Mutant: only the pages that were reserved from the beginning are marked.
InitPallocByType(c) ==
    /\ pc[c] = "palloc"
    /\ buddy' = {f \in PageFrames : type[f] = "usable"}
    /\ Goto(c, "locals")
    /\ UNCHANGED <<type, entry, owner, bsp, count, error, go, startup>>

\* The rest of init_palloc: buddy_init up to the top address,
\* mark_unusable_ranges, mark_bootloader_reclaim.
InitPalloc(c) ==
    LET top == Max({f \in PageFrames : type[f] \in {"usable", "reclaimable"}})
    IN  /\ pc[c] = "palloc"
        /\ buddy' = {f \in 1..top : f \notin UnusableBelowTop} \ {f \in PageFrames : type[f] = "reclaimable"}
        /\ Goto(c, "locals")
        /\ UNCHANGED <<type, entry, owner, bsp, count, error, go, startup>>

\* init_cpu_locals and init_tss of the BSP.  The first compares the id of the CPU
\* with a CPU count that is still 1.
CpuLocals(c) ==
    \/ pc[c] = "locals" /\ c < 1 /\ Alloc(c, "locals", "tss")
    \/ pc[c] = "locals" /\ (buddy = {} \/ c >= 1) /\ Halt(c)
Tss(c) ==
    \/ pc[c] = "tss" /\ Alloc(c, "tss", "switch")
    \/ pc[c] = "tss" /\ buddy = {} /\ Halt(c)

\* vmm_switch_allocator, init_malloc and the rest; the other CPUs are started.
StartSmp(c) ==
    /\ pc[c] = "switch"
    /\ pc' = [d \in Cpus |-> IF d = c THEN "wait" ELSE "ap_locals"]
    /\ UNCHANGED <<type, entry, buddy, owner, bsp, count, error, go, startup>>

\* per_cpu_start: an error is noted, and the CPU is counted all the same.
ApLocals(c) ==
    \/ pc[c] = "ap_locals" /\ Alloc(c, "locals", "ap_tss")
    \/ pc[c] = "ap_locals" /\ buddy = {} /\ Goto(c, "ap_ready") /\ error' = TRUE
       /\ UNCHANGED <<type, entry, buddy, owner, bsp, count, go, startup>>
ApTss(c) ==
    \/ pc[c] = "ap_tss" /\ Alloc(c, "tss", "ap_ready")
    \/ pc[c] = "ap_tss" /\ buddy = {} /\ Goto(c, "ap_ready") /\ error' = TRUE
       /\ UNCHANGED <<type, entry, buddy, owner, bsp, count, go, startup>>

ApReady(c) ==
    /\ pc[c] = "ap_ready"
    /\ count' = count + 1 /\ Goto(c, "ap_spin")
    /\ UNCHANGED <<type, entry, buddy, owner, bsp, error, go, startup>>

ApStart(c) ==
    /\ pc[c] = "ap_spin" /\ go
    /\ count' = count + 1 /\ Goto(c, "leave")
    /\ UNCHANGED <<type, entry, buddy, owner, bsp, error, go, startup>>

\* The BSP waits for the others; the startup thread is made ready.
Wait(c) ==
    /\ pc[c] = "wait" /\ count = Cardinality(Cpus) - 1
    /\ Goto(c, IF error THEN "halt" ELSE "reset")
    /\ startup' = IF error THEN startup ELSE "ready"
    /\ UNCHANGED <<type, entry, buddy, owner, bsp, count, error, go>>

\* "We are going to use this counter again".
Reset(c) ==
    /\ pc[c] = "reset"
    /\ count' = 0 /\ Goto(c, "go")
    /\ UNCHANGED <<type, entry, buddy, owner, bsp, error, go, startup>>

Go(c) ==
    /\ pc[c] = "go"
    /\ go' = TRUE /\ Goto(c, "count")
    /\ UNCHANGED <<type, entry, buddy, owner, bsp, count, error, startup>>

Count(c) ==
    /\ pc[c] = "count"
    /\ count' = count + 1 /\ Goto(c, "leave")
    /\ UNCHANGED <<type, entry, buddy, owner, bsp, error, go, startup>>

\* scheduler_startup: the int of scheduler_drop_current leaves the stack of the
\* bootloader.  The first CPU that gets there runs the startup thread.
Leave(c) ==
    /\ pc[c] = "leave"
    /\ Goto(c, "scheduler")
    /\ startup' = IF startup = "ready" THEN "running" ELSE startup
    /\ UNCHANGED <<type, entry, buddy, owner, bsp, count, error, go>>

\* kernel_startup: palloc_reclaim gives the bootloader's pages to the buddy.
Reclaim ==
    /\ startup = "running" /\ count = Cardinality(Cpus)
    /\ startup' = "done"
    /\ buddy' = buddy \cup {f \in PageFrames : type[f] = "reclaimable"}
    /\ UNCHANGED <<type, entry, owner, bsp, pc, count, error, go>>

\* A thread allocates.
Run(c) == pc[c] = "scheduler" /\ startup = "done" /\ Alloc(c, "thread", "scheduler")

BspStep(c) ==
    \/ InitVmm(c) \/ BuddyTree(c) \/ InitPalloc(c) \/ CpuLocals(c) \/ Tss(c) \/ StartSmp(c)
    \/ Wait(c) \/ Reset(c) \/ Go(c) \/ Count(c)
ApStep(c) == ApLocals(c) \/ ApTss(c) \/ ApReady(c) \/ ApStart(c)

Next == Reclaim \/ \E c \in Cpus : BspStep(c) \/ ApStep(c) \/ Leave(c) \/ Run(c)

----------------------------------------------------------------------------
\* Memory stays apart during the boot: what the early allocator took out of the
\* map is not handed out again by the buddy allocator that is built from the same
\* map, no page has two owners, and reserved pages, and the bootloader's until
\* every CPU has been counted for the second time, are in nobody's hands.
BootMemoryApart ==
    /\ \A a, b \in owner : a[1] = b[1] => a = b
    /\ \A a \in owner : a[1] \notin buddy /\ type[a[1]] # "reserved"
    /\ \A f \in buddy : type[f] # "reserved"
    /\ startup # "done" => \A f \in buddy \cup {a[1] : a \in owner} : type[f] = "usable"
    /\ startup = "done" => \A c \in Cpus : pc[c] \in {"leave", "scheduler"}

\* "We are going to use this counter again to know when all cpus exited the
\* bootlaoder supplied stack": its pages, which are reclaimable, are given to the
\* allocator when no CPU is on its stack.
ReclaimAfterStacks == startup = "done" => \A c \in Cpus : pc[c] = "scheduler"
=============================================================================
