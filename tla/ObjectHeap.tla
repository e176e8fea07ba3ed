----------------------------- MODULE ObjectHeap -----------------------------
(***************************************************************************)
(* The object heap of the runtime, kernel/runtime/dotnet/heap.c: heap_alloc *)
(* looks for a free object in the regions it can lock without waiting, and  *)
(* backs it with pages; heap_free marks it free without a lock;             *)
(* heap_reclaim gives the pages of free objects back; the iterations call   *)
(* the collector back for the objects of a pool, or of its dirty pages.     *)
(*                                                                         *)
(* A "small" pool has several objects on a page, in a "large" one an object *)
(* has several pages (4 KB or 2 MB: the same steps on another level of the  *)
(* page table).  TLBs are not modelled, and each region has a lock of its   *)
(* own, as in the code with fewer than 20 CPUs: with more, heap.c:186 runs  *)
(* off the end of the locks that heap.c:81 allocates.                       *)
(***************************************************************************)
EXTENDS Naturals, Sequences, FiniteSets, FiniteSetsExt

CONSTANTS Cpus, None,
          Frames,               \* the number of frames palloc starts with
          Regions,              \* locks per pool
          Slots                 \* small pages, or large objects, of a region

Pools == {"small", "large"}
Per == 2                \* objects per small page, pages per large object

VARIABLES
    pos,                \* what each CPU does: op, pool, region, slot; ~can_remove,
                        \* or that an iteration is inside its callback
    lock,               \* m_heap_locks
    level,              \* regions whose page table is present
    pte,                \* pages that are present
    white,              \* objects whose color is not COLOR_BLUE
    live,               \* objects that were handed out and not freed
    free,               \* number of frames that palloc has
    torn                \* an allocation has run out of pages half way

hvars == <<pos, lock, level, pte, white, live, free, torn>>

Idle == [op |-> "none", pool |-> "small", region |-> 0, slot |-> 0, keep |-> FALSE]
Areas == Pools \X (1..Regions)
Pages == {<<k[1], k[2], i, j>> : k \in Areas, i \in 1..Slots, j \in 1..Per} \ {<<"small", r, i, 2>> : r \in 1..Regions, i \in 1..Slots}
Objects == {<<k[1], k[2], i, j>> : k \in Areas, i \in 1..Slots, j \in 1..Per} \ {<<"large", r, i, 2>> : r \in 1..Regions, i \in 1..Slots}

\* The pages of the slot a CPU looks at, and the objects in it.
PagesOf(k, i) == {p \in Pages : <<p[1], p[2]>> = k /\ p[3] = i}
ObjectsOf(k, i) == {o \in Objects : <<o[1], o[2]>> = k /\ o[3] = i}
First(k, i) == <<k[1], k[2], i, 1>>

Init ==
    /\ pos = [c \in Cpus |-> Idle] /\ lock = [k \in Areas |-> None]
    /\ level = {} /\ pte = {}
    /\ white = {} /\ live = {} /\ free = Frames /\ torn = FALSE

Area(c) == <<pos[c].pool, pos[c].region>>
Goes(c, r, i) == pos' = [pos EXCEPT ![c] = [@ EXCEPT !.region = r, !.slot = i, !.keep = FALSE]]

Start(c, op) ==
    /\ pos[c] = Idle
    /\ \E pool \in Pools : pos' = [pos EXCEPT ![c] = [Idle EXCEPT !.op = op, !.pool = pool, !.region = 1]]
    /\ UNCHANGED <<lock, level, pte, white, live, free, torn>>

\* The lock of the next region: heap_alloc skips a region that is locked.
TakeLock(c) ==
    /\ pos[c].op # "none" /\ pos[c].region <= Regions /\ pos[c].slot = 0
    /\ lock[Area(c)] = None
    /\ lock' = [lock EXCEPT ![Area(c)] = c]
    /\ Goes(c, pos[c].region, 1)
    /\ UNCHANGED <<level, pte, white, live, free, torn>>

SkipRegion(c) ==
    /\ pos[c].op = "alloc" /\ pos[c].region <= Regions /\ pos[c].slot = 0
    /\ lock[Area(c)] # None
    /\ Goes(c, pos[c].region + 1, 0)
    /\ UNCHANGED <<lock, level, pte, white, live, free, torn>>

\* vmm_setup_level; without memory the region is passed over.
SetupLevel(c) ==
    /\ pos[c].op = "alloc" /\ pos[c].slot \in 1..Slots /\ Area(c) \notin level
    /\ \/ free > 0 /\ level' = level \cup {Area(c)} /\ free' = free - 1 /\ UNCHANGED pos
       \/ free = 0 /\ Goes(c, pos[c].region, Slots + 1) /\ UNCHANGED <<level, free>>
    /\ UNCHANGED <<lock, pte, white, live, torn>>

\* The pages of a slot whose first page is absent.  When they run out the ones
\* already taken are freed, and their entries stay.
BackSlot(c) ==
    LET k == Area(c) i == pos[c].slot need == PagesOf(k, i) got == Min({free, Cardinality(need)})
    IN  /\ pos[c].op = "alloc" /\ i \in 1..Slots /\ k \in level /\ First(k, i) \notin pte
        /\ pte' = pte \cup {p \in need : p[4] <= got}
        /\ IF got = Cardinality(need)
             THEN free' = free - got /\ UNCHANGED <<pos, torn>>
             ELSE Goes(c, pos[c].region, i + 1) /\ torn' = (got > 0) /\ UNCHANGED free
        /\ UNCHANGED <<lock, level, white, live>>

\* A free object of the slot is taken: cleared, colored, and the lock released.
TakeObject(c) ==
    LET k == Area(c) i == pos[c].slot
    IN  /\ pos[c].op = "alloc" /\ i \in 1..Slots /\ k \in level /\ First(k, i) \in pte
        /\ \E o \in ObjectsOf(k, i) \ white :
             /\ white' = white \cup {o} /\ live' = live \cup {o}
        /\ lock' = [lock EXCEPT ![k] = None]
        /\ pos' = [pos EXCEPT ![c] = Idle]
        /\ UNCHANGED <<level, pte, free, torn>>

NextSlot(c) ==
    LET k == Area(c) i == pos[c].slot
    IN  /\ pos[c].op = "alloc" /\ i \in 1..Slots /\ k \in level /\ First(k, i) \in pte
        /\ ObjectsOf(k, i) \subseteq white
        /\ Goes(c, pos[c].region, i + 1)
        /\ UNCHANGED <<lock, level, pte, white, live, free, torn>>

\* After the last slot the region is unlocked, after the last region the call ends.
LeaveRegion(c) ==
    /\ pos[c].op # "none" /\ pos[c].slot > Slots
    /\ pos[c].op = "reclaim" /\ Area(c) \in level => pos[c].keep
    /\ lock' = [lock EXCEPT ![Area(c)] = None]
    /\ Goes(c, pos[c].region + 1, 0)
    /\ UNCHANGED <<level, pte, white, live, free, torn>>

Return(c) ==
    /\ pos[c].op # "none" /\ pos[c].region > Regions
    /\ pos' = [pos EXCEPT ![c] = Idle]
    /\ UNCHANGED <<lock, level, pte, white, live, free, torn>>

\* heap_free, called by the collector for an object that nothing refers to.
Free(o) ==
    /\ o \in live
    /\ live' = live \ {o} /\ white' = white \ {o}
    /\ UNCHANGED <<pos, lock, level, pte, free, torn>>

\* heap_reclaim at a slot whose objects are all free: heap_free_pml; otherwise
\* the region keeps its page table.
ReclaimSlot(c) ==
    LET k == Area(c) i == pos[c].slot gone == PagesOf(k, i) used == ObjectsOf(k, i) \cap white # {}
        present == k \in level /\ First(k, i) \in pte
    IN  /\ pos[c].op = "reclaim" /\ i \in 1..Slots
        /\ \/ present /\ ~used /\ free' = free + Cardinality(gone) /\ pte' = pte \ gone
           \/ ~(present /\ ~used) /\ UNCHANGED <<free, pte>>
        /\ pos' = [pos EXCEPT ![c] = [@ EXCEPT !.slot = i + 1, !.keep = pos[c].keep \/ (present /\ used)]]
        /\ UNCHANGED <<lock, level, white, live, torn>>

\* Mutant: the colors are read again.
ReclaimLevelAgain(c) ==
    LET k == Area(c)
    IN  /\ pos[c].op = "reclaim" /\ pos[c].slot = Slots + 1 /\ k \in level
        /\ {o \in white : <<o[1], o[2]>> = k} = {}
        /\ free' = free + 1 /\ level' = level \ {k}
        /\ UNCHANGED <<pos, lock, pte, white, live, torn>>

\* A region where no object was in use loses its page table.
ReclaimLevel(c) ==
    LET k == Area(c)
    IN  /\ pos[c].op = "reclaim" /\ pos[c].slot = Slots + 1 /\ k \in level /\ ~pos[c].keep
        /\ free' = free + 1 /\ level' = level \ {k}
        /\ UNCHANGED <<pos, lock, pte, white, live, torn>>

\* An iteration that found a page of the slot present goes into its callback ...
Visit(c) ==
    /\ pos' = [pos EXCEPT ![c].keep = TRUE]
    /\ UNCHANGED <<lock, level, pte, white, live, free, torn>>

\* heap_iterate_objects passes over a slot that is not present.
WalkSlot(c) ==
    LET k == Area(c) i == pos[c].slot present == k \in level /\ First(k, i) \in pte
    IN  /\ pos[c].op = "walk" /\ i \in 1..Slots /\ ~pos[c].keep
        /\ \/ present /\ Visit(c)
           \/ ~present /\ Goes(c, pos[c].region, i + 1) /\ UNCHANGED <<lock, level, pte, white, live, free, torn>>

\* heap_iterate_dirty_objects looks at the pages of a slot by themselves; which
\* of them a store has made dirty depends on the program, and on heap.c:583,
\* which clears the dirty bit of another page than the one of 2 MB it has shown.
WalkDirty(c) ==
    LET k == Area(c) i == pos[c].slot
    IN  /\ pos[c].op = "dirty" /\ i \in 1..Slots /\ ~pos[c].keep
        /\ \/ k \in level /\ PagesOf(k, i) \cap pte # {} /\ Visit(c)
           \/ Goes(c, pos[c].region, i + 1) /\ UNCHANGED <<lock, level, pte, white, live, free, torn>>

\* ... and goes on when the callback returns.
Visited(c) ==
    /\ pos[c].op \in {"walk", "dirty"} /\ pos[c].keep
    /\ Goes(c, pos[c].region, pos[c].slot + 1)
    /\ UNCHANGED <<lock, level, pte, white, live, free, torn>>

\* A behaviour ends where an allocation has run out of pages half way.
Next ==
    /\ ~torn
    /\ \/ \E c \in Cpus :
          \/ \E op \in {"alloc", "reclaim", "walk", "dirty"} : Start(c, op)
          \/ WalkSlot(c) \/ WalkDirty(c) \/ Visited(c) \/ TakeLock(c) \/ SkipRegion(c) \/ SetupLevel(c)
          \/ BackSlot(c) \/ TakeObject(c) \/ NextSlot(c) \/ LeaveRegion(c) \/ Return(c)
          \/ ReclaimSlot(c) \/ ReclaimLevel(c)
       \/ \E o \in Objects : Free(o)

----------------------------------------------------------------------------
\* An object that was handed out keeps its color and all its pages, the page
\* table's included, while other objects are freed without a lock and pages are
\* reclaimed; a frame is present once or free; and what an iteration shows its
\* callback is there as long as the callback runs.  This ends where an allocation
\* runs out of pages half way: its entries stay for frames it has given back.
ObjectsKeepTheirPages ==
    \/ torn
    \/ /\ \A o \in live : LET k == <<o[1], o[2]>>
                          IN  o \in white /\ k \in level /\ PagesOf(k, o[3]) \subseteq pte
       /\ \A p \in pte : <<p[1], p[2]>> \in level
       /\ free + Cardinality(pte) + Cardinality(level) = Frames
       /\ \A c \in Cpus : pos[c].op \in {"walk", "dirty"} /\ pos[c].keep
                            => Area(c) \in level /\ PagesOf(Area(c), pos[c].slot) \subseteq pte
=============================================================================
