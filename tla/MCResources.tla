---------------------------- MODULE MCResources ----------------------------
(***************************************************************************)
(* The allocators and pools above the memory, one per behaviour: thread    *)
(* descriptors and stacks (ThreadCache), wait descriptors (WaitCache), the *)
(* kernel's malloc (Tlsf) and the descriptors of a virtio queue, with the  *)
(* enumeration that finds its device (Drivers).                            *)
(***************************************************************************)
EXTENDS Integers, FiniteSets, TLC

CONSTANTS Cpus, Threads, Callers, Half, Stacks, MaxDrift, Gone, Descriptors, Nil, WtHalf,
          SlLog, MaxLog, Pool, Sizes, Aligns, None, Slots, Size, Wrap, MaxReads

ASSUME ResourcesAssumption ==
    /\ IsFiniteSet(Cpus) /\ IsFiniteSet(Threads) /\ IsFiniteSet(Callers) /\ Gone \notin Cpus \cup Threads
    /\ IsFiniteSet(Descriptors) /\ Nil \notin Descriptors
    /\ {Half, Stacks, MaxDrift, WtHalf, SlLog, MaxLog, Pool, Slots, Size, Wrap, MaxReads} \subseteq Nat
    /\ Half > 0 /\ WtHalf > 0
    /\ Size > 0 /\ Wrap > 0 /\ Wrap % Size = 0 /\ Nil \notin 0 .. Size - 1
    /\ Pool <= 2 ^ MaxLog /\ Sizes \cup Aligns \subseteq Nat

VARIABLES
    part,               \* the pool this behaviour is about
    local, count, global, total, status, refs, stack, next, unused, all, call, owed, torn,
    cache, head, link, held, made,
    heap, given,
    kind, multi, resources, offered, main, device, msix, enabled, desc, more, first, added,
    avail, seen, used, taken, flight, irq, reads

T == INSTANCE ThreadCache
W == INSTANCE WaitCache
K == INSTANCE Tlsf
D == INSTANCE Drivers WITH status <- device, next <- desc

tvars == <<local, count, global, total, status, refs, stack, next, unused, all, call, owed, torn>>
wvars == <<cache, head, link, held, made>>
kvars == <<heap, given>>
dvars == <<kind, multi, resources, offered, main, device, msix, enabled, desc, more, first, added,
           avail, seen, used, taken, flight, irq, reads>>
vars == <<part, tvars, wvars, kvars, dvars>>

\* The PCI devices vary only where the drivers are looked at.
Init ==
    /\ part \in {"threads", "waits", "malloc", "drivers"}
    /\ T!Init /\ W!Init /\ K!Init /\ D!Init
    /\ part # "drivers" => (\A f \in DOMAIN kind : kind[f] = "absent") /\ \A s \in DOMAIN multi : ~multi[s]

Next ==
    \/ part = "threads" /\ T!Next /\ UNCHANGED <<part, wvars, kvars, dvars>>
    \/ part = "waits" /\ W!Next /\ UNCHANGED <<part, tvars, kvars, dvars>>
    \/ part = "malloc" /\ K!Next /\ UNCHANGED <<part, tvars, wvars, dvars>>
    \/ part = "drivers" /\ D!Next /\ UNCHANGED <<part, tvars, wvars, kvars>>

Spec == Init /\ [][Next]_vars

Symmetry == Permutations(Threads) \cup Permutations(Callers) \cup Permutations(Cpus)

----------------------------------------------------------------------------
(* Each property is looked at where its part moves; elsewhere that part is  *)
(* in its initial state.                                                   *)

\* create_thread never hands out a descriptor or a stack that somebody else has
\* (thread.c, stack.c).
ThreadsHeldOnce == part = "threads" => T!ThreadsHeldOnce

\* A wait descriptor is handed out once, and clean (thread.c).
WaitersGetCleanDescriptors == part = "waits" => W!WaitersGetCleanDescriptors

\* The blocks of the heap tile the pool, free neighbours are merged, lists and
\* bitmaps agree, and no allocation overlaps another (malloc.c, tlsf.c).
HeapSound == part = "malloc" => K!HeapSound

\* A descriptor of a queue is free or in one request (VirtioDevice.cs), and the
\* drivers are offered every function of the bus that was found, once (Pci.cs,
\* ResourceManager.cs).
DriversSound == part = "drivers" => D!DescriptorsOwnedOnce /\ D!EveryFunctionOffered
=============================================================================
