---------------------------- MODULE MemoryProofs ----------------------------
(***************************************************************************)
(* Proofs about the kernel below its threads: the boot, the interrupts of  *)
(* a CPU, the references of a wait handle, the frames of the physical      *)
(* memory and the pages of the object heap, for every number of CPUs,      *)
(* pages, callers, waitables and regions.                                  *)
(***************************************************************************)
EXTENDS MCMemory, FiniteSetTheorems, SequenceTheorems, WellFoundedInduction, TLAPS

LEMMA SameCardinality ==
    ASSUME NEW S
    PROVE  B!Cardinality(S) = Cardinality(S) /\ W!Cardinality(S) = Cardinality(S)
           /\ M!Cardinality(S) = Cardinality(S) /\ H!Cardinality(S) = Cardinality(S)
BY Zenon DEF Cardinality, B!Cardinality, W!Cardinality, M!Cardinality, H!Cardinality

\* The order of the natural numbers is well-founded, so a set of them has a
\* least element; a bounded one has a greatest element too.
LEMMA HasMin ==
    ASSUME NEW S \in SUBSET Nat, S # {}
    PROVE  \E m \in S : \A k \in S : m <= k
<1> DEFINE R == {ss \in Nat \X Nat : ss[1] < ss[2]}
<1>1. IsWellFoundedOn(R, Nat)
  BY NatLessThanWellFounded, Zenon DEF OpToRel
<1>2. \E x \in S : \A y \in S : ~ (<<y, x>> \in R)
  <2> HIDE DEF R
  <2> QED BY <1>1, WFMin, Zenon
<1>3. PICK x \in S : \A y \in S : ~ (<<y, x>> \in R)
  BY <1>2
<1>4. ASSUME NEW y \in S PROVE x <= y
  <2>1. ~ (<<y, x>> \in R)
    BY <1>3
  <2>2. x \in Nat /\ y \in Nat
    OBVIOUS
  <2>3. ~ (y < x)
    BY <2>1, <2>2
  <2> QED BY <2>2, <2>3
<1> QED BY <1>4

LEMMA HasMax ==
    ASSUME NEW n \in Nat, NEW S \in SUBSET (0..n), S # {}
    PROVE  \E m \in S : \A k \in S : m >= k
<1> DEFINE D == {d \in Nat : \E k \in S : d = n - k}
<1>1. D # {}
  <2>1. PICK k \in S : TRUE
    OBVIOUS
  <2>2. n - k \in D
    BY <2>1
  <2> QED BY <2>2
<1>2. PICK d \in D : \A e \in D : d <= e
  BY <1>1, HasMin
<1>3. PICK m \in S : d = n - m
  OBVIOUS
<1>4. ASSUME NEW k \in S PROVE m >= k
  <2>1. n - k \in D
    OBVIOUS
  <2> QED BY <2>1, <1>2, <1>3
<1> QED BY <1>4

----------------------------------------------------------------------------
(* The boot                                                                *)

\* Where the BSP and the other CPUs can be; the BSP is alone in AlonePc, and uses
\* the early allocator in EarlyPc.
EarlyPc == {"vmm", "tree", "palloc"}
AlonePc == EarlyPc \cup {"locals", "tss", "switch"}
BspPc == AlonePc \cup {"wait", "reset", "go", "halt", "count", "leave", "scheduler"}
ApPc == {"bootloader", "ap_locals", "ap_tss", "ap_ready", "ap_spin", "leave", "scheduler"}

\* The CPUs that have counted themselves before and after m_start_scheduler.
Spinning == {c \in Cpus : pc[c] = "ap_spin"}
Left == {c \in Cpus : pc[c] \in {"leave", "scheduler"}}

BootType ==
    /\ type \in [B!PageFrames -> {"usable", "reclaimable", "reserved"}]
    /\ entry \subseteq B!PageFrames /\ buddy \subseteq B!PageFrames
    /\ bsp \in Cpus /\ pc \in [Cpus -> BspPc \cup ApPc]
    /\ count \in Nat /\ error \in BOOLEAN /\ go \in BOOLEAN
    /\ startup \in {"none", "ready", "running", "done"}

\* The other CPUs start after the buddy allocator exists.
BootRoles ==
    /\ pc[bsp] \in BspPc
    /\ \A c \in Cpus \ {bsp} : pc[c] \in ApPc
    /\ pc[bsp] \in AlonePc => \A c \in Cpus \ {bsp} : pc[c] = "bootloader"

\* Every page has one owner or none.  While the early allocator is in use what
\* it has handed out is no longer in the map, which the buddy is built from.
BootPages ==
    /\ \A a \in owner : a[1] \in B!PageFrames /\ a[1] \notin buddy /\ type[a[1]] # "reserved"
    /\ \A a, b \in owner : a[1] = b[1] => a = b
    /\ \A f \in entry : type[f] = "usable"
    /\ pc[bsp] \in EarlyPc => buddy = {} /\ \A a \in owner : a[1] \notin entry
    /\ pc[bsp] = "palloc" => owner # {}
    /\ \A f \in buddy : type[f] # "reserved"
    /\ startup # "done" => /\ \A f \in buddy : type[f] = "usable"
                           /\ \A a \in owner : type[a[1]] = "usable"

\* m_startup_count counts two things one after the other: the CPUs that are
\* ready, until the BSP has seen all of them and resets it, and then those that
\* go to the scheduler.
BootCount ==
    /\ ~go => Left = {} /\ startup \in {"none", "ready"} /\ pc[bsp] \notin {"count", "leave", "scheduler"}
    /\ go => /\ count = Cardinality(Left) /\ pc[bsp] \in {"count", "leave", "scheduler"}
             /\ \A c \in Cpus \ {bsp} : pc[c] \in {"ap_spin", "leave", "scheduler"}
    /\ ~go /\ pc[bsp] # "go" => count = Cardinality(Spinning)
    /\ pc[bsp] \in {"reset", "go"} => Spinning = Cpus \ {bsp}
    /\ pc[bsp] = "go" => count = 0
    /\ startup = "done" => Left = Cpus

BootInv == BootType /\ BootRoles /\ BootPages /\ BootCount

LEMMA BootInit == B!Init => BootInv
<1> SUFFICES ASSUME B!Init PROVE BootInv
  OBVIOUS
<1>1. Left = {} /\ Spinning = {}
  BY DEF B!Init, Left, Spinning
<1>2. Cardinality(Spinning) = 0
  BY <1>1, FS_EmptySet, Zenon
<1>3. BootType
  BY DEF B!Init, BootType, EarlyPc, AlonePc, BspPc, ApPc
<1>4. BootRoles
  BY DEF B!Init, BootRoles, EarlyPc, AlonePc, BspPc, ApPc
<1>5. BootPages
  BY DEF B!Init, BootPages
<1>6. BootCount
  BY <1>1, <1>2 DEF B!Init, BootCount
<1> QED BY <1>3, <1>4, <1>5, <1>6 DEF BootInv

LEMMA CpuSets ==
    /\ IsFiniteSet(Left) /\ IsFiniteSet(Spinning) /\ IsFiniteSet(Cpus)
    /\ Cardinality(Left) \in Nat /\ Cardinality(Spinning) \in Nat /\ Cardinality(Cpus) \in Nat
BY MemoryAssumption, FS_Subset, FS_CardinalityType DEF Left, Spinning

\* A CPU that goes on within its role, and is not counted.
LEMMA BootMoves ==
    ASSUME BootInv, NEW c \in Cpus, NEW l \in BspPc \cup ApPc, B!Goto(c, l),
           UNCHANGED <<type, bsp, count, error, go, startup>>,
           entry' \subseteq B!PageFrames, buddy' \subseteq B!PageFrames,
           c = bsp => l \in BspPc, c # bsp => l \in ApPc,
           pc[c] \in AlonePc => c = bsp, pc[c] \notin AlonePc => l \notin AlonePc,
           pc[c] = "ap_spin" <=> l = "ap_spin",
           pc[c] \in {"leave", "scheduler"} <=> l \in {"leave", "scheduler"},
           pc[c] \notin {"wait", "reset", "go", "bootloader"} , l \notin {"reset", "go", "count"},
           go => pc[c] \in {"leave", "scheduler"}
    PROVE  BootType' /\ BootRoles' /\ BootCount'
<1>1. Left' = Left /\ Spinning' = Spinning
  BY DEF BootInv, BootType, B!Goto, Left, Spinning
<1>2. Cardinality(Left)' = Cardinality(Left) /\ Cardinality(Spinning)' = Cardinality(Spinning)
  BY <1>1
<1>3. pc' = [pc EXCEPT ![c] = l] /\ pc \in [Cpus -> BspPc \cup ApPc]
  BY DEF BootInv, BootType, B!Goto
<1>4. BootType'
  BY <1>3 DEF BootInv, BootType, B!PageFrames
<1>5. BootRoles'
  BY <1>3 DEF BootInv, BootType, BootRoles, EarlyPc, AlonePc, BspPc, ApPc
<1>6. BootCount'
  BY <1>1, <1>2, <1>3 DEF BootInv, BootType, BootRoles, BootCount, EarlyPc, AlonePc, BspPc, ApPc
<1> QED BY <1>4, <1>5, <1>6

\* The early allocator cuts its page off the map.
LEMMA BootEarlyAlloc ==
    ASSUME BootInv, NEW c \in Cpus, pc[c] \in {"vmm", "tree"}, NEW what, NEW l \in {"tree", "palloc"},
           B!EarlyAlloc(c, what, l)
    PROVE  BootInv'
<1>1. c = bsp
  BY DEF BootInv, BootType, BootRoles, ApPc
<1>2. B!Goto(c, l) /\ UNCHANGED <<type, bsp, count, error, go, startup, buddy>>
  BY DEF B!EarlyAlloc
<1>3. PICK f \in entry : f = B!Min(entry)
  <2>1. entry \subseteq Nat /\ entry # {}
    BY MemoryAssumption DEF BootInv, BootType, B!PageFrames, B!EarlyAlloc
  <2>2. \E m \in entry : \A k \in entry : m <= k
    BY <2>1, HasMin
  <2> QED BY <2>2 DEF B!Min
<1>4. entry' = entry \ {f} /\ owner' = owner \cup {<<f, what>>}
  BY <1>3 DEF B!EarlyAlloc
<1>5. ~go
  BY <1>1 DEF BootInv, BootType, BootCount
<1>6. BootType' /\ BootRoles' /\ BootCount'
  <2>1. entry' \subseteq B!PageFrames /\ buddy' \subseteq B!PageFrames
    BY <1>2, <1>4 DEF BootInv, BootType
  <2> QED BY <1>1, <1>2, <1>5, <2>1, BootMoves DEF EarlyPc, AlonePc, BspPc, ApPc
<1>7. BootPages'
  <2>1. f \in B!PageFrames /\ f \notin buddy /\ type[f] = "usable"
    <3>1. startup # "done"
      BY <1>5 DEF BootInv, BootCount
    <3>2. buddy = {}
      BY <1>1 DEF BootInv, BootPages, EarlyPc
    <3> QED BY <3>2 DEF BootInv, BootType, BootPages
  <2>2. \A a \in owner : a[1] # f
    BY <1>1 DEF BootInv, BootPages, EarlyPc
  <2>3. \A a \in owner' : a \in owner \/ (a = <<f, what>> /\ a[1] = f)
    BY <1>4
  <2>4. \A a \in owner' : /\ a[1] \in B!PageFrames' /\ a[1] \notin buddy' /\ type'[a[1]] # "reserved"
                          /\ a[1] \notin entry' /\ (startup' # "done" => type'[a[1]] = "usable")
    BY <1>1, <1>2, <1>4, <2>1, <2>3 DEF BootInv, BootPages, EarlyPc, B!PageFrames
  <2>5. \A a, b \in owner' : a[1] = b[1] => a = b
    BY <2>2, <2>3 DEF BootInv, BootPages
  <2>6. owner' # {} /\ entry' \subseteq entry
    BY <1>4
  <2> QED BY <1>1, <1>2, <2>4, <2>5, <2>6 DEF BootInv, BootPages, EarlyPc
<1> QED BY <1>6, <1>7 DEF BootInv

\* The buddy allocator hands out a page that it has.
LEMMA BootAlloc ==
    ASSUME BootInv, NEW c \in Cpus, NEW what, NEW l,
           <<pc[c], l>> \in {<<"locals", "tss">>, <<"tss", "switch">>, <<"ap_locals", "ap_tss">>,
                             <<"ap_tss", "ap_ready">>, <<"scheduler", "scheduler">>},
           B!Alloc(c, what, l)
    PROVE  BootInv'
<1>1. PICK f \in buddy : buddy' = buddy \ {f} /\ owner' = owner \cup {<<f, what>>}
  BY DEF B!Alloc
<1>2. B!Goto(c, l) /\ UNCHANGED <<type, bsp, count, error, go, startup, entry>>
  BY DEF B!Alloc
<1>3. BootType' /\ BootRoles' /\ BootCount'
  BY <1>1, <1>2, BootMoves DEF BootInv, BootType, BootRoles, BootCount, EarlyPc, AlonePc, BspPc, ApPc
<1>4. BootPages'
  <2>1. f \in B!PageFrames /\ type[f] # "reserved" /\ (startup # "done" => type[f] = "usable")
    BY DEF BootInv, BootType, BootPages
  <2>2. \A a \in owner : a[1] # f
    BY DEF BootInv, BootPages
  <2>3. pc'[bsp] \notin EarlyPc
    BY <1>2 DEF BootInv, BootType, BootRoles, B!Goto, EarlyPc, AlonePc
  <2> QED BY <1>1, <1>2, <2>1, <2>2, <2>3 DEF BootInv, BootPages, EarlyPc
<1> QED BY <1>3, <1>4 DEF BootInv

LEMMA BootHalt ==
    ASSUME BootInv, NEW c \in Cpus, pc[c] \in {"vmm", "tree", "locals", "tss"}, B!Halt(c)
    PROVE  BootInv'
<1>1. B!Goto(c, "halt") /\ UNCHANGED <<type, entry, buddy, owner, bsp, count, error, go, startup>>
  BY DEF B!Halt
<1>2. c = bsp
  BY DEF BootInv, BootRoles, ApPc
<1>3. BootType' /\ BootRoles' /\ BootCount'
  BY <1>1, <1>2, BootMoves DEF BootInv, BootType, BootCount, EarlyPc, AlonePc, BspPc, ApPc
<1>4. BootPages'
  BY <1>1, <1>2 DEF BootInv, BootType, BootPages, B!Goto, EarlyPc
<1> QED BY <1>3, <1>4 DEF BootInv

\* The buddy is built from what is left in the map.
LEMMA BootInitPalloc ==
    ASSUME BootInv, NEW c \in Cpus, B!InitPalloc(c)
    PROVE  BootInv'
<1> DEFINE S == {f \in B!PageFrames : type[f] \in {"usable", "reclaimable"}}
           top == B!Max(S)
<1>1. pc[c] = "palloc" /\ c = bsp /\ ~go
  BY DEF B!InitPalloc, BootInv, BootType, BootRoles, BootCount, ApPc
<1>2. B!Goto(c, "locals") /\ UNCHANGED <<type, entry, owner, bsp, count, error, go, startup>>
      /\ buddy' = {f \in 1..top : f \notin B!UnusableBelowTop} \ {f \in B!PageFrames : type[f] = "reclaimable"}
  BY DEF B!InitPalloc
<1>3. top \in B!PageFrames
  <2>1. S # {}
    <3>1. PICK a \in owner : TRUE
      BY <1>1 DEF BootInv, BootPages
    <3>2. a[1] \in S
      BY <1>1 DEF BootInv, BootPages, BootType
    <3> QED BY <3>2
  <2>2. TopPage \in Nat /\ S \in SUBSET (0..TopPage)
    BY MemoryAssumption DEF B!PageFrames
  <2>3. \E m \in S : \A k \in S : m >= k
    BY <2>1, <2>2, HasMax
  <2>4. top \in S
    BY <2>3 DEF B!Max
  <2> QED BY <2>4
<1>4. buddy' \subseteq entry
  <2> SUFFICES ASSUME NEW f \in buddy' PROVE f \in entry
    OBVIOUS
  <2>1. f \in 1..top /\ f \notin B!UnusableBelowTop /\ f \notin {g \in B!PageFrames : type[g] = "reclaimable"}
    BY <1>2
  <2>2. f \in B!PageFrames
    BY <2>1, <1>3, MemoryAssumption DEF B!PageFrames
  <2> QED BY <2>1, <2>2 DEF B!UnusableBelowTop, B!Listed
<1> HIDE DEF S, top
<1>5. BootType' /\ BootRoles' /\ BootCount'
  BY <1>1, <1>2, <1>4, BootMoves DEF BootInv, BootType, EarlyPc, AlonePc, BspPc, ApPc
<1>6. BootPages'
  <2>1. pc'[bsp] = "locals" /\ bsp' = bsp
    BY <1>1, <1>2 DEF BootInv, BootType, B!Goto
  <2> QED BY <1>1, <1>2, <1>4, <2>1 DEF BootInv, BootPages, EarlyPc
<1> QED BY <1>5, <1>6 DEF BootInv

\* The steps that leave the pages alone and move one CPU outside of the early
\* part of the boot.
LEMMA BootKeepsPages ==
    ASSUME BootInv, pc'[bsp] \notin EarlyPc, UNCHANGED <<type, entry, buddy, owner, bsp>>,
           startup' = "done" => startup = "done", startup = "done" => startup' = "done"
    PROVE  BootPages'
BY DEF BootInv, BootType, BootPages, EarlyPc, B!PageFrames

LEMMA BootStartSmp ==
    ASSUME BootInv, NEW c \in Cpus, B!StartSmp(c)
    PROVE  BootInv'
<1>1. c = bsp /\ ~go
  BY DEF B!StartSmp, BootInv, BootType, BootRoles, BootCount, ApPc
<1>2. pc' = [d \in Cpus |-> IF d = c THEN "wait" ELSE "ap_locals"] /\ pc[bsp] = "switch"
      /\ UNCHANGED <<type, entry, buddy, owner, bsp, count, error, go, startup>>
  BY <1>1 DEF B!StartSmp
<1>3. BootType'
  BY <1>2 DEF BootInv, BootType, AlonePc, EarlyPc, BspPc, ApPc, B!PageFrames
<1>4. BootRoles'
  BY <1>1, <1>2, <1>3 DEF BootInv, BootType, BootRoles, AlonePc, EarlyPc, BspPc, ApPc
<1>5. BootPages'
  BY <1>1, <1>2, BootKeepsPages DEF BootInv, BootType, EarlyPc
<1>6. BootCount'
  <2>1. count = Cardinality(Spinning) /\ Left' = {} /\ Spinning' = {}
    BY <1>1, <1>2 DEF BootInv, BootType, BootCount, Left, Spinning
  <2>2. Spinning = {}
    BY <1>1, <1>2 DEF BootInv, BootRoles, Spinning, AlonePc
  <2> QED BY <1>1, <1>2, <2>1, <2>2 DEF BootInv, BootType, BootCount
<1> QED BY <1>3, <1>4, <1>5, <1>6 DEF BootInv

\* A CPU counts itself as ready, or fails and goes on to be counted all the same.
LEMMA BootApReady ==
    ASSUME BootInv, NEW c \in Cpus, B!ApReady(c)
    PROVE  BootInv'
<1>1. pc[c] = "ap_ready" /\ count' = count + 1 /\ pc' = [pc EXCEPT ![c] = "ap_spin"]
      /\ UNCHANGED <<type, entry, buddy, owner, bsp, error, go, startup>>
  BY DEF B!ApReady, B!Goto
<1>2. c # bsp /\ ~go /\ pc[bsp] \notin {"reset", "go"} /\ pc[bsp] \notin AlonePc
  BY <1>1 DEF BootInv, BootType, BootRoles, BootCount, Spinning, AlonePc, EarlyPc, BspPc
<1>3. pc \in [Cpus -> BspPc \cup ApPc] /\ pc'[bsp] = pc[bsp]
  BY <1>1, <1>2 DEF BootInv, BootType
<1>4. Spinning' = Spinning \cup {c} /\ c \notin Spinning /\ Left' = Left
  BY <1>1, <1>3 DEF Spinning, Left
<1>5. Cardinality(Spinning') = Cardinality(Spinning) + 1
  BY <1>4, CpuSets, FS_AddElement, Zenon
<1>6. BootType'
  BY <1>1, <1>3 DEF BootInv, BootType, ApPc, B!PageFrames
<1>7. BootRoles'
  BY <1>1, <1>2, <1>3 DEF BootInv, BootType, BootRoles, ApPc
<1>8. BootPages'
  BY <1>1, <1>2, <1>3, BootKeepsPages DEF AlonePc
<1>9. BootCount'
  BY <1>1, <1>2, <1>3, <1>4, <1>5 DEF BootInv, BootType, BootCount
<1> QED BY <1>6, <1>7, <1>8, <1>9 DEF BootInv

LEMMA BootApError ==
    ASSUME BootInv, NEW c \in Cpus, pc[c] \in {"ap_locals", "ap_tss"}, B!Goto(c, "ap_ready"),
           error' = TRUE, UNCHANGED <<type, entry, buddy, owner, bsp, count, go, startup>>
    PROVE  BootInv'
<1>1. c # bsp /\ ~go /\ pc[bsp] \notin AlonePc
  BY DEF BootInv, BootType, BootRoles, BootCount, Spinning, AlonePc, EarlyPc, BspPc
<1>2. pc \in [Cpus -> BspPc \cup ApPc] /\ pc' = [pc EXCEPT ![c] = "ap_ready"] /\ pc'[bsp] = pc[bsp]
  BY <1>1 DEF BootInv, BootType, B!Goto
<1>3. Spinning' = Spinning /\ Left' = Left
  BY <1>2 DEF Spinning, Left
<1>4. BootType'
  BY <1>2 DEF BootInv, BootType, ApPc, B!PageFrames
<1>5. BootRoles'
  BY <1>1, <1>2 DEF BootInv, BootType, BootRoles, ApPc
<1>6. BootPages'
  BY <1>1, <1>2, BootKeepsPages DEF AlonePc
<1>7. BootCount'
  BY <1>1, <1>2, <1>3 DEF BootInv, BootType, BootCount
<1> QED BY <1>4, <1>5, <1>6, <1>7 DEF BootInv

\* A CPU counts itself for the second time, and goes to the scheduler.
LEMMA BootCountsLeft ==
    ASSUME BootInv, NEW c \in Cpus, go, pc[c] = IF c = bsp THEN "count" ELSE "ap_spin",
           count' = count + 1, B!Goto(c, "leave"),
           UNCHANGED <<type, entry, buddy, owner, bsp, error, go, startup>>
    PROVE  BootInv'
<1>1. pc \in [Cpus -> BspPc \cup ApPc] /\ pc' = [pc EXCEPT ![c] = "leave"]
  BY DEF BootInv, BootType, B!Goto
<1>2. Left' = Left \cup {c} /\ c \notin Left
  BY <1>1 DEF Left
<1>3. Cardinality(Left') = Cardinality(Left) + 1
  BY <1>2, CpuSets, FS_AddElement, Zenon
<1>4. pc[bsp] \in {"count", "leave", "scheduler"} /\ pc'[bsp] \in {"count", "leave", "scheduler"}
  BY <1>1 DEF BootInv, BootType, BootCount
<1>5. BootType'
  BY <1>1 DEF BootInv, BootType, ApPc, B!PageFrames
<1>6. BootRoles'
  BY <1>1, <1>4 DEF BootInv, BootType, BootRoles, AlonePc, EarlyPc, BspPc, ApPc
<1>7. BootPages'
  BY <1>4, BootKeepsPages DEF EarlyPc
<1>8. BootCount'
  BY <1>1, <1>2, <1>3, <1>4 DEF BootInv, BootType, BootCount
<1> QED BY <1>5, <1>6, <1>7, <1>8 DEF BootInv

\* The BSP goes on when the count says that all the others are ready, and then
\* all of them are waiting for m_start_scheduler.
LEMMA BootWait ==
    ASSUME BootInv, NEW c \in Cpus, B!Wait(c)
    PROVE  BootInv'
<1>1. PICK l \in {"halt", "reset"} : pc[c] = "wait" /\ pc' = [pc EXCEPT ![c] = l]
      /\ UNCHANGED <<type, entry, buddy, owner, bsp, count, error, go>>
  BY DEF B!Wait, B!Goto
<1>2. c = bsp /\ ~go
  BY <1>1 DEF BootInv, BootType, BootRoles, BootCount, ApPc
<1>3. pc \in [Cpus -> BspPc \cup ApPc] /\ pc'[bsp] = l
  BY <1>1, <1>2 DEF BootInv, BootType
<1>4. startup \in {"none", "ready"} /\ startup' \in {"none", "ready"}
  BY <1>2 DEF BootInv, BootCount, B!Wait
<1>5. Spinning' = Spinning /\ Left' = Left
  BY <1>1, <1>3 DEF Spinning, Left
<1>6. Spinning = Cpus \ {bsp}
  <2>1. Cardinality(Cpus \ {bsp}) = Cardinality(Cpus) - 1 /\ IsFiniteSet(Cpus \ {bsp})
    BY CpuSets, FS_RemoveElement, Zenon DEF BootInv, BootType
  <2>2. Cardinality(Spinning) = Cardinality(Cpus \ {bsp})
    BY <1>1, <1>2, <2>1, SameCardinality DEF B!Wait, BootInv, BootCount
  <2>3. Spinning \in SUBSET (Cpus \ {bsp})
    BY <1>1, <1>2 DEF Spinning
  <2> QED BY <2>1, <2>2, <2>3, FS_Subset, Zenon
<1>7. BootType'
  BY <1>1, <1>3, <1>4 DEF BootInv, BootType, BspPc, B!PageFrames
<1>8. BootRoles'
  BY <1>1, <1>2, <1>3 DEF BootInv, BootType, BootRoles, AlonePc, EarlyPc, BspPc
<1>9. BootPages'
  BY <1>1, <1>3, <1>4, BootKeepsPages DEF EarlyPc
<1>10. BootCount'
  BY <1>1, <1>2, <1>3, <1>4, <1>5, <1>6 DEF BootInv, BootType, BootCount
<1> QED BY <1>7, <1>8, <1>9, <1>10 DEF BootInv

\* The count is used again: nobody counts itself between the reset and the go.
LEMMA BootReset ==
    ASSUME BootInv, NEW c \in Cpus, B!Reset(c) \/ B!Go(c)
    PROVE  BootInv'
<1>1. PICK l \in {"go", "count"} :
        /\ pc[c] = (IF l = "go" THEN "reset" ELSE "go") /\ pc' = [pc EXCEPT ![c] = l]
        /\ count' = 0 /\ go' = (go \/ l = "count")
        /\ UNCHANGED <<type, entry, buddy, owner, bsp, error, startup>>
  <2>1. CASE B!Reset(c)
    BY <2>1 DEF B!Reset, B!Goto, BootInv, BootType
  <2>2. CASE B!Go(c)
    <3>1. pc[c] = "go" /\ c = bsp
      BY <2>2 DEF B!Go, BootInv, BootRoles, ApPc
    <3>2. count = 0
      BY <3>1 DEF BootInv, BootCount
    <3> QED BY <2>2, <3>2 DEF B!Go, B!Goto, BootInv, BootType
  <2> QED BY <2>1, <2>2
<1>2. c = bsp
  BY <1>1 DEF BootInv, BootRoles, ApPc
<1>3. ~go
  BY <1>1, <1>2 DEF BootInv, BootCount
<1>4. pc \in [Cpus -> BspPc \cup ApPc] /\ pc'[bsp] = l
  BY <1>1, <1>2 DEF BootInv, BootType
<1>5. Spinning' = Spinning /\ Left' = {} /\ Left = {} /\ Spinning = Cpus \ {bsp}
  BY <1>1, <1>2, <1>3, <1>4 DEF Spinning, Left, BootInv, BootCount
<1>6. Cardinality(Left') = 0
  BY <1>5, FS_EmptySet, Zenon
<1>7. BootType'
  BY <1>1, <1>4 DEF BootInv, BootType, BspPc, B!PageFrames
<1>8. BootRoles'
  BY <1>1, <1>2, <1>4 DEF BootInv, BootType, BootRoles, AlonePc, EarlyPc, BspPc
<1>9. BootPages'
  BY <1>1, <1>4, BootKeepsPages DEF EarlyPc
<1>10. BootCount'
  <2>1. \A d \in Cpus \ {bsp} : pc'[d] = "ap_spin"
    BY <1>5 DEF Spinning
  <2> QED BY <1>1, <1>3, <1>4, <1>5, <1>6, <2>1 DEF BootInv, BootType, BootCount
<1> QED BY <1>7, <1>8, <1>9, <1>10 DEF BootInv

LEMMA BootLeave ==
    ASSUME BootInv, NEW c \in Cpus, B!Leave(c)
    PROVE  BootInv'
<1>1. pc[c] = "leave" /\ pc' = [pc EXCEPT ![c] = "scheduler"]
      /\ UNCHANGED <<type, entry, buddy, owner, bsp, count, error, go>>
  BY DEF B!Leave, B!Goto
<1>2. startup' \in {"none", "ready", "running", "done"} /\ (startup' = "done" <=> startup = "done")
  BY DEF B!Leave, BootInv, BootType
<1>3. go
  BY <1>1 DEF BootInv, BootCount, Left
<1>4. pc \in [Cpus -> BspPc \cup ApPc]
  BY DEF BootInv, BootType
<1>5. Spinning' = Spinning /\ Left' = Left
  BY <1>1, <1>4 DEF Spinning, Left
<1>6. pc[bsp] \in {"count", "leave", "scheduler"} /\ pc'[bsp] \in {"count", "leave", "scheduler"}
  BY <1>1, <1>3, <1>4 DEF BootInv, BootType, BootCount
<1>7. BootType'
  BY <1>1, <1>2, <1>4 DEF BootInv, BootType, BspPc, B!PageFrames
<1>8. BootRoles'
  BY <1>1, <1>4, <1>6 DEF BootInv, BootType, BootRoles, AlonePc, EarlyPc, BspPc, ApPc
<1>9. BootPages'
  BY <1>1, <1>2, <1>6, BootKeepsPages DEF EarlyPc
<1>10. BootCount'
  BY <1>1, <1>2, <1>3, <1>4, <1>5, <1>6 DEF BootInv, BootType, BootCount
<1> QED BY <1>7, <1>8, <1>9, <1>10 DEF BootInv

\* The pages of the bootloader are usable from then on.  They were in nobody's
\* hands, and every CPU has been counted for the second time.
LEMMA BootReclaim ==
    ASSUME BootInv, B!Reclaim
    PROVE  BootInv'
<1>1. startup = "running" /\ count = Cardinality(Cpus) /\ startup' = "done"
      /\ buddy' = buddy \cup {f \in B!PageFrames : type[f] = "reclaimable"}
      /\ UNCHANGED <<type, entry, owner, bsp, pc, count, error, go>>
  BY SameCardinality DEF B!Reclaim
<1>2. go /\ count = Cardinality(Left)
  BY <1>1 DEF BootInv, BootType, BootCount
<1>3. Left' = Left /\ Spinning' = Spinning
  BY <1>1 DEF Left, Spinning
<1>4. Left = Cpus
  <2>1. Left \in SUBSET Cpus
    BY DEF Left
  <2> QED BY <1>1, <1>2, <2>1, CpuSets, FS_Subset, Zenon
<1>5. BootType' /\ BootRoles'
  BY <1>1 DEF BootInv, BootType, BootRoles, B!PageFrames
<1>6. BootPages'
  <2>1. pc[bsp] \notin EarlyPc
    BY <1>2 DEF BootInv, BootCount, EarlyPc
  <2>2. \A f \in buddy' : f \in B!PageFrames /\ type[f] # "reserved"
    BY <1>1 DEF BootInv, BootType, BootPages
  <2>3. \A a \in owner : a[1] \notin buddy'
    BY <1>1 DEF BootInv, BootPages
  <2> QED BY <1>1, <2>1, <2>2, <2>3 DEF BootInv, BootPages, B!PageFrames, EarlyPc
<1>7. BootCount'
  BY <1>1, <1>2, <1>3, <1>4 DEF BootInv, BootType, BootCount
<1> QED BY <1>5, <1>6, <1>7 DEF BootInv

LEMMA BootNext == BootInv /\ B!Next => BootInv'
<1> SUFFICES ASSUME BootInv, B!Next PROVE BootInv'
  OBVIOUS
<1>1. CASE B!Reclaim
  BY <1>1, BootReclaim
<1>2. ASSUME NEW c \in Cpus, B!BspStep(c) PROVE BootInv'
  <2>1. CASE B!InitVmm(c)
    BY <2>1, BootEarlyAlloc, BootHalt DEF B!InitVmm
  <2>2. CASE B!BuddyTree(c)
    BY <2>2, BootEarlyAlloc, BootHalt DEF B!BuddyTree
  <2>3. CASE B!InitPalloc(c)
    BY <2>3, BootInitPalloc
  <2>4. CASE B!CpuLocals(c)
    BY <2>4, BootAlloc, BootHalt DEF B!CpuLocals
  <2>5. CASE B!Tss(c)
    BY <2>5, BootAlloc, BootHalt DEF B!Tss
  <2>6. CASE B!StartSmp(c)
    BY <2>6, BootStartSmp
  <2>7. CASE B!Wait(c)
    BY <2>7, BootWait
  <2>8. CASE B!Reset(c) \/ B!Go(c)
    BY <2>8, BootReset
  <2>9. CASE B!Count(c)
    <3>1. c = bsp /\ go
      BY <2>9 DEF B!Count, BootInv, BootType, BootRoles, BootCount, ApPc
    <3> QED BY <2>9, <3>1, BootCountsLeft DEF B!Count
  <2> QED BY <1>2, <2>1, <2>2, <2>3, <2>4, <2>5, <2>6, <2>7, <2>8, <2>9 DEF B!BspStep
<1>3. ASSUME NEW c \in Cpus, B!ApStep(c) PROVE BootInv'
  <2>1. CASE B!ApLocals(c)
    <3>1. CASE pc[c] = "ap_locals" /\ B!Alloc(c, "locals", "ap_tss")
      BY <3>1, BootAlloc
    <3>2. CASE /\ pc[c] = "ap_locals" /\ B!Goto(c, "ap_ready") /\ error' = TRUE
               /\ UNCHANGED <<type, entry, buddy, owner, bsp, count, go, startup>>
      BY <3>2, BootApError
    <3> QED BY <2>1, <3>1, <3>2 DEF B!ApLocals
  <2>2. CASE B!ApTss(c)
    <3>1. CASE pc[c] = "ap_tss" /\ B!Alloc(c, "tss", "ap_ready")
      BY <3>1, BootAlloc
    <3>2. CASE /\ pc[c] = "ap_tss" /\ B!Goto(c, "ap_ready") /\ error' = TRUE
               /\ UNCHANGED <<type, entry, buddy, owner, bsp, count, go, startup>>
      BY <3>2, BootApError
    <3> QED BY <2>2, <3>1, <3>2 DEF B!ApTss
  <2>3. CASE B!ApReady(c)
    BY <2>3, BootApReady
  <2>4. CASE B!ApStart(c)
    <3>1. c # bsp
      BY <2>4 DEF B!ApStart, BootInv, BootRoles, BspPc, AlonePc, EarlyPc
    <3> QED BY <2>4, <3>1, BootCountsLeft DEF B!ApStart
  <2> QED BY <1>3, <2>1, <2>2, <2>3, <2>4 DEF B!ApStep
<1>4. ASSUME NEW c \in Cpus, B!Leave(c) \/ B!Run(c) PROVE BootInv'
  BY <1>4, BootLeave, BootAlloc DEF B!Run
<1> QED BY <1>1, <1>2, <1>3, <1>4 DEF B!Next

LEMMA BootStutter == BootInv /\ UNCHANGED bvars => BootInv'
BY DEF BootInv, BootType, BootRoles, BootPages, BootCount, bvars, Left, Spinning, B!PageFrames

LEMMA BootInvIsApart == BootInv => BootMemoryApart
<1> SUFFICES ASSUME BootInv PROVE B!BootMemoryApart
  BY DEF BootMemoryApart
<1>1. startup # "done" => \A f \in buddy \cup {a[1] : a \in owner} : type[f] = "usable"
  BY DEF BootInv, BootPages
<1>2. startup = "done" => \A c \in Cpus : pc[c] \in {"leave", "scheduler"}
  BY DEF BootInv, BootCount, Left
<1> QED BY <1>1, <1>2 DEF BootInv, BootPages, B!BootMemoryApart

\* BootMemoryApart, for every number of CPUs, whichever of them boots, and every
\* memory map: what the early allocator took out of the map is not handed out
\* again by the buddy allocator, no page has two owners, reserved pages are in
\* nobody's hands, and the bootloader's only once every CPU has been counted for
\* the second time (early.c, phys.c, kernel.c).
THEOREM BootMemoryStaysApart == Spec => []BootMemoryApart
<1>1. Init => BootInv
  BY BootInit DEF Init
<1>2. BootInv /\ [Next]_vars => BootInv'
  BY BootNext, BootStutter DEF Next, vars
<1> QED BY <1>1, <1>2, BootInvIsApart, PTL DEF Spec

----------------------------------------------------------------------------
(* The interrupts of a CPU                                                 *)

Vectors == {"preempt", "wakeup", "device", "yield", "park", "drop", "spurious", "pagefault"}
Handler == [v : Vectors, at : {"enter", "find", "hlt", "woke"}]

InScheduler(a) == a.v \in I!Scheduler /\ a.at \in {"find", "hlt", "woke"}

\* At most two handlers are in progress, and only find_runnable is ever
\* interrupted: by a page fault where it works, by an interrupt where it sleeps.
StackInv ==
    /\ frames \in Seq(Handler) /\ Len(frames) <= 2
    /\ Len(frames) = 0 => current /\ ints
    /\ Len(frames) = 1 =>
          \/ frames[1].at = "enter" /\ current /\ ~ints
          \/ InScheduler(frames[1]) /\ ~current /\ (ints <=> frames[1].at # "find")
    /\ Len(frames) = 2 =>
          /\ InScheduler(frames[1]) /\ frames[2].at = "enter" /\ ~current /\ ~ints
          /\ frames[2].v \in I!Hardware \cup {"spurious", "pagefault"}
          /\ frames[2].v = "preempt" => frames[1].v # "preempt"
          /\ frames[2].v = "pagefault" => frames[1].at = "find"

\* The interrupts of the local APIC that the handlers on a stack are serving.
InHand(s) == {v \in I!Hardware : \E i \in 1..Len(s) : s[i].v = v}

\* A time slice that was dispatched away is never handled again.
InterruptInv ==
    /\ current \in BOOLEAN /\ ints \in BOOLEAN /\ StackInv
    /\ gone \subseteq {"preempt"} /\ gone \cap InHand(frames) = {} /\ isr = InHand(frames) \cup gone

LEMMA InterruptInit == I!Init => InterruptInv
BY DEF I!Init, InterruptInv, StackInv, InHand

LEMMA AppendElements ==
    ASSUME NEW S, NEW q \in Seq(S), NEW e \in S
    PROVE  /\ Append(q, e) \in Seq(S) /\ Len(Append(q, e)) = Len(q) + 1 /\ Len(q) \in Nat
           /\ \A i \in 1..Len(q) : Append(q, e)[i] = q[i]
           /\ Append(q, e)[Len(q) + 1] = e
OBVIOUS

LEMMA FrontElements ==
    ASSUME NEW S, NEW q \in Seq(S), q # << >>
    PROVE  /\ Len(q) \in Nat /\ Len(q) > 0 /\ q[Len(q)] \in S
           /\ I!Front(q) \in Seq(S) /\ Len(I!Front(q)) = Len(q) - 1
           /\ \A i \in 1..(Len(q) - 1) : I!Front(q)[i] = q[i]
           /\ M!Front(q) = I!Front(q) /\ M!Last(q) = q[Len(q)] /\ I!Last(q) = q[Len(q)]
<1>1. Len(q) \in Nat /\ Len(q) > 0 /\ \A i \in 1..Len(q) : q[i] \in S
  BY EmptySeq, LenProperties
<1>2. PICK n \in Nat : n = Len(q) - 1 /\ I!Front(q) = SubSeq(q, 1, n) /\ \A i \in 1..n : q[i] \in S
  BY <1>1 DEF I!Front
<1>3. /\ SubSeq(q, 1, n) \in Seq(S) /\ Len(SubSeq(q, 1, n)) = (IF 1 <= n THEN n - 1 + 1 ELSE 0)
      /\ \A i \in 1..(n - 1 + 1) : SubSeq(q, 1, n)[i] = q[1 + i - 1]
  BY <1>2, SubSeqProperties
<1>4. Len(SubSeq(q, 1, n)) = n /\ \A i \in 1..n : SubSeq(q, 1, n)[i] = q[i]
  BY <1>3
<1>5. I!Front(q) \in Seq(S) /\ Len(I!Front(q)) = Len(q) - 1
      /\ \A i \in 1..(Len(q) - 1) : I!Front(q)[i] = q[i]
  BY <1>2, <1>3, <1>4
<1> QED BY <1>1, <1>5 DEF M!Front, I!Front, M!Last, I!Last

LEMMA StackFacts ==
    ASSUME StackInv
    PROVE  /\ Len(frames) \in {0, 1, 2} /\ (frames = <<>> <=> Len(frames) = 0)
           /\ \A i \in 1..Len(frames) : frames[i] \in Handler
           /\ frames # <<>> => I!Last(frames) = frames[Len(frames)]
<1>1. Len(frames) \in Nat /\ (frames = <<>> <=> Len(frames) = 0)
      /\ \A i \in 1..Len(frames) : frames[i] \in Handler
  BY EmptySeq, LenProperties DEF StackInv
<1>2. frames # <<>> => I!Last(frames) = frames[Len(frames)]
  BY DEF I!Last
<1>3. Len(frames) <= 2
  BY DEF StackInv
<1>4. Len(frames) \in {0, 1, 2}
  <2>1. PICK n \in Nat : n = Len(frames)
    BY <1>1
  <2>2. n <= 2
    BY <1>3, <2>1
  <2>3. n \in {0, 1, 2}
    BY <2>2
  <2> QED BY <2>1, <2>3
<1> QED BY <1>1, <1>2, <1>4

\* A handler starts.
LEMMA InterruptPush ==
    ASSUME InterruptInv, NEW v \in Vectors,
           frames' = Append(frames, [v |-> v, at |-> "enter"]), ints' = FALSE,
           isr' = isr \cup ({v} \cap I!Hardware), UNCHANGED <<current, gone>>,
           \/ Len(frames) = 0
           \/ /\ Len(frames) = 1 /\ InScheduler(frames[1])
              /\ v \in I!Hardware \cup {"spurious", "pagefault"}
              /\ v = "pagefault" => frames[1].at = "find",
           v = "preempt" => v \notin isr
    PROVE  InterruptInv'
<1>1. [v |-> v, at |-> "enter"] \in Handler
  BY DEF Handler
<1>2. /\ frames' \in Seq(Handler) /\ Len(frames') = Len(frames) + 1 /\ Len(frames) \in {0, 1}
      /\ \A i \in 1..Len(frames) : frames'[i] = frames[i]
      /\ frames'[Len(frames) + 1] = [v |-> v, at |-> "enter"]
  BY <1>1, AppendElements DEF InterruptInv, StackInv
<1>3. InHand(frames') = InHand(frames) \cup ({v} \cap I!Hardware)
  <2>1. CASE Len(frames) = 0
    BY <1>2, <2>1 DEF InHand
  <2>2. CASE Len(frames) = 1
    BY <1>2, <2>2 DEF InHand
  <2> QED BY <1>2, <2>1, <2>2
<1>4. StackInv'
  <2>1. CASE Len(frames) = 0
    BY <1>2, <2>1 DEF InterruptInv, StackInv
  <2>2. CASE Len(frames) = 1
    <3>1. v = "preempt" => frames[1].v # "preempt"
      BY <1>2, <2>2 DEF InterruptInv, InHand, I!Hardware
    <3> QED BY <1>2, <2>2, <3>1 DEF InterruptInv, StackInv, InScheduler
  <2> QED BY <1>2, <2>1, <2>2
<1>5. gone' \cap InHand(frames') = {}
  BY <1>3 DEF InterruptInv
<1> QED BY <1>3, <1>4, <1>5 DEF InterruptInv

\* The innermost handler goes on to another place of find_runnable.
LEMMA InterruptMove ==
    ASSUME InterruptInv, frames # <<>>, NEW l \in {"find", "hlt", "woke"}, Len(frames) = 1,
           I!Last(frames).v \in I!Scheduler,
           frames' = [frames EXCEPT ![Len(frames)].at = l], current' = FALSE, ints' = (l # "find"),
           UNCHANGED <<isr, gone>>
    PROVE  InterruptInv'
<1>1. frames[1] \in Handler /\ I!Last(frames) = frames[1] /\ frames \in Seq(Handler)
  BY StackFacts DEF InterruptInv, StackInv
<1>2. [frames[1] EXCEPT !.at = l] \in Handler
  BY <1>1 DEF Handler
<1>3. frames' = [frames EXCEPT ![1] = [frames[1] EXCEPT !.at = l]]
  BY <1>1
<1>4. frames' \in Seq(Handler) /\ Len(frames') = 1 /\ frames'[1] = [frames[1] EXCEPT !.at = l]
  <2> DEFINE e == [frames[1] EXCEPT !.at = l]
  <2>1. 1 \in 1..Len(frames) /\ e \in Handler /\ frames' = [frames EXCEPT ![1] = e]
    BY <1>2, <1>3
  <2> HIDE DEF e
  <2>2. frames' \in Seq(Handler) /\ Len(frames') = 1 /\ frames'[1] = e
    BY <1>1, <2>1, ExceptSeq
  <2> QED BY <2>2 DEF e
<1>5. frames'[1].v = frames[1].v /\ frames'[1].at = l
  BY <1>1, <1>4 DEF Handler
<1>6. InHand(frames') = InHand(frames)
  <2>1. Len(frames') = Len(frames) /\ \A i \in 1..Len(frames) : frames'[i].v = frames[i].v
    BY <1>4, <1>5
  <2> QED BY <2>1, Zenon DEF InHand
<1>7. StackInv'
  <2>1. InScheduler(frames'[1]) /\ (ints' <=> frames'[1].at # "find")
    BY <1>1, <1>5 DEF InScheduler
  <2>2. frames' \in Seq(Handler) /\ Len(frames') <= 2 /\ Len(frames') # 0 /\ Len(frames') # 2 /\ ~current'
    <3>1. 1 <= 2 /\ 1 # 0 /\ 1 # 2
      OBVIOUS
    <3> QED BY <1>4, <3>1, Zenon
  <2> QED BY <2>1, <2>2, Zenon DEF StackInv
<1> QED BY <1>6, <1>7 DEF InterruptInv

\* The innermost handler of a thread returns to it.
LEMMA InterruptReturn ==
    ASSUME InterruptInv, frames' = <<>>, current' = TRUE, ints' = TRUE,
           gone' \subseteq {"preempt"}, isr' = gone'
    PROVE  InterruptInv'
<1>1. Len(frames') = 0 /\ frames' \in Seq(Handler) /\ InHand(frames') = {}
  BY EmptySeq DEF InHand
<1> QED BY <1>1 DEF InterruptInv, StackInv

\* An EOI ends the interrupt w, if nothing but a time slice is in service below.
LEMMA EoiEnds ==
    ASSUME NEW w \in {"wakeup", "device"}, w \in isr, isr \subseteq {"preempt", w}
    PROVE  I!Eoi = isr \ {w}
<1>1. I!Class["preempt"] = 2 /\ I!Class["wakeup"] = 3 /\ I!Class["device"] = 4
  BY DEF I!Class
<1>2. \A x \in isr : (\A u \in isr : I!Class[u] <= I!Class[x]) <=> x = w
  BY <1>1
<1>3. (CHOOSE x \in isr : \A u \in isr : I!Class[u] <= I!Class[x]) = w
  BY <1>2
<1> QED BY <1>3 DEF I!Eoi

LEMMA EoiEndsSlice ==
    ASSUME isr = {"preempt"}
    PROVE  I!Eoi = {}
<1>1. I!Class["preempt"] = 2
  BY DEF I!Class
<1>2. (CHOOSE x \in isr : \A u \in isr : I!Class[u] <= I!Class[x]) \in isr
  BY <1>1
<1> QED BY <1>2 DEF I!Eoi

\* What the stack is where a step looks at its innermost handler.
LEMMA InnerHandler ==
    ASSUME StackInv, NEW l \in {"enter", "find", "hlt", "woke"}, I!Inner(l)
    PROVE  /\ frames # <<>> /\ Len(frames) \in {1, 2} /\ frames[Len(frames)].at = l
           /\ I!Last(frames) = frames[Len(frames)]
           /\ l # "enter" => Len(frames) = 1 /\ InScheduler(frames[1]) /\ ~current /\ (ints <=> l # "find")
<1>1. frames # <<>> /\ Len(frames) \in {1, 2} /\ I!Last(frames) = frames[Len(frames)]
  BY StackFacts DEF I!Inner
<1>2. frames[Len(frames)].at = l
  BY <1>1 DEF I!Inner
<1>3. l # "enter" => Len(frames) = 1 /\ InScheduler(frames[1]) /\ ~current /\ (ints <=> l # "find")
  BY <1>1, <1>2 DEF StackInv
<1> QED BY <1>1, <1>2, <1>3

LEMMA ThreadStack ==
    ASSUME StackInv, I!Thread
    PROVE  Len(frames) = 0 /\ current /\ ints
BY StackFacts DEF I!Thread, StackInv

\* An interrupt is delivered where the CPU runs a thread or sleeps.
LEMMA OpenStack ==
    ASSUME InterruptInv, ints
    PROVE  \/ Len(frames) = 0
           \/ Len(frames) = 1 /\ InScheduler(frames[1]) /\ frames[1].at # "find"
BY StackFacts DEF InterruptInv, StackInv

LEMMA InterruptDeliver ==
    ASSUME InterruptInv, NEW v \in I!Hardware, I!Deliver(v)
    PROVE  InterruptInv'
<1>1. v \notin isr
  <2>1. I!Class["preempt"] = 2 /\ I!Class["wakeup"] = 3 /\ I!Class["device"] = 4
    BY DEF I!Class
  <2>2. I!Class[v] \in Nat
    BY <2>1 DEF I!Hardware
  <2> QED BY <2>2 DEF I!Deliver
<1>2. v \in Vectors /\ {v} \cap I!Hardware = {v}
  BY DEF Vectors, I!Hardware
<1>3. ints /\ isr' = isr \cup {v} /\ UNCHANGED <<current, gone>>
      /\ frames' = Append(frames, [v |-> v, at |-> "enter"]) /\ ints' = FALSE
  BY DEF I!Deliver, I!Enter
<1>4. v # "pagefault"
  BY DEF I!Hardware
<1> QED BY <1>1, <1>2, <1>3, <1>4, OpenStack, InterruptPush

LEMMA InterruptSpurious ==
    ASSUME InterruptInv, I!Spurious
    PROVE  InterruptInv'
<1>1. ints /\ isr' = isr /\ UNCHANGED <<current, gone>>
      /\ frames' = Append(frames, [v |-> "spurious", at |-> "enter"]) /\ ints' = FALSE
  BY DEF I!Spurious, I!Enter
<1>2. "spurious" \in Vectors /\ {"spurious"} \cap I!Hardware = {}
  BY DEF Vectors, I!Hardware
<1> QED BY <1>1, <1>2, OpenStack, InterruptPush

LEMMA InterruptSoftInt ==
    ASSUME InterruptInv, NEW v \in {"yield", "park", "drop"}, NEW w \in BOOLEAN, I!SoftInt(v, w)
    PROVE  InterruptInv'
<1>1. isr' = isr /\ UNCHANGED <<current, gone>> /\ Len(frames) = 0
      /\ frames' = Append(frames, [v |-> v, at |-> "enter"]) /\ ints' = FALSE
  BY ThreadStack DEF I!SoftInt, I!Enter, InterruptInv
<1>2. v \in Vectors /\ {v} \cap I!Hardware = {} /\ v # "preempt"
  BY DEF Vectors, I!Hardware
<1> QED BY <1>1, <1>2, InterruptPush

LEMMA InterruptPageFault ==
    ASSUME InterruptInv, I!PageFault
    PROVE  InterruptInv'
<1>1. isr' = isr /\ UNCHANGED <<current, gone>> /\ ints' = FALSE
      /\ frames' = Append(frames, [v |-> "pagefault", at |-> "enter"])
  BY DEF I!PageFault
<1>2. "pagefault" \in Vectors /\ {"pagefault"} \cap I!Hardware = {}
  BY DEF Vectors, I!Hardware
<1>3. Len(frames) = 0 \/ (Len(frames) = 1 /\ InScheduler(frames[1]) /\ frames[1].at = "find")
  BY ThreadStack, InnerHandler DEF I!PageFault, InterruptInv
<1> QED BY <1>1, <1>2, <1>3, InterruptPush

\* A fault is served where it happened: in the thread, or in find_runnable.
LEMMA InterruptServeFault ==
    ASSUME InterruptInv, I!ServeFault
    PROVE  InterruptInv'
<1>1. frames # <<>> /\ Len(frames) \in {1, 2} /\ frames[Len(frames)].at = "enter"
      /\ frames[Len(frames)].v = "pagefault" /\ frames \in Seq(Handler)
  BY InnerHandler DEF InterruptInv, StackInv, I!ServeFault
<1>2. frames' = I!Front(frames) /\ ints' = (Len(frames) = 1) /\ UNCHANGED <<current, isr, gone>>
  BY DEF I!ServeFault
<1>3. frames' \in Seq(Handler) /\ Len(frames') = Len(frames) - 1
      /\ \A i \in 1..(Len(frames) - 1) : frames'[i] = frames[i]
  BY <1>1, <1>2, FrontElements
<1>4. InHand(frames') = InHand(frames)
  <2>1. CASE Len(frames) = 1
    BY <1>1, <1>3, <2>1 DEF InHand, I!Hardware
  <2>2. CASE Len(frames) = 2
    BY <1>1, <1>3, <2>2 DEF InHand, I!Hardware
  <2> QED BY <1>1, <2>1, <2>2
<1>5. StackInv'
  <2>1. CASE Len(frames) = 1
    BY <1>1, <1>2, <1>3, <2>1 DEF InterruptInv, StackInv, InScheduler
  <2>2. CASE Len(frames) = 2
    BY <1>1, <1>2, <1>3, <2>2 DEF InterruptInv, StackInv
  <2> QED BY <1>1, <2>1, <2>2
<1> QED BY <1>2, <1>4, <1>5 DEF InterruptInv

LEMMA InterruptEnterScheduler ==
    ASSUME InterruptInv, I!EnterScheduler
    PROVE  InterruptInv'
<1>1. CASE I!Halts
  BY <1>1 DEF I!Halts, InterruptInv, StackInv
<1>2. CASE ~I!Halts
  <2>1. /\ I!Inner("enter") /\ I!Last(frames).v \in I!Scheduler /\ (current \/ I!Last(frames).v = "drop")
        /\ current' = FALSE /\ frames' = [frames EXCEPT ![Len(frames)].at = "find"] /\ UNCHANGED <<ints, isr, gone>>
    BY <1>2 DEF I!EnterScheduler
  <2>2. /\ frames # <<>> /\ Len(frames) \in {1, 2} /\ I!Last(frames) = frames[Len(frames)]
        /\ frames[Len(frames)].at = "enter"
    BY <2>1, InnerHandler DEF InterruptInv
  <2>3. Len(frames) = 1 /\ ints' = FALSE
    <3>1. ASSUME Len(frames) = 2 PROVE FALSE
      BY <2>1, <2>2, <3>1 DEF InterruptInv, StackInv, I!Hardware
    <3>2. Len(frames) = 1
      BY <2>2, <3>1
    <3> QED BY <2>1, <2>2, <3>2 DEF InterruptInv, StackInv, InScheduler
  <2> QED BY <2>1, <2>2, <2>3, InterruptMove
<1> QED BY <1>1, <1>2

LEMMA InterruptSleepAwake ==
    ASSUME InterruptInv, I!Sleep \/ I!Awake
    PROVE  InterruptInv'
<1>1. CASE I!Sleep
  <2>1. frames # <<>> /\ Len(frames) = 1 /\ InScheduler(frames[1]) /\ ~current /\ I!Last(frames) = frames[1]
    BY <1>1, InnerHandler DEF InterruptInv, I!Sleep
  <2>2. /\ frames' = [frames EXCEPT ![Len(frames)].at = "hlt"] /\ current' = FALSE /\ ints' = TRUE
        /\ UNCHANGED <<isr, gone>> /\ I!Last(frames).v \in I!Scheduler
    BY <1>1, <2>1 DEF I!Sleep, InterruptInv, InScheduler
  <2> QED BY <2>1, <2>2, InterruptMove
<1>2. CASE I!Awake
  <2>1. frames # <<>> /\ Len(frames) = 1 /\ InScheduler(frames[1]) /\ ~current /\ I!Last(frames) = frames[1]
    BY <1>2, InnerHandler DEF InterruptInv, I!Awake
  <2>2. /\ frames' = [frames EXCEPT ![Len(frames)].at = "find"] /\ current' = FALSE /\ ints' = FALSE
        /\ UNCHANGED <<isr, gone>> /\ I!Last(frames).v \in I!Scheduler
    BY <1>2, <2>1 DEF I!Awake, InterruptInv, InScheduler
  <2> QED BY <2>1, <2>2, InterruptMove
<1> QED BY <1>1, <1>2

\* schedule leaves find_runnable; the EOI of a time slice ends that one, since
\* no other is in service.
LEMMA InterruptRunThread ==
    ASSUME InterruptInv, I!RunThread
    PROVE  InterruptInv'
<1>1. frames # <<>> /\ Len(frames) = 1 /\ InScheduler(frames[1]) /\ I!Last(frames) = frames[1]
      /\ frames \in Seq(Handler)
  BY InnerHandler DEF InterruptInv, StackInv, I!RunThread
<1>2. frames' = I!Front(frames) /\ current' = TRUE /\ ints' = TRUE /\ gone' = gone
      /\ isr' = IF I!Last(frames).v = "preempt" THEN I!Eoi ELSE isr
  BY DEF I!RunThread
<1>3. frames' = <<>>
  <2>1. I!Front(frames) \in Seq(Handler) /\ Len(I!Front(frames)) = 0
    BY <1>1, FrontElements
  <2> QED BY <1>2, <2>1, EmptySeq
<1>4. InHand(frames) = {frames[1].v} \cap I!Hardware
  BY <1>1 DEF InHand
<1>5. isr' = gone
  <2>1. CASE frames[1].v = "preempt"
    <3>1. isr = {"preempt"} /\ gone = {}
      BY <1>4, <2>1 DEF InterruptInv, I!Hardware
    <3> QED BY <1>1, <1>2, <2>1, <3>1, EoiEndsSlice
  <2>2. CASE frames[1].v # "preempt"
    <3>1. InHand(frames) = {}
      BY <1>1, <1>4, <2>2 DEF InScheduler, I!Scheduler, I!Hardware
    <3> QED BY <1>1, <1>2, <2>2, <3>1 DEF InterruptInv
  <2> QED BY <2>1, <2>2
<1> QED BY <1>2, <1>3, <1>5, InterruptReturn DEF InterruptInv

\* The wake-up handler ends its own interrupt, above the time slice that
\* find_runnable may be running in.
LEMMA InterruptNothing ==
    ASSUME InterruptInv, I!Nothing
    PROVE  InterruptInv'
<1> DEFINE n == Len(frames)
           v == frames[n].v
<1>1. frames # <<>> /\ n \in {1, 2} /\ I!Last(frames) = frames[n] /\ frames[n].at = "enter"
      /\ v \in {"wakeup", "spurious"} /\ frames \in Seq(Handler)
  BY InnerHandler DEF InterruptInv, StackInv, I!Nothing
<1>2. isr' = (IF v = "wakeup" THEN I!Eoi ELSE isr) /\ ints' = TRUE /\ UNCHANGED <<current, gone>>
  BY <1>1 DEF I!Nothing
<1>3. I!Front(frames) \in Seq(Handler) /\ Len(I!Front(frames)) = n - 1
      /\ \A i \in 1..(n - 1) : I!Front(frames)[i] = frames[i]
  BY <1>1, FrontElements
<1>4. isr' = isr \ {v}
  <2>1. CASE v = "wakeup"
    <3>1. InHand(frames) \subseteq {"preempt", "wakeup"} /\ "wakeup" \in InHand(frames)
      <4>1. CASE n = 1
        BY <1>1, <2>1, <4>1 DEF InHand, I!Hardware
      <4>2. CASE n = 2
        BY <1>1, <2>1, <4>2 DEF InHand, I!Hardware, InterruptInv, StackInv, InScheduler, I!Scheduler
      <4> QED BY <1>1, <4>1, <4>2
    <3>2. isr \subseteq {"preempt", "wakeup"} /\ "wakeup" \in isr
      BY <3>1 DEF InterruptInv
    <3>3. I!Eoi = isr \ {"wakeup"}
      BY <3>2, EoiEnds
    <3> QED BY <1>2, <2>1, <3>3
  <2>2. CASE v = "spurious"
    <3>1. "spurious" \notin isr
      BY DEF InterruptInv, InHand, I!Hardware
    <3> QED BY <1>2, <2>2, <3>1
  <2> QED BY <1>1, <2>1, <2>2
<1>5. CASE n = 1
  <2>1. I!Front(frames) = <<>>
    BY <1>3, <1>5, EmptySeq
  <2>2. frames' = <<>> /\ current' = TRUE
    BY <1>1, <1>2, <1>5, <2>1 DEF I!Nothing, InterruptInv, StackInv, InScheduler
  <2>3. InHand(frames) = {v} \cap I!Hardware
    BY <1>5 DEF InHand
  <2>4. isr' = gone' /\ gone' \subseteq {"preempt"}
    BY <1>1, <1>2, <1>4, <2>3 DEF InterruptInv, I!Hardware
  <2> QED BY <1>2, <2>2, <2>4, InterruptReturn
<1>6. CASE n = 2
  <2> DEFINE f == I!Front(frames)
             e == [frames[1] EXCEPT !.at = "woke"]
  <2>1. f # <<>> /\ Len(f) = 1 /\ f[1] = frames[1] /\ frames[1] \in Handler /\ InScheduler(frames[1]) /\ ~current
    BY <1>1, <1>3, <1>6, EmptySeq, StackFacts DEF InterruptInv, StackInv
  <2>2. frames' = [f EXCEPT ![Len(f)].at = "woke"]
    BY <2>1 DEF I!Nothing
  <2>3. e \in Handler /\ e.v = frames[1].v /\ e.at = "woke"
    BY <2>1 DEF Handler
  <2>4. frames' = [f EXCEPT ![1] = e] /\ f \in Seq(Handler) /\ 1 \in 1..Len(f)
    <3>1. f \in Seq(Handler) /\ Len(f) = 1
      BY <1>3, <2>1
    <3> HIDE DEF f
    <3>2. frames' = [f EXCEPT ![1] = [f[1] EXCEPT !.at = "woke"]]
      BY <2>2, <3>1, Zenon
    <3> QED BY <2>1, <3>1, <3>2
  <2> HIDE DEF e, f
  <2>5. frames' \in Seq(Handler) /\ Len(frames') = 1 /\ frames'[1] = e
    BY <2>1, <2>3, <2>4, ExceptSeq
  <2>6. InHand(frames') = {frames[1].v} \cap I!Hardware
    BY <2>3, <2>5 DEF InHand
  <2>7. InHand(frames) = {frames[1].v, v} \cap I!Hardware
    BY <1>6 DEF InHand
  <2>8. frames[1].v # v /\ v \notin gone
    BY <1>1, <2>1 DEF InScheduler, I!Scheduler, InterruptInv
  <2>9. isr' = InHand(frames') \cup gone /\ gone \cap InHand(frames') = {}
    BY <1>4, <2>6, <2>7, <2>8 DEF InterruptInv
  <2>10. StackInv'
    <3>1. InScheduler(frames'[1]) /\ frames'[1].at # "find"
      BY <2>1, <2>3, <2>5 DEF InScheduler
    <3>2. 1 <= 2 /\ 1 # 0 /\ 1 # 2
      OBVIOUS
    <3>3. frames' \in Seq(Handler) /\ Len(frames') <= 2 /\ Len(frames') # 0 /\ Len(frames') # 2 /\ ~current' /\ ints'
      BY <1>2, <2>1, <2>5, <3>2, Zenon
    <3> QED BY <3>1, <3>3, Zenon DEF StackInv
  <2> QED BY <1>2, <2>9, <2>10 DEF InterruptInv
<1> QED BY <1>1, <1>5, <1>6

\* The dispatch leaves every handler; the time slice that find_runnable ran in
\* stays in service.
LEMMA InterruptDispatch ==
    ASSUME InterruptInv, I!Dispatch
    PROVE  InterruptInv'
<1>1. CASE I!Halts
  BY <1>1 DEF I!Halts, InterruptInv, StackInv
<1>2. CASE ~I!Halts
  <2> DEFINE n == Len(frames)
  <2>1. frames # <<>> /\ n \in {1, 2} /\ frames[n].v = "device" /\ frames \in Seq(Handler)
    BY InnerHandler DEF I!Dispatch, InterruptInv, StackInv
  <2>2. /\ frames' = <<>> /\ current' = TRUE /\ ints' = TRUE /\ isr' = I!Eoi
        /\ gone' = gone \cup ({f.v : f \in I!ToSet(I!Front(frames))} \cap I!Hardware)
    BY <1>2 DEF I!Dispatch
  <2>3. I!Front(frames) \in Seq(Handler) /\ Len(I!Front(frames)) = n - 1
        /\ \A i \in 1..(n - 1) : I!Front(frames)[i] = frames[i]
    BY <2>1, FrontElements
  <2>4. DOMAIN I!Front(frames) = 1..(n - 1)
    BY <2>3, LenProperties
  <2>5. {f.v : f \in I!ToSet(I!Front(frames))} = {frames[i].v : i \in 1..(n - 1)}
    <3>1. I!ToSet(I!Front(frames)) = {frames[i] : i \in 1..(n - 1)}
      BY <2>3, <2>4 DEF I!ToSet
    <3> QED BY <3>1
  <2>6. InHand(frames) \subseteq {"preempt", "device"} /\ "device" \in InHand(frames)
        /\ InHand(frames) \ {"device"} = {frames[i].v : i \in 1..(n - 1)} \cap I!Hardware
    <3>1. CASE n = 1
      BY <2>1, <3>1 DEF InHand, I!Hardware
    <3>2. CASE n = 2
      BY <2>1, <3>2 DEF InHand, I!Hardware, InterruptInv, StackInv, InScheduler, I!Scheduler
    <3> QED BY <2>1, <3>1, <3>2
  <2>7. I!Eoi = isr \ {"device"}
    BY <2>6, EoiEnds DEF InterruptInv
  <2>8. isr' = gone' /\ gone' \subseteq {"preempt"}
    BY <2>2, <2>5, <2>6, <2>7 DEF InterruptInv
  <2> QED BY <2>2, <2>8, InterruptReturn
<1> QED BY <1>1, <1>2

LEMMA InterruptQuiet ==
    ASSUME InterruptInv, UNCHANGED <<frames, current, ints, isr, gone>>
    PROVE  InterruptInv'
BY DEF InterruptInv, StackInv

LEMMA InterruptNext == InterruptInv /\ I!Next => InterruptInv'
<1> SUFFICES ASSUME InterruptInv, I!Next PROVE InterruptInv'
  OBVIOUS
<1>1. ASSUME NEW v \in I!Hardware, I!Raise(v) \/ I!Deliver(v) PROVE InterruptInv'
  BY <1>1, InterruptQuiet, InterruptDeliver DEF I!Raise
<1>2. ASSUME NEW v \in {"yield", "park", "drop"}, NEW w \in BOOLEAN, I!SoftInt(v, w) PROVE InterruptInv'
  BY <1>2, InterruptSoftInt
<1>3. CASE I!Spurious \/ I!PageFault
  BY <1>3, InterruptSpurious, InterruptPageFault
<1>4. CASE I!Exception \/ I!Priority
  BY <1>4, InterruptQuiet DEF I!Exception, I!Halts, I!Priority
<1>5. CASE I!Handler
  BY <1>5, InterruptEnterScheduler, InterruptSleepAwake, InterruptRunThread, InterruptNothing,
     InterruptDispatch, InterruptServeFault, InterruptQuiet DEF I!Handler, I!TimerReadies
<1> QED BY <1>1, <1>2, <1>3, <1>4, <1>5 DEF I!Next

LEMMA InterruptInvNests == InterruptInv => HandlersNest
<1> SUFFICES ASSUME InterruptInv, ~(I!Inner("enter") /\ I!Last(frames).v = "preempt" /\ ~current)
             PROVE  /\ \A i, j \in DOMAIN frames :
                          i # j /\ I!Ist(frames[i].v) = I!Ist(frames[j].v) => I!Ist(frames[i].v) = 0
                    /\ isr = ({f.v : f \in I!ToSet(frames)} \cap I!Hardware) \cup gone
  BY DEF HandlersNest, I!HandlersNest
<1>1. DOMAIN frames = 1..Len(frames) /\ Len(frames) \in {0, 1, 2}
      /\ (frames # <<>> => I!Last(frames) = frames[Len(frames)])
  BY StackFacts, LenProperties DEF InterruptInv, StackInv
<1>2. {f.v : f \in I!ToSet(frames)} \cap I!Hardware = InHand(frames)
  <2>1. I!ToSet(frames) = {frames[i] : i \in 1..Len(frames)}
    BY <1>1 DEF I!ToSet
  <2> QED BY <2>1 DEF InHand
<1>3. CASE Len(frames) = 2
  <2>1. /\ frames[1].v \in I!Scheduler /\ frames[2].at = "enter" /\ ~current
        /\ frames[2].v \in I!Hardware \cup {"spurious", "pagefault"}
    BY <1>3 DEF InterruptInv, StackInv, InScheduler
  <2>2. frames # <<>>
    BY <1>3, StackFacts DEF InterruptInv
  <2>3. frames[2].v # "preempt"
    BY <1>1, <1>3, <2>1, <2>2 DEF I!Inner
  <2>4. I!Ist(frames[1].v) = 4
    BY <2>1 DEF I!Ist
  <2>5. I!Ist(frames[2].v) \in {0, 3}
    BY <2>1, <2>3 DEF I!Ist, I!ExceptionIst, I!Hardware, I!Scheduler
  <2>6. \A i, j \in 1..2 : i # j => I!Ist(frames[i].v) # I!Ist(frames[j].v)
    BY <2>4, <2>5
  <2> QED BY <1>1, <1>2, <1>3, <2>6 DEF InterruptInv
<1>4. CASE Len(frames) \in {0, 1}
  <2>1. \A i, j \in DOMAIN frames : i = j
    BY <1>1, <1>4
  <2> QED BY <1>2, <2>1 DEF InterruptInv
<1> QED BY <1>1, <1>3, <1>4

\* HandlersNest, of every sequence of interrupts, faults and dispatches: no
\* handler starts on the stack of an unfinished one, and what is in service in
\* the local APIC is what is being handled, or a time slice that a dispatch out
\* of the idle loop has left there (idt.c, apic.c, irq.c).
THEOREM HandlersAlwaysNest == Spec => []HandlersNest
<1>1. Init => InterruptInv
  BY InterruptInit DEF Init
<1>2. InterruptInv /\ [Next]_vars => InterruptInv'
  BY InterruptNext, InterruptQuiet DEF Next, vars, ivars
<1> QED BY <1>1, <1>2, InterruptInvNests, PTL DEF Spec

----------------------------------------------------------------------------
(* The references of a wait handle                                         *)

Places == {"idle", "wait", "put", "after", "after_put", "select", "asleep", "drop_timeout", "drop",
           "send", "take", "set", "close", "reset", "exchange", "dispose", "clear"}
Perhaps == Waitables \cup {Null}
CallerRec == [at : Places, on : Perhaps, timeout : Perhaps, left : Int]
WaitRec == [made : BOOLEAN, refs : Nat, size : Int, count : Int, closed : BOOLEAN]

\* What a caller knows: nothing between its calls, what it has yet to release, a
\* timeout, which is never the handle, from after() until it drops it.
Good(r) ==
    /\ r \in CallerRec
    /\ r.at = "idle" => r = W!Idle
    /\ r.at = "drop" => r.on # Null
    /\ r.at \in {"after_put", "select", "drop_timeout"} => r.timeout # Null
    /\ r.at \notin {"after_put", "select", "asleep", "drop_timeout"} => r.timeout = Null
    /\ r.timeout # Null => r.timeout # r.on

\* A caller that has a counted reference to x.
Has(r, x) ==
    \/ r.on = x /\ (\/ r.at \in {"after", "after_put", "select", "drop_timeout", "drop"}
                    \/ r.at = "asleep" /\ r.timeout # Null)
    \/ r.timeout = x /\ r.at \in {"select", "asleep", "drop_timeout"}

RefSet(f, tm, cl, x) ==
    {h \in {"handle"} : f = x} \cup {t \in {"timer"} : tm[x] # "none"} \cup {c \in Callers : Has(cl[c], x)}

\* What the callers know is allocated.
Fits(cl, w) ==
    /\ cl \in [Callers -> CallerRec]
    /\ \A c \in Callers :
          /\ Good(cl[c])
          /\ cl[c].on # Null => w[cl[c].on].made
          /\ cl[c].timeout # Null => w[cl[c].timeout].made

HandleType ==
    /\ field \in Perhaps /\ stale \in Perhaps /\ wait \in [Waitables -> WaitRec]
    /\ timer \in [Waitables -> {"none", "send", "close", "release"}] /\ fault \subseteq Callers

HandleMade ==
    /\ field # Null => wait[field].made
    /\ stale # Null => wait[stale].made
    /\ \A x \in Waitables : timer[x] # "none" => wait[x].made

HandleCount == \A x \in Waitables : wait[x].refs = Cardinality(W!References(x))

\* Who has a reference never goes wrong.
HandleFault == \A who \in fault : caller[who].at \notin {"select", "drop_timeout", "drop"}

HandleInv ==
    HandleType /\ Fits(caller, wait) /\ HandleMade /\ HandleCount /\ HandleFault

LEMMA ReferencesAre ==
    ASSUME NEW x \in Waitables
    PROVE  /\ W!References(x) = RefSet(field, timer, caller, x)
           /\ W!References(x)' = RefSet(field', timer', caller', x)
<1>1. Null # x
  BY MemoryAssumption
<1>2. ASSUME NEW c \in Callers PROVE <<c, x>> \in W!Counted(c) <=> Has(caller[c], x)
  <2> DEFINE A == \/ caller[c].at \in {"after", "after_put", "select", "drop_timeout", "drop"}
                  \/ caller[c].at = "asleep" /\ caller[c].timeout # Null
             D == caller[c].at \in {"select", "asleep", "drop_timeout"}
  <2>1. W!Counted(c) = (IF A THEN {<<c, caller[c].on>>} ELSE {}) \cup (IF D THEN {<<c, caller[c].timeout>>} ELSE {})
    BY Zenon DEF W!Counted
  <2>2. Has(caller[c], x) <=> (caller[c].on = x /\ A) \/ (caller[c].timeout = x /\ D)
    BY DEF Has
  <2> HIDE DEF A, D
  <2>3. CASE A
    BY <2>1, <2>2, <2>3
  <2>4. CASE ~A
    BY <2>1, <2>2, <2>4
  <2> QED BY <2>3, <2>4
<1>3. ASSUME NEW c \in Callers PROVE <<c, x>> \in W!Counted(c)' <=> Has(caller'[c], x)
  <2> DEFINE A == \/ caller'[c].at \in {"after", "after_put", "select", "drop_timeout", "drop"}
                  \/ caller'[c].at = "asleep" /\ caller'[c].timeout # Null
             D == caller'[c].at \in {"select", "asleep", "drop_timeout"}
  <2>1. W!Counted(c)' = (IF A THEN {<<c, caller'[c].on>>} ELSE {}) \cup (IF D THEN {<<c, caller'[c].timeout>>} ELSE {})
    BY Zenon DEF W!Counted
  <2>2. Has(caller'[c], x) <=> (caller'[c].on = x /\ A) \/ (caller'[c].timeout = x /\ D)
    BY DEF Has
  <2> HIDE DEF A, D
  <2>3. CASE A
    BY <2>1, <2>2, <2>3
  <2>4. CASE ~A
    BY <2>1, <2>2, <2>4
  <2> QED BY <2>3, <2>4
<1> QED BY <1>2, <1>3 DEF W!References, RefSet

LEMMA RefSetFinite ==
    ASSUME NEW f, NEW tm, NEW cl, NEW x
    PROVE  IsFiniteSet(RefSet(f, tm, cl, x)) /\ Cardinality(RefSet(f, tm, cl, x)) \in Nat
<1>1. IsFiniteSet(Callers \cup {"handle", "timer"})
  <2>1. IsFiniteSet({"handle"} \cup {"timer"})
    BY FS_Singleton, FS_Union
  <2>2. {"handle"} \cup {"timer"} = {"handle", "timer"}
    OBVIOUS
  <2> QED BY <2>1, <2>2, MemoryAssumption, FS_Union
<1>2. RefSet(f, tm, cl, x) \in SUBSET (Callers \cup {"handle", "timer"})
  BY DEF RefSet
<1> QED BY <1>1, <1>2, FS_Subset, FS_CardinalityType

LEMMA NewWaitable ==
    ASSUME NEW n \in Nat
    PROVE  W!create_waitable(n) \in WaitRec /\ W!create_waitable(n).made /\ W!create_waitable(n).refs = 1
<1> DEFINE u == W!Unmade
<1>1. u \in WaitRec
  BY DEF W!Unmade, WaitRec
<1>2. W!create_waitable(n) = [u EXCEPT !.made = TRUE, !.refs = 1, !.size = n]
  BY DEF W!create_waitable
<1> HIDE DEF u
<1>3. W!create_waitable(n) \in WaitRec /\ W!create_waitable(n).refs = 1
  <2>1. PICK a : a = [u EXCEPT !.made = TRUE]
    OBVIOUS
  <2>2. PICK b : b = [a EXCEPT !.refs = 1]
    OBVIOUS
  <2>3. W!create_waitable(n) = [b EXCEPT !.size = n]
    BY <1>1, <1>2, <2>1, <2>2 DEF WaitRec
  <2>4. a \in WaitRec
    BY <1>1, <2>1 DEF WaitRec
  <2>5. b \in WaitRec /\ b.refs = 1
    BY <2>2, <2>4 DEF WaitRec
  <2> QED BY <2>3, <2>5 DEF WaitRec
<1>4. W!create_waitable(n).made
  BY <1>1, <1>2, Zenon DEF WaitRec
<1> QED BY <1>3, <1>4

LEMMA HandleInit == W!Init => HandleInv
<1> SUFFICES ASSUME W!Init PROVE HandleInv
  OBVIOUS
<1>1. field \in Waitables /\ field # Null
  BY MemoryAssumption DEF W!Init
<1>2. PICK n \in W!Permits(sort), set \in {FALSE, sort = "manual"} :
         wait = [x \in Waitables |->
                   IF x # field THEN W!Unmade
                   ELSE [W!create_waitable(W!Size(sort)) EXCEPT !.count = n, !.closed = set]]
  BY DEF W!Init
<1>3. W!Size(sort) \in Nat /\ n \in Int /\ set \in BOOLEAN
  <2>1. W!Size(sort) \in Nat
    BY MemoryAssumption DEF W!Size
  <2>2. n \in Int
    BY <2>1 DEF W!Permits
  <2>3. set \in BOOLEAN
    BY Zenon
  <2> QED BY <2>1, <2>2, <2>3
<1>4. timer = [x \in Waitables |-> "none"] /\ caller = [c \in Callers |-> W!Idle] /\ fault = {} /\ stale = Null
  BY DEF W!Init
<1>5. wait \in [Waitables -> WaitRec] /\ wait[field].made /\ wait[field].refs = 1
      /\ \A x \in Waitables : x # field => wait[x].refs = 0
  <2>1. W!Unmade \in WaitRec /\ W!Unmade.refs = 0
    BY DEF W!Unmade, WaitRec
  <2> DEFINE m == W!create_waitable(W!Size(sort))
  <2>2. m \in WaitRec /\ m.made /\ m.refs = 1
    BY <1>3, NewWaitable
  <2> HIDE DEF m
  <2>3. PICK i : i = [m EXCEPT !.count = n, !.closed = set]
    OBVIOUS
  <2>4. i \in WaitRec /\ i.made /\ i.refs = 1
    BY <1>3, <2>2, <2>3 DEF WaitRec
  <2>5. wait = [x \in Waitables |-> IF x # field THEN W!Unmade ELSE i]
    BY <1>2, <2>3 DEF m
  <2> QED BY <1>1, <2>1, <2>4, <2>5
<1>6. W!Idle \in CallerRec /\ Good(W!Idle) /\ \A x \in Waitables : ~Has(W!Idle, x)
  BY MemoryAssumption DEF W!Idle, CallerRec, Places, Perhaps, Good, Has
<1>7. HandleType /\ Fits(caller, wait)
  BY <1>1, <1>4, <1>5, <1>6 DEF HandleType, Perhaps, Fits, W!Idle
<1>8. HandleMade
  BY <1>1, <1>4, <1>5 DEF HandleMade
<1>9. HandleCount
  <2> SUFFICES ASSUME NEW x \in Waitables PROVE wait[x].refs = Cardinality(W!References(x))
    BY DEF HandleCount
  <2>1. W!References(x) = {h \in {"handle"} : field = x}
    BY <1>4, <1>6, ReferencesAre DEF RefSet
  <2>2. CASE x = field
    <3>1. W!References(x) = {"handle"}
      BY <2>1, <2>2
    <3> QED BY <1>5, <2>2, <3>1, FS_Singleton
  <2>3. CASE x # field
    <3>1. W!References(x) = {}
      BY <2>1, <2>3
    <3> QED BY <1>5, <2>3, <3>1, FS_EmptySet
  <2> QED BY <2>2, <2>3
<1> QED BY <1>4, <1>6, <1>7, <1>8, <1>9 DEF HandleInv, HandleFault

LEMMA WaitableNotNull == Null \notin Waitables /\ Null \notin Callers
BY MemoryAssumption

\* A sleeper that is woken keeps its references, and gives them back then.
LEMMA WakeFits ==
    ASSUME NEW o, NEW w, Fits(o, w), NEW S \in SUBSET Callers,
           \A s \in S : caller[s].at = "asleep" /\ o[s] = caller[s]
    PROVE  /\ Fits(W!Wake(o, S), w)
           /\ \A c \in Callers, x \in Waitables : Has(W!Wake(o, S)[c], x) <=> Has(o[c], x)
<1> DEFINE k == W!Wake(o, S)
<1>1. ASSUME NEW c \in Callers
      PROVE  /\ k[c] \in CallerRec /\ Good(k[c])
             /\ k[c].on # Null => w[k[c].on].made
             /\ k[c].timeout # Null => w[k[c].timeout].made
             /\ \A x \in Waitables : Has(k[c], x) <=> Has(o[c], x)
  <2>1. CASE c \notin S
    BY <2>1 DEF W!Wake, Fits
  <2>2. CASE c \in S /\ caller[c].timeout = Null
    <3>1. k[c] = W!Idle /\ o[c] = caller[c] /\ caller[c].at = "asleep"
      BY <2>2 DEF W!Wake, W!Woken
    <3>2. W!Idle.at = "idle" /\ W!Idle.on = Null /\ W!Idle.timeout = Null /\ W!Idle \in CallerRec
      BY DEF W!Idle, CallerRec, Places, Perhaps
    <3>3. Good(W!Idle)
      BY <3>2 DEF Good
    <3>4. \A x \in Waitables : ~Has(W!Idle, x) /\ ~Has(caller[c], x)
      BY <2>2, <3>1, <3>2, WaitableNotNull DEF Has
    <3> QED BY <3>1, <3>2, <3>3, <3>4
  <2>3. CASE c \in S /\ caller[c].timeout # Null
    <3>1. k[c] = [caller[c] EXCEPT !.at = "drop_timeout"] /\ o[c] = caller[c] /\ caller[c].at = "asleep"
      BY <2>3 DEF W!Wake, W!Woken
    <3>2. caller[c] \in CallerRec /\ Good(caller[c])
      BY <3>1 DEF Fits
    <3>3. /\ k[c] \in CallerRec /\ k[c].at = "drop_timeout" /\ k[c].on = caller[c].on
          /\ k[c].timeout = caller[c].timeout
      BY <3>1, <3>2 DEF CallerRec, Places
    <3>4. Good(k[c])
      BY <2>3, <3>2, <3>3 DEF Good
    <3>5. \A x \in Waitables : Has(k[c], x) <=> Has(caller[c], x)
      BY <2>3, <3>1, <3>3 DEF Has
    <3> QED BY <3>1, <3>3, <3>4, <3>5 DEF Fits
  <2> QED BY <2>1, <2>2, <2>3
<1>2. k = [c \in Callers |-> k[c]]
  BY DEF W!Wake
<1> HIDE DEF k
<1>3. k \in [Callers -> CallerRec]
  BY <1>1, <1>2
<1>4. Fits(k, w) /\ \A c \in Callers, x \in Waitables : Has(k[c], x) <=> Has(o[c], x)
  BY <1>1, <1>3 DEF Fits
<1> QED BY <1>4 DEF k

\* The sets of references are what the callers, the handle and the timers make them.
LEMMA SameRefSet ==
    ASSUME NEW f, NEW tm, NEW cl, NEW k, NEW x \in Waitables,
           \A c \in Callers : Has(k[c], x) <=> Has(cl[c], x)
    PROVE  RefSet(f, tm, k, x) = RefSet(f, tm, cl, x)
BY DEF RefSet

LEMMA CountOf ==
    ASSUME HandleInv, NEW x \in Waitables
    PROVE  /\ wait[x].refs = Cardinality(RefSet(field, timer, caller, x)) /\ wait[x].refs \in Nat
           /\ wait[x].refs = 0 <=> RefSet(field, timer, caller, x) = {}
<1>1. wait[x].refs = Cardinality(RefSet(field, timer, caller, x))
  BY ReferencesAre DEF HandleInv, HandleCount
<1> QED BY <1>1, RefSetFinite, FS_EmptySet

\* A step that moves callers and changes no reference.
LEMMA HandleQuiet ==
    ASSUME HandleInv, fault = {}, UNCHANGED <<field, stale, timer, fault>>, wait' \in [Waitables -> WaitRec],
           \A x \in Waitables : wait'[x].refs = wait[x].refs /\ wait'[x].made = wait[x].made,
           Fits(caller', wait),
           \A c \in Callers, x \in Waitables : Has(caller'[c], x) <=> Has(caller[c], x)
    PROVE  HandleInv'
<1>1. HandleType'
  BY DEF HandleInv, HandleType
<1>2. Fits(caller', wait')
  <2>1. \A c \in Callers : caller'[c].on \in Perhaps /\ caller'[c].timeout \in Perhaps
    BY DEF Fits, CallerRec
  <2> QED BY <2>1 DEF Fits, Perhaps
<1>3. HandleMade'
  BY DEF HandleInv, HandleType, HandleMade, Perhaps
<1>4. HandleCount'
  <2> SUFFICES ASSUME NEW x \in Waitables PROVE wait'[x].refs = Cardinality(W!References(x)')
    BY DEF HandleCount
  <2>1. RefSet(field', timer', caller', x) = RefSet(field, timer, caller, x)
    BY DEF RefSet
  <2> QED BY <2>1, ReferencesAre DEF HandleInv, HandleCount
<1> QED BY <1>1, <1>2, <1>3, <1>4 DEF HandleInv, HandleFault

\* A caller without a reference finds a waitable freed, or its reference gone.
LEMMA HandleWrong ==
    ASSUME HandleInv, NEW c \in Callers, W!GoesWrong(c), caller[c].at \notin {"select", "drop_timeout", "drop"}
    PROVE  HandleInv'
<1> USE DEF W!GoesWrong
<1>1. HandleType' /\ HandleMade' /\ HandleFault' /\ Fits(caller', wait')
  BY DEF HandleInv, HandleType, HandleMade, HandleFault
<1>2. HandleCount'
  <2>1. ASSUME NEW y \in Waitables PROVE W!References(y)' = W!References(y)
    BY ReferencesAre
  <2> QED BY <2>1 DEF HandleInv, HandleCount
<1> QED BY <1>1, <1>2 DEF HandleInv

\* put_waitable, for a caller that did not have the reference.
LEMMA HandlePut ==
    ASSUME HandleInv, fault = {}, UNCHANGED <<field, stale, timer, fault>>, NEW c \in Callers, NEW x \in Waitables,
           W!put_waitable(x), Fits(caller', wait),
           \A d \in Callers, y \in Waitables : Has(caller'[d], y) <=> Has(caller[d], y) \/ (d = c /\ y = x),
           ~Has(caller[c], x)
    PROVE  HandleInv'
<1>1. /\ wait' \in [Waitables -> WaitRec] /\ wait'[x].refs = wait[x].refs + 1
      /\ \A y \in Waitables : wait'[y].made = wait[y].made /\ (y # x => wait'[y] = wait[y])
  BY DEF W!put_waitable, HandleInv, HandleType, WaitRec
<1>2. HandleType'
  BY <1>1 DEF HandleInv, HandleType
<1>3. Fits(caller', wait')
  <2>1. \A d \in Callers : caller'[d].on \in Perhaps /\ caller'[d].timeout \in Perhaps
    BY DEF Fits, CallerRec
  <2> QED BY <1>1, <2>1 DEF Fits, Perhaps
<1>4. HandleMade'
  BY <1>1 DEF HandleInv, HandleType, HandleMade, Perhaps
<1>5. HandleCount'
  <2> SUFFICES ASSUME NEW y \in Waitables PROVE wait'[y].refs = Cardinality(RefSet(field', timer', caller', y))
    BY ReferencesAre DEF HandleCount
  <2>1. CASE y = x
    <3>1. RefSet(field', timer', caller', x) = RefSet(field, timer, caller, x) \cup {c}
      BY DEF RefSet
    <3>2. c \notin RefSet(field, timer, caller, x)
      BY MemoryAssumption DEF RefSet
    <3>3. Cardinality(RefSet(field', timer', caller', x)) = Cardinality(RefSet(field, timer, caller, x)) + 1
      BY <3>1, <3>2, RefSetFinite, FS_AddElement, Zenon
    <3> QED BY <1>1, <2>1, <3>3, CountOf
  <2>2. CASE y # x
    <3>1. RefSet(field', timer', caller', y) = RefSet(field, timer, caller, y)
      BY <2>2 DEF RefSet
    <3> QED BY <1>1, <2>2, <3>1, CountOf
  <2> QED BY <2>1, <2>2
<1> QED BY <1>2, <1>3, <1>4, <1>5 DEF HandleInv, HandleFault

\* release_waitable, by e, which has a reference and gives it up.  With the last
\* one the waitable is freed, and nobody is left who has one.
LEMMA HandleRelease ==
    ASSUME HandleInv, fault = {}, fault' = fault, NEW x \in Waitables, NEW e, NEW o, NEW f \in {field, Null},
           NEW tm \in [Waitables -> {"none", "send", "close", "release"}],
           \A y \in Waitables : tm[y] # "none" => timer[y] # "none",
           field' = f, stale' \in {stale, field}, timer' = tm, W!release_waitable(x, o), Fits(o, wait),
           \A s \in Callers : caller[s].at = "asleep" => o[s] = caller[s],
           e \in RefSet(field, timer, caller, x),
           RefSet(f, tm, o, x) = RefSet(field, timer, caller, x) \ {e},
           \A y \in Waitables : y # x => RefSet(f, tm, o, y) = RefSet(field, timer, caller, y)
    PROVE  HandleInv'
<1>1. /\ wait' \in [Waitables -> WaitRec] /\ wait'[x].refs = wait[x].refs - 1
      /\ \A y \in Waitables : wait'[y].made = wait[y].made /\ (y # x => wait'[y] = wait[y])
  <2>1. wait[x].refs # 0 /\ wait[x].refs \in Nat
    BY CountOf
  <2>2. wait \in [Waitables -> WaitRec]
    BY DEF HandleInv, HandleType
  <2>3. CASE wait[x].refs = 1
    <3>1. wait' = [wait EXCEPT ![x].refs = 0, ![x].closed = TRUE]
      BY <2>3 DEF W!release_waitable
    <3>2. PICK w : w = [wait EXCEPT ![x].refs = 0]
      OBVIOUS
    <3>3. /\ w \in [Waitables -> WaitRec] /\ w[x].refs = 0
          /\ \A y \in Waitables : w[y].made = wait[y].made /\ (y # x => w[y] = wait[y])
      BY <2>2, <3>2 DEF WaitRec
    <3>4. wait' = [w EXCEPT ![x].closed = TRUE]
      BY <2>2, <3>1, <3>2
    <3>5. /\ wait' \in [Waitables -> WaitRec] /\ wait'[x].refs = 0
          /\ \A y \in Waitables : wait'[y].made = w[y].made /\ (y # x => wait'[y] = w[y])
      BY <3>3, <3>4 DEF WaitRec
    <3> QED BY <2>3, <3>3, <3>5
  <2>4. CASE wait[x].refs # 1
    <3>1. wait' = [wait EXCEPT ![x].refs = @ - 1]
      BY <2>4 DEF W!release_waitable
    <3>2. wait[x].refs - 1 \in Nat
      BY <2>1
    <3> QED BY <2>2, <3>1, <3>2 DEF WaitRec
  <2> QED BY <2>3, <2>4
<1>2. /\ Fits(caller', wait)
      /\ \A c \in Callers, y \in Waitables : Has(caller'[c], y) <=> Has(o[c], y)
  <2>1. CASE caller' = o
    BY <2>1
  <2>2. CASE caller' = W!Wake(o, W!Sleepers(x))
    <3>1. W!Sleepers(x) \in SUBSET Callers /\ \A s \in W!Sleepers(x) : caller[s].at = "asleep" /\ o[s] = caller[s]
      BY DEF W!Sleepers
    <3> QED BY <2>2, <3>1, WakeFits
  <2> QED BY <2>1, <2>2 DEF W!release_waitable
<1>3. HandleType'
  BY <1>1 DEF HandleInv, HandleType, Perhaps
<1>4. Fits(caller', wait')
  <2>1. \A d \in Callers : caller'[d].on \in Perhaps /\ caller'[d].timeout \in Perhaps
    BY <1>2 DEF Fits, CallerRec
  <2> QED BY <1>1, <1>2, <2>1 DEF Fits, Perhaps
<1>5. HandleMade'
  BY <1>1 DEF HandleInv, HandleType, HandleMade, Perhaps
<1>6. HandleCount'
  <2> SUFFICES ASSUME NEW y \in Waitables PROVE wait'[y].refs = Cardinality(RefSet(field', timer', caller', y))
    BY ReferencesAre DEF HandleCount
  <2>1. RefSet(field', timer', caller', y) = RefSet(f, tm, o, y)
    BY <1>2, SameRefSet
  <2>2. CASE y = x
    <3>1. Cardinality(RefSet(f, tm, o, x)) = Cardinality(RefSet(field, timer, caller, x)) - 1
      <4>1. PICK R : R = RefSet(field, timer, caller, x)
        OBVIOUS
      <4>2. IsFiniteSet(R) /\ e \in R
        BY <4>1, RefSetFinite
      <4>3. Cardinality(R \ {e}) = Cardinality(R) - 1
        BY ONLY <4>2, FS_RemoveElement
      <4> QED BY <4>1, <4>3
    <3> QED BY <1>1, <2>1, <2>2, <3>1, CountOf
  <2>3. CASE y # x
    BY <1>1, <2>1, <2>3, CountOf
  <2> QED BY <2>2, <2>3
<1> QED BY <1>3, <1>4, <1>5, <1>6 DEF HandleInv, HandleFault

\* A waitable is allocated for e, and nobody else knows it.
LEMMA HandleNew ==
    ASSUME HandleInv, fault = {}, fault' = fault, NEW x \in Waitables, ~wait[x].made, NEW e,
           wait' = [wait EXCEPT ![x] = W!create_waitable(1)],
           field' \in {field, x}, stale' = stale, timer' \in [Waitables -> {"none", "send", "close", "release"}],
           \A y \in Waitables : timer'[y] # "none" => timer[y] # "none" \/ y = x,
           Fits(caller', wait'),
           RefSet(field', timer', caller', x) = {e},
           \A y \in Waitables : y # x =>
               Cardinality(RefSet(field', timer', caller', y)) = Cardinality(RefSet(field, timer, caller, y))
    PROVE  HandleInv'
<1>1. /\ wait' \in [Waitables -> WaitRec] /\ wait'[x].refs = 1 /\ wait'[x].made
      /\ \A y \in Waitables : y # x => wait'[y] = wait[y]
  BY NewWaitable DEF HandleInv, HandleType
<1>2. HandleType'
  BY <1>1 DEF HandleInv, HandleType, Perhaps
<1>3. HandleMade'
  BY <1>1 DEF HandleInv, HandleType, HandleMade, Perhaps
<1>4. HandleCount'
  <2> SUFFICES ASSUME NEW y \in Waitables PROVE wait'[y].refs = Cardinality(RefSet(field', timer', caller', y))
    BY ReferencesAre DEF HandleCount
  <2>1. CASE y = x
    <3>1. Cardinality({e}) = 1
      BY FS_Singleton, Zenon
    <3> QED BY <1>1, <2>1, <3>1, Zenon
  <2>2. CASE y # x
    <3>1. wait[y].refs = Cardinality(RefSet(field, timer, caller, y))
      BY CountOf
    <3> QED BY <1>1, <2>2, <3>1, Zenon
  <2> QED BY <2>1, <2>2
<1> QED BY <1>2, <1>3, <1>4 DEF HandleInv, HandleFault

\* Nobody refers to what was not allocated.
LEMMA UnmadeUnknown ==
    ASSUME HandleInv, NEW x \in Waitables, ~wait[x].made
    PROVE  /\ field # x /\ timer[x] = "none"
           /\ \A c \in Callers : caller[c].on # x /\ caller[c].timeout # x /\ ~Has(caller[c], x)
BY WaitableNotNull DEF HandleInv, HandleType, HandleMade, Fits, Has

Moved(c, r) == [caller EXCEPT ![c] = r]

LEMMA MovedFits ==
    ASSUME HandleInv, NEW c \in Callers, NEW r, Good(r),
           r.on # Null => wait[r.on].made, r.timeout # Null => wait[r.timeout].made
    PROVE  /\ Fits(Moved(c, r), wait) /\ Moved(c, r)[c] = r
           /\ \A d \in Callers : d # c => Moved(c, r)[d] = caller[d]
<1>1. r \in CallerRec /\ caller \in [Callers -> CallerRec]
  BY DEF Good, HandleInv, Fits
<1>2. Moved(c, r) \in [Callers -> CallerRec] /\ Moved(c, r)[c] = r
      /\ \A d \in Callers : d # c => Moved(c, r)[d] = caller[d]
  BY <1>1 DEF Moved
<1> QED BY <1>2 DEF HandleInv, Fits

LEMMA GoesMoves ==
    ASSUME HandleInv, NEW c \in Callers, NEW l \in Places
    PROVE  \E r \in CallerRec : /\ W!Goes(c, l) = Moved(c, r) /\ r.at = l
                                /\ r.on = caller[c].on /\ r.timeout = caller[c].timeout
<1>1. caller \in [Callers -> CallerRec] /\ caller[c] \in CallerRec
  BY DEF HandleInv, Fits
<1> DEFINE r == [caller[c] EXCEPT !.at = l]
<1>2. r \in CallerRec /\ r.at = l /\ r.on = caller[c].on /\ r.timeout = caller[c].timeout
  BY <1>1 DEF CallerRec
<1>3. W!Goes(c, l) = Moved(c, r)
  BY <1>1 DEF W!Goes, Moved
<1> QED BY <1>2, <1>3

LEMMA IdleFacts ==
    /\ W!Idle \in CallerRec /\ Good(W!Idle) /\ W!Idle.at = "idle" /\ W!Idle.on = Null /\ W!Idle.timeout = Null
    /\ \A x \in Waitables : ~Has(W!Idle, x)
<1>1. W!Idle \in CallerRec /\ W!Idle.at = "idle" /\ W!Idle.on = Null /\ W!Idle.timeout = Null
  BY DEF W!Idle, CallerRec, Places, Perhaps
<1> QED BY <1>1 DEF Good, Has

LEMMA ReturnsMoves ==
    ASSUME NEW c
    PROVE  W!Returns(c) = Moved(c, W!Idle)
BY DEF W!Returns, Moved

\* The waitables keep their references and their existence.
KeepsRefs ==
    /\ wait' \in [Waitables -> WaitRec]
    /\ \A x \in Waitables : wait'[x].refs = wait[x].refs /\ wait'[x].made = wait[x].made

\* What a caller knows is allocated.
Reaches(r, w) ==
    (r.on # Null => w[r.on].made) /\ (r.timeout # Null => w[r.timeout].made)

\* A caller moves, the sleepers in S are woken, and no reference changes hands.
LEMMA HandleMove ==
    ASSUME HandleInv, fault = {}, UNCHANGED <<field, stale, timer, fault>>, KeepsRefs,
           NEW c \in Callers, caller[c].at # "asleep", NEW r, Good(r), Reaches(r, wait),
           \A x \in Waitables : Has(r, x) <=> Has(caller[c], x),
           NEW S \in SUBSET Callers, \A s \in S : caller[s].at = "asleep",
           caller' = Moved(c, r) \/ caller' = W!Wake(Moved(c, r), S)
    PROVE  HandleInv'
<1>1. /\ Fits(Moved(c, r), wait) /\ Moved(c, r)[c] = r
      /\ \A d \in Callers : d # c => Moved(c, r)[d] = caller[d]
  BY MovedFits DEF Reaches
<1>2. \A s \in S : caller[s].at = "asleep" /\ Moved(c, r)[s] = caller[s]
  BY <1>1
<1>3. Fits(caller', wait) /\ \A d \in Callers, x \in Waitables : Has(caller'[d], x) <=> Has(Moved(c, r)[d], x)
  <2>1. CASE caller' = Moved(c, r)
    BY <1>1, <2>1
  <2>2. CASE caller' = W!Wake(Moved(c, r), S)
    BY <1>1, <1>2, <2>2, WakeFits
  <2> QED BY <2>1, <2>2
<1>4. \A d \in Callers, x \in Waitables : Has(caller'[d], x) <=> Has(caller[d], x)
  BY <1>1, <1>3
<1> QED BY <1>3, <1>4, HandleQuiet DEF KeepsRefs

LEMMA StillKeeps == HandleInv /\ wait' = wait => KeepsRefs
BY DEF HandleInv, HandleType, KeepsRefs

LEMMA ReceiveKeeps ==
    ASSUME HandleInv, NEW x \in Waitables, W!Receive(x)
    PROVE  KeepsRefs
<1>1. wait \in [Waitables -> WaitRec]
  BY DEF HandleInv, HandleType
<1>2. PICK n : n = (IF wait[x].count > 0 THEN wait[x].count - 1 ELSE wait[x].count)
  OBVIOUS
<1>3. n \in Int
  BY <1>1, <1>2 DEF WaitRec
<1>4. wait' = [wait EXCEPT ![x].count = n]
  BY <1>1, <1>2 DEF W!Receive
<1> QED BY <1>1, <1>3, <1>4 DEF KeepsRefs, WaitRec

LEMMA CloseKeeps ==
    ASSUME HandleInv, NEW x \in Waitables, NEW o, W!Close(x, o)
    PROVE  KeepsRefs
BY DEF HandleInv, HandleType, KeepsRefs, WaitRec, W!Close

LEMMA SleepersSleep ==
    ASSUME NEW x
    PROVE  W!Sleepers(x) \in SUBSET Callers /\ \A s \in W!Sleepers(x) : caller[s].at = "asleep"
BY DEF W!Sleepers

LEMMA SendKeeps ==
    ASSUME HandleInv, NEW x \in Waitables, NEW o, W!Send(x, o)
    PROVE  /\ KeepsRefs
           /\ \E S \in SUBSET Callers : /\ \A s \in S : caller[s].at = "asleep"
                                        /\ caller' = o \/ caller' = W!Wake(o, S)
<1>1. wait \in [Waitables -> WaitRec]
  BY DEF HandleInv, HandleType
<1>2. KeepsRefs
  <2>1. PICK n : n = (IF wait[x].count < wait[x].size THEN wait[x].count + 1 ELSE wait[x].count)
    OBVIOUS
  <2>2. n \in Int
    BY <1>1, <2>1 DEF WaitRec
  <2>3. wait' = wait \/ wait' = [wait EXCEPT ![x].count = n]
    BY <1>1, <2>1 DEF W!Send
  <2> QED BY <1>1, <2>2, <2>3 DEF KeepsRefs, WaitRec
<1>3. CASE caller' = o
  <2>1. {} \in SUBSET Callers /\ \A s \in {} : caller[s].at = "asleep"
    OBVIOUS
  <2> QED BY <1>2, <1>3, <2>1
<1>4. CASE \E s \in W!Sleepers(x) : caller' = W!Wake(o, {s})
  <2>1. PICK s \in W!Sleepers(x) : caller' = W!Wake(o, {s})
    BY <1>4
  <2>2. {s} \in SUBSET Callers /\ \A t \in {s} : caller[t].at = "asleep"
    BY SleepersSleep
  <2> QED BY <1>2, <2>1, <2>2
<1> QED BY <1>3, <1>4 DEF W!Send

\* A caller moves and nobody else does.
LEMMA HandleTo ==
    ASSUME HandleInv, fault = {}, UNCHANGED <<field, stale, timer, fault>>, KeepsRefs,
           NEW c \in Callers, NEW r, Good(r), caller' = Moved(c, r),
           r.on # Null => wait[r.on].made, r.timeout # Null => wait[r.timeout].made,
           \A x \in Waitables : Has(r, x) <=> Has(caller[c], x)
    PROVE  HandleInv'
<1>1. /\ Fits(Moved(c, r), wait) /\ Moved(c, r)[c] = r
      /\ \A d \in Callers : d # c => Moved(c, r)[d] = caller[d]
  BY MovedFits
<1>2. \A d \in Callers, x \in Waitables : Has(caller'[d], x) <=> Has(caller[d], x)
  BY <1>1
<1> QED BY <1>1, <1>2, HandleQuiet DEF KeepsRefs

\* What a caller knows in the middle of a call.
LEMMA Knows ==
    ASSUME HandleInv, NEW c \in Callers
    PROVE  /\ caller \in [Callers -> CallerRec] /\ caller[c] \in CallerRec /\ Good(caller[c])
           /\ caller[c].at = "idle" => caller[c] = W!Idle
           /\ caller[c].at \in {"wait", "put", "drop", "send", "take", "set", "close", "reset", "exchange",
                                "dispose", "clear"} => caller[c].timeout = Null
           /\ caller[c].at = "drop" => caller[c].on \in Waitables /\ caller[c].on # Null
           /\ caller[c].at \in {"after_put", "select", "drop_timeout"} =>
                 /\ caller[c].timeout \in Waitables /\ caller[c].timeout # Null
                 /\ caller[c].timeout # caller[c].on
           /\ caller[c].on # Null => caller[c].on \in Waitables /\ wait[caller[c].on].made
           /\ caller[c].timeout # Null => caller[c].timeout \in Waitables /\ wait[caller[c].timeout].made
BY DEF HandleInv, Fits, Good, CallerRec, Perhaps

\* What a read of the field gives was allocated.
LEMMA FieldIs ==
    ASSUME HandleInv
    PROVE  W!Waitable \in Perhaps /\ (W!Waitable # Null => W!Waitable \in Waitables /\ wait[W!Waitable].made)
BY DEF W!Waitable, HandleInv, HandleType, HandleMade, Perhaps

\* The callers that may find what they know freed.
Reading == {"wait", "put", "send", "take", "set", "close", "reset", "dispose"}

\* The field is read, at first or again: nothing is counted for it.
LEMMA HandleReads ==
    ASSUME HandleInv, fault = {}, UNCHANGED <<field, stale, wait, timer, fault>>, NEW c \in Callers,
           caller[c].at = "idle" \/ caller[c].at \in Reading, NEW r \in CallerRec, r.at \in Reading,
           r.on = W!Waitable, r.timeout = Null, caller' = Moved(c, r)
    PROVE  HandleInv'
<1>1. caller[c].timeout = Null /\ \A x \in Waitables : ~Has(caller[c], x)
  BY Knows, IdleFacts, WaitableNotNull DEF Has, Reading
<1>2. Good(r) /\ \A x \in Waitables : ~Has(r, x)
  BY WaitableNotNull DEF Good, Has, Reading
<1> QED BY <1>1, <1>2, FieldIs, StillKeeps, HandleTo

LEMMA HandleBegin ==
    ASSUME HandleInv, NEW c \in Callers, NEW l \in Reading, W!Begin(c, l)
    PROVE  HandleInv'
<1>1. caller[c] = W!Idle /\ caller[c].at = "idle" /\ fault = {}
  BY Knows DEF W!Begin, W!At
<1>2. PICK x : x = W!Waitable
  OBVIOUS
<1>3. caller' = [caller EXCEPT ![c].at = l, ![c].on = x] /\ UNCHANGED <<field, stale, wait, timer, fault>>
  BY <1>2 DEF W!Begin
<1>4. PICK a : a = [W!Idle EXCEPT !.at = l]
  OBVIOUS
<1>5. PICK r : r = [a EXCEPT !.on = x]
  OBVIOUS
<1>6. a \in CallerRec /\ a.at = l /\ a.timeout = Null
  BY <1>4, IdleFacts DEF CallerRec, Places, Reading
<1>7. r \in CallerRec /\ r.at = l /\ r.on = x /\ r.timeout = Null
  BY <1>2, <1>5, <1>6, FieldIs DEF CallerRec
<1>8. caller' = Moved(c, r)
  BY <1>1, <1>3, <1>4, <1>5, Knows DEF Moved
<1> QED BY <1>1, <1>2, <1>3, <1>7, <1>8, HandleReads

LEMMA HandleReread ==
    ASSUME HandleInv, NEW c \in Callers, W!Reread(c)
    PROVE  HandleInv'
<1>1. caller[c].at \in Reading /\ fault = {} /\ UNCHANGED <<field, stale, wait, timer, fault>>
  BY DEF W!Reread, Reading
<1>2. PICK x : x = W!Waitable
  OBVIOUS
<1>3. PICK r : r = [caller[c] EXCEPT !.on = x]
  OBVIOUS
<1>4. caller[c] \in CallerRec /\ caller[c].timeout = Null
  BY <1>1, Knows DEF Reading
<1>5. r \in CallerRec /\ r.at = caller[c].at /\ r.on = x /\ r.timeout = Null
  BY <1>2, <1>3, <1>4, FieldIs DEF CallerRec
<1>6. caller' = Moved(c, r)
  BY <1>2, <1>3 DEF W!Reread, Moved
<1> QED BY <1>1, <1>2, <1>5, <1>6, HandleReads

\* A caller goes back to its own work, when it has no reference left.
LEMMA HandleReturn ==
    ASSUME HandleInv, fault = {}, UNCHANGED <<field, stale, timer, fault>>, KeepsRefs, NEW c \in Callers,
           caller' = W!Returns(c), \A x \in Waitables : ~Has(caller[c], x)
    PROVE  HandleInv'
BY ReturnsMoves, IdleFacts, HandleTo

\* A caller that goes on to l, with what it knows and without a change of references.
LEMMA HandleGoes ==
    ASSUME HandleInv, fault = {}, UNCHANGED <<field, stale, timer, fault>>, KeepsRefs, NEW c \in Callers,
           NEW l \in Places, caller' = W!Goes(c, l),
           \/ l = "exchange" /\ caller[c].at = "reset"
           \/ l = "after" /\ caller[c].at = "idle"
           \/ l = "asleep" /\ caller[c].at \in {"wait", "select"}
           \/ l = "drop_timeout" /\ caller[c].at = "select"
    PROVE  HandleInv'
<1>1. PICK r \in CallerRec : W!Goes(c, l) = Moved(c, r) /\ r.at = l
                             /\ r.on = caller[c].on /\ r.timeout = caller[c].timeout
  BY GoesMoves
<1>2. Good(r)
  BY <1>1, Knows, IdleFacts DEF Good
<1>3. \A x \in Waitables : Has(r, x) <=> Has(caller[c], x)
  BY <1>1, Knows, IdleFacts, WaitableNotNull DEF Has
<1> QED BY <1>1, <1>2, <1>3, Knows, HandleTo

\* Who has a reference does not find the waitable freed.
LEMMA NotFreed ==
    ASSUME HandleInv, NEW x \in Waitables, RefSet(field, timer, caller, x) # {}
    PROVE  ~W!Freed(x)
BY CountOf DEF W!Freed

LEMMA HandleWaitableWait ==
    ASSUME HandleInv, NEW c \in Callers, W!WaitableWait(c)
    PROVE  HandleInv'
<1> DEFINE x == caller[c].on
<1>1. caller[c].at = "wait" /\ fault = {} /\ caller[c].timeout = Null /\ (x # Null => x \in Waitables)
  BY Knows DEF W!WaitableWait, W!At
<1>2. \A y \in Waitables : ~Has(caller[c], y)
  BY <1>1, WaitableNotNull DEF Has
<1>3. CASE W!GoesWrong(c)
  BY <1>1, <1>3, HandleWrong
<1>4. CASE /\ x # Null
           /\ IF W!Ready(x) THEN W!Receive(x) /\ caller' = W!Returns(c)
                            ELSE caller' = W!Goes(c, "asleep") /\ UNCHANGED wait
           /\ UNCHANGED <<sort, field, stale, timer, fault>>
  <2>1. KeepsRefs
    BY <1>1, <1>4, ReceiveKeeps, StillKeeps
  <2>2. "asleep" \in Places
    BY DEF Places
  <2> QED BY <1>1, <1>2, <1>4, <2>1, <2>2, HandleReturn, HandleGoes
<1> QED BY <1>3, <1>4 DEF W!WaitableWait, W!Touch

LEMMA HandlePuts ==
    ASSUME HandleInv, NEW c \in Callers, NEW x \in Waitables, W!put_waitable(x),
           UNCHANGED <<field, stale, timer, fault>>, fault = {},
           \/ caller[c].at = "put" /\ caller' = W!Goes(c, "after") /\ x = caller[c].on
           \/ caller[c].at = "after_put" /\ caller' = W!Goes(c, "select") /\ x = caller[c].timeout
    PROVE  HandleInv'
<1>1. PICK l \in {"after", "select"} : /\ caller' = W!Goes(c, l)
         /\ \/ caller[c].at = "put" /\ l = "after" /\ x = caller[c].on
            \/ caller[c].at = "after_put" /\ l = "select" /\ x = caller[c].timeout
  OBVIOUS
<1>2. l \in Places
  BY DEF Places
<1>3. PICK r \in CallerRec : W!Goes(c, l) = Moved(c, r) /\ r.at = l
                             /\ r.on = caller[c].on /\ r.timeout = caller[c].timeout
  BY <1>2, GoesMoves
<1>4. Good(r)
  BY <1>1, <1>3, Knows DEF Good
<1>5. ~Has(caller[c], x) /\ \A y \in Waitables : Has(r, y) <=> Has(caller[c], y) \/ y = x
  BY <1>1, <1>3, Knows, WaitableNotNull DEF Has
<1>6. /\ Fits(caller', wait) /\ caller'[c] = r
      /\ \A d \in Callers : d # c => caller'[d] = caller[d]
  BY <1>1, <1>3, <1>4, Knows, MovedFits
<1>7. \A d \in Callers, y \in Waitables : Has(caller'[d], y) <=> Has(caller[d], y) \/ (d = c /\ y = x)
  BY <1>5, <1>6
<1> QED BY <1>5, <1>6, <1>7, HandlePut

LEMMA HandlePutOne ==
    ASSUME HandleInv, NEW c \in Callers, W!Put(c)
    PROVE  HandleInv'
<1>1. caller[c].at = "put" /\ fault = {} /\ (caller[c].on # Null => caller[c].on \in Waitables)
  BY Knows DEF W!Put, W!At
<1> QED BY <1>1, HandlePuts, HandleWrong DEF W!Put, W!Touch

LEMMA HandleAfterPut ==
    ASSUME HandleInv, NEW c \in Callers, W!AfterPut(c)
    PROVE  HandleInv'
<1>1. caller[c].at = "after_put" /\ fault = {} /\ caller[c].timeout \in Waitables
  BY Knows DEF W!AfterPut, W!At
<1> QED BY <1>1, HandlePuts, HandleWrong DEF W!AfterPut, W!Touch

LEMMA HandleSleep ==
    ASSUME HandleInv, NEW c \in Callers, W!Sleep(c)
    PROVE  HandleInv'
<1>1. "after" \in Places /\ KeepsRefs
  BY StillKeeps DEF Places, W!Sleep
<1> QED BY <1>1, HandleGoes DEF W!Sleep, W!At

LEMMA HandleSelect ==
    ASSUME HandleInv, NEW c \in Callers, W!WaitableSelect2(c)
    PROVE  HandleInv'
<1>1. caller[c].at = "select" /\ fault = {} /\ caller[c].timeout \in Waitables
  BY Knows DEF W!WaitableSelect2, W!At
<1>2. W!Known(c) \subseteq Waitables
  BY Knows DEF W!Known
<1>3. \A x \in W!Known(c) : ~W!Freed(x)
  <2> SUFFICES ASSUME NEW x \in W!Known(c) PROVE ~W!Freed(x)
    OBVIOUS
  <2>1. Has(caller[c], x)
    BY <1>1 DEF W!Known, Has
  <2>2. c \in RefSet(field, timer, caller, x)
    BY <2>1 DEF RefSet
  <2> QED BY <1>2, <2>2, NotFreed
<1>4. "asleep" \in Places /\ "drop_timeout" \in Places
  BY DEF Places
<1>5. UNCHANGED <<field, stale, timer, fault>>
  BY <1>3 DEF W!WaitableSelect2
<1>6. ASSUME NEW x \in W!Known(c), W!Receive(x), caller' = W!Goes(c, "drop_timeout") PROVE HandleInv'
  <2>1. KeepsRefs
    BY <1>2, <1>6, ReceiveKeeps
  <2> QED BY <1>1, <1>4, <1>5, <1>6, <2>1, HandleGoes
<1>7. CASE caller' = W!Goes(c, "asleep") /\ UNCHANGED wait
  BY <1>1, <1>4, <1>5, <1>7, StillKeeps, HandleGoes
<1> QED BY <1>3, <1>6, <1>7 DEF W!WaitableSelect2

\* A caller gives back one of its references.
LEMMA HandleDrops ==
    ASSUME HandleInv, fault = {}, UNCHANGED <<field, stale, timer, fault>>, NEW c \in Callers, NEW x \in Waitables,
           NEW r, Good(r), r.on # Null => wait[r.on].made, r.timeout # Null => wait[r.timeout].made,
           W!release_waitable(x, Moved(c, r)), Has(caller[c], x), caller[c].at # "asleep",
           \A y \in Waitables : Has(r, y) <=> Has(caller[c], y) /\ y # x
    PROVE  HandleInv'
<1> DEFINE o == Moved(c, r)
<1>1. /\ Fits(o, wait) /\ o[c] = r
      /\ \A d \in Callers : d # c => o[d] = caller[d]
  BY MovedFits
<1> HIDE DEF o
<1>2. c \in RefSet(field, timer, caller, x)
  BY DEF RefSet
<1>3. RefSet(field, timer, o, x) = RefSet(field, timer, caller, x) \ {c}
  BY <1>1, MemoryAssumption DEF RefSet
<1>4. \A y \in Waitables : y # x => RefSet(field, timer, o, y) = RefSet(field, timer, caller, y)
  BY <1>1 DEF RefSet
<1>5. timer \in [Waitables -> {"none", "send", "close", "release"}]
  BY DEF HandleInv, HandleType
<1>6. \A s \in Callers : caller[s].at = "asleep" => o[s] = caller[s]
  BY <1>1
<1>7. W!release_waitable(x, o)
  BY DEF o
<1>8. field \in {field, Null} /\ stale' \in {stale, field}
  OBVIOUS
<1> QED BY <1>1, <1>2, <1>3, <1>4, <1>5, <1>6, <1>7, <1>8, HandleRelease

LEMMA HandleDropTimeout ==
    ASSUME HandleInv, NEW c \in Callers, W!DropTimeout(c)
    PROVE  HandleInv'
<1> DEFINE x == caller[c].timeout
<1>1. caller[c].at = "drop_timeout" /\ fault = {} /\ x \in Waitables /\ x # caller[c].on /\ x # Null
  BY Knows DEF W!DropTimeout, W!At
<1>2. Has(caller[c], x)
  BY <1>1 DEF Has
<1>3. ~W!Freed(x)
  <2>1. c \in RefSet(field, timer, caller, x)
    BY <1>2 DEF RefSet
  <2> QED BY <1>1, <2>1, NotFreed
<1>4. UNCHANGED <<field, stale, timer, fault>>
  BY <1>1, <1>3 DEF W!DropTimeout, W!Touch
<1>5. CASE caller[c].on = Null
  <2>1. W!release_waitable(x, W!Returns(c))
    BY <1>1, <1>3, <1>5 DEF W!DropTimeout, W!Touch
  <2>2. \A y \in Waitables : Has(W!Idle, y) <=> Has(caller[c], y) /\ y # x
    BY <1>1, <1>5, IdleFacts, WaitableNotNull DEF Has
  <2> QED BY <1>1, <1>2, <1>4, <2>1, <2>2, IdleFacts, ReturnsMoves, HandleDrops
<1>6. CASE caller[c].on # Null
  <2>1. W!release_waitable(x, [caller EXCEPT ![c].at = "drop", ![c].timeout = Null])
    BY <1>1, <1>3, <1>6 DEF W!DropTimeout, W!Touch
  <2>2. PICK a : a = [caller[c] EXCEPT !.at = "drop"]
    OBVIOUS
  <2>3. PICK r : r = [a EXCEPT !.timeout = Null]
    OBVIOUS
  <2>4. a \in CallerRec /\ a.at = "drop" /\ a.on = caller[c].on
    BY <2>2, Knows DEF CallerRec, Places
  <2>5. r \in CallerRec /\ r.at = "drop" /\ r.on = caller[c].on /\ r.timeout = Null
    BY <2>3, <2>4 DEF CallerRec, Perhaps
  <2>6. [caller EXCEPT ![c].at = "drop", ![c].timeout = Null] = Moved(c, r)
    BY <2>2, <2>3, Knows DEF Moved
  <2>7. Good(r)
    BY <1>6, <2>5 DEF Good
  <2>8. \A y \in Waitables : Has(r, y) <=> Has(caller[c], y) /\ y # x
    BY <1>1, <1>6, <2>5, WaitableNotNull DEF Has
  <2>9. W!release_waitable(x, Moved(c, r))
    BY <2>1, <2>6
  <2> QED BY <1>1, <1>2, <1>4, <1>6, <2>5, <2>7, <2>8, <2>9, Knows, HandleDrops
<1> QED BY <1>5, <1>6

LEMMA HandleDrop ==
    ASSUME HandleInv, NEW c \in Callers, W!Drop(c)
    PROVE  HandleInv'
<1> DEFINE x == caller[c].on
<1>1. caller[c].at = "drop" /\ fault = {} /\ x \in Waitables /\ caller[c].timeout = Null
  BY Knows DEF W!Drop, W!At
<1>2. Has(caller[c], x) /\ \A y \in Waitables : Has(W!Idle, y) <=> Has(caller[c], y) /\ y # x
  BY <1>1, IdleFacts, WaitableNotNull DEF Has
<1>3. ~W!Freed(x)
  <2>1. c \in RefSet(field, timer, caller, x)
    BY <1>2 DEF RefSet
  <2> QED BY <1>1, <2>1, NotFreed
<1>4. UNCHANGED <<field, stale, timer, fault>> /\ W!release_waitable(x, W!Returns(c))
  BY <1>1, <1>3, WaitableNotNull DEF W!Drop, W!Touch
<1> QED BY <1>1, <1>2, <1>4, IdleFacts, ReturnsMoves, HandleDrops

Made(x) == wait'[x].made /\ \A y \in Waitables : y # x => wait'[y] = wait[y]

LEMMA CreateMakes ==
    ASSUME HandleInv, NEW x \in Waitables, wait' = [wait EXCEPT ![x] = W!create_waitable(1)]
    PROVE  Made(x)
BY NewWaitable DEF HandleInv, HandleType, Made

\* What a caller knows is still there, when a waitable is allocated for it.
LEMMA NewFits ==
    ASSUME HandleInv, NEW c \in Callers, NEW x \in Waitables, NEW r, Good(r),
           Made(x), Reaches(r, wait')
    PROVE  /\ Fits(Moved(c, r), wait') /\ Moved(c, r)[c] = r
           /\ \A d \in Callers : d # c => Moved(c, r)[d] = caller[d]
<1>1. /\ wait'[x].made /\ \A y \in Waitables : (y # x => wait'[y] = wait[y]) /\ (wait[y].made => wait'[y].made)
  BY DEF Made
<1>2. r \in CallerRec /\ caller \in [Callers -> CallerRec]
  BY DEF Good, HandleInv, Fits
<1>3. Moved(c, r) \in [Callers -> CallerRec] /\ Moved(c, r)[c] = r
      /\ \A d \in Callers : d # c => Moved(c, r)[d] = caller[d]
  BY <1>2 DEF Moved
<1>4. ASSUME NEW d \in Callers, d # c
      PROVE  /\ Good(caller[d])
             /\ caller[d].on # Null => wait'[caller[d].on].made
             /\ caller[d].timeout # Null => wait'[caller[d].timeout].made
  BY <1>1, Knows, WaitableNotNull
<1> QED BY <1>1, <1>3, <1>4 DEF Fits, Reaches

LEMMA HandleAfter ==
    ASSUME HandleInv, NEW c \in Callers, W!After(c)
    PROVE  HandleInv'
<1>1. PICK x \in Waitables : /\ ~wait[x].made /\ wait' = [wait EXCEPT ![x] = W!create_waitable(1)]
                             /\ timer' = [timer EXCEPT ![x] = "send"]
                             /\ caller' = [caller EXCEPT ![c].at = "after_put", ![c].timeout = x]
  BY DEF W!After
<1>2. caller[c].at = "after" /\ fault = {} /\ fault' = fault /\ field' = field /\ stale' = stale
  BY DEF W!After, W!At
<1>3. caller[c].timeout = Null
  BY <1>2, Knows DEF Good
<1>4. PICK a : a = [caller[c] EXCEPT !.at = "after_put"]
  OBVIOUS
<1>5. PICK r : r = [a EXCEPT !.timeout = x]
  OBVIOUS
<1>6. a \in CallerRec /\ a.at = "after_put" /\ a.on = caller[c].on
  BY <1>4, Knows DEF CallerRec, Places
<1>7. r \in CallerRec /\ r.at = "after_put" /\ r.on = caller[c].on /\ r.timeout = x
  BY <1>5, <1>6 DEF CallerRec, Perhaps
<1>8. caller' = Moved(c, r)
  BY <1>1, <1>4, <1>5, Knows DEF Moved
<1>9. Good(r)
  BY <1>1, <1>7, UnmadeUnknown, WaitableNotNull DEF Good
<1>10. \A y \in Waitables : Has(r, y) <=> Has(caller[c], y)
  BY <1>2, <1>7 DEF Has
<1>11. /\ wait'[x].made /\ \A y \in Waitables : y # x => wait'[y] = wait[y]
  BY <1>1, NewWaitable DEF HandleInv, HandleType
<1>12. Reaches(r, wait')
  BY <1>2, <1>7, <1>11, Knows DEF Reaches
<1>13. /\ Fits(caller', wait') /\ caller'[c] = r
       /\ \A d \in Callers : d # c => caller'[d] = caller[d]
  <2>1. Made(x)
    BY <1>1, CreateMakes
  <2>2. Fits(Moved(c, r), wait') /\ Moved(c, r)[c] = r
        /\ \A d \in Callers : d # c => Moved(c, r)[d] = caller[d]
    BY <1>9, <1>12, <2>1, NewFits
  <2> QED BY <1>8, <2>2
<1>14. /\ timer' \in [Waitables -> {"none", "send", "close", "release"}] /\ timer'[x] = "send"
       /\ \A y \in Waitables : y # x => timer'[y] = timer[y]
  BY <1>1 DEF HandleInv, HandleType
<1>15. \A d \in Callers, y \in Waitables : Has(caller'[d], y) <=> Has(caller[d], y)
  BY <1>10, <1>13
<1>16. RefSet(field', timer', caller', x) = {"timer"}
  BY <1>1, <1>2, <1>14, <1>15, UnmadeUnknown DEF RefSet
<1>17. \A y \in Waitables : y # x => RefSet(field', timer', caller', y) = RefSet(field, timer, caller, y)
  BY <1>2, <1>14, <1>15 DEF RefSet
<1>18. \A y \in Waitables : timer'[y] # "none" => timer[y] # "none" \/ y = x
  BY <1>14
<1>19. \A y \in Waitables : y # x =>
           Cardinality(RefSet(field', timer', caller', y)) = Cardinality(RefSet(field, timer, caller, y))
  BY <1>17, Zenon
<1>20. field' \in {field, x} /\ stale' = stale /\ fault' = fault /\ fault = {}
  BY <1>2
<1> QED BY <1>1, <1>13, <1>14, <1>16, <1>18, <1>19, <1>20, HandleNew, ZenonT(60)

\* The reference of the handle to the old waitable becomes that of the caller.
LEMMA HandleExchange ==
    ASSUME HandleInv, NEW c \in Callers, W!Exchange(c)
    PROVE  HandleInv'
<1>0. CASE field = Null
  BY <1>0, HandleWrong DEF W!Exchange, W!At
<1> SUFFICES ASSUME field # Null PROVE HandleInv'
  BY <1>0
<1>1. PICK x \in Waitables : /\ ~wait[x].made /\ wait' = [wait EXCEPT ![x] = W!create_waitable(1)]
                             /\ field' = x
                             /\ caller' = [caller EXCEPT ![c].at = "drop", ![c].on = field]
  BY DEF W!Exchange
<1>2. caller[c].at = "exchange" /\ fault = {} /\ fault' = fault /\ timer' = timer /\ stale' = stale
  BY DEF W!Exchange, W!At
<1>3. caller[c].timeout = Null /\ field # Null /\ field \in Waitables /\ wait[field].made
  BY <1>2, Knows DEF HandleInv, HandleType, HandleMade, Perhaps
<1>4. PICK a : a = [caller[c] EXCEPT !.at = "drop"]
  OBVIOUS
<1>5. PICK r : r = [a EXCEPT !.on = field]
  OBVIOUS
<1>6. a \in CallerRec /\ a.at = "drop" /\ a.timeout = Null
  BY <1>3, <1>4, Knows DEF CallerRec, Places
<1>7. r \in CallerRec /\ r.at = "drop" /\ r.on = field /\ r.timeout = Null
  BY <1>3, <1>5, <1>6 DEF CallerRec, Perhaps
<1>8. caller' = Moved(c, r)
  BY <1>1, <1>4, <1>5, Knows DEF Moved
<1>9. Good(r)
  BY <1>3, <1>7 DEF Good
<1>10. \A y \in Waitables : ~Has(caller[c], y) /\ (Has(r, y) <=> y = field)
  BY <1>2, <1>3, <1>7, WaitableNotNull DEF Has
<1>11. field # x /\ wait'[field].made
  BY <1>1, <1>3, NewWaitable DEF HandleInv, HandleType
<1>12. /\ Fits(caller', wait') /\ caller'[c] = r
       /\ \A d \in Callers : d # c => caller'[d] = caller[d]
  <2>1. Made(x)
    BY <1>1, CreateMakes
  <2>2. Reaches(r, wait')
    BY <1>1, <1>7, <1>11, WaitableNotNull DEF Reaches
  <2>3. Fits(Moved(c, r), wait') /\ Moved(c, r)[c] = r
        /\ \A d \in Callers : d # c => Moved(c, r)[d] = caller[d]
    BY <1>9, <2>1, <2>2, NewFits
  <2> QED BY <1>8, <2>3
<1>13. \A d \in Callers, y \in Waitables : Has(caller'[d], y) <=> Has(caller[d], y) \/ (d = c /\ y = field)
  BY <1>10, <1>12
<1>14. RefSet(field', timer', caller', x) = {"handle"}
  BY <1>1, <1>2, <1>11, <1>13, UnmadeUnknown DEF RefSet
<1>15. ASSUME NEW y \in Waitables, y # x
       PROVE  Cardinality(RefSet(field', timer', caller', y)) = Cardinality(RefSet(field, timer, caller, y))
  <2>1. CASE y # field
    <3>1. RefSet(field', timer', caller', y) = RefSet(field, timer, caller, y)
      BY <1>1, <1>2, <1>13, <1>15, <2>1 DEF RefSet
    <3> QED BY <3>1
  <2>2. CASE y = field
    <3> DEFINE R == RefSet(field, timer, caller, field)
               Q == R \ {"handle"}
    <3>1. "handle" \in R /\ c \notin R
      BY <1>3, <1>10, MemoryAssumption DEF RefSet
    <3>2. RefSet(field', timer', caller', y) = Q \cup {c}
      BY <1>1, <1>2, <1>11, <1>13, <2>2, MemoryAssumption DEF RefSet
    <3>3. IsFiniteSet(R) /\ Cardinality(R) \in Nat
      BY RefSetFinite
    <3> HIDE DEF R
    <3>4. IsFiniteSet(Q) /\ Cardinality(Q) = Cardinality(R) - 1 /\ c \notin Q
      BY <3>1, <3>3, FS_RemoveElement, Zenon
    <3> HIDE DEF Q
    <3>5. Cardinality(Q \cup {c}) = Cardinality(Q) + 1
      BY <3>4, FS_AddElement, Zenon
    <3>6. Cardinality(Q \cup {c}) = Cardinality(R)
      BY <3>3, <3>4, <3>5
    <3> QED BY <2>2, <3>2, <3>6 DEF R
  <2> QED BY <2>1, <2>2
<1>16. timer' \in [Waitables -> {"none", "send", "close", "release"}]
       /\ \A y \in Waitables : timer'[y] # "none" => timer[y] # "none" \/ y = x
  BY <1>2 DEF HandleInv, HandleType
<1>17. field' \in {field, x} /\ stale' = stale /\ fault' = fault /\ fault = {}
  BY <1>1, <1>2
<1> QED BY <1>1, <1>12, <1>14, <1>15, <1>16, <1>17, HandleNew

LEMMA HandleReleases ==
    ASSUME HandleInv, NEW c \in Callers, W!Release(c)
    PROVE  HandleInv'
<1>1. PICK x : x = W!Waitable
  OBVIOUS
<1>2. PICK n \in 1..W!Size(sort) : caller' = [caller EXCEPT ![c].at = "send", ![c].on = x, ![c].left = n]
  BY <1>1 DEF W!Release
<1>3. caller[c].at = "idle" /\ fault = {} /\ UNCHANGED <<field, stale, wait, timer, fault>>
  BY DEF W!Release, W!At
<1>4. PICK a : a = [W!Idle EXCEPT !.at = "send"]
  OBVIOUS
<1>5. PICK b : b = [a EXCEPT !.on = x]
  OBVIOUS
<1>6. PICK r : r = [b EXCEPT !.left = n]
  OBVIOUS
<1>7. a \in CallerRec /\ a.at = "send" /\ a.timeout = Null
  BY <1>4, IdleFacts DEF CallerRec, Places
<1>8. b \in CallerRec /\ b.at = "send" /\ b.on = x /\ b.timeout = Null
  BY <1>1, <1>5, <1>7, FieldIs DEF CallerRec
<1>9. r \in CallerRec /\ r.at = "send" /\ r.on = x /\ r.timeout = Null
  BY <1>6, <1>8 DEF CallerRec
<1>10. caller' = Moved(c, r)
  BY <1>2, <1>3, <1>4, <1>5, <1>6, Knows DEF Moved
<1> QED BY <1>1, <1>3, <1>9, <1>10, HandleReads DEF Reading

LEMMA HandleSendLoop ==
    ASSUME HandleInv, NEW c \in Callers, W!SendLoop(c)
    PROVE  HandleInv'
<1> DEFINE x == caller[c].on
<1>1. caller[c].at = "send" /\ fault = {} /\ caller[c].timeout = Null /\ (x # Null => x \in Waitables)
  BY Knows DEF W!SendLoop, W!At
<1>2. CASE W!GoesWrong(c)
  BY <1>1, <1>2, HandleWrong
<1>3. ASSUME x # Null, UNCHANGED <<field, stale, timer, fault>>, NEW o,
             o \in {W!Returns(c), [caller EXCEPT ![c].left = @ - 1, ![c].on = W!Waitable]}, W!Send(x, o)
      PROVE  HandleInv'
  <2>1. \E r \in CallerRec : /\ o = Moved(c, r) /\ Good(r) /\ \A y \in Waitables : ~Has(r, y)
                             /\ r.on # Null => wait[r.on].made
                             /\ r.timeout = Null
    <3>1. CASE o = W!Returns(c)
      BY <3>1, ReturnsMoves, IdleFacts
    <3>2. CASE o = [caller EXCEPT ![c].left = @ - 1, ![c].on = W!Waitable]
      <4>1. PICK a : a = [caller[c] EXCEPT !.left = @ - 1]
        OBVIOUS
      <4>2. PICK y, r : y = W!Waitable /\ r = [a EXCEPT !.on = y]
        OBVIOUS
      <4>3. a \in CallerRec /\ a.at = "send" /\ a.timeout = Null
        BY <1>1, <4>1, Knows DEF CallerRec
      <4>4. r \in CallerRec /\ r.at = "send" /\ r.on = y /\ r.timeout = Null
        BY <4>2, <4>3, FieldIs DEF CallerRec
      <4>5. o = Moved(c, r)
        BY <3>2, <4>1, <4>2, Knows DEF Moved
      <4>6. Good(r) /\ \A z \in Waitables : ~Has(r, z)
        BY <4>4, WaitableNotNull DEF Good, Has
      <4> QED BY <4>2, <4>4, <4>5, <4>6, FieldIs
    <3> QED BY <1>3, <3>1, <3>2
  <2>2. PICK r \in CallerRec : /\ o = Moved(c, r) /\ Good(r) /\ \A y \in Waitables : ~Has(r, y)
                               /\ r.on # Null => wait[r.on].made
                               /\ r.timeout = Null
    BY <2>1
  <2>3. KeepsRefs
    BY <1>1, <1>3, SendKeeps
  <2>4. PICK S \in SUBSET Callers : /\ \A s \in S : caller[s].at = "asleep"
                                    /\ caller' = o \/ caller' = W!Wake(o, S)
    BY <1>1, <1>3, SendKeeps
  <2>5. \A y \in Waitables : Has(r, y) <=> Has(caller[c], y)
    BY <1>1, <2>2, WaitableNotNull DEF Has
  <2>6. caller' = Moved(c, r) \/ caller' = W!Wake(Moved(c, r), S)
    BY <2>2, <2>4
  <2>7. Reaches(r, wait)
    BY <2>2 DEF Reaches
  <2>8. fault = {} /\ UNCHANGED <<field, stale, timer, fault>> /\ caller[c].at # "asleep"
    BY <1>1, <1>3
  <2> QED BY <2>2, <2>3, <2>4, <2>5, <2>6, <2>7, <2>8, HandleMove
<1> DEFINE full == caller[c].left = 1 \/ wait[x].closed \/ wait[x].count = wait[x].size
           o == IF full THEN W!Returns(c) ELSE [caller EXCEPT ![c].left = @ - 1, ![c].on = W!Waitable]
<1>4. CASE x # Null /\ UNCHANGED <<sort, field, stale, timer, fault>> /\ W!Send(x, o)
  <2> HIDE DEF full
  <2>1. o \in {W!Returns(c), [caller EXCEPT ![c].left = @ - 1, ![c].on = W!Waitable]}
    OBVIOUS
  <2> HIDE DEF o
  <2> QED BY <1>3, <1>4, <2>1
<1> HIDE DEF full, o
<1>5. \/ W!GoesWrong(c)
      \/ x # Null /\ UNCHANGED <<sort, field, stale, timer, fault>> /\ W!Send(x, o)
  BY Zenon DEF W!SendLoop, W!Touch, full, o
<1> QED BY <1>2, <1>4, <1>5

LEMMA HandleTake ==
    ASSUME HandleInv, NEW c \in Callers, W!Take(c)
    PROVE  HandleInv'
<1>1. /\ caller[c].at = "take" /\ fault = {} /\ caller[c].timeout = Null
      /\ caller[c].on # Null => caller[c].on \in Waitables
  BY Knows DEF W!Take, W!At
<1>2. \A y \in Waitables : ~Has(caller[c], y)
  BY <1>1, WaitableNotNull DEF Has
<1> QED BY <1>1, <1>2, ReceiveKeeps, HandleReturn, HandleWrong DEF W!Take, W!Touch

LEMMA HandleSetCheck ==
    ASSUME HandleInv, NEW c \in Callers, W!SetCheck(c)
    PROVE  HandleInv'
<1>1. caller[c].at = "set" /\ fault = {} /\ caller[c].timeout = Null
  BY Knows DEF W!SetCheck, W!At
<1>2. \A y \in Waitables : ~Has(caller[c], y)
  BY <1>1, WaitableNotNull DEF Has
<1>3. CASE /\ caller' = [caller EXCEPT ![c].at = "close", ![c].on = W!Waitable]
           /\ UNCHANGED <<field, stale, wait, timer, fault>>
  <2>1. PICK a : a = [caller[c] EXCEPT !.at = "close"]
    OBVIOUS
  <2>2. PICK y, r : y = W!Waitable /\ r = [a EXCEPT !.on = y]
    OBVIOUS
  <2>3. a \in CallerRec /\ a.at = "close" /\ a.timeout = Null
    BY <1>1, <2>1, Knows DEF CallerRec, Places
  <2>4. r \in CallerRec /\ r.at = "close" /\ r.on = y /\ r.timeout = Null
    BY <2>2, <2>3, FieldIs DEF CallerRec
  <2>5. caller' = Moved(c, r)
    BY <1>3, <2>1, <2>2, Knows DEF Moved
  <2> QED BY <1>1, <1>3, <2>2, <2>4, <2>5, HandleReads DEF Reading
<1>4. CASE caller' = W!Returns(c) /\ UNCHANGED <<field, stale, wait, timer, fault>>
  BY <1>1, <1>2, <1>4, StillKeeps, HandleReturn
<1> QED BY <1>1, <1>3, <1>4, HandleWrong DEF W!SetCheck, W!Touch

LEMMA HandleSetClose ==
    ASSUME HandleInv, NEW c \in Callers, W!SetClose(c)
    PROVE  HandleInv'
<1> DEFINE x == caller[c].on
<1>1. caller[c].at = "close" /\ fault = {} /\ caller[c].timeout = Null /\ (x # Null => x \in Waitables)
  BY Knows DEF W!SetClose, W!At
<1>2. \A y \in Waitables : ~Has(caller[c], y)
  BY <1>1, WaitableNotNull DEF Has
<1>3. CASE x # Null /\ W!Close(x, W!Returns(c)) /\ UNCHANGED <<field, stale, timer, fault>>
  <2>1. KeepsRefs
    BY <1>1, <1>3, CloseKeeps
  <2>2. caller' = W!Wake(Moved(c, W!Idle), W!Sleepers(x))
    BY <1>3, ReturnsMoves DEF W!Close
  <2>3. Reaches(W!Idle, wait)
    BY IdleFacts DEF Reaches
  <2> QED BY <1>1, <1>2, <1>3, <2>1, <2>2, <2>3, IdleFacts, SleepersSleep, HandleMove
<1> QED BY <1>1, <1>3, HandleWrong DEF W!SetClose, W!Touch

LEMMA HandleResetCheck ==
    ASSUME HandleInv, NEW c \in Callers, W!ResetCheck(c)
    PROVE  HandleInv'
<1>1. caller[c].at = "reset" /\ fault = {} /\ caller[c].timeout = Null
  BY Knows DEF W!ResetCheck, W!At
<1>2. \A y \in Waitables : ~Has(caller[c], y)
  BY <1>1, WaitableNotNull DEF Has
<1>3. "exchange" \in Places
  BY DEF Places
<1>4. CASE caller' = W!Goes(c, "exchange") /\ UNCHANGED <<field, stale, wait, timer, fault>>
  BY <1>1, <1>3, <1>4, StillKeeps, HandleGoes
<1>5. CASE caller' = W!Returns(c) /\ UNCHANGED <<field, stale, wait, timer, fault>>
  BY <1>1, <1>2, <1>5, StillKeeps, HandleReturn
<1> QED BY <1>1, <1>4, <1>5, HandleWrong DEF W!ResetCheck, W!Touch

\* The timer goes on, and keeps its reference.
LEMMA HandleTimerQuiet ==
    ASSUME HandleInv, fault = {}, UNCHANGED <<field, stale, fault>>, KeepsRefs,
           timer' \in [Waitables -> {"none", "send", "close", "release"}],
           \A x \in Waitables : timer'[x] # "none" <=> timer[x] # "none",
           NEW S \in SUBSET Callers, \A s \in S : caller[s].at = "asleep",
           caller' = caller \/ caller' = W!Wake(caller, S)
    PROVE  HandleInv'
<1>1. Fits(caller', wait) /\ \A d \in Callers, x \in Waitables : Has(caller'[d], x) <=> Has(caller[d], x)
  BY WakeFits DEF HandleInv
<1>2. HandleType'
  BY DEF HandleInv, HandleType, KeepsRefs
<1>3. Fits(caller', wait')
  <2>1. \A c \in Callers : caller'[c].on \in Perhaps /\ caller'[c].timeout \in Perhaps
    BY <1>1 DEF Fits, CallerRec
  <2> QED BY <1>1, <2>1 DEF Fits, Perhaps, KeepsRefs
<1>4. HandleMade'
  BY DEF HandleInv, HandleType, HandleMade, Perhaps, KeepsRefs
<1>5. HandleCount'
  <2> SUFFICES ASSUME NEW x \in Waitables PROVE wait'[x].refs = Cardinality(W!References(x)')
    BY DEF HandleCount
  <2>1. RefSet(field', timer', caller', x) = RefSet(field, timer, caller, x)
    BY <1>1 DEF RefSet
  <2> QED BY <2>1, ReferencesAre DEF HandleInv, HandleCount, KeepsRefs
<1> QED BY <1>2, <1>3, <1>4, <1>5 DEF HandleInv, HandleFault

LEMMA HandleSendTimer ==
    ASSUME HandleInv, NEW x \in Waitables, W!SendTimer(x)
    PROVE  HandleInv'
<1>1. fault = {} /\ timer[x] # "none"
  BY DEF W!SendTimer
<1>2. "timer" \in RefSet(field, timer, caller, x)
  BY <1>1 DEF RefSet
<1>3. ~W!Freed(x)
  BY <1>2, NotFreed
<1>4. UNCHANGED <<field, stale, fault>>
  BY <1>3, WaitableNotNull DEF W!SendTimer, W!Touch
<1>5. timer \in [Waitables -> {"none", "send", "close", "release"}]
  BY DEF HandleInv, HandleType
<1>6. CASE timer[x] = "send"
  <2>1. W!Send(x, caller) /\ timer' = [timer EXCEPT ![x] = "close"]
    BY <1>3, <1>5, <1>6, WaitableNotNull DEF W!SendTimer, W!Touch
  <2>2. KeepsRefs
    BY <2>1, SendKeeps
  <2>3. PICK S \in SUBSET Callers : /\ \A s \in S : caller[s].at = "asleep"
                                    /\ caller' = caller \/ caller' = W!Wake(caller, S)
    BY <2>1, SendKeeps
  <2>4. /\ timer' \in [Waitables -> {"none", "send", "close", "release"}]
        /\ \A y \in Waitables : timer'[y] # "none" <=> timer[y] # "none"
    BY <1>1, <1>5, <2>1
  <2> QED BY <1>1, <1>4, <2>2, <2>3, <2>4, HandleTimerQuiet
<1>7. CASE timer[x] = "close"
  <2>1. W!Close(x, caller) /\ timer' = [timer EXCEPT ![x] = "release"]
    BY <1>3, <1>5, <1>7, WaitableNotNull DEF W!SendTimer, W!Touch
  <2>2. KeepsRefs /\ caller' = W!Wake(caller, W!Sleepers(x))
    BY <2>1, CloseKeeps DEF W!Close
  <2>3. /\ timer' \in [Waitables -> {"none", "send", "close", "release"}]
        /\ \A y \in Waitables : timer'[y] # "none" <=> timer[y] # "none"
    BY <1>1, <1>5, <2>1
  <2> QED BY <1>1, <1>4, <2>2, <2>3, SleepersSleep, HandleTimerQuiet
<1>8. CASE timer[x] = "release"
  <2>1. W!release_waitable(x, caller) /\ timer' = [timer EXCEPT ![x] = "none"]
    BY <1>3, <1>5, <1>8, WaitableNotNull DEF W!SendTimer, W!Touch
  <2>2. PICK tm : tm = [timer EXCEPT ![x] = "none"]
    OBVIOUS
  <2>3. /\ tm \in [Waitables -> {"none", "send", "close", "release"}] /\ tm[x] = "none"
        /\ \A y \in Waitables : y # x => tm[y] = timer[y]
    BY <1>5, <2>2
  <2>4. \A y \in Waitables : tm[y] # "none" => timer[y] # "none"
    BY <2>3
  <2>5. RefSet(field, tm, caller, x) = RefSet(field, timer, caller, x) \ {"timer"}
    BY <2>3, MemoryAssumption DEF RefSet
  <2>6. \A y \in Waitables : y # x => RefSet(field, tm, caller, y) = RefSet(field, timer, caller, y)
    BY <2>3 DEF RefSet
  <2>7. field' = field /\ stale' \in {stale, field} /\ timer' = tm /\ fault' = fault /\ Fits(caller, wait)
        /\ \A s \in Callers : caller[s].at = "asleep" => caller[s] = caller[s]
    BY <1>4, <2>1, <2>2 DEF HandleInv
  <2> QED BY <1>1, <1>2, <2>1, <2>3, <2>4, <2>5, <2>6, <2>7, HandleRelease
<1> QED BY <1>1, <1>5, <1>6, <1>7, <1>8

LEMMA HandleDisposeRelease ==
    ASSUME HandleInv, NEW c \in Callers, W!DisposeRelease(c)
    PROVE  HandleInv'
<1>1. caller[c].at = "dispose" /\ fault = {} /\ caller[c].timeout = Null
  BY Knows DEF W!DisposeRelease, W!At
<1>2. CASE W!GoesWrong(c)
  BY <1>1, <1>2, HandleWrong
<1>3. CASE /\ field # Null /\ caller[c].on = field /\ W!release_waitable(field, W!Goes(c, "clear"))
           /\ field' = Null /\ stale' = field /\ UNCHANGED <<timer, fault>>
  <2>1. "clear" \in Places
    BY DEF Places
  <2>2. PICK r \in CallerRec : W!Goes(c, "clear") = Moved(c, r) /\ r.at = "clear"
                                /\ r.on = caller[c].on /\ r.timeout = caller[c].timeout
    BY <2>1, GoesMoves
  <2>3. PICK o : o = Moved(c, r)
    OBVIOUS
  <2>4. Good(r) /\ \A y \in Waitables : ~Has(r, y) /\ ~Has(caller[c], y)
    BY <1>1, <2>2, WaitableNotNull DEF Good, Has
  <2>5. Fits(o, wait) /\ o[c] = r /\ \A d \in Callers : d # c => o[d] = caller[d]
    BY <1>1, <2>2, <2>3, <2>4, Knows, MovedFits
  <2>6. \A d \in Callers, y \in Waitables : Has(o[d], y) <=> Has(caller[d], y)
    BY <2>4, <2>5
  <2>7. field \in Waitables /\ timer \in [Waitables -> {"none", "send", "close", "release"}]
    BY <1>3 DEF HandleInv, HandleType, Perhaps
  <2>8. "handle" \in RefSet(field, timer, caller, field)
    BY DEF RefSet
  <2>9. RefSet(Null, timer, o, field) = RefSet(field, timer, caller, field) \ {"handle"}
    BY <2>6, <2>7, MemoryAssumption DEF RefSet
  <2>10. \A y \in Waitables : y # field => RefSet(Null, timer, o, y) = RefSet(field, timer, caller, y)
    BY <2>6, WaitableNotNull DEF RefSet
  <2>11. \A s \in Callers : caller[s].at = "asleep" => o[s] = caller[s]
    BY <1>1, <2>5
  <2>12. Null \in {field, Null} /\ field' = Null /\ stale' \in {stale, field} /\ timer' = timer /\ fault' = fault
         /\ fault = {} /\ W!release_waitable(field, o) /\ \A y \in Waitables : timer[y] # "none" => timer[y] # "none"
    BY <1>1, <1>3, <2>2, <2>3
  <2> QED BY <2>5, <2>7, <2>8, <2>9, <2>10, <2>11, <2>12, HandleRelease
<1> QED BY <1>2, <1>3 DEF W!DisposeRelease

LEMMA HandleDisposeClear ==
    ASSUME HandleInv, NEW c \in Callers, W!DisposeClear(c)
    PROVE  HandleInv'
<1>1. /\ caller[c].at = "clear" /\ fault = {} /\ caller[c].timeout = Null
      /\ stale' = Null /\ caller' = W!Returns(c) /\ UNCHANGED <<field, wait, timer, fault>>
  BY Knows DEF W!DisposeClear, W!At
<1>2. \A y \in Waitables : ~Has(caller[c], y) /\ ~Has(W!Idle, y)
  BY <1>1, IdleFacts, WaitableNotNull DEF Has
<1>3. Fits(caller', wait) /\ caller'[c] = W!Idle /\ \A d \in Callers : d # c => caller'[d] = caller[d]
  BY <1>1, ReturnsMoves, IdleFacts, MovedFits
<1>4. \A x \in Waitables : W!References(x)' = W!References(x)
  <2> SUFFICES ASSUME NEW x \in Waitables PROVE RefSet(field', timer', caller', x) = RefSet(field, timer, caller, x)
    BY ReferencesAre
  <2> QED BY <1>1, <1>2, <1>3 DEF RefSet
<1>5. HandleType' /\ HandleMade' /\ HandleFault' /\ Fits(caller', wait')
  BY <1>1, <1>3 DEF HandleInv, HandleType, HandleMade, HandleFault, Perhaps
<1> QED BY <1>1, <1>4, <1>5 DEF HandleInv, HandleCount

LEMMA HandleNext == HandleInv /\ W!Next => HandleInv'
<1> SUFFICES ASSUME HandleInv, W!Next PROVE HandleInv'
  OBVIOUS
<1>1. ASSUME NEW c \in Callers,
             \/ W!WaitOne(c) \/ W!WaitOneTimed(c) \/ W!ResetAutoReset(c) \/ W!SetManualReset(c)
             \/ W!ResetManualReset(c) \/ W!Dispose(c)
      PROVE  HandleInv'
  BY <1>1, HandleBegin DEF Reading, W!WaitOne, W!WaitOneTimed, W!ResetAutoReset, W!SetManualReset,
     W!ResetManualReset, W!Dispose
<1>2. ASSUME NEW c \in Callers,
             \/ W!WaitableWait(c) \/ W!Put(c) \/ W!Sleep(c) \/ W!After(c) \/ W!AfterPut(c)
             \/ W!WaitableSelect2(c) \/ W!DropTimeout(c) \/ W!Drop(c)
      PROVE  HandleInv'
  BY <1>2, HandleWaitableWait, HandlePutOne, HandleSleep, HandleAfter, HandleAfterPut, HandleSelect,
     HandleDropTimeout, HandleDrop
<1>3. ASSUME NEW c \in Callers,
             \/ W!Release(c) \/ W!SendLoop(c) \/ W!Take(c) \/ W!SetCheck(c) \/ W!SetClose(c)
             \/ W!ResetCheck(c) \/ W!Exchange(c) \/ W!Reread(c) \/ W!DisposeRelease(c) \/ W!DisposeClear(c)
      PROVE  HandleInv'
  BY <1>3, HandleReleases, HandleSendLoop, HandleTake, HandleSetCheck, HandleSetClose, HandleResetCheck,
     HandleExchange, HandleReread, HandleDisposeRelease, HandleDisposeClear
<1> QED BY <1>1, <1>2, <1>3, HandleSendTimer DEF W!Next

LEMMA HandleStutter == HandleInv /\ UNCHANGED wvars => HandleInv'
<1> SUFFICES ASSUME HandleInv, UNCHANGED wvars PROVE HandleInv'
  OBVIOUS
<1>1. UNCHANGED <<sort, field, stale, wait, timer, caller, fault>>
  BY DEF wvars
<1>2. \A x \in Waitables : W!References(x)' = W!References(x)
  BY <1>1, ReferencesAre
<1> QED BY <1>1, <1>2 DEF HandleInv, HandleType, HandleMade, HandleCount, HandleFault

LEMMA HandleInvExact == HandleInv => ReferencesExact
<1> SUFFICES ASSUME HandleInv PROVE W!ReferencesExact
  BY DEF ReferencesExact
<1>1. \A x \in Waitables : wait[x].refs = W!Cardinality(W!References(x))
  BY SameCardinality DEF HandleInv, HandleCount
<1> QED BY <1>1 DEF HandleInv, HandleType, HandleFault, W!ReferencesExact

\* ReferencesExact, of any number of callers and waitables: every reference a
\* handle, a timer or a caller has is counted and none that is gone is, so a
\* waitable is freed with its last reference; who touches a freed one, or gives
\* back a reference for the second time, is always a caller that had none, and
\* nothing is said from then on (waitable.c, WaitHandle.cs, EventWaitHandle.cs).
THEOREM ReferencesStayExact == Spec => []ReferencesExact
<1>1. Init => HandleInv
  BY HandleInit DEF Init
<1>2. HandleInv /\ [Next]_vars => HandleInv'
  BY HandleNext, HandleStutter DEF Next, vars, wvars
<1> QED BY <1>1, <1>2, HandleInvExact, PTL DEF Spec

----------------------------------------------------------------------------
(* The frames: FramesInOnePlace, through an invariant of the stacks of     *)
(* palloc, pfree and vmm activities of the CPUs.                           *)

Steps == {"enter", "buddy", "fill", "unlock", "lock", "page", "map", "table", "error", "halt"}
MaybeFrame == Frames \cup {None}
MaybePage == M!Pages \cup {None}
ActRec == [op : {"palloc", "pfree", "vmm"}, at : Steps, page : MaybePage,
           frame : MaybeFrame, ret : MaybeFrame, fault : BOOLEAN]

\* The vmm behind its lock, and palloc and pfree behind theirs.
Past(a) == a.op = "vmm" /\ a.at \notin {"lock", "halt"}
AtTable(a) == a.op = "vmm" /\ a.at = "table"
Inside(a) == a.op \in {"palloc", "pfree"} /\ a.at \in {"buddy", "fill", "unlock"}

Carries(a) == {a.frame, a.ret} \ {None}

\* What an activity may carry: palloc and pfree a frame that the direct map
\* reaches, the vmm one that was taken out of it, or one that palloc has just
\* returned and that is still there.
Sane(a, D) ==
    /\ a.ret # None => a.op = "vmm" /\ a.at \in {"page", "table"}
    /\ a.op = "palloc" => a.at \in {"fill", "unlock"} \/ a.frame = None
    /\ a.op = "pfree" => (a.at = "unlock" <=> a.frame = None)
    /\ a.op = "vmm" => (a.at \in {"map", "table"} /\ a.page # None) \/ a.frame = None
    /\ a.op = "vmm" /\ a.at = "page" => a.page # None
    /\ a.op # "vmm" => a.frame \in D \cup {None}
    /\ a.op = "vmm" => a.frame \notin D /\ a.ret \in D \cup {None}
    /\ a.frame = a.ret => a.frame = None

\* Who may stand on whom: a palloc on the vmm that called it, and the vmm of a
\* page fault on the palloc or pfree whose stack grew.
Over(b, a) ==
    \/ a.op = "palloc" /\ b.op = "vmm" /\ b.at \in {"page", "table"} /\ b.ret = None
    \/ a.op = "vmm" /\ b.op \in {"palloc", "pfree"} /\ b.at \in {"buddy", "fill"}

Stack(s, D) ==
    /\ \A i \in 1..Len(s) : Sane(s[i], D)
    /\ \A i, j \in 1..Len(s) : i # j => Carries(s[i]) \cap Carries(s[j]) = {} /\ ~(Past(s[i]) /\ Past(s[j]))
    /\ \A i, j \in 1..Len(s) : j = i + 1 => Over(s[i], s[j])

Kept(s) == {f \in Frames : \E i \in 1..Len(s) : f \in Carries(s[i])}
HasPast(s) == \E i \in 1..Len(s) : Past(s[i])
HasTable(s) == \E i \in 1..Len(s) : AtTable(s[i])
HasInside(s) == \E i \in 1..Len(s) : Inside(s[i])

MemType ==
    /\ act \in [Cpus -> Seq(ActRec)]
    /\ free \subseteq Frames /\ reserved \subseteq Frames /\ owned \subseteq Frames
    /\ leaked \subseteq Frames /\ direct \subseteq Frames
    /\ table \in MaybeFrame /\ mapped \in [M!Pages -> MaybeFrame]

MemStacks ==
    /\ \A c \in Cpus : Stack(act[c], direct)
    /\ \A c, d \in Cpus : c # d => Kept(act[c]) \cap Kept(act[d]) = {}

\* The vmm lock keeps the page table to one CPU; m_lock_cpu is that of a CPU
\* that is in palloc or pfree, so what takes a reserved page returns it to a vmm.
MemLocks ==
    /\ \A c \in Cpus : HasPast(act[c]) => vmmLock = c
    /\ \A c \in Cpus : HasTable(act[c]) => table = None
    /\ \A c \in Cpus : lockCpu = c => HasInside(act[c])

KeptBy(C) == {f \in Frames : \E c \in C : f \in Kept(act[c])}

Apart(Fr, Re, Us, Ta, Ow, Le, He) ==
    /\ Fr \cap (Re \cup Us \cup Ta \cup Ow \cup Le \cup He) = {}
    /\ Re \cap (Us \cup Ta \cup Ow \cup Le \cup He) = {}
    /\ Us \cap (Ta \cup Ow \cup Le \cup He) = {}
    /\ Ta \cap (Ow \cup Le \cup He) = {}
    /\ Ow \cap (Le \cup He) = {} /\ Le \cap He = {}
    /\ Frames \subseteq Fr \cup Re \cup Us \cup Ta \cup Ow \cup Le \cup He

InPages(m) == {m[p] : p \in M!Pages} \ {None}

MemPlaces ==
    /\ Apart(free, reserved, InPages(mapped), {table} \ {None}, owned, leaked, KeptBy(Cpus))
    /\ \A p, q \in M!Pages : p # q /\ mapped[p] # None => mapped[p] # mapped[q]
    /\ free \cup reserved \cup owned \subseteq direct
    /\ (InPages(mapped) \cup {table}) \cap direct = {}

FrameInv == MemType /\ MemStacks /\ MemLocks /\ MemPlaces

----------------------------------------------------------------------------
(* Stacks                                                                  *)

LEMMA FrontOf ==
    ASSUME NEW s \in Seq(ActRec), s # << >>
    PROVE  /\ Len(s) \in Nat /\ Len(s) > 0 /\ s[Len(s)] \in ActRec /\ M!Last(s) = s[Len(s)]
           /\ M!Front(s) \in Seq(ActRec) /\ Len(M!Front(s)) = Len(s) - 1
           /\ \A i \in 1..(Len(s) - 1) : M!Front(s)[i] = s[i]
<1>1. Len(s) \in Nat /\ Len(s) > 0 /\ \A i \in 1..Len(s) : s[i] \in ActRec
  BY EmptySeq, LenProperties
<1>2. PICK n \in Nat : n = Len(s) - 1 /\ M!Front(s) = SubSeq(s, 1, n) /\ \A i \in 1..n : s[i] \in ActRec
  BY <1>1 DEF M!Front
<1>3. /\ SubSeq(s, 1, n) \in Seq(ActRec) /\ Len(SubSeq(s, 1, n)) = (IF 1 <= n THEN n - 1 + 1 ELSE 0)
      /\ \A i \in 1..(n - 1 + 1) : SubSeq(s, 1, n)[i] = s[1 + i - 1]
  BY <1>2, SubSeqProperties
<1>4. Len(SubSeq(s, 1, n)) = n /\ \A i \in 1..n : SubSeq(s, 1, n)[i] = s[i]
  BY <1>3
<1>5. M!Front(s) \in Seq(ActRec) /\ Len(M!Front(s)) = Len(s) - 1
      /\ \A i \in 1..(Len(s) - 1) : M!Front(s)[i] = s[i]
  BY <1>2, <1>3, <1>4
<1> QED BY <1>1, <1>5 DEF M!Last

LEMMA AppendOf ==
    ASSUME NEW s \in Seq(ActRec), NEW a \in ActRec
    PROVE  /\ Append(s, a) \in Seq(ActRec) /\ Len(Append(s, a)) = Len(s) + 1 /\ Len(s) \in Nat
           /\ \A i \in 1..Len(s) : Append(s, a)[i] = s[i]
           /\ Append(s, a)[Len(s) + 1] = a /\ Append(s, a) # << >>
<1>1. Append(s, a) # << >>
  BY AppendProperties, EmptySeq
<1> QED BY <1>1

\* The empty stack.
LEMMA EmptyStack ==
    ASSUME NEW D
    PROVE  /\ << >> \in Seq(ActRec) /\ Stack(<< >>, D) /\ Kept(<< >>) = {}
           /\ ~HasPast(<< >>) /\ ~HasTable(<< >>) /\ ~HasInside(<< >>)
<1>1. Len(<< >>) = 0 /\ << >> \in Seq(ActRec)
  BY EmptySeq
<1>2. 1..0 = {}
  OBVIOUS
<1> QED BY <1>1, <1>2 DEF Stack, Kept, HasPast, HasTable, HasInside

\* What is below the innermost activity.
LEMMA StackBelow ==
    ASSUME NEW s \in Seq(ActRec), NEW D, s # << >>, Stack(s, D), NEW b, b = M!Front(s), NEW t, t = M!Last(s)
    PROVE  /\ t \in ActRec /\ Sane(t, D) /\ b \in Seq(ActRec) /\ Stack(b, D)
           /\ Kept(s) = Kept(b) \cup Carries(t) /\ Kept(b) \cap Carries(t) = {}
           /\ HasPast(s) <=> HasPast(b) \/ Past(t)
           /\ HasTable(s) <=> HasTable(b) \/ AtTable(t)
           /\ HasInside(s) <=> HasInside(b) \/ Inside(t)
           /\ ~(HasPast(b) /\ Past(t))
           /\ b # << >> => Over(M!Last(b), t)
<1> DEFINE n == Len(s)
<1>1. /\ n \in Nat /\ n > 0 /\ t = s[n] /\ t \in ActRec /\ b \in Seq(ActRec) /\ Len(b) = n - 1
      /\ \A i \in 1..(n - 1) : b[i] = s[i]
  <2>1. /\ n \in Nat /\ n > 0 /\ s[n] \in ActRec /\ M!Last(s) = s[n]
        /\ M!Front(s) \in Seq(ActRec) /\ Len(M!Front(s)) = n - 1
        /\ \A i \in 1..(n - 1) : M!Front(s)[i] = s[i]
    BY FrontOf, Zenon
  <2> QED BY <2>1, Zenon
<1> HIDE DEF n
<1>2. Sane(t, D) /\ Stack(b, D)
  <2>1. n \in 1..n /\ \A i \in 1..(n - 1) : i \in 1..n
    BY <1>1
  <2>2. Sane(t, D)
    BY <1>1, <2>1 DEF Stack, n
  <2>3. \A i \in 1..(n - 1) : Sane(b[i], D)
    BY <1>1, <2>1 DEF Stack, n
  <2>4. \A i, j \in 1..(n - 1) : i # j => Carries(b[i]) \cap Carries(b[j]) = {} /\ ~(Past(b[i]) /\ Past(b[j]))
    BY <1>1, <2>1 DEF Stack, n
  <2>5. \A i, j \in 1..(n - 1) : j = i + 1 => Over(b[i], b[j])
    BY <1>1, <2>1 DEF Stack, n
  <2> QED BY <1>1, <2>2, <2>3, <2>4, <2>5 DEF Stack
<1>3. Carries(t) \subseteq Frames
  BY <1>1 DEF Carries, ActRec, MaybeFrame
<1>4. \A i \in 1..n : i = n \/ i \in 1..(n - 1)
  BY <1>1
<1>5. Kept(s) = Kept(b) \cup Carries(t) /\ Kept(b) \cap Carries(t) = {}
  <2>1. \A f \in Frames : f \in Kept(s) <=> \E i \in 1..n : f \in Carries(s[i])
    BY DEF Kept, n
  <2>2. \A f \in Frames : f \in Kept(b) <=> \E i \in 1..(n - 1) : f \in Carries(s[i])
    BY <1>1 DEF Kept
  <2>3. \A i \in 1..(n - 1) : Carries(s[i]) \cap Carries(t) = {}
    <3>1. n \in 1..n /\ \A i \in 1..(n - 1) : i \in 1..n /\ i # n
      BY <1>1
    <3> QED BY <1>1, <3>1 DEF Stack, n
  <2>4. Kept(s) \subseteq Frames /\ Kept(b) \subseteq Frames
    BY DEF Kept
  <2>5. n \in 1..n /\ \A i \in 1..(n - 1) : i \in 1..n
    BY <1>1
  <2>6. \A f \in Frames : f \in Kept(s) <=> f \in Kept(b) \/ f \in Carries(t)
    BY <1>1, <1>4, <2>1, <2>2, <2>5
  <2>7. Kept(b) \cap Carries(t) = {}
    BY <2>2, <2>3, <2>4
  <2> QED BY <1>3, <2>4, <2>6, <2>7
<1>6. (HasPast(s) <=> HasPast(b) \/ Past(t)) /\ (HasTable(s) <=> HasTable(b) \/ AtTable(t))
      /\ (HasInside(s) <=> HasInside(b) \/ Inside(t))
  <2>1. n \in 1..n /\ \A i \in 1..(n - 1) : i \in 1..n
    BY <1>1
  <2> QED BY <1>1, <1>4, <2>1 DEF HasPast, HasTable, HasInside, n
<1>7. ~(HasPast(b) /\ Past(t))
  BY <1>1 DEF Stack, HasPast, n
<1>8. b # << >> => Over(M!Last(b), t)
  <2> SUFFICES ASSUME b # << >> PROVE Over(M!Last(b), t)
    OBVIOUS
  <2>1. M!Last(b) = s[n - 1] /\ n - 1 \in 1..n /\ n \in 1..n /\ n = (n - 1) + 1
    BY <1>1, FrontOf
  <2> QED BY <1>1, <2>1 DEF Stack, n
<1> QED BY <1>1, <1>2, <1>5, <1>6, <1>7, <1>8

\* An activity on top of a stack.
LEMMA StackPush ==
    ASSUME NEW b \in Seq(ActRec), NEW D, Stack(b, D), NEW a \in ActRec, Sane(a, D), Carries(a) \cap Kept(b) = {},
           ~(HasPast(b) /\ Past(a)), b # << >> => Over(M!Last(b), a), NEW s, s = Append(b, a)
    PROVE  /\ s \in Seq(ActRec) /\ Stack(s, D) /\ Kept(s) = Kept(b) \cup Carries(a)
           /\ HasPast(s) <=> HasPast(b) \/ Past(a)
           /\ HasTable(s) <=> HasTable(b) \/ AtTable(a)
           /\ HasInside(s) <=> HasInside(b) \/ Inside(a)
           /\ s # << >> /\ M!Front(s) = b /\ M!Last(s) = a
<1> DEFINE n == Len(b)
<1>1. /\ s \in Seq(ActRec) /\ Len(s) = n + 1 /\ n \in Nat /\ s # << >>
      /\ \A i \in 1..n : s[i] = b[i]
      /\ s[n + 1] = a
  BY AppendOf
<1>2. Carries(a) \subseteq Frames
  BY DEF Carries, ActRec, MaybeFrame
<1>3. \A i \in 1..n : Carries(b[i]) \cap Carries(a) = {} /\ ~(Past(b[i]) /\ Past(a))
  BY <1>2 DEF Kept, HasPast
<1>4. b # << >> => n > 0 /\ M!Last(b) = b[n]
  BY FrontOf
<1>5. n > 0 => b # << >>
  BY EmptySeq
<1> HIDE DEF n
<1>6. \A i \in 1..(n + 1) : i = n + 1 \/ i \in 1..n
  BY <1>1
<1>7. Stack(s, D)
  <2>1. \A i \in 1..(n + 1) : Sane(s[i], D)
    BY <1>1, <1>6 DEF Stack, n
  <2>2. ASSUME NEW i \in 1..(n + 1), NEW j \in 1..(n + 1), i # j
        PROVE  Carries(s[i]) \cap Carries(s[j]) = {} /\ ~(Past(s[i]) /\ Past(s[j]))
    <3>1. CASE i \in 1..n /\ j \in 1..n
      BY <1>1, <2>2, <3>1 DEF Stack, n
    <3>2. CASE i = n + 1 /\ j \in 1..n
      BY <1>1, <1>3, <3>2
    <3>3. CASE j = n + 1 /\ i \in 1..n
      BY <1>1, <1>3, <3>3
    <3> QED BY <1>6, <2>2, <3>1, <3>2, <3>3
  <2>3. ASSUME NEW i \in 1..(n + 1), NEW j \in 1..(n + 1), j = i + 1
        PROVE  Over(s[i], s[j])
    <3>1. CASE j \in 1..n
      <4>1. i \in 1..n
        BY <1>1, <2>3, <3>1
      <4> QED BY <1>1, <2>3, <3>1, <4>1 DEF Stack, n
    <3>2. CASE j = n + 1
      <4>1. i = n /\ n > 0 /\ i \in 1..n
        BY <1>1, <2>3, <3>2
      <4> QED BY <1>1, <1>4, <1>5, <3>2, <4>1
    <3> QED BY <1>6, <3>1, <3>2
  <2> QED BY <1>1, <2>1, <2>2, <2>3 DEF Stack
<1>8. M!Last(s) = a /\ M!Front(s) = b
  <2>1. M!Last(s) = a
    BY <1>1, FrontOf
  <2>2. M!Front(s) = b
    <3>1. /\ M!Front(s) \in Seq(ActRec) /\ Len(M!Front(s)) = n
          /\ \A i \in 1..n : M!Front(s)[i] = b[i]
      <4>1. Len(s) - 1 = n
        BY <1>1
      <4>2. /\ M!Front(s) \in Seq(ActRec) /\ Len(M!Front(s)) = Len(s) - 1
            /\ \A i \in 1..(Len(s) - 1) : M!Front(s)[i] = s[i]
        BY <1>1, FrontOf, Zenon
      <4> QED BY <1>1, <4>1, <4>2, Zenon
    <3> QED BY <3>1, SeqEqual DEF n
  <2> QED BY <2>1, <2>2
<1>9. /\ Kept(s) = Kept(b) \cup Carries(a)
      /\ (HasPast(s) <=> HasPast(b) \/ Past(a))
      /\ (HasTable(s) <=> HasTable(b) \/ AtTable(a))
      /\ (HasInside(s) <=> HasInside(b) \/ Inside(a))
  BY <1>1, <1>7, <1>8, StackBelow
<1> QED BY <1>1, <1>7, <1>8, <1>9

\* A frame that the stack does not carry leaves the direct map.
LEMMA StackShrink ==
    ASSUME NEW s \in Seq(ActRec), NEW D, Stack(s, D), NEW f, f \notin Kept(s), NEW E, E = D \ {f}
    PROVE  Stack(s, E)
<1>1. ASSUME NEW i \in 1..Len(s) PROVE Sane(s[i], E)
  <2>1. s[i] \in ActRec /\ Sane(s[i], D)
    BY ElementOfSeq DEF Stack
  <2>2. f \notin Carries(s[i])
    BY <2>1 DEF Kept, Carries, ActRec, MaybeFrame
  <2> QED BY <2>1, <2>2 DEF Sane, Carries
<1> QED BY <1>1 DEF Stack

----------------------------------------------------------------------------
(* Activities                                                              *)

\* x is a, but for its step, its frame and what was returned to it.
Like(x, a, l, f, r) ==
    x \in ActRec /\ x.op = a.op /\ x.page = a.page /\ x.at = l /\ x.frame = f /\ x.ret = r

LEMMA WithAt ==
    ASSUME NEW a \in ActRec, NEW l \in Steps
    PROVE  Like([a EXCEPT !.at = l], a, l, a.frame, a.ret)
BY DEF ActRec, Like

LEMMA WithRet ==
    ASSUME NEW a \in ActRec, NEW r \in MaybeFrame
    PROVE  Like([a EXCEPT !.ret = r], a, a.at, a.frame, r)
BY DEF ActRec, Like

LEMMA WithFrame ==
    ASSUME NEW a \in ActRec, NEW f \in MaybeFrame
    PROVE  Like([a EXCEPT !.frame = f], a, a.at, f, a.ret)
BY DEF ActRec, Like

LEMMA WithAtFrame ==
    ASSUME NEW a \in ActRec, NEW l \in Steps, NEW f \in MaybeFrame
    PROVE  Like([a EXCEPT !.at = l, !.frame = f], a, l, f, a.ret)
<1>1. PICK b : b = [a EXCEPT !.at = l]
  OBVIOUS
<1>2. [a EXCEPT !.at = l, !.frame = f] = [b EXCEPT !.frame = f]
  BY <1>1
<1>3. Like(b, a, l, a.frame, a.ret)
  BY <1>1, WithAt
<1>4. Like([b EXCEPT !.frame = f], b, b.at, f, b.ret)
  BY <1>3, WithFrame DEF Like
<1> QED BY <1>2, <1>3, <1>4 DEF Like

LEMMA WithAtRet ==
    ASSUME NEW a \in ActRec, NEW l \in Steps, NEW r \in MaybeFrame
    PROVE  Like([a EXCEPT !.at = l, !.ret = r], a, l, a.frame, r)
<1>1. PICK b : b = [a EXCEPT !.at = l]
  OBVIOUS
<1>2. [a EXCEPT !.at = l, !.ret = r] = [b EXCEPT !.ret = r]
  BY <1>1
<1>3. Like(b, a, l, a.frame, a.ret)
  BY <1>1, WithAt
<1>4. Like([b EXCEPT !.ret = r], b, b.at, b.frame, r)
  BY <1>3, WithRet DEF Like
<1> QED BY <1>2, <1>3, <1>4 DEF Like

LEMMA WithAtFrameRet ==
    ASSUME NEW a \in ActRec, NEW l \in Steps, NEW f \in MaybeFrame, NEW r \in MaybeFrame
    PROVE  Like([a EXCEPT !.at = l, !.frame = f, !.ret = r], a, l, f, r)
<1>1. PICK b : b = [a EXCEPT !.at = l, !.frame = f]
  OBVIOUS
<1>2. [a EXCEPT !.at = l, !.frame = f, !.ret = r] = [b EXCEPT !.ret = r]
  BY <1>1
<1>3. Like(b, a, l, f, a.ret)
  BY <1>1, WithAtFrame
<1>4. Like([b EXCEPT !.ret = r], b, b.at, b.frame, r)
  BY <1>3, WithRet DEF Like
<1> QED BY <1>2, <1>3, <1>4 DEF Like

LEMMA NewActivity ==
    ASSUME NEW o \in {"palloc", "pfree", "vmm"}, NEW l \in Steps, NEW p \in MaybePage, NEW f \in MaybeFrame,
           NEW b \in BOOLEAN
    PROVE  /\ M!Activity(o, l, p, f, b) \in ActRec
           /\ M!Activity(o, l, p, f, b).op = o /\ M!Activity(o, l, p, f, b).at = l
           /\ M!Activity(o, l, p, f, b).page = p /\ M!Activity(o, l, p, f, b).frame = f
           /\ M!Activity(o, l, p, f, b).ret = None
BY DEF M!Activity, ActRec, MaybeFrame

----------------------------------------------------------------------------
(* A step of one CPU                                                       *)

LEMMA NoneApart == None \notin Frames /\ None \notin Cpus
BY MemoryAssumption

Below(c) == M!Front(act[c])
Others(c) == Cpus \ {c}

\* What the invariant says of a CPU in the middle of something.
LEMMA TopFacts ==
    ASSUME FrameInv, NEW c \in Cpus, act[c] # << >>
    PROVE  /\ M!Top(c) \in ActRec /\ Sane(M!Top(c), direct)
           /\ Below(c) \in Seq(ActRec) /\ Stack(Below(c), direct)
           /\ Kept(act[c]) = Kept(Below(c)) \cup Carries(M!Top(c)) /\ Kept(Below(c)) \cap Carries(M!Top(c)) = {}
           /\ HasPast(act[c]) <=> HasPast(Below(c)) \/ Past(M!Top(c))
           /\ HasTable(act[c]) <=> HasTable(Below(c)) \/ AtTable(M!Top(c))
           /\ HasInside(act[c]) <=> HasInside(Below(c)) \/ Inside(M!Top(c))
           /\ ~(HasPast(Below(c)) /\ Past(M!Top(c)))
           /\ Below(c) # << >> => Over(M!Last(Below(c)), M!Top(c))
<1>1. act[c] \in Seq(ActRec) /\ Stack(act[c], direct)
  BY DEF FrameInv, MemType, MemStacks
<1> QED BY <1>1, StackBelow DEF M!Top, Below

\* How a step may treat the two locks, the page table and m_lock_cpu.
LockStep(c, q) ==
    \/ vmmLock' = vmmLock /\ (HasPast(q) => HasPast(act[c]))
    \/ vmmLock = None /\ vmmLock' = c
    \/ vmmLock' = None /\ vmmLock = c /\ ~HasPast(q)
TableStep(c, q) ==
    \/ table' = table /\ (HasTable(q) => HasTable(act[c]) \/ table = None)
    \/ vmmLock = c /\ ~HasTable(q)
CpuStep(c, q) ==
    \/ lockCpu' = lockCpu /\ (HasInside(act[c]) => HasInside(q))
    \/ lockCpu' = None
    \/ lockCpu' = c /\ HasInside(q)

\* A step of c takes at most one frame, which it keeps, out of the direct map.
DirectStep(c) ==
    \/ direct' = direct
    \/ \E f \in Kept(act[c]) : direct' = direct \ {f}

LEMMA CpuMoves ==
    ASSUME FrameInv, NEW c \in Cpus, NEW q \in Seq(ActRec), act' = [act EXCEPT ![c] = q],
           Stack(q, direct'), Kept(q) \cap KeptBy(Others(c)) = {},
           DirectStep(c), LockStep(c, q), TableStep(c, q), CpuStep(c, q)
    PROVE  /\ act' \in [Cpus -> Seq(ActRec)] /\ MemStacks' /\ MemLocks'
           /\ KeptBy(Cpus) = KeptBy(Others(c)) \cup Kept(act[c])
           /\ KeptBy(Cpus)' = KeptBy(Others(c)) \cup Kept(q)
           /\ Kept(act[c]) \cap KeptBy(Others(c)) = {}
<1>1. /\ act' \in [Cpus -> Seq(ActRec)] /\ act'[c] = q
      /\ \A d \in Cpus : d # c => act'[d] = act[d]
  BY DEF FrameInv, MemType
<1>2. KeptBy(Cpus) = KeptBy(Others(c)) \cup Kept(act[c]) /\ KeptBy(Cpus)' = KeptBy(Others(c)) \cup Kept(q)
  <2>1. Kept(q) \subseteq Frames /\ Kept(act[c]) \subseteq Frames
    BY DEF Kept
  <2> QED BY <1>1, <2>1 DEF KeptBy, Others
<1>3. Kept(act[c]) \cap KeptBy(Others(c)) = {}
  BY DEF FrameInv, MemStacks, KeptBy, Others
<1>4. MemStacks'
  <2>1. ASSUME NEW d \in Cpus, d # c PROVE Stack(act'[d], direct')
    <3>1. act[d] \in Seq(ActRec) /\ Stack(act[d], direct) /\ act'[d] = act[d]
      BY <1>1, <2>1 DEF FrameInv, MemType, MemStacks
    <3>2. CASE direct' = direct
      BY <3>1, <3>2
    <3>3. ASSUME NEW f \in Kept(act[c]), direct' = direct \ {f} PROVE Stack(act'[d], direct')
      <4>1. f \notin Kept(act[d])
        BY <2>1 DEF FrameInv, MemStacks
      <4> QED BY <3>1, <3>3, <4>1, StackShrink
    <3> QED BY <3>2, <3>3 DEF DirectStep
  <2>2. ASSUME NEW d \in Cpus, d # c PROVE Kept(act'[d]) \cap Kept(q) = {}
    <3>1. \A f \in Kept(act[d]) : f \in KeptBy(Others(c))
      BY <2>2 DEF KeptBy, Others, Kept
    <3> QED BY <1>1, <2>2, <3>1
  <2>3. ASSUME NEW d \in Cpus, NEW e \in Cpus, d # e PROVE Kept(act'[d]) \cap Kept(act'[e]) = {}
    <3>1. CASE d = c
      BY <1>1, <2>2, <2>3, <3>1
    <3>2. CASE e = c
      BY <1>1, <2>2, <2>3, <3>2
    <3>3. CASE d # c /\ e # c
      BY <1>1, <2>3, <3>3 DEF FrameInv, MemStacks
    <3> QED BY <3>1, <3>2, <3>3
  <2> QED BY <1>1, <2>1, <2>3 DEF MemStacks
<1>5. MemLocks'
  <2>1. \A d \in Cpus : HasPast(act'[d]) => vmmLock' = d
    BY <1>1, NoneApart DEF FrameInv, MemLocks, LockStep
  <2>2. \A d \in Cpus : HasTable(act'[d]) => table' = None
    <3>1. \A d \in Cpus : HasTable(act[d]) => vmmLock = d
      BY DEF FrameInv, MemLocks, HasTable, HasPast, AtTable, Past
    <3> QED BY <1>1, <3>1 DEF FrameInv, MemLocks, TableStep
  <2>3. \A d \in Cpus : lockCpu' = d => HasInside(act'[d])
    BY <1>1, NoneApart DEF FrameInv, MemLocks, CpuStep
  <2> QED BY <2>1, <2>2, <2>3 DEF MemLocks
<1> QED BY <1>1, <1>2, <1>3, <1>4, <1>5

Sets == <<free, reserved, mapped, table, direct, owned, leaked>>

\* A step that changes who carries no frame.
LEMMA QuietStep ==
    ASSUME FrameInv, NEW c \in Cpus, NEW q \in Seq(ActRec), act' = [act EXCEPT ![c] = q],
           Stack(q, direct), Kept(q) = Kept(act[c]), UNCHANGED Sets,
           LockStep(c, q), TableStep(c, q), CpuStep(c, q)
    PROVE  FrameInv'
<1>1. UNCHANGED <<free, reserved, mapped, table, direct, owned, leaked>>
  BY DEF Sets
<1>2. Kept(act[c]) \cap KeptBy(Others(c)) = {}
  BY DEF FrameInv, MemStacks, KeptBy, Others
<1>3. /\ act' \in [Cpus -> Seq(ActRec)] /\ MemStacks' /\ MemLocks' /\ KeptBy(Cpus)' = KeptBy(Cpus)
  <2>1. Stack(q, direct') /\ DirectStep(c)
    BY <1>1 DEF DirectStep
  <2> QED BY <1>2, <2>1, CpuMoves
<1>4. MemType'
  BY <1>1, <1>3 DEF FrameInv, MemType
<1>5. MemPlaces'
  BY <1>1, <1>3 DEF FrameInv, MemPlaces
<1> QED BY <1>3, <1>4, <1>5 DEF FrameInv

LEMMA TablePast ==
    ASSUME NEW s
    PROVE  HasTable(s) => HasPast(s)
BY DEF HasTable, HasPast, AtTable, Past

\* The innermost activity becomes another one of the same kind.
LEMMA TopBecomes ==
    ASSUME FrameInv, NEW c \in Cpus, act[c] # << >>, NEW a \in ActRec, a.op = M!Top(c).op,
           NEW D, Stack(Below(c), D), Sane(a, D), Carries(a) \cap Kept(Below(c)) = {},
           ~(HasPast(Below(c)) /\ Past(a)), NEW q, q = Append(Below(c), a)
    PROVE  /\ q \in Seq(ActRec) /\ Stack(q, D) /\ Kept(q) = Kept(Below(c)) \cup Carries(a)
           /\ HasPast(q) <=> HasPast(Below(c)) \/ Past(a)
           /\ HasTable(q) <=> HasTable(Below(c)) \/ AtTable(a)
           /\ HasInside(q) <=> HasInside(Below(c)) \/ Inside(a)
<1>1. Below(c) \in Seq(ActRec) /\ (Below(c) # << >> => Over(M!Last(Below(c)), a))
  BY TopFacts DEF Over
<1> QED BY <1>1, StackPush

\* It goes on to its step l, with what it carries.
LEMMA TopStep ==
    ASSUME FrameInv, NEW c \in Cpus, act[c] # << >>, NEW l \in Steps, M!Step(c, l),
           NEW a, Like(a, M!Top(c), l, M!Top(c).frame, M!Top(c).ret), a = [M!Top(c) EXCEPT !.at = l],
           Sane(a, direct), ~(HasPast(Below(c)) /\ Past(a))
    PROVE  \E q \in Seq(ActRec) :
              /\ act' = [act EXCEPT ![c] = q] /\ Stack(q, direct) /\ Kept(q) = Kept(act[c])
              /\ HasPast(q) <=> HasPast(Below(c)) \/ Past(a)
              /\ HasTable(q) <=> HasTable(Below(c)) \/ AtTable(a)
              /\ HasInside(q) <=> HasInside(Below(c)) \/ Inside(a)
<1> DEFINE q == Append(Below(c), a)
<1>1. act' = [act EXCEPT ![c] = q]
  BY DEF M!Step, M!Becomes, Below
<1>2. a \in ActRec /\ a.op = M!Top(c).op /\ Carries(a) = Carries(M!Top(c))
  BY DEF Like, Carries
<1>3. /\ q \in Seq(ActRec) /\ Stack(q, direct) /\ Kept(q) = Kept(Below(c)) \cup Carries(a)
      /\ HasPast(q) <=> HasPast(Below(c)) \/ Past(a)
      /\ HasTable(q) <=> HasTable(Below(c)) \/ AtTable(a)
      /\ HasInside(q) <=> HasInside(Below(c)) \/ Inside(a)
  <2>1. Stack(Below(c), direct) /\ Carries(a) \cap Kept(Below(c)) = {} /\ ~(HasPast(Below(c)) /\ Past(a))
    BY <1>2, TopFacts
  <2> HIDE DEF q
  <2>2. q = Append(Below(c), a)
    BY DEF q
  <2> QED BY <1>2, <2>1, <2>2, TopBecomes
<1>4. Kept(q) = Kept(act[c])
  BY <1>2, <1>3, TopFacts
<1> QED BY <1>1, <1>3, <1>4

\* palloc returns f to the vmm that called it.
LEMMA ReturnsTo ==
    ASSUME FrameInv, NEW c \in Cpus, act[c] # << >>, M!Top(c).op = "palloc", Below(c) # << >>,
           NEW f \in direct \cup {None}, f \notin Kept(Below(c)),
           NEW q, q = Append(M!Front(Below(c)), [M!Last(Below(c)) EXCEPT !.ret = f])
    PROVE  /\ q \in Seq(ActRec) /\ Stack(q, direct) /\ Kept(q) = Kept(Below(c)) \cup ({f} \ {None})
           /\ HasPast(q) <=> HasPast(Below(c))
           /\ HasTable(q) <=> HasTable(Below(c))
           /\ HasInside(q) <=> HasInside(Below(c))
<1> DEFINE b == Below(c)
           v == M!Last(b)
           u == M!Front(b)
           a == [v EXCEPT !.ret = f]
<1>1. b \in Seq(ActRec) /\ Stack(b, direct) /\ Over(v, M!Top(c)) /\ direct \subseteq Frames
  BY TopFacts DEF FrameInv, MemType
<1>2. /\ v \in ActRec /\ Sane(v, direct) /\ u \in Seq(ActRec) /\ Stack(u, direct)
      /\ Kept(b) = Kept(u) \cup Carries(v) /\ Kept(u) \cap Carries(v) = {}
      /\ HasPast(b) <=> HasPast(u) \/ Past(v)
      /\ HasTable(b) <=> HasTable(u) \/ AtTable(v)
      /\ HasInside(b) <=> HasInside(u) \/ Inside(v)
      /\ ~(HasPast(u) /\ Past(v))
      /\ u # << >> => Over(M!Last(u), v)
  <2> HIDE DEF b
  <2>1. b # << >>
    BY DEF b
  <2> QED BY <1>1, <2>1, StackBelow
<1>3. v.op = "vmm" /\ v.at \in {"page", "table"} /\ v.ret = None
  BY <1>1 DEF Over
<1> HIDE DEF b, v, u
<1>4. Like(a, v, v.at, v.frame, f)
  BY <1>1, <1>2, WithRet DEF MaybeFrame
<1> HIDE DEF a
<1>5. Sane(a, direct) /\ Carries(a) = Carries(v) \cup ({f} \ {None})
  BY <1>1, <1>2, <1>3, <1>4, NoneApart DEF Like, Sane, Carries
<1>6. Carries(a) \cap Kept(u) = {}
  BY <1>2, <1>5 DEF b
<1>7. /\ Past(a) <=> Past(v)
      /\ AtTable(a) <=> AtTable(v)
      /\ Inside(a) <=> Inside(v)
      /\ u # << >> => Over(M!Last(u), a)
      /\ a \in ActRec
  BY <1>2, <1>4 DEF Like, Past, AtTable, Inside, Over
<1>8. q = Append(u, a)
  BY DEF u, a, v, b
<1>9. /\ q \in Seq(ActRec) /\ Stack(q, direct) /\ Kept(q) = Kept(u) \cup Carries(a)
      /\ HasPast(q) <=> HasPast(u) \/ Past(a)
      /\ HasTable(q) <=> HasTable(u) \/ AtTable(a)
      /\ HasInside(q) <=> HasInside(u) \/ Inside(a)
  <2>1. u \in Seq(ActRec) /\ Stack(u, direct) /\ ~(HasPast(u) /\ Past(a))
    BY <1>2, <1>7
  <2> QED BY <1>5, <1>6, <1>7, <1>8, <2>1, StackPush
<1> QED BY <1>2, <1>5, <1>7, <1>9 DEF b

\* The vmm calls palloc.
LEMMA CallsPalloc ==
    ASSUME FrameInv, NEW c \in Cpus, act[c] # << >>, M!Top(c).op = "vmm", NEW l \in {"page", "table"},
           M!Top(c).ret = None, l = "page" => M!Top(c).page # None /\ M!Top(c).frame = None,
           M!Top(c).at \in {"lock", "map"}, ~HasPast(Below(c)), M!CallPalloc(c, l)
    PROVE  \E q \in Seq(ActRec) :
              /\ act' = [act EXCEPT ![c] = q] /\ Stack(q, direct) /\ Kept(q) = Kept(act[c])
              /\ HasTable(q) => l = "table"
              /\ HasInside(q) <=> HasInside(act[c])
<1> DEFINE b == Below(c)
           t == M!Top(c)
           x == [t EXCEPT !.at = l]
           y == M!Activity("palloc", "enter", None, None, t.fault)
           p == Append(b, x)
           q == Append(p, y)
<1>1. t \in ActRec /\ Sane(t, direct) /\ b \in Seq(ActRec) /\ t.fault \in BOOLEAN
  BY TopFacts DEF ActRec
<1>2. y \in ActRec /\ y.op = "palloc" /\ y.at = "enter" /\ y.frame = None /\ y.ret = None
  <2>1. "palloc" \in {"palloc", "pfree", "vmm"} /\ "enter" \in Steps /\ None \in MaybePage /\ None \in MaybeFrame
    BY DEF Steps, MaybePage, MaybeFrame
  <2>2. ASSUME NEW z \in BOOLEAN
        PROVE  /\ M!Activity("palloc", "enter", None, None, z) \in ActRec
               /\ M!Activity("palloc", "enter", None, None, z).op = "palloc"
               /\ M!Activity("palloc", "enter", None, None, z).at = "enter"
               /\ M!Activity("palloc", "enter", None, None, z).frame = None
               /\ M!Activity("palloc", "enter", None, None, z).ret = None
    BY <2>1, NewActivity
  <2> QED BY <1>1, <2>2, Zenon
<1>3. Like(x, t, l, t.frame, t.ret)
  BY <1>1, WithAt DEF Steps
<1> HIDE DEF x, y
<1>4. act' = [act EXCEPT ![c] = q]
  <2>1. act' = [act EXCEPT ![c] = b \o <<x, y>>]
    BY DEF M!CallPalloc, Below, x, y
  <2>2. b \o <<x, y>> = q
    BY <1>1, <1>2, <1>3 DEF Like
  <2> QED BY <2>1, <2>2
<1>5. Sane(x, direct) /\ Carries(x) = Carries(t) /\ x \in ActRec /\ x.op = t.op
  BY <1>1, <1>3, NoneApart DEF Like, Sane, Carries
<1>6. /\ p \in Seq(ActRec) /\ Stack(p, direct) /\ Kept(p) = Kept(b) \cup Carries(x)
      /\ HasPast(p) <=> HasPast(b) \/ Past(x)
      /\ HasTable(p) <=> HasTable(b) \/ AtTable(x)
      /\ HasInside(p) <=> HasInside(b) \/ Inside(x)
  <2>1. Stack(b, direct) /\ Carries(x) \cap Kept(b) = {} /\ ~(HasPast(b) /\ Past(x))
    BY <1>5, TopFacts
  <2> HIDE DEF p
  <2>2. p = Append(Below(c), x)
    BY DEF p
  <2> QED BY <1>5, <2>1, <2>2, TopBecomes
<1>7. p # << >> /\ M!Last(p) = x
  <2>1. p \in Seq(ActRec) /\ p # << >> /\ Len(p) = Len(b) + 1 /\ p[Len(b) + 1] = x
    BY <1>1, <1>5, AppendOf
  <2> HIDE DEF p
  <2>2. M!Last(p) = p[Len(p)]
    BY <2>1, FrontOf
  <2> QED BY <2>1, <2>2
<1> HIDE DEF p
<1>8. Sane(y, direct) /\ Carries(y) = {} /\ ~Past(y) /\ ~AtTable(y) /\ ~Inside(y) /\ Over(x, y)
  BY <1>2, <1>3 DEF Sane, Carries, Past, AtTable, Inside, Over, Like
<1>9. /\ q \in Seq(ActRec) /\ Stack(q, direct) /\ Kept(q) = Kept(p) \cup Carries(y)
      /\ HasTable(q) <=> HasTable(p) \/ AtTable(y)
      /\ HasInside(q) <=> HasInside(p) \/ Inside(y)
  BY <1>2, <1>6, <1>7, <1>8, StackPush, ZenonT(60)
<1>10. Kept(q) = Kept(act[c])
  BY <1>5, <1>6, <1>8, <1>9, TopFacts
<1>11. HasTable(q) => l = "table"
  BY <1>3, <1>6, <1>8, <1>9, TablePast DEF Like, AtTable
<1>12. HasInside(q) <=> HasInside(act[c])
  BY <1>3, <1>6, <1>8, <1>9, TopFacts DEF Like, Inside
<1> QED BY <1>4, <1>9, <1>10, <1>11, <1>12

LEMMA Basics ==
    /\ "palloc" \in {"palloc", "pfree", "vmm"} /\ "pfree" \in {"palloc", "pfree", "vmm"}
    /\ "vmm" \in {"palloc", "pfree", "vmm"} /\ TRUE \in BOOLEAN /\ FALSE \in BOOLEAN
    /\ "enter" \in Steps /\ "lock" \in Steps /\ None \in MaybePage /\ None \in MaybeFrame
    /\ \A f \in Frames : f \in MaybeFrame
    /\ \A c \in Cpus : \A p \in HeapPages \cup {c} : p \in MaybePage
BY DEF Steps, MaybePage, MaybeFrame, M!Pages

----------------------------------------------------------------------------
(* Threads and faults                                                      *)

\* Something begins, and carries nothing yet.
LEMMA FramePush ==
    ASSUME FrameInv, NEW c \in Cpus, NEW a \in ActRec, M!Push(c, a), Sane(a, direct), Carries(a) = {}, ~Past(a),
           act[c] # << >> => Over(M!Top(c), a), UNCHANGED <<Sets, vmmLock, lockCpu>>
    PROVE  FrameInv'
<1> DEFINE b == act[c]
           q == Append(b, a)
<1>1. b \in Seq(ActRec) /\ Stack(b, direct)
  BY DEF FrameInv, MemType, MemStacks
<1>2. act' = [act EXCEPT ![c] = q]
  BY DEF M!Push
<1> HIDE DEF q
<1>3. Carries(a) \cap Kept(b) = {} /\ ~(HasPast(b) /\ Past(a)) /\ (b # << >> => Over(M!Last(b), a)) /\ q = Append(b, a)
  BY DEF q, M!Top
<1>4. /\ q \in Seq(ActRec) /\ Stack(q, direct) /\ Kept(q) = Kept(b) \cup Carries(a)
      /\ HasPast(q) <=> HasPast(b) \/ Past(a)
      /\ HasTable(q) <=> HasTable(b) \/ AtTable(a)
      /\ HasInside(q) <=> HasInside(b) \/ Inside(a)
  BY <1>1, <1>3, StackPush
<1>5. Kept(q) = Kept(act[c]) /\ UNCHANGED Sets
  BY <1>4
<1>6. LockStep(c, q) /\ TableStep(c, q) /\ CpuStep(c, q)
  BY <1>4 DEF LockStep, TableStep, CpuStep, AtTable, Past, Sets
<1> QED BY <1>2, <1>4, <1>5, <1>6, QuietStep

LEMMA FrameStartPalloc ==
    ASSUME FrameInv, NEW c \in Cpus, M!StartPalloc(c)
    PROVE  FrameInv'
<1> DEFINE a == M!Activity("palloc", "enter", None, None, FALSE)
<1>1. a \in ActRec /\ a.op = "palloc" /\ a.at = "enter" /\ a.frame = None /\ a.ret = None
  BY Basics DEF M!Activity, ActRec
<1>2. M!Push(c, a) /\ act[c] = << >> /\ UNCHANGED <<Sets, vmmLock, lockCpu>>
  BY DEF M!StartPalloc, M!frames, Sets
<1> HIDE DEF a
<1>3. Sane(a, direct) /\ Carries(a) = {} /\ ~Past(a)
  BY <1>1 DEF Sane, Carries, Past
<1> QED BY <1>1, <1>2, <1>3, FramePush

LEMMA FrameStartMap ==
    ASSUME FrameInv, NEW c \in Cpus, M!StartMap(c)
    PROVE  FrameInv'
<1> DEFINE a == M!Activity("vmm", "lock", None, None, FALSE)
<1>1. a \in ActRec /\ a.op = "vmm" /\ a.at = "lock" /\ a.frame = None /\ a.ret = None
  BY Basics DEF M!Activity, ActRec
<1>2. M!Push(c, a) /\ act[c] = << >> /\ UNCHANGED <<Sets, vmmLock, lockCpu>>
  BY DEF M!StartMap, M!frames, Sets
<1> HIDE DEF a
<1>3. Sane(a, direct) /\ Carries(a) = {} /\ ~Past(a)
  BY <1>1, NoneApart DEF Sane, Carries, Past, FrameInv, MemType
<1> QED BY <1>1, <1>2, <1>3, FramePush

LEMMA FramePageFault ==
    ASSUME FrameInv, NEW c \in Cpus, M!PageFault(c)
    PROVE  FrameInv'
<1>1. PICK p \in HeapPages \cup {c} :
         /\ act[c] # << >> => M!Top(c).op \in {"palloc", "pfree"} /\ M!Top(c).at \in {"buddy", "fill"}
         /\ M!Push(c, M!Activity("vmm", "lock", p, None, TRUE))
  BY DEF M!PageFault
<1> DEFINE a == M!Activity("vmm", "lock", p, None, TRUE)
<1>2. a \in ActRec /\ a.op = "vmm" /\ a.at = "lock" /\ a.frame = None /\ a.ret = None
  BY Basics DEF M!Activity, ActRec
<1>3. M!Push(c, a) /\ UNCHANGED <<Sets, vmmLock, lockCpu>>
  BY <1>1 DEF M!PageFault, M!frames, Sets
<1> HIDE DEF a
<1>4. Sane(a, direct) /\ Carries(a) = {} /\ ~Past(a) /\ (act[c] # << >> => Over(M!Top(c), a))
  BY <1>1, <1>2, NoneApart DEF Sane, Carries, Past, Over, FrameInv, MemType
<1> QED BY <1>2, <1>3, <1>4, FramePush

\* A frame of the thread is on its way back to the buddy.
LEMMA FrameStartFree ==
    ASSUME FrameInv, NEW c \in Cpus, M!StartFree(c)
    PROVE  FrameInv'
<1>1. PICK f \in owned : M!Push(c, M!Activity("pfree", "enter", None, f, FALSE)) /\ owned' = owned \ {f}
  BY DEF M!StartFree
<1> DEFINE a == M!Activity("pfree", "enter", None, f, FALSE)
           q == Append(<< >>, a)
<1>2. f \in Frames /\ f # None /\ f \in direct
  BY NoneApart DEF FrameInv, MemType, MemPlaces
<1>3. a \in ActRec /\ a.op = "pfree" /\ a.at = "enter" /\ a.frame = f /\ a.ret = None
  BY <1>2, Basics DEF M!Activity, ActRec
<1>4. act[c] = << >> /\ UNCHANGED <<vmmLock, lockCpu, free, reserved, mapped, table, direct, leaked>>
  BY DEF M!StartFree
<1>5. act' = [act EXCEPT ![c] = q]
  BY <1>1, <1>4 DEF M!Push
<1> HIDE DEF a, q
<1>6. Sane(a, direct) /\ Carries(a) = {f} /\ ~Past(a) /\ ~AtTable(a)
  BY <1>2, <1>3 DEF Sane, Carries, Past, AtTable
<1>7. q = Append(<< >>, a) /\ Carries(a) \cap Kept(<< >>) = {} /\ ~(HasPast(<< >>) /\ Past(a))
      /\ << >> \in Seq(ActRec) /\ Stack(<< >>, direct) /\ (<< >> # << >> => Over(M!Last(<< >>), a))
  BY <1>6, EmptyStack DEF q
<1>8. /\ q \in Seq(ActRec) /\ Stack(q, direct) /\ Kept(q) = {f}
      /\ ~HasPast(q) /\ ~HasTable(q)
  BY <1>3, <1>6, <1>7, EmptyStack, StackPush
<1>9. f \notin KeptBy(Cpus)
  BY <1>2 DEF FrameInv, MemPlaces, Apart
<1>10. Kept(act[c]) = {} /\ Kept(q) \cap KeptBy(Others(c)) = {} /\ ~HasInside(act[c])
  BY <1>4, <1>8, <1>9, EmptyStack DEF KeptBy, Others
<1>11. LockStep(c, q) /\ TableStep(c, q) /\ CpuStep(c, q) /\ DirectStep(c) /\ Stack(q, direct')
  BY <1>4, <1>8, <1>10 DEF LockStep, TableStep, CpuStep, DirectStep
<1>12. /\ act' \in [Cpus -> Seq(ActRec)] /\ MemStacks' /\ MemLocks'
       /\ KeptBy(Cpus)' = KeptBy(Cpus) \cup {f}
  BY <1>5, <1>8, <1>10, <1>11, CpuMoves
<1>13. MemType'
  BY <1>1, <1>4, <1>12 DEF FrameInv, MemType
<1>14. MemPlaces'
  <2>1. Apart(free, reserved, InPages(mapped), {table} \ {None}, owned', leaked, KeptBy(Cpus)')
    BY <1>1, <1>2, <1>9, <1>12 DEF FrameInv, MemPlaces, Apart
  <2> QED BY <1>1, <1>4, <2>1 DEF FrameInv, MemPlaces
<1> QED BY <1>12, <1>13, <1>14 DEF FrameInv

----------------------------------------------------------------------------
(* palloc and pfree                                                        *)

\* What a step from t to a may do to the vmm lock and to m_lock_cpu.
Locking(c, t, a) ==
    /\ \/ vmmLock' = vmmLock /\ (Past(a) => Past(t))
       \/ vmmLock = None /\ vmmLock' = c
       \/ vmmLock' = None /\ Past(t) /\ ~Past(a)
    /\ AtTable(a) => AtTable(t)
    /\ \/ lockCpu' = lockCpu /\ (Inside(t) => Inside(a))
       \/ lockCpu' = c /\ Inside(a)

LEMMA FrameStep ==
    ASSUME FrameInv, NEW c \in Cpus, act[c] # << >>, NEW l \in Steps, M!Step(c, l), UNCHANGED Sets,
           NEW a, a = [M!Top(c) EXCEPT !.at = l], Sane(a, direct), Locking(c, M!Top(c), a)
    PROVE  FrameInv'
<1>1. Like(a, M!Top(c), l, M!Top(c).frame, M!Top(c).ret)
  BY TopFacts, WithAt
<1>2. HasPast(act[c]) => vmmLock = c
  BY DEF FrameInv, MemLocks
<1>3. ~(HasPast(Below(c)) /\ Past(a))
  BY <1>2, TopFacts, NoneApart DEF Locking
<1>4. PICK q \in Seq(ActRec) :
         /\ act' = [act EXCEPT ![c] = q] /\ Stack(q, direct) /\ Kept(q) = Kept(act[c])
         /\ HasPast(q) <=> HasPast(Below(c)) \/ Past(a)
         /\ HasTable(q) <=> HasTable(Below(c)) \/ AtTable(a)
         /\ HasInside(q) <=> HasInside(Below(c)) \/ Inside(a)
  BY <1>1, <1>3, TopStep
<1>5. LockStep(c, q)
  BY <1>2, <1>4, TopFacts DEF LockStep, Locking
<1>6. TableStep(c, q)
  BY <1>4, TopFacts DEF TableStep, Locking, Sets
<1>7. CpuStep(c, q)
  BY <1>4, TopFacts DEF CpuStep, Locking
<1> QED BY <1>4, <1>5, <1>6, <1>7, QuietStep

LEMMA FrameEnter ==
    ASSUME FrameInv, NEW c \in Cpus, M!Enter(c)
    PROVE  FrameInv'
<1>1. /\ act[c] # << >> /\ M!Top(c).op \in {"palloc", "pfree"} /\ M!Top(c).at = "enter"
      /\ M!Step(c, "buddy") /\ lockCpu' = c /\ vmmLock' = vmmLock /\ UNCHANGED Sets
  BY DEF M!Enter, M!In, M!frames, Sets
<1>2. PICK a : a = [M!Top(c) EXCEPT !.at = "buddy"]
  OBVIOUS
<1>3. "buddy" \in Steps
  BY DEF Steps
<1>4. Like(a, M!Top(c), "buddy", M!Top(c).frame, M!Top(c).ret) /\ Sane(M!Top(c), direct)
  BY <1>1, <1>2, <1>3, TopFacts, WithAt
<1>5. Sane(a, direct) /\ Locking(c, M!Top(c), a)
  BY <1>1, <1>4 DEF Sane, Like, Locking, Past, AtTable, Inside
<1> QED BY <1>1, <1>2, <1>3, <1>5, FrameStep

LEMMA FrameIrqAlloc ==
    ASSUME FrameInv, NEW c \in Cpus, M!IrqAlloc(c)
    PROVE  FrameInv'
<1>1. /\ act[c] # << >> /\ M!Top(c).op = "palloc" /\ M!Top(c).at = "enter" /\ lockCpu = c
      /\ UNCHANGED <<vmmLock, lockCpu, free, mapped, table, direct, owned, leaked>>
  BY DEF M!IrqAlloc, M!In
<1>2. CASE M!Step(c, "halt") /\ UNCHANGED reserved
  <2>1. PICK a : a = [M!Top(c) EXCEPT !.at = "halt"]
    OBVIOUS
  <2>2. "halt" \in Steps
    BY DEF Steps
  <2>3. Like(a, M!Top(c), "halt", M!Top(c).frame, M!Top(c).ret) /\ Sane(M!Top(c), direct)
    BY <1>1, <2>1, <2>2, TopFacts, WithAt
  <2>4. Sane(a, direct) /\ Locking(c, M!Top(c), a) /\ UNCHANGED Sets
    BY <1>1, <1>2, <2>3 DEF Sane, Like, Locking, Past, AtTable, Inside, Sets
  <2> QED BY <1>1, <1>2, <2>1, <2>2, <2>4, FrameStep
<1>3. ASSUME NEW f \in reserved, reserved' = reserved \ {f}, M!Return(c, f) PROVE FrameInv'
  <2>1. HasInside(act[c]) /\ ~Inside(M!Top(c)) /\ Carries(M!Top(c)) = {} /\ ~Past(M!Top(c)) /\ ~AtTable(M!Top(c))
    BY <1>1, TopFacts DEF FrameInv, MemLocks, Inside, Carries, Sane, Past, AtTable
  <2>2. Below(c) # << >>
    BY <1>1, <2>1, TopFacts, EmptyStack
  <2>3. f \in Frames /\ f # None /\ f \in direct /\ f \notin KeptBy(Cpus)
    BY NoneApart DEF FrameInv, MemType, MemPlaces, Apart
  <2>4. f \notin Kept(Below(c)) /\ Kept(act[c]) = Kept(Below(c)) /\ f \in direct \cup {None}
    BY <1>1, <2>1, <2>3, TopFacts DEF KeptBy
  <2>5. PICK q : q = Append(M!Front(Below(c)), [M!Last(Below(c)) EXCEPT !.ret = f])
    OBVIOUS
  <2>6. /\ q \in Seq(ActRec) /\ Stack(q, direct) /\ Kept(q) = Kept(Below(c)) \cup ({f} \ {None})
        /\ HasPast(q) <=> HasPast(Below(c))
        /\ HasTable(q) <=> HasTable(Below(c))
        /\ HasInside(q) <=> HasInside(Below(c))
    BY <1>1, <2>2, <2>4, <2>5, ReturnsTo
  <2>7. act' = [act EXCEPT ![c] = q]
    BY <1>3, <2>2, <2>5 DEF M!Return, Below
  <2>8. Kept(q) \cap KeptBy(Others(c)) = {} /\ Kept(q) = Kept(act[c]) \cup {f}
    <3>1. Kept(act[c]) \cap KeptBy(Others(c)) = {}
      BY DEF FrameInv, MemStacks, KeptBy, Others
    <3>2. f \notin KeptBy(Others(c))
      BY <2>3 DEF KeptBy, Others
    <3> QED BY <2>3, <2>4, <2>6, <3>1, <3>2
  <2>9. LockStep(c, q) /\ TableStep(c, q) /\ CpuStep(c, q) /\ DirectStep(c) /\ Stack(q, direct')
    BY <1>1, <2>1, <2>6, TopFacts DEF LockStep, TableStep, CpuStep, DirectStep
  <2>10. /\ act' \in [Cpus -> Seq(ActRec)] /\ MemStacks' /\ MemLocks'
         /\ KeptBy(Cpus)' = KeptBy(Cpus) \cup {f}
    BY <2>6, <2>7, <2>8, <2>9, CpuMoves
  <2>11. MemType'
    BY <1>1, <1>3, <2>10 DEF FrameInv, MemType
  <2>12. MemPlaces'
    <3>1. Apart(free, reserved', InPages(mapped), {table} \ {None}, owned, leaked, KeptBy(Cpus)')
      BY <1>3, <2>3, <2>10 DEF FrameInv, MemPlaces, Apart
    <3> QED BY <1>1, <1>3, <3>1 DEF FrameInv, MemPlaces
  <2> QED BY <2>10, <2>11, <2>12 DEF FrameInv
<1> QED BY <1>2, <1>3 DEF M!IrqAlloc

LEMMA FrameBuddyMalloc ==
    ASSUME FrameInv, NEW c \in Cpus, M!BuddyMalloc(c)
    PROVE  FrameInv'
<1>1. /\ act[c] # << >> /\ M!Top(c).op = "palloc" /\ M!Top(c).at = "buddy"
      /\ UNCHANGED <<vmmLock, lockCpu, reserved, mapped, table, direct, owned, leaked>>
  BY DEF M!BuddyMalloc, M!In
<1>2. "fill" \in Steps
  BY DEF Steps
<1>3. CASE M!Step(c, "fill") /\ UNCHANGED free
  <2>1. PICK a : a = [M!Top(c) EXCEPT !.at = "fill"]
    OBVIOUS
  <2>2. Like(a, M!Top(c), "fill", M!Top(c).frame, M!Top(c).ret) /\ Sane(M!Top(c), direct)
    BY <1>1, <1>2, <2>1, TopFacts, WithAt
  <2>3. Sane(a, direct) /\ Locking(c, M!Top(c), a) /\ UNCHANGED Sets
    BY <1>1, <1>3, <2>2 DEF Sane, Like, Locking, Past, AtTable, Inside, Sets
  <2> QED BY <1>1, <1>2, <1>3, <2>1, <2>3, FrameStep
<1>4. ASSUME NEW f \in free, free' = free \ {f}, M!Becomes(c, [M!Top(c) EXCEPT !.at = "fill", !.frame = f])
      PROVE  FrameInv'
  <2>1. PICK a : a = [M!Top(c) EXCEPT !.at = "fill", !.frame = f]
    OBVIOUS
  <2>2. f \in Frames /\ f # None /\ f \in direct /\ f \notin KeptBy(Cpus)
    BY NoneApart DEF FrameInv, MemType, MemPlaces, Apart
  <2>3. Like(a, M!Top(c), "fill", f, M!Top(c).ret) /\ Sane(M!Top(c), direct)
    BY <1>1, <1>2, <2>1, <2>2, TopFacts, WithAtFrame DEF MaybeFrame
  <2>4. /\ Sane(a, direct) /\ Carries(a) = {f} /\ Carries(M!Top(c)) = {} /\ a \in ActRec /\ a.op = M!Top(c).op
        /\ ~Past(a) /\ ~AtTable(a) /\ Inside(a)
    BY <1>1, <2>2, <2>3 DEF Sane, Carries, Like, Past, AtTable, Inside
  <2>5. PICK q : q = Append(Below(c), a)
    OBVIOUS
  <2>6. act' = [act EXCEPT ![c] = q]
    BY <1>4, <2>1, <2>5 DEF M!Becomes, Below
  <2>7. Kept(act[c]) = Kept(Below(c)) /\ f \notin Kept(Below(c)) /\ f \notin KeptBy(Others(c))
    BY <1>1, <2>2, <2>4, TopFacts DEF KeptBy, Others
  <2>8. Stack(Below(c), direct) /\ Carries(a) \cap Kept(Below(c)) = {} /\ ~(HasPast(Below(c)) /\ Past(a))
    BY <1>1, <2>4, <2>7, TopFacts
  <2>9. /\ q \in Seq(ActRec) /\ Stack(q, direct) /\ Kept(q) = Kept(Below(c)) \cup Carries(a)
        /\ HasPast(q) <=> HasPast(Below(c)) \/ Past(a)
        /\ HasTable(q) <=> HasTable(Below(c)) \/ AtTable(a)
        /\ HasInside(q) <=> HasInside(Below(c)) \/ Inside(a)
    BY <1>1, <2>4, <2>5, <2>8, TopBecomes
  <2>10. Kept(q) \cap KeptBy(Others(c)) = {} /\ Kept(q) = Kept(act[c]) \cup {f}
    <3>1. Kept(act[c]) \cap KeptBy(Others(c)) = {}
      BY DEF FrameInv, MemStacks, KeptBy, Others
    <3> QED BY <2>4, <2>7, <2>9, <3>1
  <2>11. LockStep(c, q) /\ TableStep(c, q) /\ CpuStep(c, q) /\ DirectStep(c) /\ Stack(q, direct')
    BY <1>1, <2>4, <2>9, TopFacts DEF LockStep, TableStep, CpuStep, DirectStep
  <2>12. /\ act' \in [Cpus -> Seq(ActRec)] /\ MemStacks' /\ MemLocks'
         /\ KeptBy(Cpus)' = KeptBy(Cpus) \cup {f}
    BY <2>6, <2>9, <2>10, <2>11, CpuMoves
  <2>13. MemType'
    BY <1>1, <1>4, <2>12 DEF FrameInv, MemType
  <2>14. MemPlaces'
    <3>1. Apart(free', reserved, InPages(mapped), {table} \ {None}, owned, leaked, KeptBy(Cpus)')
      BY <1>4, <2>2, <2>12 DEF FrameInv, MemPlaces, Apart
    <3> QED BY <1>1, <1>4, <3>1 DEF FrameInv, MemPlaces
  <2> QED BY <2>12, <2>13, <2>14 DEF FrameInv
<1> QED BY <1>3, <1>4 DEF M!BuddyMalloc

\* What the other CPUs keep, and what c carries, are apart.
LEMMA OthersApart ==
    ASSUME FrameInv, NEW c \in Cpus
    PROVE  /\ Kept(act[c]) \cap KeptBy(Others(c)) = {}
           /\ KeptBy(Cpus) = KeptBy(Others(c)) \cup Kept(act[c])
<1>1. Kept(act[c]) \subseteq Frames
  BY DEF Kept
<1> QED BY <1>1 DEF FrameInv, MemStacks, KeptBy, Others

LEMMA FrameBuddyFree ==
    ASSUME FrameInv, NEW c \in Cpus, M!BuddyFree(c)
    PROVE  FrameInv'
<1> DEFINE f == M!Top(c).frame
<1>1. /\ act[c] # << >> /\ M!Top(c).op = "pfree" /\ M!Top(c).at = "buddy" /\ free' = free \cup {f}
      /\ M!Becomes(c, [M!Top(c) EXCEPT !.at = "unlock", !.frame = None])
      /\ UNCHANGED <<vmmLock, lockCpu, reserved, mapped, table, direct, owned, leaked>>
  BY DEF M!BuddyFree, M!In
<1>2. PICK a : a = [M!Top(c) EXCEPT !.at = "unlock", !.frame = None]
  OBVIOUS
<1>3. "unlock" \in Steps /\ None \in MaybeFrame
  BY DEF Steps, MaybeFrame
<1>4. Like(a, M!Top(c), "unlock", None, M!Top(c).ret) /\ Sane(M!Top(c), direct) /\ M!Top(c) \in ActRec
  BY <1>1, <1>2, <1>3, TopFacts, WithAtFrame
<1>5. /\ Sane(a, direct) /\ Carries(a) = {} /\ Carries(M!Top(c)) = {f} \ {None} /\ a \in ActRec /\ a.op = M!Top(c).op
      /\ ~Past(a) /\ ~AtTable(a) /\ Inside(a) /\ ~Past(M!Top(c)) /\ f \in direct \cup {None} /\ f # None
  BY <1>1, <1>4 DEF Sane, Carries, Like, Past, AtTable, Inside
<1>6. PICK q : q = Append(Below(c), a)
  OBVIOUS
<1>7. act' = [act EXCEPT ![c] = q]
  BY <1>1, <1>2, <1>6 DEF M!Becomes, Below
<1>8. Stack(Below(c), direct) /\ Carries(a) \cap Kept(Below(c)) = {} /\ ~(HasPast(Below(c)) /\ Past(a))
  BY <1>1, <1>5, TopFacts
<1>9. /\ q \in Seq(ActRec) /\ Stack(q, direct) /\ Kept(q) = Kept(Below(c)) \cup Carries(a)
      /\ HasPast(q) <=> HasPast(Below(c)) \/ Past(a)
      /\ HasTable(q) <=> HasTable(Below(c)) \/ AtTable(a)
      /\ HasInside(q) <=> HasInside(Below(c)) \/ Inside(a)
  BY <1>1, <1>5, <1>6, <1>8, TopBecomes
<1>10. Kept(q) \cap KeptBy(Others(c)) = {} /\ Kept(q) = Kept(act[c]) \ {f} /\ (f # None => f \in Kept(act[c]))
       /\ None \notin Kept(act[c])
  <2>1. /\ Kept(act[c]) = Kept(Below(c)) \cup Carries(M!Top(c)) /\ Kept(Below(c)) \cap Carries(M!Top(c)) = {}
    BY <1>1, TopFacts
  <2>2. None \notin Kept(act[c])
    BY NoneApart DEF Kept
  <2> QED BY <1>5, <1>9, <2>1, <2>2, OthersApart
<1>11. LockStep(c, q) /\ TableStep(c, q) /\ CpuStep(c, q) /\ DirectStep(c) /\ Stack(q, direct')
  BY <1>1, <1>5, <1>9, TopFacts DEF LockStep, TableStep, CpuStep, DirectStep
<1>12. /\ act' \in [Cpus -> Seq(ActRec)] /\ MemStacks' /\ MemLocks'
       /\ KeptBy(Cpus)' = KeptBy(Others(c)) \cup Kept(q)
  BY <1>7, <1>9, <1>10, <1>11, CpuMoves
<1> HIDE DEF f
<1>13. KeptBy(Cpus)' = KeptBy(Cpus) \ {f} /\ f \in KeptBy(Cpus)
  <2>1. f \in Kept(act[c]) /\ f \notin KeptBy(Others(c)) /\ KeptBy(Cpus) = KeptBy(Others(c)) \cup Kept(act[c])
    BY <1>5, <1>10, OthersApart
  <2> QED BY <1>10, <1>12, <2>1
<1>14. f \in direct /\ direct \subseteq Frames /\ f # None
  BY <1>5 DEF FrameInv, MemType
<1>15. MemType'
  BY <1>1, <1>12, <1>14 DEF FrameInv, MemType
<1>16. MemPlaces'
  <2>1. Apart(free', reserved, InPages(mapped), {table} \ {None}, owned, leaked, KeptBy(Cpus)')
    BY <1>1, <1>13, <1>14 DEF FrameInv, MemPlaces, Apart
  <2> QED BY <1>1, <1>14, <2>1 DEF FrameInv, MemPlaces
<1> QED BY <1>12, <1>15, <1>16 DEF FrameInv

LEMMA FrameFill ==
    ASSUME FrameInv, NEW c \in Cpus, M!Fill(c)
    PROVE  FrameInv'
<1>1. /\ act[c] # << >> /\ M!Top(c).op = "palloc" /\ M!Top(c).at = "fill"
      /\ UNCHANGED <<vmmLock, lockCpu, mapped, table, direct, owned, leaked>>
  BY DEF M!Fill, M!In
<1>2. CASE M!Step(c, "unlock") /\ UNCHANGED <<free, reserved>>
  <2>1. PICK a : a = [M!Top(c) EXCEPT !.at = "unlock"]
    OBVIOUS
  <2>2. "unlock" \in Steps
    BY DEF Steps
  <2>3. Like(a, M!Top(c), "unlock", M!Top(c).frame, M!Top(c).ret) /\ Sane(M!Top(c), direct)
    BY <1>1, <2>1, <2>2, TopFacts, WithAt
  <2>4. Sane(a, direct) /\ Locking(c, M!Top(c), a) /\ UNCHANGED Sets
    BY <1>1, <1>2, <2>3 DEF Sane, Like, Locking, Past, AtTable, Inside, Sets
  <2> QED BY <1>1, <1>2, <2>1, <2>2, <2>4, FrameStep
<1>3. ASSUME NEW f \in free, free' = free \ {f}, reserved' = reserved \cup {f}, UNCHANGED act PROVE FrameInv'
  <2>1. MemType' /\ MemStacks' /\ MemLocks' /\ KeptBy(Cpus)' = KeptBy(Cpus)
    BY <1>1, <1>3 DEF FrameInv, MemType, MemStacks, MemLocks, KeptBy
  <2>2. Apart(free', reserved', InPages(mapped), {table} \ {None}, owned, leaked, KeptBy(Cpus))
    BY <1>3 DEF FrameInv, MemPlaces, Apart
  <2>3. MemPlaces'
    BY <1>1, <1>3, <2>1, <2>2 DEF FrameInv, MemPlaces
  <2> QED BY <2>1, <2>3 DEF FrameInv
<1> QED BY <1>2, <1>3 DEF M!Fill

\* The lock is given up, and the frame goes to the vmm, or to the thread.
LEMMA FrameUnlock ==
    ASSUME FrameInv, NEW c \in Cpus, M!Unlock(c)
    PROVE  FrameInv'
<1> DEFINE f == M!Top(c).frame
<1>1. /\ act[c] # << >> /\ M!Top(c).op \in {"palloc", "pfree"} /\ M!Top(c).at = "unlock" /\ lockCpu' = None
      /\ UNCHANGED <<vmmLock, free, reserved, mapped, table, direct, leaked>>
  BY DEF M!Unlock, M!In
<1>2. M!Top(c) \in ActRec /\ Sane(M!Top(c), direct) /\ Below(c) \in Seq(ActRec) /\ Stack(Below(c), direct)
  BY <1>1, TopFacts
<1>3. /\ Carries(M!Top(c)) = {f} \ {None} /\ ~Past(M!Top(c)) /\ ~AtTable(M!Top(c)) /\ f \in direct \cup {None}
      /\ (M!Top(c).op = "pfree" => f = None)
  BY <1>1, <1>2 DEF Sane, Carries, Past, AtTable
<1>4. /\ Kept(act[c]) = Kept(Below(c)) \cup ({f} \ {None}) /\ Kept(Below(c)) \cap ({f} \ {None}) = {}
      /\ HasPast(act[c]) <=> HasPast(Below(c))
      /\ HasTable(act[c]) <=> HasTable(Below(c))
  BY <1>1, <1>3, TopFacts
<1>5. None \notin Kept(Below(c)) /\ direct \subseteq Frames
  BY NoneApart DEF Kept, FrameInv, MemType
<1> HIDE DEF f
<1>6. CASE M!Top(c).op = "pfree"
  <2>1. act' = [act EXCEPT ![c] = Below(c)] /\ owned' = owned
    BY <1>6 DEF M!Unlock, Below
  <2>2. Kept(Below(c)) = Kept(act[c]) /\ UNCHANGED Sets
    BY <1>1, <1>3, <1>4, <1>6, <2>1 DEF Sets
  <2>3. LockStep(c, Below(c)) /\ TableStep(c, Below(c)) /\ CpuStep(c, Below(c))
    BY <1>1, <1>4 DEF LockStep, TableStep, CpuStep
  <2> QED BY <1>2, <2>1, <2>2, <2>3, QuietStep
<1>7. CASE M!Top(c).op = "palloc" /\ Below(c) # << >>
  <2>1. PICK q : q = Append(M!Front(Below(c)), [M!Last(Below(c)) EXCEPT !.ret = f])
    OBVIOUS
  <2>2. act' = [act EXCEPT ![c] = q]
    BY <1>7, <2>1 DEF M!Unlock, M!Return, Below, f
  <2>3. owned' = owned
    <3>1. act[c] \in Seq(ActRec) /\ Len(Below(c)) = Len(act[c]) - 1 /\ Len(act[c]) \in Nat
      BY <1>1, FrontOf DEF Below, FrameInv, MemType
    <3>2. Len(Below(c)) # 0
      BY <1>2, <1>7, EmptySeq
    <3>3. Len(act[c]) # 1
      BY <3>1, <3>2
    <3> QED BY <1>7, <3>3 DEF M!Unlock, M!Returned
  <2>4. f \notin Kept(Below(c))
    BY <1>4, <1>5
  <2>5. /\ q \in Seq(ActRec) /\ Stack(q, direct) /\ Kept(q) = Kept(Below(c)) \cup ({f} \ {None})
        /\ HasPast(q) <=> HasPast(Below(c))
        /\ HasTable(q) <=> HasTable(Below(c))
        /\ HasInside(q) <=> HasInside(Below(c))
    BY <1>1, <1>3, <1>7, <2>1, <2>4, ReturnsTo
  <2>6. Kept(q) = Kept(act[c]) /\ UNCHANGED Sets
    BY <1>1, <1>4, <2>3, <2>5 DEF Sets
  <2>7. LockStep(c, q) /\ TableStep(c, q) /\ CpuStep(c, q)
    BY <1>1, <1>4, <2>5 DEF LockStep, TableStep, CpuStep
  <2> QED BY <2>2, <2>5, <2>6, <2>7, QuietStep
<1>8. CASE M!Top(c).op = "palloc" /\ Below(c) = << >>
  <2>1. act' = [act EXCEPT ![c] = << >>]
    BY <1>8 DEF M!Unlock, M!Return, Below
  <2>2. owned' = owned \cup ({f} \ {None})
    <3>1. Len(Below(c)) = Len(act[c]) - 1 /\ Len(act[c]) \in Nat
      BY <1>1, FrontOf DEF Below, FrameInv, MemType
    <3>2. Len(Below(c)) = 0
      BY <1>8, EmptySeq
    <3>3. Len(act[c]) = 1
      BY <3>1, <3>2
    <3> QED BY <1>8, <3>3 DEF M!Unlock, M!Returned, f
  <2>3. PICK q : q = << >>
    OBVIOUS
  <2>4. /\ q \in Seq(ActRec) /\ Stack(q, direct) /\ Kept(q) = {} /\ ~HasPast(q) /\ ~HasTable(q)
        /\ act' = [act EXCEPT ![c] = q]
    BY <2>1, <2>3, EmptyStack
  <2>5. Kept(act[c]) = {f} \ {None}
    BY <1>4, <1>8, EmptyStack
  <2>6. LockStep(c, q) /\ TableStep(c, q) /\ CpuStep(c, q) /\ DirectStep(c) /\ Stack(q, direct')
        /\ Kept(q) \cap KeptBy(Others(c)) = {}
    BY <1>1, <2>4 DEF LockStep, TableStep, CpuStep, DirectStep
  <2>7. /\ act' \in [Cpus -> Seq(ActRec)] /\ MemStacks' /\ MemLocks'
        /\ KeptBy(Cpus)' = KeptBy(Others(c)) \cup Kept(q)
    BY <2>4, <2>6, CpuMoves
  <2>8. KeptBy(Cpus) = KeptBy(Cpus)' \cup ({f} \ {None}) /\ KeptBy(Cpus)' \cap ({f} \ {None}) = {}
    BY <2>4, <2>5, <2>7, OthersApart
  <2>9. MemType'
    BY <1>1, <1>3, <1>5, <2>2, <2>7 DEF FrameInv, MemType
  <2>10. MemPlaces'
    <3>1. Apart(free, reserved, InPages(mapped), {table} \ {None}, owned', leaked, KeptBy(Cpus)')
      BY <2>2, <2>8 DEF FrameInv, MemPlaces, Apart
    <3>2. free \cup reserved \cup owned' \subseteq direct
      BY <1>3, <2>2 DEF FrameInv, MemPlaces
    <3> QED BY <1>1, <3>1, <3>2 DEF FrameInv, MemPlaces
  <2> QED BY <2>7, <2>9, <2>10 DEF FrameInv
<1> QED BY <1>1, <1>6, <1>7, <1>8

----------------------------------------------------------------------------
(* The vmm                                                                 *)

LEMMA FrameVmmLock ==
    ASSUME FrameInv, NEW c \in Cpus, M!VmmLock(c)
    PROVE  FrameInv'
<1>1. /\ act[c] # << >> /\ M!Top(c).op = "vmm" /\ M!Top(c).at = "lock" /\ vmmLock = None /\ vmmLock' = c
      /\ lockCpu' = lockCpu /\ UNCHANGED Sets
  BY DEF M!VmmLock, M!In, M!frames, Sets
<1>2. M!Top(c) \in ActRec /\ Sane(M!Top(c), direct)
  BY <1>1, TopFacts
<1>3. M!Top(c).ret = None /\ M!Top(c).frame = None
  BY <1>1, <1>2 DEF Sane
<1>4. ~HasPast(act[c]) /\ ~HasPast(Below(c)) /\ ~HasTable(Below(c))
  BY <1>1, NoneApart, TopFacts, TablePast DEF FrameInv, MemLocks
<1>5. CASE M!Top(c).page = None
  <2>1. M!Step(c, "map")
    BY <1>5 DEF M!VmmLock
  <2>2. PICK a : a = [M!Top(c) EXCEPT !.at = "map"]
    OBVIOUS
  <2>3. "map" \in Steps
    BY DEF Steps
  <2>4. Like(a, M!Top(c), "map", M!Top(c).frame, M!Top(c).ret)
    BY <1>2, <2>2, <2>3, WithAt
  <2>5. Sane(a, direct) /\ Locking(c, M!Top(c), a)
    BY <1>1, <1>2, <1>3, <2>4 DEF Sane, Like, Locking, Past, AtTable, Inside
  <2> QED BY <1>1, <2>1, <2>2, <2>3, <2>5, FrameStep
<1>6. CASE M!Top(c).page # None
  <2>1. M!CallPalloc(c, "page")
    BY <1>6 DEF M!VmmLock
  <2>2. PICK q \in Seq(ActRec) :
           /\ act' = [act EXCEPT ![c] = q] /\ Stack(q, direct) /\ Kept(q) = Kept(act[c])
           /\ HasTable(q) => "page" = "table"
           /\ HasInside(q) <=> HasInside(act[c])
    BY <1>1, <1>3, <1>4, <1>6, <2>1, CallsPalloc
  <2>3. ~HasTable(q)
    BY <2>2
  <2>4. LockStep(c, q) /\ TableStep(c, q) /\ CpuStep(c, q)
    BY <1>1, <2>2, <2>3 DEF LockStep, TableStep, CpuStep, Sets
  <2> QED BY <1>1, <2>2, <2>4, QuietStep
<1> QED BY <1>5, <1>6

LEMMA FrameNeedTable ==
    ASSUME FrameInv, NEW c \in Cpus, M!NeedTable(c)
    PROVE  FrameInv'
<1>1. /\ act[c] # << >> /\ M!Top(c).op = "vmm" /\ M!Top(c).at = "map" /\ table = None
      /\ UNCHANGED Sets /\ vmmLock' = vmmLock /\ lockCpu' = lockCpu /\ M!CallPalloc(c, "table")
  BY DEF M!NeedTable, M!In, M!frames, Sets
<1>2. M!Top(c).ret = None /\ Past(M!Top(c)) /\ ~HasPast(Below(c)) /\ HasPast(act[c])
  BY <1>1, TopFacts DEF Sane, Past
<1>3. PICK q \in Seq(ActRec) :
         /\ act' = [act EXCEPT ![c] = q] /\ Stack(q, direct) /\ Kept(q) = Kept(act[c])
         /\ HasInside(q) <=> HasInside(act[c])
  BY <1>1, <1>2, CallsPalloc
<1>4. LockStep(c, q) /\ TableStep(c, q) /\ CpuStep(c, q)
  BY <1>1, <1>2, <1>3 DEF LockStep, TableStep, CpuStep, Sets
<1> QED BY <1>1, <1>3, <1>4, QuietStep

\* The page leaves the direct map, and stays with the vmm.
LEMMA FrameGotPage ==
    ASSUME FrameInv, NEW c \in Cpus, M!GotPage(c)
    PROVE  FrameInv'
<1> DEFINE f == M!Top(c).ret
           l == IF f = None THEN "error" ELSE "map"
<1>1. /\ act[c] # << >> /\ M!Top(c).op = "vmm" /\ M!Top(c).at = "page" /\ direct' = direct \ {f}
      /\ M!Becomes(c, [M!Top(c) EXCEPT !.at = l, !.frame = f, !.ret = None])
      /\ UNCHANGED <<vmmLock, lockCpu, free, reserved, mapped, table, owned, leaked>>
  BY DEF M!GotPage, M!In
<1>2. PICK a : a = [M!Top(c) EXCEPT !.at = l, !.frame = f, !.ret = None]
  OBVIOUS
<1>3. M!Top(c) \in ActRec /\ Sane(M!Top(c), direct) /\ Below(c) \in Seq(ActRec) /\ Stack(Below(c), direct)
      /\ None \notin direct
  BY <1>1, TopFacts, NoneApart DEF FrameInv, MemType
<1>4. l \in Steps /\ f \in MaybeFrame /\ None \in MaybeFrame
  BY <1>3 DEF Steps, MaybeFrame, ActRec
<1>5. Like(a, M!Top(c), l, f, None)
  BY <1>2, <1>3, <1>4, WithAtFrameRet
<1>6. M!Top(c).frame = None /\ M!Top(c).page # None /\ f \in direct \cup {None}
  BY <1>1, <1>3 DEF Sane
<1>7. /\ Sane(a, direct') /\ Carries(a) = {f} \ {None} /\ Carries(M!Top(c)) = {f} \ {None} /\ a \in ActRec
      /\ a.op = M!Top(c).op /\ Past(a) /\ ~AtTable(a) /\ ~Inside(a) /\ Past(M!Top(c)) /\ ~Inside(M!Top(c))
  <2>1. Sane(a, direct')
    BY <1>1, <1>3, <1>5, <1>6 DEF Sane, Like
  <2>2. Carries(a) = {f} \ {None} /\ Carries(M!Top(c)) = {f} \ {None} /\ a \in ActRec /\ a.op = M!Top(c).op
    BY <1>5, <1>6 DEF Like, Carries
  <2> QED BY <1>1, <1>5, <2>1, <2>2 DEF Like, Past, AtTable, Inside
<1>8. PICK q : q = Append(Below(c), a)
  OBVIOUS
<1>9. act' = [act EXCEPT ![c] = q]
  BY <1>1, <1>2, <1>8 DEF M!Becomes, Below
<1> HIDE DEF f, l
<1>10. /\ Kept(act[c]) = Kept(Below(c)) \cup ({f} \ {None}) /\ Kept(Below(c)) \cap ({f} \ {None}) = {}
       /\ ~HasPast(Below(c)) /\ HasPast(act[c])
       /\ HasInside(act[c]) <=> HasInside(Below(c))
  BY <1>1, <1>7, TopFacts
<1>11. None \notin Kept(Below(c)) /\ ~HasTable(Below(c))
  BY <1>10, NoneApart, TablePast DEF Kept
<1>12. Stack(Below(c), direct') /\ Carries(a) \cap Kept(Below(c)) = {} /\ ~(HasPast(Below(c)) /\ Past(a))
  <2>1. f \notin Kept(Below(c))
    BY <1>10, <1>11
  <2> QED BY <1>1, <1>3, <1>7, <1>10, <2>1, StackShrink
<1>13. /\ q \in Seq(ActRec) /\ Stack(q, direct') /\ Kept(q) = Kept(Below(c)) \cup Carries(a)
       /\ HasPast(q) <=> HasPast(Below(c)) \/ Past(a)
       /\ HasTable(q) <=> HasTable(Below(c)) \/ AtTable(a)
       /\ HasInside(q) <=> HasInside(Below(c)) \/ Inside(a)
  BY <1>1, <1>7, <1>8, <1>12, TopBecomes
<1>14. Kept(q) = Kept(act[c]) /\ Kept(q) \cap KeptBy(Others(c)) = {}
  BY <1>7, <1>10, <1>13, OthersApart
<1>15. LockStep(c, q) /\ TableStep(c, q) /\ CpuStep(c, q) /\ DirectStep(c)
  <2>1. DirectStep(c)
    <3>1. CASE f = None
      BY <1>1, <1>3, <3>1 DEF DirectStep
    <3>2. CASE f # None
      BY <1>1, <1>10, <3>2 DEF DirectStep
    <3> QED BY <3>1, <3>2
  <2> QED BY <1>1, <1>7, <1>10, <1>11, <1>13, <2>1 DEF LockStep, TableStep, CpuStep
<1>16. /\ act' \in [Cpus -> Seq(ActRec)] /\ MemStacks' /\ MemLocks'
       /\ KeptBy(Cpus)' = KeptBy(Cpus)
  BY <1>9, <1>13, <1>14, <1>15, CpuMoves
<1>17. MemType'
  BY <1>1, <1>16 DEF FrameInv, MemType
<1>18. MemPlaces'
  <2>1. f = None \/ f \in KeptBy(Cpus)
    BY <1>10, OthersApart
  <2>2. free \cup reserved \cup owned \subseteq direct'
    BY <1>1, <1>3, <2>1 DEF FrameInv, MemPlaces, Apart
  <2> QED BY <1>1, <1>16, <2>2 DEF FrameInv, MemPlaces
<1> QED BY <1>16, <1>17, <1>18 DEF FrameInv

LEMMA FrameGotTable ==
    ASSUME FrameInv, NEW c \in Cpus, M!GotTable(c)
    PROVE  FrameInv'
<1> DEFINE r == M!Top(c).ret
           f == M!Top(c).frame
           t == M!Top(c)
<1>1. /\ act[c] # << >> /\ t.op = "vmm" /\ t.at = "table"
      /\ UNCHANGED <<vmmLock, lockCpu, free, reserved, mapped, owned>>
  BY DEF M!GotTable, M!In
<1>2. t \in ActRec /\ Sane(t, direct) /\ Below(c) \in Seq(ActRec) /\ Stack(Below(c), direct) /\ None \notin direct
  BY <1>1, TopFacts, NoneApart DEF FrameInv, MemType
<1>3. /\ Past(t) /\ AtTable(t) /\ ~Inside(t) /\ f \notin direct /\ r \in direct \cup {None} /\ (f = r => f = None)
      /\ Carries(t) = {f, r} \ {None} /\ f \in MaybeFrame /\ r \in MaybeFrame /\ (t.page = None => f = None)
  BY <1>1, <1>2 DEF Past, AtTable, Inside, Sane, Carries, ActRec
<1>4. /\ Kept(act[c]) = Kept(Below(c)) \cup ({f, r} \ {None}) /\ Kept(Below(c)) \cap ({f, r} \ {None}) = {}
      /\ ~HasPast(Below(c)) /\ HasPast(act[c]) /\ HasTable(act[c])
      /\ HasInside(act[c]) <=> HasInside(Below(c))
  BY <1>1, <1>3, TopFacts
<1>5. table = None /\ vmmLock = c /\ ~HasTable(Below(c)) /\ None \notin Kept(Below(c))
  BY <1>4, NoneApart, TablePast DEF FrameInv, MemLocks, Kept
<1>6. CASE /\ r # None /\ table' = r /\ direct' = direct \ {r} /\ leaked' = leaked
           /\ M!Becomes(c, [t EXCEPT !.at = "map", !.ret = None])
  <2>1. PICK a : a = [t EXCEPT !.at = "map", !.ret = None]
    OBVIOUS
  <2>2. Like(a, t, "map", f, None)
    <3>1. "map" \in Steps /\ None \in MaybeFrame
      BY DEF Steps, MaybeFrame
    <3> QED BY <1>2, <2>1, <3>1, WithAtRet
  <2>3. PICK q : q = Append(Below(c), a)
    OBVIOUS
  <2>4. act' = [act EXCEPT ![c] = q]
    BY <1>6, <2>1, <2>3 DEF M!Becomes, Below
  <2>5. /\ Sane(a, direct') /\ Carries(a) = {f} \ {None} /\ a \in ActRec
        /\ a.op = M!Top(c).op /\ ~AtTable(a) /\ ~Inside(a)
    BY <1>1, <1>3, <1>6, <2>2 DEF Like, Sane, Carries, AtTable, Inside
  <2> HIDE DEF r, f, t
  <2>6. Stack(Below(c), direct') /\ Carries(a) \cap Kept(Below(c)) = {} /\ ~(HasPast(Below(c)) /\ Past(a))
    <3>1. r \notin Kept(Below(c))
      BY <1>4, <1>6
    <3> QED BY <1>2, <1>4, <1>6, <2>5, <3>1, StackShrink
  <2>7. /\ q \in Seq(ActRec) /\ Stack(q, direct') /\ Kept(q) = Kept(Below(c)) \cup Carries(a)
        /\ HasTable(q) <=> HasTable(Below(c)) \/ AtTable(a)
        /\ HasInside(q) <=> HasInside(Below(c)) \/ Inside(a)
    BY <1>1, <2>3, <2>5, <2>6, TopBecomes
  <2>8. Kept(q) = Kept(act[c]) \ {r} /\ r \in Kept(act[c]) /\ Kept(q) \cap KeptBy(Others(c)) = {}
    BY <1>3, <1>4, <1>6, <2>5, <2>7, OthersApart
  <2>9. LockStep(c, q) /\ TableStep(c, q) /\ CpuStep(c, q) /\ DirectStep(c)
    BY <1>1, <1>4, <1>5, <1>6, <2>5, <2>7, <2>8 DEF LockStep, TableStep, CpuStep, DirectStep
  <2>10. /\ act' \in [Cpus -> Seq(ActRec)] /\ MemStacks' /\ MemLocks'
         /\ KeptBy(Cpus)' = KeptBy(Others(c)) \cup Kept(q)
    BY <2>4, <2>7, <2>8, <2>9, CpuMoves
  <2>11. KeptBy(Cpus)' = KeptBy(Cpus) \ {r} /\ r \in KeptBy(Cpus)
    BY <2>8, <2>10, OthersApart
  <2>12. MemType'
    BY <1>1, <1>3, <1>6, <2>10 DEF FrameInv, MemType
  <2>13. MemPlaces'
    <3>1. {table} \ {None} = {} /\ {r} \ {None} = {r}
      BY <1>5, <1>6
    <3>2. Apart(free, reserved, InPages(mapped), {r}, owned, leaked, KeptBy(Cpus)')
      BY <2>11, <3>1 DEF FrameInv, MemPlaces, Apart
    <3>3. free \cup reserved \cup owned \subseteq direct'
      BY <1>6, <2>11 DEF FrameInv, MemPlaces, Apart
    <3>4. (InPages(mapped) \cup {r}) \cap direct' = {}
      BY <1>6 DEF FrameInv, MemPlaces
    <3> QED BY <1>1, <1>6, <3>1, <3>2, <3>3, <3>4 DEF FrameInv, MemPlaces
  <2> QED BY <2>10, <2>12, <2>13 DEF FrameInv
<1>7. CASE /\ r = None /\ leaked' = leaked \cup ({f} \ {None}) /\ UNCHANGED <<table, direct>>
           /\ M!Becomes(c, [t EXCEPT !.at = "error", !.frame = None])
  <2>1. PICK a : a = [t EXCEPT !.at = "error", !.frame = None]
    OBVIOUS
  <2>2. Like(a, t, "error", None, r)
    <3>1. "error" \in Steps /\ None \in MaybeFrame
      BY DEF Steps, MaybeFrame
    <3> QED BY <1>2, <2>1, <3>1, WithAtFrame
  <2>3. PICK q : q = Append(Below(c), a)
    OBVIOUS
  <2>4. act' = [act EXCEPT ![c] = q]
    BY <1>7, <2>1, <2>3 DEF M!Becomes, Below
  <2>5. /\ Sane(a, direct) /\ Carries(a) = {} /\ a \in ActRec
        /\ a.op = M!Top(c).op /\ ~AtTable(a) /\ ~Inside(a)
    BY <1>1, <1>2, <1>3, <1>7, <2>2 DEF Like, Sane, Carries, AtTable, Inside
  <2> HIDE DEF r, f, t
  <2>6. Carries(a) \cap Kept(Below(c)) = {} /\ ~(HasPast(Below(c)) /\ Past(a))
    BY <1>4, <2>5
  <2>7. /\ q \in Seq(ActRec) /\ Stack(q, direct) /\ Kept(q) = Kept(Below(c)) \cup Carries(a)
        /\ HasTable(q) <=> HasTable(Below(c)) \/ AtTable(a)
        /\ HasInside(q) <=> HasInside(Below(c)) \/ Inside(a)
    BY <1>1, <1>2, <2>3, <2>5, <2>6, TopBecomes
  <2>8. Kept(q) = Kept(act[c]) \ {f} /\ ({f} \ {None}) \subseteq Kept(act[c]) /\ Kept(q) \cap KeptBy(Others(c)) = {}
    BY <1>4, <1>5, <1>7, <2>5, <2>7, OthersApart
  <2>9. LockStep(c, q) /\ TableStep(c, q) /\ CpuStep(c, q) /\ DirectStep(c) /\ Stack(q, direct')
    BY <1>1, <1>4, <1>5, <1>7, <2>5, <2>7 DEF LockStep, TableStep, CpuStep, DirectStep
  <2>10. /\ act' \in [Cpus -> Seq(ActRec)] /\ MemStacks' /\ MemLocks'
         /\ KeptBy(Cpus)' = KeptBy(Others(c)) \cup Kept(q)
    BY <2>4, <2>7, <2>8, <2>9, CpuMoves
  <2>11. KeptBy(Cpus) = KeptBy(Cpus)' \cup ({f} \ {None}) /\ KeptBy(Cpus)' \cap ({f} \ {None}) = {}
    <3>1. None \notin Kept(act[c])
      BY NoneApart DEF Kept
    <3>2. Kept(act[c]) = Kept(q) \cup ({f} \ {None}) /\ Kept(q) \cap ({f} \ {None}) = {}
      BY <2>8, <3>1
    <3>3. Kept(act[c]) \cap KeptBy(Others(c)) = {} /\ KeptBy(Cpus) = KeptBy(Others(c)) \cup Kept(act[c])
      BY OthersApart
    <3> QED BY <2>10, <3>2, <3>3
  <2>12. MemType'
    BY <1>1, <1>3, <1>7, <2>10 DEF FrameInv, MemType, MaybeFrame
  <2>13. MemPlaces'
    <3>1. Apart(free, reserved, InPages(mapped), {table} \ {None}, owned, leaked', KeptBy(Cpus)')
      BY <1>7, <2>11 DEF FrameInv, MemPlaces, Apart
    <3> QED BY <1>1, <1>7, <3>1 DEF FrameInv, MemPlaces
  <2> QED BY <2>10, <2>12, <2>13 DEF FrameInv
<1> QED BY <1>6, <1>7 DEF M!GotTable

\* The vmm gives its lock back and returns.
LEMMA Leaves ==
    ASSUME FrameInv, NEW c \in Cpus, act[c] # << >>, Past(M!Top(c)), ~AtTable(M!Top(c)), M!Leave(c),
           UNCHANGED <<table, direct, lockCpu>>
    PROVE  /\ act' \in [Cpus -> Seq(ActRec)] /\ MemStacks' /\ MemLocks'
           /\ KeptBy(Cpus) = KeptBy(Cpus)' \cup Carries(M!Top(c)) /\ KeptBy(Cpus)' \cap Carries(M!Top(c)) = {}
<1>1. PICK q : q = Below(c)
  OBVIOUS
<1>2. act' = [act EXCEPT ![c] = q] /\ vmmLock' = None
  BY <1>1 DEF M!Leave, Below
<1>3. /\ q \in Seq(ActRec) /\ Stack(q, direct)
      /\ Kept(act[c]) = Kept(q) \cup Carries(M!Top(c)) /\ Kept(q) \cap Carries(M!Top(c)) = {}
      /\ HasTable(act[c]) <=> HasTable(q)
      /\ HasInside(act[c]) <=> HasInside(q)
      /\ ~HasPast(q) /\ HasPast(act[c])
  BY <1>1, TopFacts DEF Past, Inside
<1>4. Kept(act[c]) \cap KeptBy(Others(c)) = {} /\ KeptBy(Cpus) = KeptBy(Others(c)) \cup Kept(act[c])
  BY OthersApart
<1>5. Kept(q) \cap KeptBy(Others(c)) = {}
  BY <1>3, <1>4
<1>6. vmmLock = c
  BY <1>3 DEF FrameInv, MemLocks
<1>7. LockStep(c, q) /\ TableStep(c, q) /\ CpuStep(c, q) /\ DirectStep(c) /\ Stack(q, direct')
  BY <1>2, <1>3, <1>6 DEF LockStep, TableStep, CpuStep, DirectStep
<1>8. /\ act' \in [Cpus -> Seq(ActRec)] /\ MemStacks' /\ MemLocks'
      /\ KeptBy(Cpus)' = KeptBy(Others(c)) \cup Kept(q)
  BY <1>2, <1>3, <1>5, <1>7, CpuMoves
<1> QED BY <1>3, <1>4, <1>8

LEMMA FrameMapPage ==
    ASSUME FrameInv, NEW c \in Cpus, M!MapPage(c)
    PROVE  FrameInv'
<1> DEFINE t == M!Top(c)
           p == t.page
           f == t.frame
<1>1. /\ act[c] # << >> /\ t.op = "vmm" /\ t.at = "map" /\ M!Leave(c)
      /\ UNCHANGED <<lockCpu, free, reserved, table, direct, owned>>
  BY DEF M!MapPage, M!In
<1>2. t \in ActRec /\ Sane(t, direct)
  BY <1>1, TopFacts
<1>3. /\ p = None => f = None
      /\ f \notin direct /\ Carries(t) = {f} \ {None} /\ Past(t) /\ ~AtTable(t)
      /\ f \in MaybeFrame /\ p \in MaybePage
  BY <1>1, <1>2 DEF Sane, Carries, Past, AtTable, ActRec
<1>4. /\ act' \in [Cpus -> Seq(ActRec)] /\ MemStacks' /\ MemLocks'
      /\ KeptBy(Cpus) = KeptBy(Cpus)' \cup ({f} \ {None}) /\ KeptBy(Cpus)' \cap ({f} \ {None}) = {}
  BY <1>1, <1>3, Leaves
<1>5. CASE p = None
  <2>1. UNCHANGED <<mapped, leaked>> /\ {f} \ {None} = {}
    BY <1>3, <1>5 DEF M!MapPage
  <2>2. KeptBy(Cpus)' = KeptBy(Cpus)
    BY <1>4, <2>1
  <2>3. MemType' /\ MemPlaces'
    BY <1>1, <1>4, <2>1, <2>2 DEF FrameInv, MemType, MemPlaces
  <2> QED BY <1>4, <2>3 DEF FrameInv
<1>6. CASE p # None
  <2>1. PICK old : old = mapped[p]
    OBVIOUS
  <2>2. /\ p \in M!Pages /\ mapped' = [mapped EXCEPT ![p] = f] /\ leaked' = leaked \cup ({old} \ {None})
    BY <1>3, <1>6, <2>1 DEF M!MapPage, MaybePage
  <2>3. mapped \in [M!Pages -> MaybeFrame] /\ old \in MaybeFrame
    BY <2>1, <2>2 DEF FrameInv, MemType
  <2>4. /\ mapped' \in [M!Pages -> MaybeFrame] /\ mapped'[p] = f
        /\ \A x \in M!Pages : x # p => mapped'[x] = mapped[x]
    BY <1>3, <2>2, <2>3
  <2> HIDE DEF t, p, f
  <2>5. \A x, y \in M!Pages : x # y /\ mapped[x] # None => mapped[x] # mapped[y]
    BY DEF FrameInv, MemPlaces
  <2>6. f # None => f \in KeptBy(Cpus) /\ f \notin InPages(mapped)
    BY <1>4 DEF FrameInv, MemPlaces, Apart
  <2>7. \A x \in M!Pages : f # None => mapped[x] # f
    BY <2>6 DEF InPages
  <2>8. InPages(mapped') = (InPages(mapped) \ {old}) \cup ({f} \ {None})
    <3>1. ASSUME NEW g, g \in InPages(mapped') PROVE g \in (InPages(mapped) \ {old}) \cup ({f} \ {None})
      <4>1. PICK x \in M!Pages : g = mapped'[x]
        BY <3>1 DEF InPages
      <4>2. g # None
        BY <3>1 DEF InPages
      <4>3. CASE x = p
        BY <2>4, <4>1, <4>2, <4>3
      <4>4. CASE x # p
        <5>1. g = mapped[x]
          BY <2>4, <4>1, <4>4
        <5>2. g \in InPages(mapped)
          BY <4>2, <5>1 DEF InPages
        <5> QED BY <2>1, <2>2, <2>5, <4>2, <4>4, <5>1, <5>2
      <4> QED BY <4>3, <4>4
    <3>2. ASSUME NEW g, g \in InPages(mapped), g # old PROVE g \in InPages(mapped')
      <4>1. PICK x \in M!Pages : g = mapped[x] /\ g # None
        BY <3>2 DEF InPages
      <4>2. x # p
        BY <2>1, <3>2, <4>1
      <4> QED BY <2>4, <4>1, <4>2 DEF InPages
    <3>3. f # None => f \in InPages(mapped')
      BY <2>2, <2>4 DEF InPages
    <3> QED BY <3>1, <3>2, <3>3
  <2>9. \A x, y \in M!Pages : x # y /\ mapped'[x] # None => mapped'[x] # mapped'[y]
    BY <2>4, <2>5, <2>7
  <2>10. old # None => old \in InPages(mapped)
    BY <2>1, <2>2 DEF InPages
  <2>11. MemType'
    BY <1>1, <1>4, <2>2, <2>3, <2>4 DEF FrameInv, MemType, MaybeFrame
  <2>12. MemPlaces'
    <3>1. InPages(mapped)' = InPages(mapped')
      BY DEF InPages
    <3>2. Apart(free, reserved, InPages(mapped'), {table} \ {None}, owned, leaked', KeptBy(Cpus)')
      <4>1. Apart(free, reserved, InPages(mapped), {table} \ {None}, owned, leaked, KeptBy(Cpus))
        BY DEF FrameInv, MemPlaces
      <4>2. None \notin InPages(mapped)
        BY DEF InPages
      <4>3. leaked' = leaked \cup ({old} \ {None})
        BY <2>2
      <4> QED BY <1>4, <2>6, <2>8, <2>10, <4>1, <4>2, <4>3 DEF Apart
    <3>3. (InPages(mapped') \cup {table}) \cap direct = {}
      BY <1>3, <2>8 DEF FrameInv, MemPlaces
    <3> QED BY <1>1, <2>9, <3>1, <3>2, <3>3 DEF FrameInv, MemPlaces
  <2> QED BY <1>4, <2>11, <2>12 DEF FrameInv
<1> QED BY <1>5, <1>6

LEMMA FrameVmmError ==
    ASSUME FrameInv, NEW c \in Cpus, M!VmmError(c)
    PROVE  FrameInv'
<1> DEFINE t == M!Top(c)
<1>1. /\ act[c] # << >> /\ t.op = "vmm" /\ t.at = "error" /\ lockCpu' = lockCpu /\ UNCHANGED Sets
  BY DEF M!VmmError, M!In, M!frames, Sets
<1>2. t \in ActRec /\ Sane(t, direct) /\ None \notin direct
  BY <1>1, TopFacts, NoneApart DEF FrameInv, MemType
<1>3. t.frame = None /\ t.ret = None /\ Carries(t) = {} /\ Past(t) /\ ~AtTable(t) /\ ~Inside(t)
  BY <1>1, <1>2 DEF Sane, Carries, Past, AtTable, Inside
<1>4. CASE vmmLock' = None /\ M!Step(c, "halt")
  <2>1. PICK a : a = [t EXCEPT !.at = "halt"]
    OBVIOUS
  <2>2. "halt" \in Steps
    BY DEF Steps
  <2>3. Like(a, t, "halt", t.frame, t.ret)
    BY <1>2, <2>1, <2>2, WithAt
  <2>4. Sane(a, direct) /\ ~Past(a) /\ ~AtTable(a)
    BY <1>1, <1>2, <1>3, <2>3 DEF Like, Sane, Past, AtTable
  <2>5. Locking(c, t, a)
    BY <1>1, <1>3, <1>4, <2>4 DEF Locking
  <2> QED BY <1>1, <1>4, <2>1, <2>2, <2>4, <2>5, FrameStep
<1>5. CASE M!Leave(c)
  <2>1. UNCHANGED <<free, reserved, mapped, table, direct, owned, leaked>>
    BY <1>1 DEF Sets
  <2>2. /\ act' \in [Cpus -> Seq(ActRec)] /\ MemStacks' /\ MemLocks' /\ KeptBy(Cpus)' = KeptBy(Cpus)
    BY <1>1, <1>3, <1>5, <2>1, Leaves
  <2>3. MemType' /\ MemPlaces'
    BY <2>1, <2>2 DEF FrameInv, MemType, MemPlaces
  <2> QED BY <2>2, <2>3 DEF FrameInv
<1> QED BY <1>4, <1>5 DEF M!VmmError

----------------------------------------------------------------------------
(* The theorem                                                             *)

LEMMA FrameInit ==
    ASSUME M!Init
    PROVE  FrameInv
<1>1. \A c \in Cpus : act[c] = << >>
  BY DEF M!Init
<1>2. /\ << >> \in Seq(ActRec) /\ Stack(<< >>, direct) /\ Kept(<< >>) = {}
      /\ ~HasPast(<< >>) /\ ~HasTable(<< >>) /\ ~HasInside(<< >>)
  BY EmptyStack
<1>3. MemType
  BY <1>2 DEF M!Init, MemType, MaybeFrame
<1>4. MemStacks /\ MemLocks
  <2>1. lockCpu \notin Cpus
    BY NoneApart DEF M!Init
  <2> QED BY <1>1, <1>2, <2>1 DEF MemStacks, MemLocks
<1>5. KeptBy(Cpus) = {} /\ InPages(mapped) = {} /\ {table} \ {None} = {}
  BY <1>1, <1>2 DEF M!Init, KeptBy, InPages
<1>6. MemPlaces
  BY <1>5, NoneApart DEF M!Init, MemPlaces, Apart
<1> QED BY <1>3, <1>4, <1>6 DEF FrameInv

LEMMA FrameNext ==
    ASSUME FrameInv, M!Next
    PROVE  FrameInv'
<1>1. PICK c \in Cpus :
        \/ M!StartPalloc(c) \/ M!StartFree(c) \/ M!StartMap(c) \/ M!PageFault(c)
        \/ M!IrqAlloc(c) \/ M!Enter(c) \/ M!BuddyMalloc(c) \/ M!BuddyFree(c) \/ M!Fill(c) \/ M!Unlock(c)
        \/ M!VmmLock(c) \/ M!GotPage(c) \/ M!NeedTable(c) \/ M!GotTable(c) \/ M!MapPage(c) \/ M!VmmError(c)
  BY DEF M!Next
<1>2. CASE M!StartPalloc(c) \/ M!StartFree(c) \/ M!StartMap(c) \/ M!PageFault(c)
  BY <1>2, FrameStartPalloc, FrameStartFree, FrameStartMap, FramePageFault
<1>3. CASE M!IrqAlloc(c) \/ M!Enter(c) \/ M!BuddyMalloc(c) \/ M!BuddyFree(c) \/ M!Fill(c) \/ M!Unlock(c)
  BY <1>3, FrameIrqAlloc, FrameEnter, FrameBuddyMalloc, FrameBuddyFree, FrameFill, FrameUnlock
<1>4. CASE M!VmmLock(c) \/ M!GotPage(c) \/ M!NeedTable(c) \/ M!GotTable(c) \/ M!MapPage(c) \/ M!VmmError(c)
  BY <1>4, FrameVmmLock, FrameGotPage, FrameNeedTable, FrameGotTable, FrameMapPage, FrameVmmError
<1> QED BY <1>1, <1>2, <1>3, <1>4

\* The other parts of the kernel leave the memory alone.
LEMMA FrameStutter ==
    ASSUME FrameInv, UNCHANGED mvars
    PROVE  FrameInv'
<1>1. UNCHANGED <<act, vmmLock, lockCpu, free, reserved, mapped, table, direct, owned, leaked>>
  BY DEF mvars
<1>2. KeptBy(Cpus)' = KeptBy(Cpus)
  BY <1>1 DEF KeptBy
<1>3. MemType' /\ MemStacks' /\ MemLocks'
  BY <1>1 DEF FrameInv, MemType, MemStacks, MemLocks
<1>4. MemPlaces'
  BY <1>1, <1>2 DEF FrameInv, MemPlaces
<1> QED BY <1>3, <1>4 DEF FrameInv

FramePlaces(Fr, Re, Us, Ta, Ow, Le, He) ==
    {<<"free", Fr>>, <<"reserved", Re>>, <<"used", Us>>, <<"table", Ta>>, <<"owned", Ow>>, <<"leaked", Le>>, <<"held", He>>}
Found(f, Fr, Re, Us, Ta, Ow, Le, He) == {S \in FramePlaces(Fr, Re, Us, Ta, Ow, Le, He) : f \in S[2]}

\* A frame that is in one of seven sets that are apart is counted once.
LEMMA CountedOnce ==
    ASSUME NEW Fr, NEW Re, NEW Us, NEW Ta, NEW Ow, NEW Le, NEW He, Apart(Fr, Re, Us, Ta, Ow, Le, He), NEW f \in Frames
    PROVE  Cardinality(Found(f, Fr, Re, Us, Ta, Ow, Le, He)) = 1
<1> DEFINE found == Found(f, Fr, Re, Us, Ta, Ow, Le, He)
<1>1. ASSUME NEW S, found = {S} PROVE Cardinality(found) = 1
  <2>1. Cardinality({S}) = 1
    BY FS_Singleton
  <2> QED BY <1>1, <2>1
<1>2. CASE f \in Fr
  <2>1. f \notin Re /\ f \notin Us /\ f \notin Ta /\ f \notin Ow /\ f \notin Le /\ f \notin He
    BY <1>2 DEF Apart
  <2>2. found = {<<"free", Fr>>}
    BY <1>2, <2>1 DEF Found, FramePlaces
  <2> QED BY <1>1, <2>2
<1>3. CASE f \in Re
  <2>1. f \notin Fr /\ f \notin Us /\ f \notin Ta /\ f \notin Ow /\ f \notin Le /\ f \notin He
    BY <1>3 DEF Apart
  <2>2. found = {<<"reserved", Re>>}
    BY <1>3, <2>1 DEF Found, FramePlaces
  <2> QED BY <1>1, <2>2
<1>4. CASE f \in Us
  <2>1. f \notin Fr /\ f \notin Re /\ f \notin Ta /\ f \notin Ow /\ f \notin Le /\ f \notin He
    BY <1>4 DEF Apart
  <2>2. found = {<<"used", Us>>}
    BY <1>4, <2>1 DEF Found, FramePlaces
  <2> QED BY <1>1, <2>2
<1>5. CASE f \in Ta
  <2>1. f \notin Fr /\ f \notin Re /\ f \notin Us /\ f \notin Ow /\ f \notin Le /\ f \notin He
    BY <1>5 DEF Apart
  <2>2. found = {<<"table", Ta>>}
    BY <1>5, <2>1 DEF Found, FramePlaces
  <2> QED BY <1>1, <2>2
<1>6. CASE f \in Ow
  <2>1. f \notin Fr /\ f \notin Re /\ f \notin Us /\ f \notin Ta /\ f \notin Le /\ f \notin He
    BY <1>6 DEF Apart
  <2>2. found = {<<"owned", Ow>>}
    BY <1>6, <2>1 DEF Found, FramePlaces
  <2> QED BY <1>1, <2>2
<1>7. CASE f \in Le
  <2>1. f \notin Fr /\ f \notin Re /\ f \notin Us /\ f \notin Ta /\ f \notin Ow /\ f \notin He
    BY <1>7 DEF Apart
  <2>2. found = {<<"leaked", Le>>}
    BY <1>7, <2>1 DEF Found, FramePlaces
  <2> QED BY <1>1, <2>2
<1>8. CASE f \in He
  <2>1. f \notin Fr /\ f \notin Re /\ f \notin Us /\ f \notin Ta /\ f \notin Ow /\ f \notin Le
    BY <1>8 DEF Apart
  <2>2. found = {<<"held", He>>}
    BY <1>8, <2>1 DEF Found, FramePlaces
  <2> QED BY <1>1, <2>2
<1> QED BY <1>2, <1>3, <1>4, <1>5, <1>6, <1>7, <1>8 DEF Apart

LEMMA HeldIsKept ==
    ASSUME MemType
    PROVE  M!Held = KeptBy(Cpus)
<1>1. \A c \in Cpus : DOMAIN act[c] = 1..Len(act[c]) /\ \A i \in 1..Len(act[c]) : act[c][i] \in ActRec
  BY DEF MemType
<1>2. ASSUME NEW f, f \in M!Held PROVE f \in KeptBy(Cpus)
  <2>1. PICK c \in Cpus : \E i \in DOMAIN act[c] : f \in {act[c][i].frame, act[c][i].ret} \ {None}
    BY <1>2 DEF M!Held
  <2>2. PICK i \in 1..Len(act[c]) : f \in Carries(act[c][i])
    BY <1>1, <2>1 DEF Carries
  <2>3. f \in Frames
    BY <1>1, <2>2 DEF Carries, ActRec, MaybeFrame
  <2> QED BY <2>2, <2>3 DEF KeptBy, Kept
<1>3. ASSUME NEW f, f \in KeptBy(Cpus) PROVE f \in M!Held
  <2>1. PICK c \in Cpus : f \in Kept(act[c])
    BY <1>3 DEF KeptBy
  <2>2. PICK i \in 1..Len(act[c]) : f \in Carries(act[c][i])
    BY <2>1 DEF Kept
  <2>3. f \in {act[c][i].frame, act[c][i].ret} /\ f # None /\ i \in DOMAIN act[c]
    BY <1>1, <2>2 DEF Carries
  <2> QED BY <2>3 DEF M!Held
<1> QED BY <1>2, <1>3

LEMMA FrameInvSuffices == FrameInv => FramesInOnePlace
<1> SUFFICES ASSUME FrameInv PROVE FramesInOnePlace
  OBVIOUS
<1>1. M!Held = KeptBy(Cpus) /\ M!Used = InPages(mapped)
  BY HeldIsKept DEF FrameInv, M!Used, InPages
<1>2. ASSUME NEW f \in Frames
      PROVE  M!Cardinality({S \in {<<"free", free>>, <<"reserved", reserved>>, <<"used", M!Used>>, <<"table", {table}>>,
                                   <<"owned", owned>>, <<"leaked", leaked>>, <<"held", M!Held>>} : f \in S[2]}) = 1
  <2>1. Apart(free, reserved, InPages(mapped), {table} \ {None}, owned, leaked, KeptBy(Cpus))
    BY DEF FrameInv, MemPlaces
  <2>2. /\ None \notin free /\ None \notin reserved /\ None \notin InPages(mapped) /\ None \notin owned
        /\ None \notin leaked /\ None \notin KeptBy(Cpus)
    BY NoneApart DEF FrameInv, MemType, InPages, KeptBy
  <2>3. Apart(free, reserved, M!Used, {table}, owned, leaked, M!Held)
    BY <1>1, <2>1, <2>2 DEF Apart
  <2>4. Cardinality(Found(f, free, reserved, M!Used, {table}, owned, leaked, M!Held)) = 1
    BY <2>3, CountedOnce
  <2> QED BY <2>4, SameCardinality DEF Found, FramePlaces
<1>3. /\ \A p, q \in M!Pages : p # q /\ mapped[p] # None => mapped[p] # mapped[q]
      /\ free \cup reserved \cup owned \subseteq direct
      /\ (M!Used \cup {table}) \cap direct = {}
  BY <1>1 DEF FrameInv, MemPlaces
<1> QED BY <1>2, <1>3 DEF FramesInOnePlace, M!FramesInOnePlace

\* A frame of the physical memory is in one place: the buddy, the reserve, a
\* page, the page table, a thread, or on its way there; two pages never share
\* one; and what palloc and fill_atomic_alloc will clear is reached by the
\* direct map (phys.c, vmm.c), for every number of CPUs, frames and pages.
THEOREM FramesStayInOnePlace == Spec => []FramesInOnePlace
<1>1. Init => FrameInv
  BY FrameInit DEF Init
<1>2. FrameInv /\ [Next]_vars => FrameInv'
  <2> SUFFICES ASSUME FrameInv, [Next]_vars PROVE FrameInv'
    OBVIOUS
  <2>1. CASE M!Next
    BY <2>1, FrameNext
  <2>2. CASE UNCHANGED mvars
    BY <2>2, FrameStutter
  <2> QED BY <2>1, <2>2 DEF Next, vars
<1> QED BY <1>1, <1>2, FrameInvSuffices, PTL DEF Spec

----------------------------------------------------------------------------
(* The object heap: ObjectsKeepTheirPages, through what a CPU that holds   *)
(* the lock of a region knows of its slots.                                *)

HeapRec == [op : {"none", "alloc", "reclaim", "walk", "dirty"}, pool : H!Pools,
            region : 0..(Regions + 1), slot : 0..(Slots + 1), keep : BOOLEAN]

AreaOf(r) == <<r.pool, r.region>>

\* What a CPU knows of the region it has locked: a reclaim that may still free
\* the page table has freed every slot before its own, and an iteration inside
\* its callback stands on a slot that is there.
Knowing(r, L, P) ==
    /\ r.op = "none" => r.slot = 0
    /\ r.op # "none" => r.region > 0
    /\ r.op = "reclaim" /\ r.slot > 0 /\ ~r.keep =>
          \A i \in 1..Slots : i < r.slot => H!PagesOf(AreaOf(r), i) \cap P = {}
    /\ r.op \in {"walk", "dirty"} /\ r.keep =>
          r.slot \in 1..Slots /\ AreaOf(r) \in L /\ H!PagesOf(AreaOf(r), r.slot) \subseteq P

HeapHolds(r, l, c) == r.slot > 0 => r.region \in 1..Regions /\ l[AreaOf(r)] = c

HeapCpus ==
    /\ pos \in [Cpus -> HeapRec]
    /\ lock \in [H!Areas -> Cpus \cup {None}]
    /\ \A c \in Cpus : HeapHolds(pos[c], lock, c)

\* The pages of a slot are present together, below the page table of their region.
Whole(k, i, L, P) == k \in L /\ H!PagesOf(k, i) \subseteq P

HeapStores ==
    /\ level \subseteq H!Areas /\ pte \subseteq H!Pages
    /\ live \subseteq H!Objects /\ white = live
    /\ \A k \in H!Areas, i \in 1..Slots : H!PagesOf(k, i) \cap pte # {} => Whole(k, i, level, pte)
    /\ \A o \in live : Whole(<<o[1], o[2]>>, o[3], level, pte)

HeapCount ==
    /\ heapFree \in Nat
    /\ heapFree + Cardinality(pte) + Cardinality(level) = HeapFrames

HeapKnown == \A c \in Cpus : Knowing(pos[c], level, pte)

HeapInv == torn = TRUE \/ (torn = FALSE /\ HeapCpus /\ HeapStores /\ HeapKnown /\ HeapCount)

\* An area has a pool and a region, and its slots the pages and objects of their own.
LEMMA PageIs ==
    ASSUME NEW p \in H!Pages
    PROVE  \E r \in 1..Regions, i \in 1..Slots :
               \/ p = <<"small", r, i, 1>> \/ p = <<"large", r, i, 1>> \/ p = <<"large", r, i, 2>>
<1>1. PICK k \in H!Areas, i \in 1..Slots, j \in 1..2 : p = <<k[1], k[2], i, j>>
  BY DEF H!Pages, H!Per
<1>2. PICK q \in {"small", "large"}, r \in 1..Regions : k = <<q, r>>
  BY DEF H!Areas, H!Pools
<1>3. p # <<"small", r, i, 2>>
  BY DEF H!Pages
<1> QED BY <1>1, <1>2, <1>3

LEMMA PagesAre ==
    ASSUME NEW r \in 1..Regions, NEW i \in 1..Slots
    PROVE  <<"small", r, i, 1>> \in H!Pages /\ <<"large", r, i, 1>> \in H!Pages /\ <<"large", r, i, 2>> \in H!Pages
<1>1. <<"small", r>> \in H!Areas /\ <<"large", r>> \in H!Areas
  BY DEF H!Areas, H!Pools
<1>2. ASSUME NEW q, <<q, r>> \in H!Areas, NEW j \in 1..2, q = "small" => j = 1
      PROVE  <<q, r, i, j>> \in H!Pages
  <2>1. <<q, r, i, j>> \in {<<k[1], k[2], a, b>> : k \in H!Areas, a \in 1..Slots, b \in 1..H!Per}
    <3> DEFINE k == <<q, r>>
    <3>1. <<q, r, i, j>> = <<k[1], k[2], i, j>> /\ k \in H!Areas /\ j \in 1..H!Per
      BY <1>2 DEF H!Per
    <3> QED BY <3>1
  <2>2. <<q, r, i, j>> \notin {<<"small", a, b, 2>> : a \in 1..Regions, b \in 1..Slots}
    BY <1>2
  <2> QED BY <2>1, <2>2 DEF H!Pages
<1>3. 1 \in 1..2 /\ 2 \in 1..2 /\ "large" # "small"
  OBVIOUS
<1>4. <<"small", r, i, 1>> \in H!Pages
  BY <1>1, <1>2, <1>3, Zenon
<1>5. <<"large", r, i, 1>> \in H!Pages
  BY <1>1, <1>2, <1>3, Zenon
<1>6. <<"large", r, i, 2>> \in H!Pages
  BY <1>1, <1>2, <1>3, Zenon
<1> QED BY <1>4, <1>5, <1>6

LEMMA SmallSlot ==
    ASSUME NEW r \in 1..Regions, NEW i \in 1..Slots
    PROVE  H!PagesOf(<<"small", r>>, i) = {<<"small", r, i, 1>>}
<1>1. ASSUME NEW p \in H!PagesOf(<<"small", r>>, i) PROVE p = <<"small", r, i, 1>>
  <2>1. p \in H!Pages /\ <<p[1], p[2]>> = <<"small", r>> /\ p[3] = i
    BY DEF H!PagesOf
  <2> QED BY <2>1, PageIs
<1>2. <<"small", r, i, 1>> \in H!PagesOf(<<"small", r>>, i)
  BY PagesAre DEF H!PagesOf
<1> QED BY <1>1, <1>2

LEMMA LargeSlot ==
    ASSUME NEW r \in 1..Regions, NEW i \in 1..Slots
    PROVE  H!PagesOf(<<"large", r>>, i) = {<<"large", r, i, 1>>, <<"large", r, i, 2>>}
<1>1. ASSUME NEW p \in H!PagesOf(<<"large", r>>, i)
      PROVE  p = <<"large", r, i, 1>> \/ p = <<"large", r, i, 2>>
  <2>1. p \in H!Pages /\ <<p[1], p[2]>> = <<"large", r>> /\ p[3] = i
    BY DEF H!PagesOf
  <2> QED BY <2>1, PageIs
<1>2. /\ <<"large", r, i, 1>> \in H!PagesOf(<<"large", r>>, i)
      /\ <<"large", r, i, 2>> \in H!PagesOf(<<"large", r>>, i)
  BY PagesAre DEF H!PagesOf
<1> QED BY <1>1, <1>2

LEMMA SlotPages ==
    ASSUME NEW k \in H!Areas, NEW i \in 1..Slots
    PROVE  /\ H!PagesOf(k, i) \subseteq H!Pages
           /\ H!First(k, i) \in H!PagesOf(k, i)
           /\ IsFiniteSet(H!PagesOf(k, i))
           /\ Cardinality(H!PagesOf(k, i)) \in Nat \ {0}
           /\ \A p \in H!PagesOf(k, i) : p[4] \in 1..Cardinality(H!PagesOf(k, i))
<1>1. PICK r \in 1..Regions : k = <<"small", r>> \/ k = <<"large", r>>
  BY DEF H!Areas, H!Pools
<1>2. H!PagesOf(k, i) \subseteq H!Pages
  BY DEF H!PagesOf
<1>3. CASE k = <<"small", r>>
  <2>1. H!PagesOf(k, i) = {<<"small", r, i, 1>>}
    BY <1>3, SmallSlot
  <2>2. IsFiniteSet(H!PagesOf(k, i)) /\ Cardinality(H!PagesOf(k, i)) = 1
    BY <2>1, FS_Singleton
  <2> QED BY <1>2, <1>3, <2>1, <2>2 DEF H!First
<1>4. CASE k = <<"large", r>>
  <2>1. H!PagesOf(k, i) = {<<"large", r, i, 1>>, <<"large", r, i, 2>>}
    BY <1>4, LargeSlot
  <2>2. IsFiniteSet({<<"large", r, i, 1>>}) /\ Cardinality({<<"large", r, i, 1>>}) = 1
    BY FS_Singleton
  <2>3. <<"large", r, i, 2>> \notin {<<"large", r, i, 1>>}
    OBVIOUS
  <2>4. /\ IsFiniteSet({<<"large", r, i, 1>>} \cup {<<"large", r, i, 2>>})
        /\ Cardinality({<<"large", r, i, 1>>} \cup {<<"large", r, i, 2>>}) = 2
    <3>1. PICK S, x : S = {<<"large", r, i, 1>>} /\ x = <<"large", r, i, 2>>
      OBVIOUS
    <3>2. IsFiniteSet(S) /\ Cardinality(S) = 1 /\ x \notin S
      BY <3>1, <2>2, <2>3, Zenon
    <3>3. IsFiniteSet(S \cup {x}) /\ Cardinality(S \cup {x}) = 2
      BY <3>2, FS_AddElement
    <3> QED BY <3>1, <3>3, Zenon
  <2>5. H!PagesOf(k, i) = {<<"large", r, i, 1>>} \cup {<<"large", r, i, 2>>}
    BY <2>1
  <2>6. IsFiniteSet(H!PagesOf(k, i)) /\ Cardinality(H!PagesOf(k, i)) = 2
    BY <2>4, <2>5
  <2> QED BY <1>2, <1>4, <2>1, <2>6 DEF H!First
<1> QED BY <1>1, <1>3, <1>4

LEMMA SlotsApart ==
    ASSUME NEW k, NEW i, NEW l, NEW j, k # l \/ i # j
    PROVE  H!PagesOf(k, i) \cap H!PagesOf(l, j) = {}
BY DEF H!PagesOf

LEMMA PageHasSlot ==
    ASSUME NEW p \in H!Pages
    PROVE  /\ <<p[1], p[2]>> \in H!Areas /\ p[3] \in 1..Slots
           /\ p \in H!PagesOf(<<p[1], p[2]>>, p[3])
<1>1. <<p[1], p[2]>> \in H!Areas /\ p[3] \in 1..Slots
  BY PageIs DEF H!Areas, H!Pools
<1> QED BY <1>1 DEF H!PagesOf

LEMMA ObjectHasSlot ==
    ASSUME NEW o \in H!Objects
    PROVE  /\ <<o[1], o[2]>> \in H!Areas /\ o[3] \in 1..Slots
           /\ o \in H!ObjectsOf(<<o[1], o[2]>>, o[3])
BY DEF H!ObjectsOf, H!Objects, H!Areas

LEMMA InSlot ==
    ASSUME NEW k, NEW i, NEW o \in H!ObjectsOf(k, i)
    PROVE  o \in H!Objects /\ <<o[1], o[2]>> = k /\ o[3] = i
BY DEF H!ObjectsOf

LEMMA HeapFinite == IsFiniteSet(H!Areas) /\ IsFiniteSet(H!Pages)
<1>1. IsFiniteSet(1..Regions) /\ IsFiniteSet(1..Slots) /\ IsFiniteSet(1..2)
  <2>1. Regions \in Int /\ Slots \in Int
    BY MemoryAssumption
  <2>2. \A n \in Int : IsFiniteSet(1..n)
    BY FS_Interval
  <2>3. 2 \in Int
    OBVIOUS
  <2> QED BY <2>1, <2>2, <2>3, Zenon
<1>2. IsFiniteSet({"small"} \cup {"large"})
  BY FS_Singleton, FS_Union
<1>3. IsFiniteSet(H!Pools)
  <2>1. H!Pools = {"small"} \cup {"large"}
    BY DEF H!Pools
  <2> QED BY <1>2, <2>1
<1>4. IsFiniteSet(H!Areas)
  BY <1>1, <1>3, FS_Product DEF H!Areas
<1>5. IsFiniteSet((1..Slots) \X (1..2))
  BY <1>1, FS_Product
<1>6. IsFiniteSet(H!Areas \X ((1..Slots) \X (1..2)))
  BY <1>4, <1>5, FS_Product
<1> DEFINE S == H!Areas \X ((1..Slots) \X (1..2))
           F == [x \in S |-> <<x[1][1], x[1][2], x[2][1], x[2][2]>>]
           T == {F[x] : x \in S}
<1>7. F \in Surjection(S, T)
  BY DEF Surjection
<1>8. IsFiniteSet(T)
  <2> HIDE DEF F, S, T
  <2> QED BY <1>6, <1>7, FS_Surjection DEF S
<1>9. H!Pages \subseteq T
  <2> SUFFICES ASSUME NEW p \in H!Pages PROVE p \in T
    OBVIOUS
  <2>1. PICK k \in H!Areas, i \in 1..Slots, j \in 1..2 : p = <<k[1], k[2], i, j>>
    BY DEF H!Pages, H!Per
  <2>2. <<k, <<i, j>>>> \in S
    OBVIOUS
  <2>3. F[<<k, <<i, j>>>>] = p
    BY <2>1, <2>2
  <2> QED BY <2>2, <2>3
<1> QED
  <2> HIDE DEF T
  <2> QED BY <1>4, <1>8, <1>9, FS_Subset

----------------------------------------------------------------------------
LEMMA RecFacts ==
    ASSUME HeapCpus, NEW c \in Cpus
    PROVE  pos[c] \in HeapRec /\ HeapHolds(pos[c], lock, c) /\ H!Area(c) = AreaOf(pos[c])
BY DEF HeapCpus, H!Area, AreaOf

\* A CPU that looks at a slot has the lock of an area.
LEMMA Locked ==
    ASSUME NEW r \in HeapRec, NEW l, NEW c, HeapHolds(r, l, c), r.slot > 0
    PROVE  AreaOf(r) \in H!Areas /\ l[AreaOf(r)] = c
BY DEF HeapHolds, HeapRec, AreaOf, H!Areas

\* Two CPUs that look at slots are in different areas.
LEMMA OthersElsewhere ==
    ASSUME HeapCpus, NEW c \in Cpus, NEW d \in Cpus, c # d, pos[c].slot > 0, pos[d].slot > 0
    PROVE  AreaOf(pos[c]) # AreaOf(pos[d])
<1>1. lock[AreaOf(pos[c])] = c /\ lock[AreaOf(pos[d])] = d
  BY RecFacts, Locked
<1> QED BY <1>1

\* What a CPU knows depends on nothing but the area it has locked.
LEMMA KnowsStill ==
    ASSUME NEW r \in HeapRec, NEW L, NEW P, NEW L2, NEW P2, Knowing(r, L, P),
           r.slot > 0 => /\ AreaOf(r) \in L => AreaOf(r) \in L2
                         /\ \A i \in 1..Slots : H!PagesOf(AreaOf(r), i) \cap P = H!PagesOf(AreaOf(r), i) \cap P2
    PROVE  Knowing(r, L2, P2)
<1>1. Slots \in Nat
  BY MemoryAssumption
<1>2. (r.op = "none" => r.slot = 0) /\ (r.op # "none" => r.region > 0)
  BY DEF Knowing
<1>3. ASSUME r.op = "reclaim", r.slot > 0, ~ r.keep, NEW i \in 1..Slots, i < r.slot
      PROVE  H!PagesOf(AreaOf(r), i) \cap P2 = {}
  BY <1>3 DEF Knowing
<1>4. ASSUME r.op \in {"walk", "dirty"}, r.keep
      PROVE  r.slot \in 1..Slots /\ AreaOf(r) \in L2 /\ H!PagesOf(AreaOf(r), r.slot) \subseteq P2
  <2>1. r.slot \in 1..Slots /\ AreaOf(r) \in L /\ H!PagesOf(AreaOf(r), r.slot) \subseteq P
    BY <1>4 DEF Knowing
  <2>2. r.slot > 0
    BY <2>1, <1>1
  <2> QED BY <2>1, <2>2
<1> QED BY <1>2, <1>3, <1>4 DEF Knowing

\* One CPU goes on, and nothing that the others have locked is changed.
LEMMA HeapStep ==
    ASSUME HeapCpus, HeapKnown, NEW c \in Cpus, NEW r \in HeapRec,
           pos' = [pos EXCEPT ![c] = r],
           lock' \in [H!Areas -> Cpus \cup {None}],
           HeapHolds(r, lock', c),
           \A k \in H!Areas : lock[k] # None /\ lock[k] # c => lock'[k] = lock[k],
           Knowing(r, level', pte'),
           \A d \in Cpus \ {c} : Knowing(pos[d], level', pte')
    PROVE  HeapCpus' /\ HeapKnown'
<1>1. pos' \in [Cpus -> HeapRec]
  BY DEF HeapCpus
<1>2. pos'[c] = r /\ \A d \in Cpus \ {c} : pos'[d] = pos[d]
  BY DEF HeapCpus
<1>3. ASSUME NEW d \in Cpus PROVE HeapHolds(pos'[d], lock', d)
  <2>1. CASE d = c
    BY <2>1, <1>2
  <2>2. CASE d # c
    <3>1. pos'[d] = pos[d] /\ pos[d] \in HeapRec /\ HeapHolds(pos[d], lock, d)
      BY <2>2, <1>2, RecFacts
    <3>2. ASSUME pos[d].slot > 0 PROVE pos[d].region \in 1..Regions /\ lock'[AreaOf(pos[d])] = d
      <4>1. AreaOf(pos[d]) \in H!Areas /\ lock[AreaOf(pos[d])] = d
        BY <3>1, <3>2, Locked
      <4>2. d # None
        BY MemoryAssumption
      <4>3. pos[d].region \in 1..Regions
        BY <3>1, <3>2 DEF HeapHolds
      <4> QED BY <2>2, <4>1, <4>2, <4>3
    <3> QED BY <3>1, <3>2 DEF HeapHolds
  <2> QED BY <2>1, <2>2
<1>4. ASSUME NEW d \in Cpus PROVE Knowing(pos'[d], level', pte')
  BY <1>2
<1> QED BY <1>1, <1>3, <1>4 DEF HeapCpus, HeapKnown

\* The same where pages, objects and frames stay as they are.
LEMMA HeapGoes ==
    ASSUME HeapCpus, HeapKnown, NEW c \in Cpus, NEW r \in HeapRec,
           pos' = [pos EXCEPT ![c] = r],
           lock' \in [H!Areas -> Cpus \cup {None}],
           HeapHolds(r, lock', c),
           \A k \in H!Areas : lock[k] # None /\ lock[k] # c => lock'[k] = lock[k],
           Knowing(r, level, pte), level' = level, pte' = pte
    PROVE  HeapCpus' /\ HeapKnown'
<1>1. \A d \in Cpus \ {c} : Knowing(pos[d], level', pte')
  BY DEF HeapKnown
<1>2. Knowing(r, level', pte')
  OBVIOUS
<1> QED BY <1>1, <1>2, HeapStep

LEMMA StoresStay ==
    ASSUME HeapStores, HeapCount, UNCHANGED <<level, pte, white, live, heapFree>>
    PROVE  HeapStores' /\ HeapCount'
BY DEF HeapStores, HeapCount

\* The records of pos after a step.
Rec(o, q, n, i, b) == [op |-> o, pool |-> q, region |-> n, slot |-> i, keep |-> b]

LEMMA RecIs ==
    ASSUME NEW r \in HeapRec
    PROVE  r = Rec(r.op, r.pool, r.region, r.slot, r.keep)
BY DEF HeapRec, Rec

LEMMA RecGoes ==
    ASSUME NEW r \in HeapRec, NEW n \in 0..(Regions + 1), NEW i \in 0..(Slots + 1), NEW b \in BOOLEAN
    PROVE  /\ [r EXCEPT !.slot = i, !.keep = b] = Rec(r.op, r.pool, r.region, i, b)
           /\ [r EXCEPT !.region = n, !.slot = i, !.keep = b] = Rec(r.op, r.pool, n, i, b)
           /\ [r EXCEPT !.keep = b] = Rec(r.op, r.pool, r.region, r.slot, b)
           /\ Rec(r.op, r.pool, n, i, b) \in HeapRec
<1>1. PICK x : x = [r EXCEPT !.region = n]
  OBVIOUS
<1>2. x \in HeapRec /\ x = Rec(r.op, r.pool, n, r.slot, r.keep)
  BY <1>1 DEF HeapRec, Rec
<1>3. ASSUME NEW y \in HeapRec
      PROVE  [y EXCEPT !.slot = i, !.keep = b] = Rec(y.op, y.pool, y.region, i, b)
  <2>1. PICK z : z = [y EXCEPT !.slot = i]
    OBVIOUS
  <2>2. z \in HeapRec /\ z = Rec(y.op, y.pool, y.region, i, y.keep)
    BY <2>1 DEF HeapRec, Rec
  <2>3. [z EXCEPT !.keep = b] = Rec(z.op, z.pool, z.region, z.slot, b)
    BY <2>2 DEF HeapRec, Rec
  <2>4. [y EXCEPT !.slot = i, !.keep = b] = [z EXCEPT !.keep = b]
    BY <2>1
  <2> QED BY <2>2, <2>3, <2>4 DEF Rec
<1>4. [r EXCEPT !.region = n, !.slot = i, !.keep = b] = [x EXCEPT !.slot = i, !.keep = b]
  BY <1>1
<1>5. [x EXCEPT !.slot = i, !.keep = b] = Rec(x.op, x.pool, x.region, i, b)
  BY <1>2, <1>3
<1>6. Rec(x.op, x.pool, x.region, i, b) = Rec(r.op, r.pool, n, i, b)
  BY <1>2 DEF Rec
<1>7. [r EXCEPT !.keep = b] = Rec(r.op, r.pool, r.region, r.slot, b)
  BY DEF HeapRec, Rec
<1>8. Rec(r.op, r.pool, n, i, b) \in HeapRec
  BY DEF HeapRec, Rec
<1> QED BY <1>3, <1>4, <1>5, <1>6, <1>7, <1>8

LEMMA GoesTo ==
    ASSUME HeapCpus, NEW c \in Cpus, NEW n \in 0..(Regions + 1), NEW i \in 0..(Slots + 1), H!Goes(c, n, i)
    PROVE  /\ pos' = [pos EXCEPT ![c] = Rec(pos[c].op, pos[c].pool, n, i, FALSE)]
           /\ Rec(pos[c].op, pos[c].pool, n, i, FALSE) \in HeapRec
<1>1. pos[c] \in HeapRec
  BY RecFacts
<1>2. /\ [pos[c] EXCEPT !.region = n, !.slot = i, !.keep = FALSE] = Rec(pos[c].op, pos[c].pool, n, i, FALSE)
      /\ Rec(pos[c].op, pos[c].pool, n, i, FALSE) \in HeapRec
  BY <1>1, RecGoes
<1>3. pos' = [pos EXCEPT ![c] = [pos[c] EXCEPT !.region = n, !.slot = i, !.keep = FALSE]]
  BY DEF H!Goes
<1> QED BY <1>2, <1>3

HeapGood == HeapCpus /\ HeapStores /\ HeapKnown /\ HeapCount

LEMMA KnowsNothing ==
    ASSUME NEW o, NEW q, NEW n, NEW L, NEW P, NEW l, NEW c, o # "none" => n > 0
    PROVE  Knowing(Rec(o, q, n, 0, FALSE), L, P) /\ HeapHolds(Rec(o, q, n, 0, FALSE), l, c)
BY DEF Knowing, Rec, HeapHolds

LEMMA KnowsSlot ==
    ASSUME NEW o, NEW q, NEW n, NEW i, NEW L, NEW P, n > 0, o \notin {"none", "reclaim"}
    PROVE  Knowing(Rec(o, q, n, i, FALSE), L, P)
BY DEF Knowing, Rec

LEMMA IdleIs == H!Idle = Rec("none", "small", 0, 0, FALSE) /\ H!Idle \in HeapRec
BY MemoryAssumption DEF H!Idle, Rec, HeapRec, H!Pools

LEMMA HeapStart ==
    ASSUME HeapGood, NEW c \in Cpus, NEW o \in {"alloc", "reclaim", "walk", "dirty"}, H!Start(c, o)
    PROVE  HeapGood'
<1>1. PICK q \in H!Pools : pos' = [pos EXCEPT ![c] = [H!Idle EXCEPT !.op = o, !.pool = q, !.region = 1]]
  BY DEF H!Start
<1>2. [H!Idle EXCEPT !.op = o, !.pool = q, !.region = 1] = Rec(o, q, 1, 0, FALSE)
  <2>1. PICK x : x = [H!Idle EXCEPT !.op = o]
    OBVIOUS
  <2>2. x = Rec(o, "small", 0, 0, FALSE)
    BY <2>1 DEF H!Idle, Rec
  <2>3. PICK y : y = [x EXCEPT !.pool = q]
    OBVIOUS
  <2>4. y = Rec(o, q, 0, 0, FALSE)
    BY <2>2, <2>3 DEF Rec
  <2>5. [H!Idle EXCEPT !.op = o, !.pool = q, !.region = 1] = [y EXCEPT !.region = 1]
    BY <2>1, <2>3
  <2>6. [y EXCEPT !.region = 1] = Rec(o, q, 1, 0, FALSE)
    <3>1. y \in HeapRec /\ 1 \in 0..(Regions + 1)
      BY <2>4, MemoryAssumption DEF Rec, HeapRec
    <3>2. [y EXCEPT !.region = 1] = Rec(y.op, y.pool, 1, y.slot, y.keep)
      BY <3>1 DEF Rec, HeapRec
    <3> QED BY <2>4, <3>2 DEF Rec
  <2> QED BY <2>5, <2>6
<1>3. Rec(o, q, 1, 0, FALSE) \in HeapRec
  BY MemoryAssumption DEF Rec, HeapRec
<1>4. UNCHANGED <<lock, level, pte, white, live, heapFree>>
  BY DEF H!Start
<1>5. HeapStores' /\ HeapCount'
  BY <1>4, StoresStay DEF HeapGood
<1>6. Knowing(Rec(o, q, 1, 0, FALSE), level, pte) /\ HeapHolds(Rec(o, q, 1, 0, FALSE), lock', c)
  BY DEF Knowing, Rec, HeapHolds
<1>7. lock' \in [H!Areas -> Cpus \cup {None}]
  BY <1>4 DEF HeapGood, HeapCpus
<1>8. HeapCpus' /\ HeapKnown'
  BY <1>1, <1>2, <1>3, <1>4, <1>6, <1>7, HeapGoes DEF HeapGood
<1> QED BY <1>5, <1>8 DEF HeapGood

\* What a CPU at work knows about itself.
LEMMA AtWork ==
    ASSUME HeapGood, NEW c \in Cpus, pos[c].op # "none"
    PROVE  /\ pos[c] \in HeapRec /\ HeapHolds(pos[c], lock, c) /\ Knowing(pos[c], level, pte)
           /\ H!Area(c) = AreaOf(pos[c])
           /\ pos[c].region \in 1..(Regions + 1) /\ pos[c].slot \in 0..(Slots + 1)
           /\ Regions \in Nat /\ Slots \in Nat
           /\ lock \in [H!Areas -> Cpus \cup {None}]
<1>1. pos[c] \in HeapRec /\ HeapHolds(pos[c], lock, c) /\ H!Area(c) = AreaOf(pos[c])
  BY RecFacts DEF HeapGood
<1>2. Knowing(pos[c], level, pte)
  BY DEF HeapGood, HeapKnown
<1>3. pos[c].region > 0
  BY <1>2 DEF Knowing
<1>4. Regions \in Nat /\ Slots \in Nat
  BY MemoryAssumption
<1>5. pos[c].region \in 1..(Regions + 1) /\ pos[c].slot \in 0..(Slots + 1)
  BY <1>1, <1>3, <1>4 DEF HeapRec
<1> QED BY <1>1, <1>2, <1>4, <1>5 DEF HeapGood, HeapCpus

LEMMA HeapTakeLock ==
    ASSUME HeapGood, NEW c \in Cpus, H!TakeLock(c)
    PROVE  HeapGood'
<1> DEFINE r == Rec(pos[c].op, pos[c].pool, pos[c].region, 1, FALSE)
<1>1. pos[c].op # "none" /\ pos[c].region <= Regions
  BY DEF H!TakeLock
<1>2. /\ pos[c] \in HeapRec /\ H!Area(c) = AreaOf(pos[c]) /\ pos[c].region \in 1..(Regions + 1)
      /\ Regions \in Nat /\ Slots \in Nat /\ lock \in [H!Areas -> Cpus \cup {None}]
  BY <1>1, AtWork
<1>3. H!Goes(c, pos[c].region, 1) /\ pos[c].region \in 0..(Regions + 1) /\ 1 \in 0..(Slots + 1)
  BY <1>2 DEF H!TakeLock
<1>4. pos' = [pos EXCEPT ![c] = r] /\ r \in HeapRec
  BY <1>3, GoesTo DEF HeapGood
<1>5. AreaOf(r) = H!Area(c) /\ H!Area(c) \in H!Areas
  BY <1>1, <1>2 DEF AreaOf, Rec, HeapRec, H!Areas
<1>6. lock' = [lock EXCEPT ![H!Area(c)] = c] /\ lock[H!Area(c)] = None
  BY DEF H!TakeLock
<1>7. /\ lock' \in [H!Areas -> Cpus \cup {None}] /\ lock'[AreaOf(r)] = c
      /\ \A k \in H!Areas : lock[k] # None /\ lock[k] # c => lock'[k] = lock[k]
  BY <1>2, <1>5, <1>6
<1>8. HeapHolds(r, lock', c)
  BY <1>1, <1>2, <1>7 DEF HeapHolds, Rec
<1>9. Knowing(r, level, pte)
  BY <1>1, <1>2 DEF Knowing, Rec
<1>10. UNCHANGED <<level, pte, white, live, heapFree>>
  BY DEF H!TakeLock
<1>11. HeapCpus' /\ HeapKnown'
  <2> HIDE DEF r
  <2> QED BY <1>4, <1>7, <1>8, <1>9, <1>10, HeapGoes DEF HeapGood
<1> QED BY <1>10, <1>11, StoresStay DEF HeapGood

\* The lock stays, and the CPU goes on within its region, or on without it.
LEMMA HeapMoves ==
    ASSUME HeapGood, NEW c \in Cpus, NEW r \in HeapRec, pos' = [pos EXCEPT ![c] = r],
           UNCHANGED <<lock, level, pte, white, live, heapFree>>,
           HeapHolds(r, lock, c), Knowing(r, level, pte)
    PROVE  HeapGood'
<1>1. lock' \in [H!Areas -> Cpus \cup {None}] /\ \A k \in H!Areas : lock[k] # None /\ lock[k] # c => lock'[k] = lock[k]
  BY DEF HeapGood, HeapCpus
<1>2. HeapHolds(r, lock', c)
  OBVIOUS
<1>3. HeapCpus' /\ HeapKnown'
  BY <1>1, <1>2, HeapGoes DEF HeapGood
<1> QED BY <1>3, StoresStay DEF HeapGood

LEMMA HeapSkipRegion ==
    ASSUME HeapGood, NEW c \in Cpus, H!SkipRegion(c)
    PROVE  HeapGood'
<1> DEFINE r == Rec(pos[c].op, pos[c].pool, pos[c].region + 1, 0, FALSE)
<1>1. pos[c].op = "alloc" /\ pos[c].region <= Regions
  BY DEF H!SkipRegion
<1>2. pos[c].region \in 1..(Regions + 1) /\ Regions \in Nat /\ Slots \in Nat
  BY <1>1, AtWork
<1>3. H!Goes(c, pos[c].region + 1, 0) /\ pos[c].region + 1 \in 0..(Regions + 1) /\ 0 \in 0..(Slots + 1)
  BY <1>1, <1>2 DEF H!SkipRegion
<1>4. pos' = [pos EXCEPT ![c] = r] /\ r \in HeapRec
  BY <1>3, GoesTo DEF HeapGood
<1>5. pos[c].region + 1 > 0
  BY <1>2
<1>6. Knowing(r, level, pte) /\ HeapHolds(r, lock, c)
  BY <1>5, KnowsNothing
<1> HIDE DEF r
<1> QED BY <1>4, <1>6, HeapMoves DEF H!SkipRegion

\* On to the next slot of the region, for all but a reclaim.
LEMMA HeapNext ==
    ASSUME HeapGood, NEW c \in Cpus, pos[c].op \notin {"none", "reclaim"}, NEW i \in 1..(Slots + 1), pos[c].slot > 0,
           H!Goes(c, pos[c].region, i), UNCHANGED <<lock, level, pte, white, live, heapFree>>
    PROVE  HeapGood'
<1> DEFINE r == Rec(pos[c].op, pos[c].pool, pos[c].region, i, FALSE)
<1>1. /\ pos[c] \in HeapRec /\ HeapHolds(pos[c], lock, c)
      /\ pos[c].region \in 1..(Regions + 1) /\ Regions \in Nat /\ Slots \in Nat
  BY AtWork
<1>2. pos[c].region \in 0..(Regions + 1) /\ i \in 0..(Slots + 1) /\ pos[c].region > 0
  BY <1>1
<1>3. pos' = [pos EXCEPT ![c] = r] /\ r \in HeapRec
  BY <1>2, GoesTo DEF HeapGood
<1>4. HeapHolds(r, lock, c)
  BY <1>1 DEF HeapHolds, Rec, AreaOf
<1>5. Knowing(r, level, pte)
  BY <1>2, KnowsSlot
<1> HIDE DEF r
<1> QED BY <1>3, <1>4, <1>5, HeapMoves

LEMMA HeapNextSlot ==
    ASSUME HeapGood, NEW c \in Cpus, H!NextSlot(c)
    PROVE  HeapGood'
<1>1. pos[c].op = "alloc" /\ pos[c].slot \in 1..Slots
  BY DEF H!NextSlot
<1>2. Slots \in Nat
  BY MemoryAssumption
<1>3. pos[c].slot > 0 /\ pos[c].slot + 1 \in 1..(Slots + 1)
  BY <1>1, <1>2
<1> QED BY <1>1, <1>3, HeapNext DEF H!NextSlot

LEMMA HeapLeaveRegion ==
    ASSUME HeapGood, NEW c \in Cpus, H!LeaveRegion(c)
    PROVE  HeapGood'
<1> DEFINE r == Rec(pos[c].op, pos[c].pool, pos[c].region + 1, 0, FALSE)
<1>1. pos[c].op # "none" /\ pos[c].slot > Slots
  BY DEF H!LeaveRegion
<1>2. /\ pos[c] \in HeapRec /\ HeapHolds(pos[c], lock, c) /\ H!Area(c) = AreaOf(pos[c])
      /\ pos[c].slot \in 0..(Slots + 1) /\ Regions \in Nat /\ Slots \in Nat
      /\ lock \in [H!Areas -> Cpus \cup {None}]
  BY <1>1, AtWork
<1>3. pos[c].slot > 0
  BY <1>1, <1>2
<1>4. pos[c].region \in 1..Regions /\ lock[H!Area(c)] = c /\ H!Area(c) \in H!Areas
  BY <1>2, <1>3, Locked DEF HeapHolds
<1>5. H!Goes(c, pos[c].region + 1, 0) /\ pos[c].region + 1 \in 0..(Regions + 1) /\ 0 \in 0..(Slots + 1)
  BY <1>2, <1>4 DEF H!LeaveRegion
<1>6. pos' = [pos EXCEPT ![c] = r] /\ r \in HeapRec
  BY <1>5, GoesTo DEF HeapGood
<1>7. pos[c].region + 1 > 0
  BY <1>2, <1>4
<1>8. Knowing(r, level, pte) /\ HeapHolds(r, lock', c)
  BY <1>7, KnowsNothing
<1>9. lock' = [lock EXCEPT ![H!Area(c)] = None]
  BY DEF H!LeaveRegion
<1>10. /\ lock' \in [H!Areas -> Cpus \cup {None}]
       /\ \A k \in H!Areas : lock[k] # None /\ lock[k] # c => lock'[k] = lock[k]
  BY <1>2, <1>4, <1>9
<1>11. UNCHANGED <<level, pte, white, live, heapFree>>
  BY DEF H!LeaveRegion
<1>12. HeapCpus' /\ HeapKnown'
  <2> HIDE DEF r
  <2> QED BY <1>6, <1>8, <1>10, <1>11, HeapGoes DEF HeapGood
<1> QED BY <1>11, <1>12, StoresStay DEF HeapGood

LEMMA HeapReturn ==
    ASSUME HeapGood, NEW c \in Cpus, H!Return(c)
    PROVE  HeapGood'
<1>1. Knowing(H!Idle, level, pte) /\ HeapHolds(H!Idle, lock, c)
  BY KnowsNothing, IdleIs
<1> QED BY <1>1, IdleIs, HeapMoves DEF H!Return

\* A slot with a page present has all of them, and its page table.
LEMMA PresentSlot ==
    ASSUME HeapGood, NEW c \in Cpus, pos[c].op # "none", pos[c].slot \in 1..Slots,
           H!PagesOf(H!Area(c), pos[c].slot) \cap pte # {}
    PROVE  H!Area(c) \in level /\ H!PagesOf(H!Area(c), pos[c].slot) \subseteq pte
<1>1. pos[c] \in HeapRec /\ HeapHolds(pos[c], lock, c) /\ H!Area(c) = AreaOf(pos[c]) /\ Slots \in Nat
  BY AtWork
<1>2. pos[c].slot > 0
  BY <1>1
<1>3. H!Area(c) \in H!Areas
  BY <1>1, <1>2, Locked
<1> QED BY <1>3 DEF HeapGood, HeapStores, Whole

LEMMA HeapVisit ==
    ASSUME HeapGood, NEW c \in Cpus, pos[c].op \in {"walk", "dirty"}, pos[c].slot \in 1..Slots, H!Visit(c),
           H!PagesOf(H!Area(c), pos[c].slot) \cap pte # {}
    PROVE  HeapGood'
<1> DEFINE r == Rec(pos[c].op, pos[c].pool, pos[c].region, pos[c].slot, TRUE)
<1>1. /\ pos[c] \in HeapRec /\ HeapHolds(pos[c], lock, c) /\ H!Area(c) = AreaOf(pos[c]) /\ Slots \in Nat
      /\ Regions \in Nat /\ pos[c].region \in 1..(Regions + 1)
  BY AtWork
<1>2. H!Area(c) \in level /\ H!PagesOf(H!Area(c), pos[c].slot) \subseteq pte
  BY PresentSlot
<1>3. pos' = [pos EXCEPT ![c] = [pos[c] EXCEPT !.keep = TRUE]]
  BY DEF H!Visit
<1>4. pos[c].region \in 0..(Regions + 1) /\ pos[c].slot \in 0..(Slots + 1) /\ TRUE \in BOOLEAN
  BY <1>1
<1>5. [pos[c] EXCEPT !.keep = TRUE] = r /\ r \in HeapRec
  BY <1>1, <1>4, RecGoes
<1>6. HeapHolds(r, lock, c)
  BY <1>1 DEF HeapHolds, Rec, AreaOf
<1>7. Knowing(r, level, pte)
  BY <1>1, <1>2 DEF Knowing, Rec, AreaOf
<1> HIDE DEF r
<1> QED BY <1>3, <1>5, <1>6, <1>7, HeapMoves DEF H!Visit

LEMMA HeapWalkSlot ==
    ASSUME HeapGood, NEW c \in Cpus, H!WalkSlot(c)
    PROVE  HeapGood'
<1>1. pos[c].op = "walk" /\ pos[c].slot \in 1..Slots
  BY DEF H!WalkSlot
<1>2. pos[c] \in HeapRec /\ HeapHolds(pos[c], lock, c) /\ H!Area(c) = AreaOf(pos[c]) /\ Slots \in Nat
  BY <1>1, AtWork
<1>3. pos[c].slot > 0 /\ pos[c].slot + 1 \in 1..(Slots + 1)
  BY <1>1, <1>2
<1>4. CASE H!First(H!Area(c), pos[c].slot) \in pte /\ H!Visit(c)
  <2>1. H!Area(c) \in H!Areas
    BY <1>2, <1>3, Locked
  <2>2. H!PagesOf(H!Area(c), pos[c].slot) \cap pte # {}
    BY <1>1, <1>4, <2>1, SlotPages
  <2> QED BY <1>1, <1>4, <2>2, HeapVisit
<1>5. CASE H!Goes(c, pos[c].region, pos[c].slot + 1) /\ UNCHANGED <<lock, level, pte, white, live, heapFree, torn>>
  BY <1>1, <1>3, <1>5, HeapNext
<1> QED BY <1>4, <1>5 DEF H!WalkSlot

LEMMA HeapWalkDirty ==
    ASSUME HeapGood, NEW c \in Cpus, H!WalkDirty(c)
    PROVE  HeapGood'
<1>1. pos[c].op = "dirty" /\ pos[c].slot \in 1..Slots
  BY DEF H!WalkDirty
<1>2. Slots \in Nat
  BY MemoryAssumption
<1>3. pos[c].slot > 0 /\ pos[c].slot + 1 \in 1..(Slots + 1)
  BY <1>1, <1>2
<1>4. CASE H!PagesOf(H!Area(c), pos[c].slot) \cap pte # {} /\ H!Visit(c)
  BY <1>1, <1>4, HeapVisit
<1>5. CASE H!Goes(c, pos[c].region, pos[c].slot + 1) /\ UNCHANGED <<lock, level, pte, white, live, heapFree, torn>>
  BY <1>1, <1>3, <1>5, HeapNext
<1> QED BY <1>4, <1>5 DEF H!WalkDirty

LEMMA HeapVisited ==
    ASSUME HeapGood, NEW c \in Cpus, H!Visited(c)
    PROVE  HeapGood'
<1>1. pos[c].op \in {"walk", "dirty"} /\ pos[c].keep
  BY DEF H!Visited
<1>2. Knowing(pos[c], level, pte) /\ Slots \in Nat
  BY <1>1, AtWork
<1>3. pos[c].slot \in 1..Slots
  BY <1>1, <1>2 DEF Knowing
<1>4. pos[c].slot > 0 /\ pos[c].slot + 1 \in 1..(Slots + 1)
  BY <1>2, <1>3
<1> QED BY <1>1, <1>4, HeapNext DEF H!Visited

\* The lock of the slot's area keeps the others out of it.
LEMMA OthersKnow ==
    ASSUME HeapGood, NEW c \in Cpus, pos[c].op # "none", pos[c].slot > 0, NEW L, NEW P,
           \A k \in H!Areas \ {H!Area(c)} : k \in level => k \in L,
           \A k \in H!Areas \ {H!Area(c)}, i \in 1..Slots : H!PagesOf(k, i) \cap pte = H!PagesOf(k, i) \cap P
    PROVE  \A d \in Cpus \ {c} : Knowing(pos[d], L, P)
<1> SUFFICES ASSUME NEW d \in Cpus \ {c} PROVE Knowing(pos[d], L, P)
  OBVIOUS
<1>1. pos[d] \in HeapRec /\ HeapHolds(pos[d], lock, d) /\ Knowing(pos[d], level, pte)
  BY RecFacts DEF HeapGood, HeapKnown
<1>2. ASSUME pos[d].slot > 0
      PROVE  /\ AreaOf(pos[d]) \in level => AreaOf(pos[d]) \in L
             /\ \A i \in 1..Slots : H!PagesOf(AreaOf(pos[d]), i) \cap pte = H!PagesOf(AreaOf(pos[d]), i) \cap P
  <2>1. AreaOf(pos[d]) # AreaOf(pos[c])
    BY <1>2, OthersElsewhere DEF HeapGood
  <2>2. AreaOf(pos[c]) = H!Area(c)
    BY AtWork
  <2>3. AreaOf(pos[d]) \in H!Areas \ {H!Area(c)}
    BY <1>1, <1>2, <2>1, <2>2, Locked
  <2> QED BY <2>3
<1> QED BY <1>1, <1>2, KnowsStill

\* The frames of a page table or of the pages of a slot come and go.
LEMMA CountMore ==
    ASSUME NEW S, NEW D, IsFiniteSet(S), IsFiniteSet(D), S \cap D = {}
    PROVE  Cardinality(S \cup D) = Cardinality(S) + Cardinality(D) /\ IsFiniteSet(S \cup D)
<1>1. Cardinality(S \cap D) = 0
  BY FS_EmptySet
<1>2. Cardinality(S) \in Nat /\ Cardinality(D) \in Nat
  BY FS_CardinalityType
<1>3. IsFiniteSet(S \cup D) /\ Cardinality(S \cup D) = Cardinality(S) + Cardinality(D) - Cardinality(S \cap D)
  BY FS_Union
<1> QED BY <1>1, <1>2, <1>3

LEMMA CountLess ==
    ASSUME NEW S, NEW D, IsFiniteSet(S), D \subseteq S
    PROVE  Cardinality(S) = Cardinality(S \ D) + Cardinality(D) /\ IsFiniteSet(S \ D)
<1>1. IsFiniteSet(D) /\ IsFiniteSet(S \ D)
  BY FS_Subset, FS_Difference
<1>2. (S \ D) \cup D = S /\ (S \ D) \cap D = {}
  OBVIOUS
<1> QED BY <1>1, <1>2, CountMore

LEMMA HeapNumbers ==
    ASSUME HeapGood
    PROVE  /\ IsFiniteSet(pte) /\ IsFiniteSet(level)
           /\ Cardinality(pte) \in Nat /\ Cardinality(level) \in Nat /\ heapFree \in Nat /\ HeapFrames \in Nat
<1>1. IsFiniteSet(pte) /\ IsFiniteSet(level)
  BY HeapFinite, FS_Subset DEF HeapGood, HeapStores
<1> QED BY <1>1, FS_CardinalityType, MemoryAssumption DEF HeapGood, HeapCount

LEMMA HeapSetupLevel ==
    ASSUME HeapGood, NEW c \in Cpus, H!SetupLevel(c)
    PROVE  HeapGood'
<1>1. pos[c].op = "alloc" /\ pos[c].slot \in 1..Slots /\ H!Area(c) \notin level
  BY DEF H!SetupLevel
<1>2. /\ pos[c] \in HeapRec /\ HeapHolds(pos[c], lock, c) /\ H!Area(c) = AreaOf(pos[c]) /\ Slots \in Nat
      /\ Knowing(pos[c], level, pte) /\ lock \in [H!Areas -> Cpus \cup {None}]
  BY <1>1, AtWork
<1>3. pos[c].slot > 0 /\ Slots + 1 \in 1..(Slots + 1)
  BY <1>1, <1>2
<1>4. H!Area(c) \in H!Areas
  BY <1>2, <1>3, Locked
<1>5. UNCHANGED <<lock, pte, white, live>>
  BY DEF H!SetupLevel
<1>6. CASE heapFree > 0 /\ level' = level \cup {H!Area(c)} /\ heapFree' = heapFree - 1 /\ UNCHANGED pos
  <2>1. HeapStores'
    BY <1>4, <1>5, <1>6 DEF HeapGood, HeapStores, Whole
  <2>2. HeapCount'
    <3>1. PICK S, D : S = level /\ D = {H!Area(c)}
      OBVIOUS
    <3>2. IsFiniteSet(S) /\ IsFiniteSet(D) /\ Cardinality(D) = 1 /\ S \cap D = {}
      BY <3>1, <1>1, HeapNumbers, FS_Singleton
    <3>3. Cardinality(S \cup D) = Cardinality(S) + Cardinality(D)
      BY <3>2, CountMore
    <3>4. Cardinality(level') = Cardinality(level) + 1
      <4>1. level' = S \cup D /\ level = S
        BY <1>6, <3>1
      <4> QED BY <3>2, <3>3, <4>1
    <3> QED BY <1>5, <1>6, <3>4, HeapNumbers DEF HeapGood, HeapCount
  <2>3. HeapCpus' /\ HeapKnown'
    <3>1. HeapCpus'
      BY <1>5, <1>6 DEF HeapGood, HeapCpus
    <3>2. ASSUME NEW d \in Cpus PROVE Knowing(pos[d], level', pte')
      <4>1. pos[d] \in HeapRec /\ Knowing(pos[d], level, pte)
        BY RecFacts DEF HeapGood, HeapKnown
      <4>2. PICK L, P : L = level' /\ P = pte'
        OBVIOUS
      <4>3. level \subseteq L /\ P = pte
        BY <1>5, <1>6, <4>2
      <4>4. Knowing(pos[d], L, P)
        BY <4>1, <4>3, KnowsStill
      <4> QED BY <4>2, <4>4
    <3> QED BY <1>6, <3>1, <3>2 DEF HeapKnown
  <2> QED BY <2>1, <2>2, <2>3 DEF HeapGood
<1>7. CASE H!Goes(c, pos[c].region, Slots + 1) /\ UNCHANGED <<level, heapFree>>
  BY <1>1, <1>3, <1>5, <1>7, HeapNext
<1> QED BY <1>6, <1>7 DEF H!SetupLevel

LEMMA LeastOf ==
    ASSUME NEW a \in Nat, NEW b \in Nat
    PROVE  H!Min({a, b}) = IF a <= b THEN a ELSE b
<1> DEFINE m == IF a <= b THEN a ELSE b
<1>1. m \in {a, b} /\ \A y \in {a, b} : m <= y
  OBVIOUS
<1>2. ASSUME NEW x \in {a, b}, \A y \in {a, b} : x <= y PROVE x = m
  BY <1>2
<1> HIDE DEF m
<1>3. (CHOOSE x \in {a, b} : \A y \in {a, b} : x <= y) = m
  BY <1>1, <1>2
<1> QED BY <1>3 DEF H!Min, m

\* A slot is backed by all of its pages, or by none of them, or the allocation
\* has run out of pages half way.
LEMMA HeapBackSlot ==
    ASSUME HeapGood, NEW c \in Cpus, H!BackSlot(c)
    PROVE  (torn' = torn /\ HeapGood') \/ (torn' = FALSE /\ HeapGood') \/ torn' = TRUE
<1> DEFINE k == H!Area(c)
           i == pos[c].slot
           need == H!PagesOf(k, i)
           n == Cardinality(need)
           got == H!Min({heapFree, H!Cardinality(need)})
<1>1. /\ pos[c].op = "alloc" /\ i \in 1..Slots /\ k \in level /\ H!First(k, i) \notin pte
      /\ pte' = pte \cup {p \in need : p[4] <= got}
      /\ IF got = H!Cardinality(need)
           THEN heapFree' = heapFree - got /\ UNCHANGED <<pos, torn>>
           ELSE H!Goes(c, pos[c].region, i + 1) /\ torn' = (got > 0) /\ UNCHANGED heapFree
      /\ UNCHANGED <<lock, level, white, live>>
  BY DEF H!BackSlot
<1>2. /\ pos[c] \in HeapRec /\ HeapHolds(pos[c], lock, c) /\ k = AreaOf(pos[c]) /\ Slots \in Nat
      /\ Knowing(pos[c], level, pte) /\ lock \in [H!Areas -> Cpus \cup {None}]
  BY <1>1, AtWork
<1>3. i > 0 /\ i + 1 \in 1..(Slots + 1)
  BY <1>1, <1>2
<1>4. k \in H!Areas
  BY <1>2, <1>3, Locked
<1>5. /\ need \subseteq H!Pages /\ H!First(k, i) \in need /\ IsFiniteSet(need) /\ n \in Nat \ {0}
      /\ \A p \in need : p[4] \in 1..n
  BY <1>1, <1>4, SlotPages
<1>6. heapFree \in Nat
  BY HeapNumbers
<1>7. got = (IF heapFree <= n THEN heapFree ELSE n) /\ got \in Nat /\ H!Cardinality(need) = n
  <2>1. H!Cardinality(need) = n
    BY SameCardinality
  <2>2. H!Min({heapFree, n}) = IF heapFree <= n THEN heapFree ELSE n
    BY <1>5, <1>6, LeastOf
  <2> QED BY <1>5, <1>6, <2>1, <2>2
<1>8. need \cap pte = {}
  <2>1. need \cap pte # {} => need \subseteq pte
    BY <1>1, <1>4 DEF HeapGood, HeapStores, Whole
  <2> QED BY <1>1, <1>5, <2>1
<1> HIDE DEF need, n, got, k, i
<1>9. CASE got = n
  <2>1. pte' = pte \cup need
    BY <1>1, <1>5, <1>7, <1>9
  <2>2. heapFree' = heapFree - n /\ heapFree' \in Nat /\ pos' = pos /\ torn' = torn /\ level' = level
    BY <1>1, <1>5, <1>6, <1>7, <1>9
  <2>3. Cardinality(pte') = Cardinality(pte) + n
    <3>1. PICK S, D : S = pte /\ D = need
      OBVIOUS
    <3>2. Cardinality(S \cup D) = Cardinality(S) + Cardinality(D)
      <4>1. IsFiniteSet(S) /\ IsFiniteSet(D) /\ S \cap D = {}
        BY <1>5, <1>8, <3>1, HeapNumbers, Zenon
      <4> QED BY <4>1, CountMore
    <3> QED BY <2>1, <3>1, <3>2, Zenon DEF n
  <2>4. HeapCount'
    BY <1>5, <2>2, <2>3, HeapNumbers DEF HeapGood, HeapCount
  <2>5. ASSUME NEW l \in H!Areas, NEW j \in 1..Slots, l # k \/ j # i
        PROVE  H!PagesOf(l, j) \cap pte' = H!PagesOf(l, j) \cap pte
    <3>1. H!PagesOf(l, j) \cap need = {}
      BY <2>5, SlotsApart DEF need
    <3> QED BY <2>1, <3>1
  <2>6. HeapStores'
    <3>1. ASSUME NEW l \in H!Areas, NEW j \in 1..Slots, H!PagesOf(l, j) \cap pte' # {}
          PROVE  Whole(l, j, level', pte')
      <4>1. CASE l = k /\ j = i
        BY <1>1, <2>1, <2>2, <4>1 DEF Whole, need
      <4>2. CASE l # k \/ j # i
        <5>1. Whole(l, j, level, pte)
          BY <2>5, <3>1, <4>2 DEF HeapGood, HeapStores
        <5> QED BY <2>1, <2>2, <5>1 DEF Whole
      <4> QED BY <4>1, <4>2
    <3>2. \A o \in live : Whole(<<o[1], o[2]>>, o[3], level', pte')
      BY <2>1, <2>2 DEF HeapGood, HeapStores, Whole
    <3>3. pte' \subseteq H!Pages
      BY <1>5, <2>1 DEF HeapGood, HeapStores
    <3>4. level' \subseteq H!Areas /\ live' = live /\ live \subseteq H!Objects /\ white' = live
      BY <1>1 DEF HeapGood, HeapStores
    <3> QED BY <3>1, <3>2, <3>3, <3>4 DEF HeapStores
  <2>7. HeapCpus'
    BY <1>1, <2>2 DEF HeapGood, HeapCpus
  <2>8. HeapKnown'
    <3>1. PICK P : P = pte'
      OBVIOUS
    <3>2. \A d \in Cpus \ {c} : Knowing(pos[d], level, P)
      <4>1. \A l \in H!Areas \ {H!Area(c)}, j \in 1..Slots : H!PagesOf(l, j) \cap pte = H!PagesOf(l, j) \cap P
        BY <2>5, <3>1 DEF k
      <4> QED BY <1>1, <1>3, <4>1, OthersKnow DEF i
    <3>3. Knowing(pos[c], level, P)
      BY <1>1, <1>2 DEF Knowing
    <3> QED BY <2>2, <3>1, <3>2, <3>3 DEF HeapKnown
  <2> QED BY <2>2, <2>4, <2>6, <2>7, <2>8 DEF HeapGood
<1>10. CASE got # n /\ got > 0
  BY <1>1, <1>7, <1>10
<1>11. CASE got # n /\ ~ (got > 0)
  <2>1. torn' = FALSE /\ H!Goes(c, pos[c].region, i + 1) /\ heapFree' = heapFree
    <3>1. got # H!Cardinality(need)
      BY <1>7, <1>11
    <3>2. torn' = (got > 0) /\ H!Goes(c, pos[c].region, i + 1) /\ heapFree' = heapFree
      BY <1>1, <3>1
    <3>3. (got > 0) = FALSE
      BY <1>11
    <3> QED BY <3>2, <3>3
  <2>2. pte' = pte
    BY <1>1, <1>5, <1>7, <1>11
  <2>3. HeapGood'
    BY <1>1, <1>3, <2>1, <2>2, HeapNext DEF i
  <2> QED BY <2>1, <2>3
<1> QED BY <1>9, <1>10, <1>11

LEMMA HeapTakeObject ==
    ASSUME HeapGood, NEW c \in Cpus, H!TakeObject(c)
    PROVE  HeapGood'
<1> DEFINE k == H!Area(c)
           i == pos[c].slot
<1>1. /\ pos[c].op = "alloc" /\ i \in 1..Slots /\ k \in level /\ H!First(k, i) \in pte
      /\ lock' = [lock EXCEPT ![k] = None] /\ pos' = [pos EXCEPT ![c] = H!Idle]
      /\ UNCHANGED <<level, pte, heapFree>>
  BY DEF H!TakeObject
<1>2. PICK o \in H!ObjectsOf(k, i) \ white : white' = white \cup {o} /\ live' = live \cup {o}
  BY DEF H!TakeObject
<1>3. /\ pos[c] \in HeapRec /\ HeapHolds(pos[c], lock, c) /\ k = AreaOf(pos[c]) /\ Slots \in Nat
      /\ lock \in [H!Areas -> Cpus \cup {None}]
  BY <1>1, AtWork
<1>4. i > 0
  BY <1>1, <1>3
<1>5. k \in H!Areas /\ lock[k] = c
  BY <1>3, <1>4, Locked
<1>6. Whole(k, i, level, pte)
  <2>1. H!PagesOf(k, i) \cap pte # {}
    BY <1>1, <1>5, SlotPages
  <2> QED BY <1>1, <1>5, <2>1 DEF HeapGood, HeapStores
<1>7. o \in H!Objects /\ <<o[1], o[2]>> = k /\ o[3] = i
  BY InSlot
<1> HIDE DEF k, i
<1>8. HeapStores'
  <2>1. \A x \in live' : Whole(<<x[1], x[2]>>, x[3], level, pte)
    BY <1>2, <1>6, <1>7 DEF HeapGood, HeapStores
  <2>2. level' = level /\ pte' = pte /\ live' \subseteq H!Objects /\ white' = live'
    BY <1>1, <1>2, <1>7 DEF HeapGood, HeapStores
  <2> QED BY <2>1, <2>2 DEF HeapGood, HeapStores
<1>9. HeapCount'
  BY <1>1 DEF HeapGood, HeapCount
<1>10. /\ lock' \in [H!Areas -> Cpus \cup {None}]
       /\ \A l \in H!Areas : lock[l] # None /\ lock[l] # c => lock'[l] = lock[l]
  BY <1>1, <1>3, <1>5
<1>11. H!Idle \in HeapRec /\ Knowing(H!Idle, level, pte) /\ HeapHolds(H!Idle, lock', c)
  BY IdleIs DEF Knowing, HeapHolds, Rec
<1>12. HeapCpus' /\ HeapKnown'
  BY <1>1, <1>10, <1>11, HeapGoes DEF HeapGood
<1> QED BY <1>8, <1>9, <1>12 DEF HeapGood

LEMMA HeapFreeObject ==
    ASSUME HeapGood, NEW o \in H!Objects, H!Free(o)
    PROVE  HeapGood'
<1>1. live' = live \ {o} /\ white' = white \ {o} /\ UNCHANGED <<pos, lock, level, pte, heapFree>>
  BY DEF H!Free
<1>2. HeapCpus' /\ HeapKnown' /\ HeapCount'
  BY <1>1 DEF HeapGood, HeapCpus, HeapKnown, HeapCount
<1>3. HeapStores'
  BY <1>1 DEF HeapGood, HeapStores
<1> QED BY <1>2, <1>3 DEF HeapGood

\* heap_reclaim frees the pages of a slot no object of which is in use.
LEMMA HeapReclaimSlot ==
    ASSUME HeapGood, NEW c \in Cpus, H!ReclaimSlot(c)
    PROVE  HeapGood'
<1> DEFINE k == H!Area(c)
           i == pos[c].slot
           away == H!PagesOf(k, i)
           used == H!ObjectsOf(k, i) \cap white # {}
           present == k \in level /\ H!First(k, i) \in pte
           b == pos[c].keep \/ (present /\ used)
           r == Rec(pos[c].op, pos[c].pool, pos[c].region, i + 1, b)
<1>1. /\ pos[c].op = "reclaim" /\ i \in 1..Slots
      /\ \/ present /\ ~used /\ heapFree' = heapFree + H!Cardinality(away) /\ pte' = pte \ away
         \/ ~(present /\ ~used) /\ UNCHANGED <<heapFree, pte>>
      /\ UNCHANGED <<lock, level, white, live>>
  BY DEF H!ReclaimSlot
<1>2. pos' = [pos EXCEPT ![c] = [pos[c] EXCEPT !.slot = i + 1, !.keep = b]]
  BY DEF H!ReclaimSlot
<1>3. /\ pos[c] \in HeapRec /\ HeapHolds(pos[c], lock, c) /\ k = AreaOf(pos[c]) /\ Slots \in Nat
      /\ Knowing(pos[c], level, pte) /\ lock \in [H!Areas -> Cpus \cup {None}]
      /\ pos[c].region \in 1..(Regions + 1) /\ Regions \in Nat
  BY <1>1, AtWork
<1>4. i > 0 /\ i + 1 \in 0..(Slots + 1) /\ pos[c].region \in 0..(Regions + 1) /\ b \in BOOLEAN
  BY <1>1, <1>3 DEF HeapRec
<1>5. k \in H!Areas
  BY <1>3, <1>4, Locked
<1>6. away \subseteq H!Pages /\ H!First(k, i) \in away /\ IsFiniteSet(away)
  BY <1>1, <1>5, SlotPages
<1>7. away \cap pte # {} => k \in level /\ away \subseteq pte
  BY <1>1, <1>5 DEF HeapGood, HeapStores, Whole
<1>8. pos' = [pos EXCEPT ![c] = r] /\ r \in HeapRec
  <2>1. [pos[c] EXCEPT !.slot = i + 1, !.keep = b] = r /\ r \in HeapRec
    <3>1. PICK j, a : j = i + 1 /\ a = b
      OBVIOUS
    <3>2. j \in 0..(Slots + 1) /\ a \in BOOLEAN
      BY <1>4, <3>1, Zenon
    <3>3. /\ [pos[c] EXCEPT !.slot = j, !.keep = a] = Rec(pos[c].op, pos[c].pool, pos[c].region, j, a)
          /\ Rec(pos[c].op, pos[c].pool, pos[c].region, j, a) \in HeapRec
      BY <1>3, <1>4, <3>2, RecGoes
    <3> QED BY <3>1, <3>3, Zenon
  <2> QED BY <1>2, <2>1, Zenon
\* The slot is absent afterwards, or it was in use and the region keeps its table.
<1>9. b \/ away \cap pte' = {}
  <2>1. CASE present /\ ~used
    BY <1>1, <2>1
  <2>2. CASE present /\ used
    BY <2>2
  <2>3. CASE ~present
    BY <1>1, <1>6, <1>7, <2>3
  <2> QED BY <2>1, <2>2, <2>3
<1>10. pte' \subseteq pte /\ pte \ pte' \subseteq away
  BY <1>1
<1>11. ASSUME NEW l, NEW j, l # k \/ j # i
       PROVE  H!PagesOf(l, j) \cap pte' = H!PagesOf(l, j) \cap pte
  <2>1. H!PagesOf(l, j) \cap away = {}
    BY <1>11, SlotsApart
  <2> QED BY <1>10, <2>1
<1>12. ASSUME NEW o \in live PROVE Whole(<<o[1], o[2]>>, o[3], level, pte')
  <2>1. Whole(<<o[1], o[2]>>, o[3], level, pte) /\ o \in H!Objects /\ o \in white
    BY DEF HeapGood, HeapStores
  <2>2. CASE <<o[1], o[2]>> = k /\ o[3] = i
    <3>1. o \in H!ObjectsOf(k, i)
      BY <2>1, <2>2, ObjectHasSlot
    <3>2. used
      BY <2>1, <3>1
    <3>3. pte' = pte
      BY <1>1, <3>2
    <3> QED BY <2>1, <3>3
  <2>3. CASE <<o[1], o[2]>> # k \/ o[3] # i
    <3>1. PICK l, j : l = <<o[1], o[2]>> /\ j = o[3]
      OBVIOUS
    <3>2. H!PagesOf(l, j) \cap pte' = H!PagesOf(l, j) \cap pte
      BY <1>11, <2>3, <3>1
    <3>3. Whole(l, j, level, pte)
      BY <2>1, <3>1
    <3>4. Whole(l, j, level, pte')
      BY <3>2, <3>3 DEF Whole
    <3> QED BY <3>1, <3>4
  <2> QED BY <2>2, <2>3
<1>13. HeapStores'
  <2>1. ASSUME NEW l \in H!Areas, NEW j \in 1..Slots, H!PagesOf(l, j) \cap pte' # {}
        PROVE  Whole(l, j, level, pte')
    <3>1. Whole(l, j, level, pte)
      BY <1>10, <2>1 DEF HeapGood, HeapStores
    <3>2. CASE l = k /\ j = i
      <4>1. pte' = pte
        BY <1>1, <2>1, <3>2
      <4> QED BY <3>1, <4>1
    <3>3. CASE l # k \/ j # i
      BY <1>11, <3>1, <3>3 DEF Whole
    <3> QED BY <3>2, <3>3
  <2>2. pte' \subseteq H!Pages /\ level' = level /\ live' = live /\ white' = white
    BY <1>1, <1>10 DEF HeapGood, HeapStores
  <2> QED BY <1>12, <2>1, <2>2 DEF HeapGood, HeapStores
<1>14. HeapCount'
  <2>1. CASE present /\ ~used /\ heapFree' = heapFree + H!Cardinality(away) /\ pte' = pte \ away
    <3>1. away \subseteq pte
      BY <1>6, <1>7, <2>1
    <3>2. PICK S, D : S = pte /\ D = away
      OBVIOUS
    <3>3. Cardinality(S) = Cardinality(S \ D) + Cardinality(D)
      <4>1. IsFiniteSet(S) /\ D \subseteq S
        BY <3>1, <3>2, HeapNumbers
      <4> QED BY <4>1, CountLess
    <3>4. Cardinality(pte) = Cardinality(pte') + Cardinality(away)
      <4>1. pte' = S \ D /\ pte = S /\ away = D
        BY <2>1, <3>2
      <4> HIDE DEF away
      <4> QED BY <3>3, <4>1, Zenon
    <3>5. H!Cardinality(away) = Cardinality(away)
      BY SameCardinality
    <3>6. Cardinality(away) \in Nat /\ Cardinality(pte') \in Nat
      <4>1. IsFiniteSet(pte')
        BY <1>10, HeapNumbers, FS_Subset
      <4> QED BY <1>6, <4>1, FS_CardinalityType
    <3> HIDE DEF away
    <3> QED BY <1>1, <2>1, <3>4, <3>5, <3>6, HeapNumbers DEF HeapGood, HeapCount
  <2>2. CASE UNCHANGED <<heapFree, pte>>
    BY <1>1, <2>2 DEF HeapGood, HeapCount
  <2> QED BY <1>1, <2>1, <2>2
<1>15. HeapHolds(r, lock, c)
  BY <1>3, <1>4 DEF HeapHolds, Rec, AreaOf
<1>16. Knowing(r, level, pte')
  <2>1. AreaOf(r) = k /\ r.op = "reclaim" /\ r.region > 0 /\ r.slot = i + 1 /\ r.keep = b
    BY <1>1, <1>3 DEF AreaOf, Rec
  <2>2. ASSUME ~b, NEW j \in 1..Slots, j < i + 1 PROVE H!PagesOf(k, j) \cap pte' = {}
    <3>1. CASE j = i
      BY <1>9, <2>2, <3>1
    <3>2. CASE j # i
      <4>1. j < i
        BY <1>1, <1>3, <2>2, <3>2
      <4>2. ~ pos[c].keep
        BY <2>2
      <4>3. H!PagesOf(k, j) \cap pte = {}
        BY <1>1, <1>3, <1>4, <4>1, <4>2 DEF Knowing
      <4> QED BY <1>10, <4>3
    <3> QED BY <3>1, <3>2
  <2> HIDE DEF r, b, k, i
  <2> QED BY <2>1, <2>2 DEF Knowing
<1>17. \A d \in Cpus \ {c} : Knowing(pos[d], level', pte')
  <2>1. PICK P : P = pte'
    OBVIOUS
  <2>2. \A l \in H!Areas \ {H!Area(c)}, j \in 1..Slots : H!PagesOf(l, j) \cap pte = H!PagesOf(l, j) \cap P
    BY <1>11, <2>1
  <2>3. \A d \in Cpus \ {c} : Knowing(pos[d], level, P)
    BY <1>1, <1>4, <2>2, OthersKnow
  <2> QED BY <1>1, <2>1, <2>3
<1>18. HeapCpus' /\ HeapKnown'
  <2>1. lock' \in [H!Areas -> Cpus \cup {None}] /\ HeapHolds(r, lock', c) /\ Knowing(r, level', pte')
    BY <1>1, <1>3, <1>15, <1>16
  <2>2. \A l \in H!Areas : lock[l] # None /\ lock[l] # c => lock'[l] = lock[l]
    BY <1>1
  <2> HIDE DEF r
  <2> QED BY <1>8, <1>17, <2>1, <2>2, HeapStep DEF HeapGood
<1> QED BY <1>13, <1>14, <1>18 DEF HeapGood

\* A region without a page gives its page table back.
LEMMA HeapReclaimLevel ==
    ASSUME HeapGood, NEW c \in Cpus, H!ReclaimLevel(c)
    PROVE  HeapGood'
<1> DEFINE k == H!Area(c)
<1>1. /\ pos[c].op = "reclaim" /\ pos[c].slot = Slots + 1 /\ k \in level /\ ~ pos[c].keep
      /\ heapFree' = heapFree + 1 /\ level' = level \ {k}
      /\ UNCHANGED <<pos, lock, pte, white, live>>
  BY DEF H!ReclaimLevel
<1>2. /\ pos[c] \in HeapRec /\ HeapHolds(pos[c], lock, c) /\ k = AreaOf(pos[c]) /\ Slots \in Nat
      /\ Knowing(pos[c], level, pte)
  BY <1>1, AtWork
<1>3. pos[c].slot > 0
  BY <1>1, <1>2
<1>4. k \in H!Areas
  BY <1>2, <1>3, Locked
<1>5. ASSUME NEW i \in 1..Slots PROVE H!PagesOf(k, i) \cap pte = {}
  <2>1. i < pos[c].slot
    BY <1>1, <1>2
  <2> QED BY <1>1, <1>2, <1>3, <2>1 DEF Knowing
<1>6. ASSUME NEW l \in H!Areas, NEW i \in 1..Slots, Whole(l, i, level, pte)
      PROVE  Whole(l, i, level', pte)
  <2>1. l # k
    <3>1. H!PagesOf(l, i) \cap pte # {}
      BY <1>6, SlotPages DEF Whole
    <3> QED BY <1>5, <3>1
  <2> QED BY <1>1, <1>6, <2>1 DEF Whole
<1>7. HeapStores'
  <2>1. ASSUME NEW o \in live PROVE Whole(<<o[1], o[2]>>, o[3], level', pte)
    <3>1. Whole(<<o[1], o[2]>>, o[3], level, pte) /\ o \in H!Objects
      BY DEF HeapGood, HeapStores
    <3>2. PICK l, i : l = <<o[1], o[2]>> /\ i = o[3]
      OBVIOUS
    <3>3. l \in H!Areas /\ i \in 1..Slots
      BY <3>1, <3>2, ObjectHasSlot
    <3>4. Whole(l, i, level', pte)
      BY <1>6, <3>1, <3>2, <3>3
    <3> QED BY <3>2, <3>4
  <2>2. ASSUME NEW l \in H!Areas, NEW i \in 1..Slots, H!PagesOf(l, i) \cap pte # {}
        PROVE  Whole(l, i, level', pte)
    BY <1>6, <2>2 DEF HeapGood, HeapStores
  <2>3. level' \subseteq H!Areas /\ pte' = pte /\ live' = live /\ white' = white
    BY <1>1 DEF HeapGood, HeapStores
  <2> QED BY <2>1, <2>2, <2>3 DEF HeapGood, HeapStores
<1>8. HeapCount'
  <2>1. PICK S, D : S = level /\ D = {k}
    OBVIOUS
  <2>2. Cardinality(S) = Cardinality(S \ D) + Cardinality(D) /\ IsFiniteSet(S \ D)
    <3>1. IsFiniteSet(S) /\ D \subseteq S
      BY <1>1, <2>1, HeapNumbers
    <3> QED BY <3>1, CountLess
  <2>3. Cardinality(D) = 1
    BY <2>1, FS_Singleton
  <2>4. Cardinality(level') = Cardinality(S \ D) /\ Cardinality(level) = Cardinality(S)
    <3>1. level' = S \ D /\ level = S
      BY <1>1, <2>1
    <3> QED BY <3>1, Zenon
  <2>5. Cardinality(S \ D) \in Nat
    BY <2>2, FS_CardinalityType
  <2> QED BY <1>1, <2>2, <2>3, <2>4, <2>5, HeapNumbers DEF HeapGood, HeapCount
<1>9. HeapCpus'
  BY <1>1 DEF HeapGood, HeapCpus
<1>10. HeapKnown'
  <2>1. PICK L : L = level'
    OBVIOUS
  <2>2. \A l \in H!Areas \ {H!Area(c)} : l \in level => l \in L
    BY <1>1, <2>1
  <2>3. \A d \in Cpus \ {c} : Knowing(pos[d], L, pte)
    BY <1>1, <1>3, <2>2, OthersKnow
  <2>4. Knowing(pos[c], L, pte)
    BY <1>1, <1>2 DEF Knowing
  <2> QED BY <1>1, <2>1, <2>3, <2>4 DEF HeapKnown
<1> QED BY <1>7, <1>8, <1>9, <1>10 DEF HeapGood

LEMMA HeapInit == H!Init => HeapInv
<1> SUFFICES ASSUME H!Init PROVE torn = FALSE /\ HeapGood
  BY DEF HeapInv, HeapGood
<1>1. /\ pos = [c \in Cpus |-> H!Idle] /\ lock = [k \in H!Areas |-> None]
      /\ level = {} /\ pte = {} /\ white = {} /\ live = {} /\ heapFree = HeapFrames /\ torn = FALSE
  BY DEF H!Init
<1>2. HeapCpus
  BY <1>1, IdleIs DEF HeapCpus, HeapHolds, Rec
<1>3. HeapStores
  BY <1>1 DEF HeapStores
<1>4. HeapKnown
  BY <1>1, IdleIs DEF HeapKnown, Knowing, Rec
<1>5. HeapCount
  <2>1. Cardinality(pte) = 0 /\ Cardinality(level) = 0
    BY <1>1, FS_EmptySet
  <2> QED BY <1>1, <2>1, MemoryAssumption DEF HeapCount
<1> QED BY <1>1, <1>2, <1>3, <1>4, <1>5 DEF HeapGood

LEMMA HeapNextStep == HeapInv /\ H!Next => HeapInv'
<1> SUFFICES ASSUME HeapInv, H!Next PROVE HeapInv'
  OBVIOUS
<1>1. torn = FALSE /\ HeapGood
  BY DEF HeapInv, HeapGood, H!Next
<1>2. CASE \E o \in H!Objects : H!Free(o)
  <2>1. HeapGood' /\ torn' = torn
    BY <1>1, <1>2, HeapFreeObject DEF H!Free
  <2> QED BY <1>1, <2>1 DEF HeapInv, HeapGood
<1>3. ASSUME NEW c \in Cpus, H!BackSlot(c) PROVE HeapInv'
  <2>1. (torn' = torn /\ HeapGood') \/ (torn' = FALSE /\ HeapGood') \/ torn' = TRUE
    BY <1>1, <1>3, HeapBackSlot
  <2> QED BY <1>1, <2>1 DEF HeapInv, HeapGood
<1>4. ASSUME NEW c \in Cpus,
             \/ \E o \in {"alloc", "reclaim", "walk", "dirty"} : H!Start(c, o)
             \/ H!WalkSlot(c) \/ H!WalkDirty(c) \/ H!Visited(c) \/ H!TakeLock(c) \/ H!SkipRegion(c) \/ H!SetupLevel(c)
             \/ H!TakeObject(c) \/ H!NextSlot(c) \/ H!LeaveRegion(c) \/ H!Return(c)
             \/ H!ReclaimSlot(c) \/ H!ReclaimLevel(c)
      PROVE  HeapInv'
  <2>1. HeapGood'
    BY <1>1, <1>4, HeapStart, HeapWalkSlot, HeapWalkDirty, HeapVisited, HeapTakeLock, HeapSkipRegion, HeapSetupLevel,
       HeapTakeObject, HeapNextSlot, HeapLeaveRegion, HeapReturn, HeapReclaimSlot, HeapReclaimLevel
  <2>2. torn' = torn
    BY <1>4 DEF H!Start, H!WalkSlot, H!WalkDirty, H!Visit, H!Visited, H!TakeLock, H!SkipRegion, H!SetupLevel,
       H!TakeObject, H!NextSlot, H!LeaveRegion, H!Return, H!ReclaimSlot, H!ReclaimLevel
  <2> QED BY <1>1, <2>1, <2>2 DEF HeapInv, HeapGood
<1> QED BY <1>2, <1>3, <1>4 DEF H!Next

LEMMA HeapStutter == HeapInv /\ UNCHANGED hvars => HeapInv'
BY DEF HeapInv, hvars, HeapCpus, HeapStores, HeapKnown, HeapCount

LEMMA HeapInvSuffices == HeapInv => ObjectsKeepTheirPages
<1> SUFFICES ASSUME HeapInv, ~ torn PROVE ObjectsKeepTheirPages
  BY DEF ObjectsKeepTheirPages, H!ObjectsKeepTheirPages
<1>1. HeapGood
  BY DEF HeapInv, HeapGood
<1>2. ASSUME NEW o \in live
      PROVE  o \in white /\ <<o[1], o[2]>> \in level /\ H!PagesOf(<<o[1], o[2]>>, o[3]) \subseteq pte
  BY <1>1 DEF HeapGood, HeapStores, Whole
<1>3. ASSUME NEW p \in pte PROVE <<p[1], p[2]>> \in level
  <2>1. p \in H!Pages
    BY <1>1 DEF HeapGood, HeapStores
  <2>2. PICK k, i : k = <<p[1], p[2]>> /\ i = p[3]
    OBVIOUS
  <2>3. k \in H!Areas /\ i \in 1..Slots /\ p \in H!PagesOf(k, i)
    BY <2>1, <2>2, PageHasSlot
  <2>4. k \in level
    BY <1>1, <2>3 DEF HeapGood, HeapStores, Whole
  <2> QED BY <2>2, <2>4
<1>4. heapFree + H!Cardinality(pte) + H!Cardinality(level) = HeapFrames
  BY <1>1, SameCardinality DEF HeapGood, HeapCount
<1>5. ASSUME NEW c \in Cpus, pos[c].op \in {"walk", "dirty"}, pos[c].keep
      PROVE  H!Area(c) \in level /\ H!PagesOf(H!Area(c), pos[c].slot) \subseteq pte
  BY <1>1, <1>5 DEF HeapGood, HeapKnown, Knowing, AreaOf, H!Area
<1> QED BY <1>2, <1>3, <1>4, <1>5 DEF ObjectsKeepTheirPages, H!ObjectsKeepTheirPages

\* An object that heap_alloc has handed out keeps its color, all its pages and its
\* page table while heap_free, heap_reclaim and the iterations of other CPUs go on,
\* every frame is free or present once, and what an iteration shows its callback
\* stays there, for every number of CPUs, regions, slots and frames, until an
\* allocation of several pages has run out of them half way (heap.c:225).
THEOREM ObjectsAlwaysKeepTheirPages == Spec => []ObjectsKeepTheirPages
<1>1. Init => HeapInv
  BY HeapInit DEF Init
<1>2. HeapInv /\ [Next]_vars => HeapInv'
  BY HeapNextStep, HeapStutter DEF Next, vars
<1> QED BY <1>1, <1>2, HeapInvSuffices, PTL DEF Spec
=============================================================================
