------------------------------- MODULE Drivers -------------------------------
(***************************************************************************)
(* The managed side of the drivers, src/Pentagon/Pentagon: Kernel.Main      *)
(* scans the PCI functions into the resource manager and then registers the *)
(* virtio driver, which is offered each of them; a block device is brought  *)
(* up and read from through its virtqueue, while the device works on what   *)
(* it finds in the rings.                                                   *)
(*                                                                         *)
(* The constructor of VirtioBlock reads once; MaxReads lets it read again.  *)
(***************************************************************************)
EXTENDS Integers, Sequences, SequencesExt, FiniteSets

CONSTANTS Slots,                \* number of PCI devices, with two functions each
          Size,                 \* descriptors of the queue
          Wrap,                 \* 2^16: the ring indices are ushorts
          MaxReads, Nil

Functions2 == (1..Slots) \X {0, 1}
Kinds == {"absent", "block", "other"}

VARIABLES
    kind, multi,        \* what the functions are; bit 7 of HeaderType of function 0
    resources,          \* ResourceManager._resources
    offered,            \* functions the callback was called for, in order
    main,               \* at, and the index of the loop Main is in
    status,             \* DeviceStatus
    msix,               \* vectors that Configure was given, 0 or 1
    enabled,            \* QueueEnable
    next, more,         \* NextDescIdx and HasNext of the descriptors
    first,              \* FirstFree
    added,              \* AddedHeads
    avail,              \* [idx, ring] of the driver section
    seen,               \* LastSeenUsed
    used,               \* [idx, ring] of the device section
    taken,              \* how far the device has read the driver section
    flight,             \* heads the device works on
    irq,                \* the interrupt of the queue is pending
    reads

queue == <<next, more, first, added, avail, seen>>
device == <<used, taken, flight, irq>>
scan == <<kind, multi, resources, offered>>
dvars == <<scan, main, status, msix, enabled, queue, device, reads>>

\* The rings the driver can index: CreateMemory takes a number of elements, and
\* is given size / 2 and size / 8 of them.
AvailLen == Size \div 2
UsedLen == Size \div 8

\* new QueueInfo: a chain of all descriptors and empty rings.
FreshQueue ==
    /\ next' = [d \in 0..Size - 1 |-> IF d = Size - 1 THEN Nil ELSE d + 1] /\ more' = [d \in 0..Size - 1 |-> FALSE]
    /\ first' = 0 /\ added' = 0 /\ seen' = 0 /\ avail' = [idx |-> 0, ring |-> [i \in 0..AvailLen - 1 |-> 0]]
    /\ used' = [idx |-> 0, ring |-> [i \in 0..Size - 1 |-> 0]] /\ taken' = 0 /\ flight' = {} /\ irq' = FALSE

NoQueue ==
    /\ next = << >> /\ more = << >> /\ first = Nil /\ added = 0 /\ seen = 0 /\ avail = [idx |-> 0, ring |-> << >>]
    /\ used = [idx |-> 0, ring |-> << >>] /\ taken = 0 /\ flight = {} /\ irq = FALSE

Init ==
    /\ kind \in [Functions2 -> Kinds]
    /\ multi \in [1..Slots -> BOOLEAN]
    /\ resources = <<>> /\ offered = <<>> /\ main = [at |-> "scan", i |-> 1, fn |-> 0]
    /\ status = {} /\ msix = 0 /\ enabled = FALSE /\ NoQueue /\ reads = 0

At(l) == main.at = l
Goto(l) == main' = [main EXCEPT !.at = l]

\* Pci.Scan: function 0 of a device, and the others if it says it has any.
Scan ==
    LET f == <<main.i, main.fn>>
        others == main.fn = 0 /\ kind[f] # "absent" /\ multi[main.i]
    IN  /\ At("scan") /\ main.i <= Slots
        /\ resources' = IF kind[f] = "absent" THEN resources ELSE Append(resources, f)
        /\ main' = IF others THEN [main EXCEPT !.fn = 1] ELSE [main EXCEPT !.i = @ + 1, !.fn = 0]
        /\ UNCHANGED <<kind, multi, offered, status, msix, enabled, queue, device, reads>>

\* VirtioDevice.Register, and the callback for the next resource.
Register ==
    /\ At("scan") /\ main.i > Slots
    /\ main' = [at |-> "offer", i |-> 1, fn |-> 0]
    /\ UNCHANGED <<scan, status, msix, enabled, queue, device, reads>>

Offer ==
    /\ At("offer") /\ main.i <= Len(resources)
    /\ offered' = Append(offered, resources[main.i])
    /\ IF kind[resources[main.i]] = "block" THEN Goto("reset") ELSE main' = [main EXCEPT !.i = @ + 1]
    /\ UNCHANGED <<kind, multi, resources, status, msix, enabled, queue, device, reads>>

Taken ==
    /\ At("done")
    /\ resources' = RemoveAt(resources, main.i)
    /\ main' = [at |-> "offer", i |-> main.i, fn |-> 0]
    /\ UNCHANGED <<kind, multi, offered, status, msix, enabled, queue, device, reads>>

\* The constructor of VirtioPciDevice: reset and announce the driver, write the
\* features, configure the interrupt, set up the queue, start.  A device whose
\* queue has no entries leaves the driver without a queue.
Reset ==
    /\ At("reset") /\ status' = {"Acknowledge", "Driver"} /\ Goto("features")
    /\ msix' = 0 /\ enabled' = FALSE /\ reads' = 0
    /\ UNCHANGED <<scan, queue, device>>

Features ==
    /\ At("features") /\ status' = status \union {"FeaturesOk"} /\ Goto("msix")
    /\ UNCHANGED <<scan, msix, enabled, queue, device, reads>>

\* Msix.Configure(1).  A function without the MSI-X capability has no Msix, and
\* the call throws; when alloc_irq has no vector left, its error is dropped
\* (internal_calls.c:132) and the queue is set up with vector 0.
Configure ==
    /\ At("msix")
    /\ \/ msix' \in {0, 1} /\ Goto("queue")
       \/ UNCHANGED msix /\ Goto("threw")
    /\ UNCHANGED <<scan, status, enabled, queue, device, reads>>

QueueSetup ==
    /\ At("queue")
    /\ \/ FreshQueue /\ enabled' = TRUE /\ Goto("ok")
       \/ enabled' = FALSE /\ Goto("noQueue") /\ UNCHANGED <<queue, device>>
    /\ UNCHANGED <<scan, status, msix, reads>>

DriverOk ==
    /\ At("ok") \/ At("noQueue")
    /\ status' = status \union {"DriverOk"} /\ Goto(IF At("ok") THEN "read" ELSE "threw")
    /\ UNCHANGED <<scan, msix, enabled, queue, device, reads>>

\* GetNewDescriptor: the descriptors the free list gives for a request of three.
GetNewDescriptor(n) == IF n = Nil THEN Nil ELSE next[n]
Request ==
    LET b == GetNewDescriptor(first)
    IN  <<first, b, GetNewDescriptor(b)>>

\* Read up to Notify: a head in the ring and two more in the chain.  It throws
\* when the free list is empty or the ring is shorter than its index.
Read ==
    LET r == Request
        slot == (avail.idx + added) % Size
    IN  /\ At("read") /\ reads < MaxReads /\ reads' = reads + 1
        /\ IF slot >= AvailLen \/ Nil \in ToSet(r) THEN Goto("threw") /\ UNCHANGED queue
           ELSE /\ first' = next[r[3]]
                /\ next' = [next EXCEPT ![r[1]] = r[2], ![r[2]] = r[3]]
                /\ more' = [more EXCEPT ![r[1]] = TRUE, ![r[2]] = TRUE, ![r[3]] = FALSE]
                /\ avail' = [avail EXCEPT !.ring[slot] = r[1]]
                /\ added' = added + 1
                /\ Goto("notify") /\ UNCHANGED seen
        /\ UNCHANGED <<scan, status, msix, enabled, device>>

Notify ==
    /\ At("notify") /\ Goto("wait")
    /\ avail' = [avail EXCEPT !.idx = (@ + added) % Wrap] /\ added' = 0
    /\ UNCHANGED <<scan, status, msix, enabled, next, more, first, seen, device, reads>>

\* The device takes a head, works on it, and returns it with an interrupt.
DeviceTakes ==
    /\ enabled /\ "DriverOk" \in status /\ taken # avail.idx
    /\ flight' = flight \union {avail.ring[taken % Size]} /\ taken' = (taken + 1) % Wrap
    /\ UNCHANGED <<scan, main, status, msix, enabled, queue, used, irq, reads>>

DeviceReturns ==
    /\ \E h \in flight :
          /\ flight' = flight \ {h}
          /\ used' = [idx |-> (used.idx + 1) % Wrap, ring |-> [used.ring EXCEPT ![used.idx % Size] = h]]
    /\ irq' = TRUE
    /\ UNCHANGED <<scan, main, status, msix, enabled, queue, taken, reads>>

\* irq_wait parks until the interrupt; with vector 0 its first assertion fails
\* and the thread stays where it is.
Wait ==
    /\ At("wait") /\ msix = 1 /\ irq /\ irq' = FALSE /\ Goto("drain")
    /\ UNCHANGED <<scan, status, msix, enabled, queue, used, taken, flight, reads>>

\* FreeChain: of the chain, the last descriptor goes back to the free list.
LastOf(h) == CHOOSE d \in {h, next[h], next[next[h]]} : ~more[d]

FreeChainUncounted(h) ==
    LET d == IF more[h] THEN LastOf(h) ELSE h IN
    /\ more' = [more EXCEPT ![d] = TRUE] /\ next' = [next EXCEPT ![d] = first] /\ first' = d
    /\ UNCHANGED seen

FreeChain(h) ==
    LET d == IF more[h] THEN LastOf(h) ELSE h IN
    /\ more' = [more EXCEPT ![d] = TRUE] /\ next' = [next EXCEPT ![d] = first] /\ first' = d
    /\ seen' = (seen + 1) % Wrap

Drain ==
    /\ At("drain")
    /\ IF seen = used.idx THEN Goto("read") /\ UNCHANGED <<next, more, first, seen>>
       ELSE IF seen % Size >= UsedLen THEN Goto("threw") /\ UNCHANGED <<next, more, first, seen>>
       ELSE FreeChain(used.ring[seen % Size]) /\ UNCHANGED main
    /\ UNCHANGED <<scan, status, msix, enabled, added, avail, device, reads>>

\* The constructor of the device returns to CheckDevice, which took it.
Constructed ==
    /\ At("read") /\ reads >= 1 /\ flight = {} /\ Goto("done")
    /\ UNCHANGED <<scan, status, msix, enabled, queue, device, reads>>

Next ==
    \/ Scan \/ Register \/ Offer \/ Taken
    \/ Reset \/ Features \/ Configure \/ QueueSetup \/ DriverOk
    \/ Read \/ Notify \/ Wait \/ Drain \/ Constructed
    \/ DeviceTakes \/ DeviceReturns

\* The first n + 1 places of the free list, of which the last is Nil.
FreeList[n \in Nat] ==
    IF n = 0 THEN <<first>>
    ELSE LET s == FreeList[n - 1] IN IF s[Len(s)] = Nil THEN s ELSE Append(s, next[s[Len(s)]])

ChainOf(h) == IF ~more[h] THEN {h} ELSE IF ~more[next[h]] THEN {h, next[h]} ELSE {h, next[h], next[next[h]]}
Outstanding == {avail.ring[i % Size] : i \in taken..avail.idx - 1} \union flight
               \union {used.ring[i % Size] : i \in seen..used.idx - 1}

\* A descriptor belongs to one request: the free list has no descriptor of a
\* chain that the device has or will see, has no cycle, and two requests share
\* no descriptor (QueueInfo.GetNewDescriptor, FreeChain).
DescriptorsOwnedOnce ==
    enabled =>
       LET free == FreeList[Size] IN
       /\ \A i, j \in 1..Len(free) : free[i] = free[j] => i = j
       /\ \A h \in Outstanding : ChainOf(h) \intersect ToSet(free) = {}
       /\ \A h, g \in Outstanding : h # g => ChainOf(h) \intersect ChainOf(g) = {}

\* Registering after the scan, the driver is offered each present function the
\* scan has found once, whatever it took before, and the block devices among
\* those it was offered leave the list (ResourceManager.Register).
EveryFunctionOffered ==
    At("offer") /\ main.i > Len(resources) =>
       LET found == {f \in Functions2 : kind[f] # "absent" /\ (f[2] = 1 => multi[f[1]] /\ kind[<<f[1], 0>>] # "absent")} IN
       /\ ToSet(offered) = found /\ Len(offered) = Cardinality(found)
       /\ ToSet(resources) = {f \in found : kind[f] # "block"}
=============================================================================
