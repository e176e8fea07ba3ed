----------------------------- MODULE WaitCache ------------------------------
(***************************************************************************)
(* The descriptors a thread waits with, acquire_waiting_thread and          *)
(* release_waiting_thread of kernel/thread/thread.c: an array per CPU in    *)
(* front of a global list.  Preemption is disabled around the array, and    *)
(* the global list, a chain through `next', has a lock.                     *)
(***************************************************************************)
EXTENDS Naturals, Sequences, SequencesExt, FiniteSets

CONSTANTS Cpus, Descriptors, Nil,
          WtHalf                \* half of the length of m_wt_cache, which is 128

VARIABLES
    cache,              \* m_wt_cache of each CPU, up to m_wt_cache_len
    head,               \* m_global_wt_cache
    link,               \* next of each descriptor
    held,               \* descriptors that were acquired and not released
    made                \* descriptors that malloc has returned

wvars == <<cache, head, link, held, made>>

Init ==
    /\ cache = [c \in Cpus |-> <<>>] /\ head = Nil /\ link = [w \in Descriptors |-> Nil]
    /\ held = {} /\ made = {}

\* The first n descriptors of the global list, or all of them.
FirstOf[n \in Nat] ==
    IF n = 0 THEN <<>>
    ELSE LET s == FirstOf[n - 1]
             w == IF s = <<>> THEN head ELSE link[s[Len(s)]]
         IN  IF w = Nil THEN s ELSE Append(s, w)

\* Up to half of the array comes from the global list, and else one from malloc.
Refill(c) ==
    LET s == FirstOf[WtHalf] IN
    /\ cache[c] = <<>>
    /\ IF s # <<>>
       THEN /\ head' = link[s[Len(s)]]
            /\ link' = [w \in Descriptors |-> IF w \in ToSet(s) THEN Nil ELSE link[w]]
            /\ cache' = [cache EXCEPT ![c] = Front(s)]
            /\ held' = held \union {s[Len(s)]}
            /\ UNCHANGED made
       ELSE \E w \in Descriptors \ made :
            made' = made \union {w} /\ held' = held \union {w} /\ UNCHANGED <<cache, head, link>>

Acquire(c) ==
    \/ Refill(c)
    \/ /\ cache[c] # <<>>
       /\ held' = held \union {cache[c][Len(cache[c])]}
       /\ cache' = [cache EXCEPT ![c] = Front(@)]
       /\ UNCHANGED <<head, link, made>>

\* A transfer that leaves the half it has chained up in the array.
TransferKeeps(s, c, w) ==
    LET chain == Reverse(SubSeq(s, WtHalf + 1, 2 * WtHalf)) IN
    /\ link' = [link EXCEPT ![w] = Nil, ![chain[WtHalf]] = head]
    /\ head' = chain[WtHalf]
    /\ cache' = [cache EXCEPT ![c] = Append(Tail(s), w)]

\* Half of a full array is chained up from its end, and the chain goes to the
\* global list: by its last descriptor.
Transfer(s, c, w) ==
    LET chain == Reverse(SubSeq(s, WtHalf + 1, 2 * WtHalf)) IN
    /\ link' = [d \in Descriptors |->
                  IF d = w THEN Nil
                  ELSE IF d \notin ToSet(chain) THEN link[d]
                  ELSE LET i == CHOOSE j \in 1..WtHalf : chain[j] = d IN IF i = WtHalf THEN head ELSE chain[i + 1]]
    /\ head' = chain[WtHalf]
    /\ cache' = [cache EXCEPT ![c] = Append(SubSeq(s, 1, WtHalf), w)]

Release(c, w) ==
    /\ w \in held /\ held' = held \ {w}
    /\ IF Len(cache[c]) < 2 * WtHalf
       THEN /\ cache' = [cache EXCEPT ![c] = Append(@, w)] /\ link' = [link EXCEPT ![w] = Nil]
            /\ UNCHANGED head
       ELSE Transfer(cache[c], c, w)
    /\ UNCHANGED made

Next == \E c \in Cpus : Acquire(c) \/ \E w \in Descriptors : Release(c, w)

\* The descriptors of the global list.
Chain == ToSet(FirstOf[Cardinality(Descriptors)])

\* No descriptor is handed out twice, and one that is handed out is clean: a
\* descriptor is held by one waiter or free in one place, and its next is NULL
\* unless it is part of the global list (a waiter's next is the link of the
\* queue it waits in).
WaitersGetCleanDescriptors ==
    LET free == UNION {ToSet(cache[c]) : c \in Cpus} IN
    /\ held \intersect (free \union Chain) = {} /\ free \intersect Chain = {}
    /\ \A c, d \in Cpus : \A i \in DOMAIN cache[c], j \in DOMAIN cache[d] : cache[c][i] = cache[d][j] => c = d /\ i = j
    /\ \A w \in held \union free : link[w] = Nil
    /\ \A c \in Cpus : Len(cache[c]) <= 2 * WtHalf

\* What the comment in release_waiting_thread says, "Transfer half of the
\* local cache to the central cache" (thread.c:114): none gets lost.
TransferKeepsAll == held \union Chain \union UNION {ToSet(cache[c]) : c \in Cpus} = made
=============================================================================
