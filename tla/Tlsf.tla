-------------------------------- MODULE Tlsf --------------------------------
(***************************************************************************)
(* The kernel heap, kernel/mem/tlsf.c behind the locked calls of            *)
(* kernel/mem/malloc.c.  Memory is counted in words of 8 bytes, and a block *)
(* is named by the word its size is in: its memory starts one word later,   *)
(* and its prev_phys_block is the word before, the last of its neighbour.   *)
(* That word is the neighbour's data while the neighbour is used.           *)
(***************************************************************************)
EXTENDS Integers, Sequences, SequencesExt, FiniteSets

CONSTANTS SlLog,                \* SL_INDEX_COUNT_LOG2
          MaxLog,               \* log2 of block_size_max
          Pool,                 \* words of the block that tlsf_add_pool makes
          Sizes, Aligns, None

VARIABLES
    heap,               \* blk: the block headers; lists, fl, sl: control_t; ok
    given               \* allocations that were not freed: block, size, align

kvars == <<heap, given>>

block_size_min == 3
Header == 4             \* sizeof(block_header_t)
SMALL_BLOCK_SIZE == 2 ^ SlLog
FL_INDEX_COUNT == MaxLog - SlLog + 1
Index == (0..FL_INDEX_COUNT - 1) \X (0..2 ^ SlLog - 1)

tlsf_fls(n) == CHOOSE k \in 0..MaxLog + 1 : 2 ^ k <= n /\ n < 2 ^ (k + 1)
align_up(x, align) == ((x + align - 1) \div align) * align

adjust_request_size(size, align) ==
    IF size = 0 \/ align_up(size, align) >= 2 ^ MaxLog THEN 0
    ELSE IF align_up(size, align) < block_size_min THEN block_size_min ELSE align_up(size, align)

mapping_insert(size) ==
    IF size < SMALL_BLOCK_SIZE THEN <<0, size>>
    ELSE LET fl == tlsf_fls(size) IN <<fl - SlLog + 1, size \div 2 ^ (fl - SlLog) - 2 ^ SlLog>>

mapping_search(size) ==
    mapping_insert(IF size < SMALL_BLOCK_SIZE THEN size ELSE size + 2 ^ (tlsf_fls(size) - SlLog) - 1)

\* The headers.  A header that is written for the first time has the flags its
\* writer gives it before anybody reads them.
block_next(h, b) == b + 1 + h.blk[b].size
Put(h, b, r) == [h EXCEPT !.blk = [x \in DOMAIN h.blk \union {b} |-> IF x = b THEN r ELSE h.blk[x]]]
Merged(h, b) == [h EXCEPT !.blk = [x \in DOMAIN h.blk \ {b} |-> h.blk[x]]]
Insist(h, p) == [h EXCEPT !.ok = @ /\ p]

block_link_next(h, b) == [h EXCEPT !.blk[block_next(h, b)].prev = b]

block_mark_as_free(h, b) ==
    [block_link_next(h, b) EXCEPT !.blk[block_next(h, b)].prevFree = TRUE, !.blk[b].free = TRUE]

block_mark_as_used(h, b) ==
    [h EXCEPT !.blk[block_next(h, b)].prevFree = FALSE, !.blk[block_next(h, b)].prev = None, !.blk[b].free = FALSE]

\* The free lists and their bitmaps.
insert_free_block(h, b, i) ==
    [h EXCEPT !.lists[i] = <<b>> \o @, !.fl = @ \union {i[1]}, !.sl = @ \union {i}]

remove_free_block(h, b, i) ==
    LET rest == SelectSeq(h.lists[i], LAMBDA x : x # b)
        sl == IF rest = <<>> THEN h.sl \ {i} ELSE h.sl
    IN  [h EXCEPT !.lists[i] = rest, !.sl = sl, !.fl = {f \in @ : f # i[1] \/ \E j \in sl : j[1] = f}]

block_insert(h, b) == insert_free_block(h, b, mapping_insert(h.blk[b].size))
block_remove(h, b) == remove_free_block(h, b, mapping_insert(h.blk[b].size))

\* search_suitable_block: the first list from the index on that has a block, in
\* its first level or in the next one that has any.
LeastOf(S) == CHOOSE x \in S : \A y \in S : x[2] <= y[2]

search_suitable_block(h, i) ==
    LET level == {j \in h.sl : j[1] = i[1] /\ j[2] >= i[2]}
        above == {f \in h.fl : f > i[1]}
        next == CHOOSE f \in above : \A g \in above : f <= g
    IN  IF level # {} THEN LeastOf(level)
        ELSE IF above = {} THEN None
        ELSE LeastOf({j \in h.sl : j[1] = next})

block_locate_free(h, size) ==
    LET i == mapping_search(size)
        found == IF size = 0 \/ i[1] >= FL_INDEX_COUNT THEN None ELSE search_suitable_block(h, i)
    IN  IF found = None THEN [h |-> h, b |-> None]
        ELSE LET b == Head(h.lists[found])
             IN  [h |-> remove_free_block(Insist(h, h.blk[b].size >= size), b, found), b |-> b]

\* Splitting and merging.
block_can_split(h, b, size) == h.blk[b].size >= Header + size
Rest(b, size) == b + 1 + size

block_split(h, b, size) ==
    LET left == h.blk[b].size - (size + 1)
        g == Put(h, Rest(b, size), [size |-> left, free |-> FALSE, prevFree |-> FALSE, prev |-> None])
    IN  block_mark_as_free(Insist([g EXCEPT !.blk[b].size = size], left >= block_size_min), Rest(b, size))

block_absorb(h, b, next) ==
    LET size == h.blk[next].size IN block_link_next(Merged([h EXCEPT !.blk[b].size = @ + size + 1], next), b)

block_merge_prev(h, b) ==
    LET prev == h.blk[b].prev IN
    IF ~h.blk[b].prevFree THEN [h |-> h, b |-> b]
    ELSE [h |-> block_absorb(block_remove(Insist(h, h.blk[prev].free), prev), prev, b), b |-> prev]

block_merge_next(h, b) ==
    LET next == block_next(h, b) IN
    IF ~h.blk[next].free THEN h ELSE block_absorb(block_remove(h, next), b, next)

block_trim_free(h, b, size) ==
    IF ~block_can_split(h, b, size) THEN h
    ELSE block_insert([block_link_next(block_split(h, b, size), b) EXCEPT !.blk[Rest(b, size)].prevFree = TRUE], Rest(b, size))

block_trim_used(h, b, size) ==
    IF ~block_can_split(h, b, size) THEN h
    ELSE block_insert(block_merge_next(block_split(h, b, size), Rest(b, size)), Rest(b, size))

\* The block in front of the one that is wanted goes back to its list.
block_trim_free_leading(h, b, gap) ==
    IF ~block_can_split(h, b, gap) THEN [h |-> h, b |-> b]
    ELSE LET r == Rest(b, gap - 1)
             g == [block_split(h, b, gap - 1) EXCEPT !.blk[r].prevFree = TRUE]
         IN  [h |-> block_insert(block_link_next(g, b), b), b |-> r]

block_prepare_used(h, b, size) == block_mark_as_used(block_trim_free(Insist(h, size # 0), b, size), b)

\* tlsf_memalign: the gap before the first aligned word must hold a free block.
GapOf(ptr, align) ==
    LET first == align_up(ptr, align)
        gap == first - ptr
        off == IF Header - gap > align THEN Header - gap ELSE align
    IN  IF gap # 0 /\ gap < Header THEN align_up(first + off, align) - ptr ELSE gap

tlsf_memalign(h, align, size) ==
    LET adjust == adjust_request_size(size, 1)
        withGap == adjust_request_size(adjust + align + Header, align)
        l == block_locate_free(h, IF adjust # 0 /\ align > 1 THEN withGap ELSE adjust)
        gap == GapOf(l.b + 1, align)
        t == IF gap = 0 THEN l ELSE block_trim_free_leading(Insist(l.h, gap >= Header), l.b, gap)
    IN  IF l.b = None THEN l ELSE [h |-> block_prepare_used(t.h, t.b, adjust), b |-> t.b]

\* tlsf_free without block_merge_prev.
tlsf_free_forward(h, b) == block_insert(block_merge_next(block_mark_as_free(h, b), b), b)

tlsf_free(h, b) ==
    LET p == block_merge_prev(block_mark_as_free(Insist(h, ~h.blk[b].free), b), b)
    IN  block_insert(block_merge_next(p.h, p.b), p.b)

\* tlsf_realloc of a block, with a size.  Words that move are copied.
tlsf_realloc(h, b, size) ==
    LET next == block_next(h, b)
        cursize == h.blk[b].size
        combined == cursize + h.blk[next].size + 1
        adjust == adjust_request_size(size, 1)
        m == tlsf_memalign(h, 2, size)
        grown == IF adjust > cursize THEN block_mark_as_used(block_merge_next(h, b), b) ELSE h
    IN  IF adjust > cursize /\ (~h.blk[next].free \/ adjust > combined)
        THEN IF m.b = None THEN m ELSE [h |-> tlsf_free(m.h, b), b |-> m.b]
        ELSE [h |-> block_trim_used(grown, b, adjust), b |-> b]

\* tlsf_create and tlsf_add_pool: one free block and a block of size 0 behind it.
control_construct == [blk |-> << >>, lists |-> [i \in Index |-> <<>>], fl |-> {}, sl |-> {}, ok |-> TRUE]

tlsf_add_pool(h) ==
    LET b == Put(h, 0, [size |-> Pool, free |-> TRUE, prevFree |-> FALSE, prev |-> None])
        e == Put(b, Pool + 1, [size |-> 0, free |-> FALSE, prevFree |-> TRUE, prev |-> 0])
    IN  block_insert(e, 0)

Init == heap = tlsf_add_pool(control_construct) /\ given = {}

malloc(size, align) ==
    LET m == tlsf_memalign(heap, align, size) IN
    /\ heap' = m.h
    /\ given' = IF m.b = None THEN given ELSE given \union {[b |-> m.b, size |-> size, align |-> align]}

free(a) == heap' = tlsf_free(heap, a.b) /\ given' = given \ {a}

\* A size of 0 frees, and an allocation that fails leaves the old one.
realloc(a, size) ==
    LET m == tlsf_realloc(heap, a.b, size) IN
    IF size = 0 THEN free(a)
    ELSE /\ heap' = m.h
         /\ given' = IF m.b = None THEN given
                     ELSE (given \ {a}) \union {[b |-> m.b, size |-> size, align |-> IF m.b = a.b THEN a.align ELSE 2]}

Next ==
    \/ \E size \in Sizes, align \in Aligns : malloc(size, align)
    \/ \E a \in given : free(a)
    \/ \E a \in given, size \in Sizes \union {0} : realloc(a, size)

\* What tlsf_check insists on: bitmaps and lists agree, and the blocks of a
\* list are free, in the list of their size and have no free neighbour.
tlsf_check ==
    \A i \in Index :
       /\ i[1] \notin heap.fl => i \notin heap.sl
       /\ i \notin heap.sl <=> heap.lists[i] = <<>>
       /\ \A b \in ToSet(heap.lists[i]) :
             LET next == block_next(heap, b) IN
             /\ heap.blk[b].free /\ ~heap.blk[b].prevFree
             /\ ~heap.blk[next].free /\ heap.blk[next].prevFree
             /\ heap.blk[b].size >= block_size_min
             /\ mapping_insert(heap.blk[b].size) = i

\* What tlsf_check_pool insists on along the pool: the flag of the neighbour.
integrity_walker(b, next) == heap.blk[next].prevFree = heap.blk[b].free

\* The kernel heap stays whole under any sequence of malloc, malloc_aligned,
\* realloc and free of the sizes in Sizes, all below block_size_max (for realloc
\* beyond that see ReallocKeepsTheBuffer): tlsf_check and tlsf_check_pool
\* succeed and no assertion fires, the blocks follow one another without a hole up to the end of the
\* pool, a free block is in one list once, and an allocation has the size and
\* the alignment that was asked for and shares no word with another.
HeapSound ==
    /\ heap.ok /\ tlsf_check
    /\ \A b \in DOMAIN heap.blk \ {Pool + 1} :
          /\ block_next(heap, b) \in DOMAIN heap.blk
          /\ \A x \in DOMAIN heap.blk : x > b => x >= block_next(heap, b)
          /\ integrity_walker(b, block_next(heap, b))
          /\ heap.blk[b].free =>
               /\ heap.blk[block_next(heap, b)].prev = b
               /\ LET s == heap.lists[mapping_insert(heap.blk[b].size)] IN \E i \in DOMAIN s : s[i] = b /\ \A j \in DOMAIN s \ {i} : s[j] # b
          /\ ~heap.blk[b].free <=> \E a \in given : a.b = b
    /\ \A a, c \in given : a.b = c.b => a = c
    /\ \A a \in given : heap.blk[a.b].size >= a.size /\ (a.b + 1) % a.align = 0

\* "a request that cannot be satisfied will leave the original buffer
\* untouched" (tlsf.c:1203), also when its size is block_size_max or more.
ReallocKeepsTheBuffer == \A a \in given : heap.blk[a.b].size >= block_size_min
=============================================================================
