----------------------------- MODULE WaitQueue -----------------------------
(***************************************************************************)
(* The list of waiting threads of a waitable, kernel/thread/waitable.c: a   *)
(* doubly linked list of descriptors from which a select takes its own out  *)
(* of the middle, and may try to although a waker has taken it before.      *)
(***************************************************************************)
EXTENDS Naturals, Sequences

CONSTANT NULL

\* A wait_queue_t with the links of the descriptors.
WaitQueueType(D) ==
    [first : D \cup {NULL}, last : D \cup {NULL}, next : [D -> D \cup {NULL}], prev : [D -> D \cup {NULL}]]

wait_queue_enqueue(q, wt) ==
    IF q.last = NULL
    THEN [q EXCEPT !.next[wt] = NULL, !.prev[wt] = NULL, !.first = wt, !.last = wt]
    ELSE [q EXCEPT !.next = [@ EXCEPT ![wt] = NULL, ![q.last] = wt], !.prev[wt] = q.last, !.last = wt]

\* One round of wait_queue_dequeue, which takes q.first.
Unlinked(q) ==
    LET y == q.next[q.first]
    IN  IF y = NULL THEN [q EXCEPT !.first = NULL, !.last = NULL]
        ELSE [q EXCEPT !.prev[y] = NULL, !.first = y, !.next[q.first] = NULL]

wait_queue_dequeue_wt(q, wt) ==
    LET x == q.prev[wt]
        y == q.next[wt]
    IN  CASE x # NULL /\ y # NULL -> [q EXCEPT !.next = [@ EXCEPT ![x] = y, ![wt] = NULL],
                                               !.prev = [@ EXCEPT ![y] = x, ![wt] = NULL]]
          [] x # NULL /\ y = NULL -> [q EXCEPT !.next[x] = NULL, !.last = x, !.prev[wt] = NULL]
          [] x = NULL /\ y # NULL -> [q EXCEPT !.prev[y] = NULL, !.first = y, !.next[wt] = NULL]
          [] x = NULL /\ y = NULL -> IF q.first = wt THEN [q EXCEPT !.first = NULL, !.last = NULL] ELSE q

----------------------------------------------------------------------------
\* The list that holds the descriptors of s, and no stale link elsewhere.
ListOf(D, s) ==
    [first |-> IF s = << >> THEN NULL ELSE s[1],
     last  |-> IF s = << >> THEN NULL ELSE s[Len(s)],
     next  |-> [d \in D |-> IF \E i \in 1..Len(s) - 1 : s[i] = d
                            THEN s[(CHOOSE i \in 1..Len(s) - 1 : s[i] = d) + 1] ELSE NULL],
     prev  |-> [d \in D |-> IF \E i \in 2..Len(s) : s[i] = d
                            THEN s[(CHOOSE i \in 2..Len(s) : s[i] = d) - 1] ELSE NULL]]
=============================================================================
