----------------------------- MODULE TimerHeap -----------------------------
(***************************************************************************)
(* The 4-ary heap of kernel/thread/timer.c: h is the array of timers       *)
(* (position 1 is timers[0]), when gives the time of each timer.           *)
(***************************************************************************)
EXTENDS Integers, Sequences

Parent(i) == (i - 2) \div 4 + 1

Children(i, n) == {j \in (4 * i - 2)..(4 * i + 1) : j <= n}

\* i, its parent, and so on up to the top.
Ancestors(i) ==
    LET above[j \in 1..i] == {j} \cup (IF j = 1 THEN {} ELSE above[Parent(j)])
    IN  above[i]

\* Where siftup_timer puts the timer at i: the result of the function.
SiftUpTo(h, when, i) ==
    LET up[j \in 1..i] ==
            IF j > 1 /\ when[h[i]] < when[h[Parent(j)]] THEN up[Parent(j)] ELSE j
    IN  up[i]

siftup_timer(h, when, i) ==
    LET to == SiftUpTo(h, when, i)
    IN  [k \in DOMAIN h |-> IF k = to THEN h[i]
                            ELSE IF k \in Ancestors(i) /\ k > to THEN h[Parent(k)]
                            ELSE h[k]]

\* The child siftdown_timer compares with: the first of the earliest ones.
FirstChild(h, when, i) ==
    CHOOSE j \in Children(i, Len(h)) :
        \A k \in Children(i, Len(h)) : when[h[j]] < when[h[k]] \/ (when[h[j]] = when[h[k]] /\ j <= k)

siftdown_timer(h, when, i) ==
    LET down[j \in DOMAIN h] ==
            IF Children(j, Len(h)) = {} \/ when[h[FirstChild(h, when, j)]] >= when[h[i]]
            THEN j ELSE down[FirstChild(h, when, j)]
        to == down[i]
    IN  [k \in DOMAIN h |-> IF k = to THEN h[i]
                            ELSE IF k \in Ancestors(to) /\ k >= i THEN h[FirstChild(h, when, k)]
                            ELSE h[k]]

\* do_add_timer on the array.
Added(h, when, t) == siftup_timer(Append(h, t), when, Len(h) + 1)

\* The array with its last timer in the place of the i-th.
Replaced(h, i) ==
    LET n == Len(h)
    IN  IF i = n THEN SubSeq(h, 1, n - 1) ELSE [SubSeq(h, 1, n - 1) EXCEPT ![i] = h[n]]

\* do_delete_timer0 on the array.
Deleted0(h, when) ==
    IF Len(h) = 1 THEN << >> ELSE siftdown_timer(Replaced(h, 1), when, 1)

\* do_delete_timer on the array, and the smallest index it changed.
Deleted(h, when, i) ==
    IF i = Len(h) THEN Replaced(h, i)
    ELSE siftdown_timer(siftup_timer(Replaced(h, i), when, i), when, i)

SmallestChanged(h, when, i) == IF i = Len(h) THEN i ELSE SiftUpTo(Replaced(h, i), when, i)

IsHeap(h, when) == \A i \in 2..Len(h) : when[h[Parent(i)]] <= when[h[i]]
=============================================================================
