---------------------------- MODULE SelectOrder ----------------------------
(***************************************************************************)
(* The two orders waitable_select (kernel/thread/waitable.c) goes by: a     *)
(* random one in which it looks at its cases, and the order of the          *)
(* addresses, found with a heap sort, in which it takes their locks.        *)
(*                                                                         *)
(* addr[i] is the address of waitables[i]; the arrays are functions on      *)
(* 0..n-1, as in the code.                                                  *)
(***************************************************************************)
EXTENDS Naturals

\* pollorder, when fastrandn(i + 1) answers j[i]: an inside-out shuffle.
PollOrder(n, j) ==
    LET P[k \in 0..n] ==
            IF k = 0 THEN [i \in 0..n - 1 |-> 0]
            ELSE [P[k - 1] EXCEPT ![k - 1] = P[k - 1][j[k - 1]], ![j[k - 1]] = k - 1]
    IN  P[n]

\* The case o goes to place j of the heap l, or above it.
SiftUp(l, addr, o, j) ==
    LET U[k \in 0..j] ==
            LET up == (k - 1) \div 2
            IN  IF k > 0 /\ addr[l[up]] < addr[o] THEN [U[up] EXCEPT ![k] = l[up]] ELSE [l EXCEPT ![k] = o]
    IN  U[j]

\* The case o goes to the root of the heap l of n cases, or below it.
SiftDown(l, addr, o, n) ==
    LET D[j \in 0..n] ==
            LET k == 2 * j + 1
                c == IF k + 1 < n /\ addr[l[k]] < addr[l[k + 1]] THEN k + 1 ELSE k
            IN  IF k < n /\ addr[o] < addr[l[c]] THEN [D[c] EXCEPT ![j] = l[c]] ELSE [l EXCEPT ![j] = o]
    IN  D[0]

Heapified(n, addr, poll) ==
    LET H[k \in 0..n] == IF k = 0 THEN poll ELSE SiftUp(H[k - 1], addr, poll[k - 1], k - 1)
    IN  H[n]

\* lockorder
LockOrder(n, addr, poll) ==
    LET S[k \in 0..n] ==
            IF k = 0 THEN Heapified(n, addr, poll)
            ELSE LET l == S[k - 1] i == n - k
                 IN  SiftDown([l EXCEPT ![i] = l[0]], addr, l[i], i)
    IN  S[n]

----------------------------------------------------------------------------
\* The lock order names each case once, and the addresses never go down along
\* it, so that two selects take the locks they share in the same order and a
\* waitable that is named twice is met twice in a row.
OrdersLocks(n, addr, poll) ==
    LET l == LockOrder(n, addr, poll)
    IN  /\ {l[i] : i \in 0..n - 1} = 0..n - 1
        /\ \A i \in 1..n - 1 : addr[l[i - 1]] <= addr[l[i]]
=============================================================================
