---- MODULE MCWaitable ----
\* Two waitables, an unbuffered one and one of size 1, and three threads.  The
\* two selects want opposite things of both waitables, so they can pair with
\* each other twice over, and with the plain calls.
EXTENDS Waitable, TLC, SelectOrder
CONSTANTS t1, t2, t3
MCSize == (1 :> 0) @@ (2 :> 1)
MCCalls == {<<1, "wait">>, <<2, "send">>}
MCSelects == {{<<1, "send">>, <<2, "wait">>}, {<<1, "wait">>, <<2, "send">>}}
Symmetry == Permutations(Threads)

\* Waitable takes the locks of a select in the order of the addresses and its
\* cases in any order.  For every outcome of the random choices and all
\* addresses of up to MaxCases waitables, some of them named twice, those are
\* the orders the code computes.
MaxCases == 7
ASSUME SelectOrders ==
    \A n \in 1..MaxCases :
        /\ \A addr \in [0..n - 1 -> 1..3] : OrdersLocks(n, addr, [i \in 0..n - 1 |-> i])
        /\ n <= 4 => {PollOrder(n, j) : j \in {f \in [0..n - 1 -> 0..n - 1] : \A i \in 0..n - 1 : f[i] <= i}}
                       = {p \in [0..n - 1 -> 0..n - 1] : \A i, k \in 0..n - 1 : p[i] = p[k] => i = k}

\* Waitable keeps the queues as sequences.  For every queue of up to four
\* descriptors the linked lists of the code do the same: at the end, at the
\* front, anywhere in the middle, and for a descriptor that has been taken out.
WQ == INSTANCE WaitQueue WITH NULL <- 0
Descriptors == 1..4
ASSUME QueuesAreLists ==
    \A n \in 0..4 : \A s \in [1..n -> Descriptors] :
        IsInjective(s) =>
            LET q == WQ!ListOf(Descriptors, s)
            IN  /\ \A d \in Descriptors \ ToSet(s) :
                      /\ WQ!wait_queue_enqueue(q, d) = WQ!ListOf(Descriptors, Append(s, d))
                      /\ WQ!wait_queue_dequeue_wt(q, d) = q
                /\ \A i \in 1..n : WQ!wait_queue_dequeue_wt(q, s[i]) = WQ!ListOf(Descriptors, RemoveAt(s, i))
                /\ n > 0 => WQ!Unlinked(q) = WQ!ListOf(Descriptors, Tail(s))
====
