---------------------------- MODULE RandomOrder ----------------------------
(***************************************************************************)
(* The order in which steal_work looks at the CPUs, kernel/thread/          *)
(* scheduler.c: from a random start in steps that have no factor in common  *)
(* with their number.                                                       *)
(***************************************************************************)
EXTENDS Naturals, Sequences

gcd(a, b) ==
    LET G[x, y \in 0..a + b] == IF y = 0 THEN x ELSE G[y, x % y]
    IN  G[a, b]

\* m_random_order_coprimes after random_order_reset(count)
Coprimes(count) == SelectSeq([i \in 1..count |-> i], LAMBDA i : gcd(i, count) = 1)

\* random_order_start, random_enum_next and random_enum_position: where the
\* enumeration of the random number i is after k steps.
Position(count, i, k) ==
    LET cs == Coprimes(count)
        inc == cs[((i \div count) % Len(cs)) + 1]
        P[n \in 0..k] == IF n = 0 THEN i % count ELSE (P[n - 1] + inc) % count
    IN  P[k]

----------------------------------------------------------------------------
\* Whatever random number it starts from, the enumeration meets every CPU
\* before it is done, and so none twice.
MeetsEveryCpu(count) ==
    \A i \in 0..count * Len(Coprimes(count)) - 1 :
        {Position(count, i, k) : k \in 0..count - 1} = 0..count - 1
=============================================================================
