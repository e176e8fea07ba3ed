--------------------------- MODULE WaitableProofs ---------------------------
(***************************************************************************)
(* The channels of waitable.c for every finite set of threads and          *)
(* waitables, every size, and any selects over them.                       *)
(***************************************************************************)
EXTENDS Waitable, FiniteSetTheorems, SequenceTheorems, WellFoundedInduction, TLAPS

\* u has a descriptor in the queue of c; t has taken u off a queue and owes it a
\* wake-up.
Mem(s, u) == \E i \in 1..Len(s) : s[i] = u
In(u, c) == Mem(queue[c], u)
Owes(t, u) == Mem(todo[t], u)
NoDup(s) == \A i, j \in 1..Len(s) : s[i] = s[j] => i = j

Won(u) == op[u].select /\ select_done[u]
Sleeps(u) == pc[u] = "parked" /\ status[u] = "waiting" /\ \A t \in Threads : ~Owes(t, u)
Runs(u) == pc[u] \in {"sel_relock", "sel_pass3"} \/ (pc[u] = "parked" /\ status[u] = "runnable")
One(S) == \E c \in Cases : S = {c}

\* What each thread is doing.
OpOK(t) ==
    /\ pc[t] \in {"op", "ready"} \/ (pc[t] = "parked" /\ ~op[t].select) => One(op[t].cases)
    /\ pc[t] \in {"sel_lock", "sel_pass1", "sel_relock", "sel_pass3"} => op[t].select /\ op[t].cases # {}
    /\ pc[t] \in {"idle", "close", "closing", "op"} => ~op[t].select
    /\ pc[t] = "closing" => \E w \in Waitables : op[t].cases = {w} \X Dirs
    /\ pc[t] = "parked" <=> status[t] # "running"
    /\ select_done[t] => op[t].select /\ (pc[t] = "parked" \/ Runs(t))
    /\ success[t] => Runs(t)
OpInv == \A t \in Threads : OpOK(t)

\* The case by which t wakes u.
By(t, u) == IF pc[t] = "ready" THEN Partner(TheCase(t)) ELSE waker[u]

\* Whom a thread has yet to wake: it waits, nobody else will wake it, and the
\* descriptor through which it was taken has left its queue.
TodoOK(t) ==
    /\ NoDup(todo[t])
    /\ todo[t] # << >> => pc[t] \in {"ready", "closing", "close"}
    /\ pc[t] = "ready" => Len(todo[t]) = 1
    /\ pc[t] = "close" => Len(todo[t]) > 0
OwedOK(t, u) == Owes(t, u) =>
    /\ status[u] = "waiting" /\ (op[u].select => select_done[u])
    /\ By(t, u) \in op[u].cases /\ ~In(u, By(t, u))
TodoInv ==
    /\ \A t \in Threads : TodoOK(t)
    /\ \A s, t, u \in Threads : Owes(s, u) /\ Owes(t, u) => s = t
    /\ \A t, u \in Threads : OwedOK(t, u)

\* Who stands in the queues: the sleepers, in those of all their cases, and the
\* selects that have been won and have not cleaned up yet, in some of theirs.
InOK(u, c) == In(u, c) => c \in op[u].cases /\ (Sleeps(u) \/ Won(u))
SleepOK(u) == Sleeps(u) => ~Won(u) /\ \A c \in op[u].cases : In(u, c)
RunOK(u) == Runs(u) =>
    /\ op[u].select => select_done[u]
    /\ waker[u] \in op[u].cases /\ ~In(u, waker[u])
QueueInv ==
    /\ \A c \in Cases : NoDup(queue[c])
    /\ \A u \in Threads, c \in Cases : InOK(u, c)
    /\ \A u \in Threads : SleepOK(u)
    /\ \A u \in Threads : RunOK(u)

LockOK(t) ==
    /\ \A w \in unlocks[t] : lock[w] = t /\ w \in Ws(t) /\ op[t].select /\ pc[t] \in {"parked", "sel_relock"}
    /\ pc[t] \in {"closing", "sel_pass1"} => \A w \in Ws(t) : lock[w] = t
LockInv == \A t \in Threads : LockOK(t)

\* NobodySleepsInVain, whoever holds the lock of w; only a close that has not
\* finished has sleepers left on a closed waitable.
Closing(w) == \E t \in Threads : pc[t] = "closing" /\ w \in Ws(t)
VainOK(u, w) ==
    /\ <<w, "wait">> \in op[u].cases => count[w] = 0
    /\ <<w, "send">> \in op[u].cases => count[w] = Size[w]
    /\ \A dir \in Dirs : <<w, dir>> \in op[u].cases =>
          /\ closed[w] => Closing(w)
          /\ \A v \in Threads \ {u} : Sleeps(v) => <<w, Opposite(dir)>> \notin op[v].cases
SleepInv == \A u \in Threads : Sleeps(u) => \A w \in Waitables : VainOK(u, w)

\* The threads of Completed.
Done(u, c) ==
    \/ pc[u] = "ready" /\ TheCase(u) = c
    \/ \E s \in Threads : pc[s] = "ready" /\ Owes(s, u) /\ Partner(TheCase(s)) = c
    \/ Runs(u) /\ success[u] /\ waker[u] = c

ShapeInv == OpInv /\ TodoInv /\ QueueInv
WInv == TypeOK /\ ShapeInv /\ LockInv /\ SleepInv

----------------------------------------------------------------------------
(* Sequences and the queues made of them.                                  *)

LEMMA MinIn ==
    ASSUME NEW S \in SUBSET Nat, S # {}
    PROVE  Min(S) \in S /\ \A k \in S : Min(S) <= k
<1> DEFINE R == {ss \in Nat \X Nat : ss[1] < ss[2]}
<1>1. IsWellFoundedOn(R, Nat)
  BY NatLessThanWellFounded, Zenon DEF OpToRel
<1>2. \E x \in S : \A y \in S : ~ (<<y, x>> \in R)
  <2> HIDE DEF R
  <2> QED BY <1>1, WFMin, Zenon
<1>3. PICK x \in S : \A y \in S : ~ (<<y, x>> \in R)
  BY <1>2
<1>4. ASSUME NEW y \in S PROVE x <= y
  <2>1. ~ (<<y, x>> \in R)
    BY <1>3
  <2>2. x \in Nat /\ y \in Nat
    OBVIOUS
  <2>3. ~ (y < x)
    BY <2>1, <2>2
  <2> QED BY <2>2, <2>3
<1> QED BY <1>4 DEF Min

\* What is left behind position m.
LEMMA Behind ==
    ASSUME NEW A, NEW s \in Seq(A), NEW m \in 1..Len(s), NoDup(s)
    PROVE  LET r == SubSeq(s, m + 1, Len(s))
           IN  /\ r \in Seq(A) /\ NoDup(r)
               /\ \A u : Mem(r, u) => Mem(s, u)
               /\ ~Mem(r, s[m])
               /\ \A k \in 1..Len(s) : k > m => Mem(r, s[k])
<1> DEFINE r == SubSeq(s, m + 1, Len(s))
<1>1. r \in Seq(A) /\ Len(r) = Len(s) - m /\ \A i \in 1..Len(r) : r[i] = s[m + i]
  OBVIOUS
<1> HIDE DEF r
<1>2. NoDup(r)
  BY <1>1 DEF NoDup
<1>3. \A u : Mem(r, u) => Mem(s, u)
  BY <1>1 DEF Mem
<1>4. ~Mem(r, s[m])
  <2> SUFFICES ASSUME NEW i \in 1..Len(r), r[i] = s[m] PROVE FALSE
    BY DEF Mem
  <2>1. m + i \in 1..Len(s) /\ s[m + i] = s[m]
    BY <1>1
  <2> QED BY <2>1 DEF NoDup
<1>5. ASSUME NEW k \in 1..Len(s), k > m PROVE Mem(r, s[k])
  <2>1. k - m \in 1..Len(r) /\ r[k - m] = s[k]
    BY <1>1, <1>5
  <2> QED BY <2>1 DEF Mem
<1> QED BY <1>1, <1>2, <1>3, <1>4, <1>5 DEF r

LEMMA Added ==
    ASSUME NEW A, NEW s \in Seq(A), NEW t \in A, NoDup(s), ~Mem(s, t)
    PROVE  LET r == Append(s, t)
           IN  /\ r \in Seq(A) /\ NoDup(r)
               /\ \A u : Mem(r, u) <=> Mem(s, u) \/ u = t
<1> DEFINE r == Append(s, t)
<1>1. r \in Seq(A) /\ Len(r) = Len(s) + 1 /\ r[Len(s) + 1] = t /\ \A i \in 1..Len(s) : r[i] = s[i]
  OBVIOUS
<1>2. \A i \in 1..Len(r) : i \in 1..Len(s) \/ i = Len(s) + 1
  BY <1>1
<1>3. NoDup(r)
  BY <1>1, <1>2 DEF NoDup, Mem
<1>4. \A u : Mem(r, u) => Mem(s, u) \/ u = t
  BY <1>1, <1>2 DEF Mem
<1>5. \A u : Mem(s, u) => Mem(r, u)
  BY <1>1 DEF Mem
<1>6. Mem(r, t)
  <2>1. Len(s) + 1 \in 1..Len(r)
    BY <1>1
  <2> QED BY <2>1, <1>1 DEF Mem
<1> QED BY <1>1, <1>3, <1>4, <1>5, <1>6

LEMMA Pushed ==
    ASSUME NEW A, NEW s \in Seq(A), NEW t \in A, NoDup(s), ~Mem(s, t)
    PROVE  LET r == <<t>> \o s
           IN  /\ r \in Seq(A) /\ NoDup(r) /\ Len(r) = Len(s) + 1
               /\ \A u : Mem(r, u) <=> Mem(s, u) \/ u = t
<1> DEFINE r == <<t>> \o s
<1>1. r \in Seq(A) /\ Len(r) = Len(s) + 1 /\ r[1] = t /\ \A i \in 2..Len(r) : r[i] = s[i - 1]
  OBVIOUS
<1>2. \A i \in 1..Len(r) : i = 1 \/ (i \in 2..Len(r) /\ i - 1 \in 1..Len(s))
  BY <1>1
<1>3. NoDup(r)
  BY <1>1, <1>2 DEF NoDup, Mem
<1>4. \A u : Mem(r, u) => Mem(s, u) \/ u = t
  BY <1>1, <1>2 DEF Mem
<1>5. ASSUME NEW u, Mem(s, u) PROVE Mem(r, u)
  <2>1. PICK i \in 1..Len(s) : s[i] = u
    BY <1>5 DEF Mem
  <2>2. i + 1 \in 2..Len(r) /\ i + 1 \in 1..Len(r) /\ (i + 1) - 1 = i
    BY <1>1
  <2> QED BY <2>1, <2>2, <1>1 DEF Mem
<1>6. Mem(r, t)
  <2>1. 1 \in 1..Len(r)
    BY <1>1
  <2> QED BY <2>1, <1>1 DEF Mem
<1> QED BY <1>1, <1>3, <1>4, <1>5, <1>6

LEMMA Popped ==
    ASSUME NEW A, NEW s \in Seq(A), s # << >>, NoDup(s)
    PROVE  /\ Tail(s) \in Seq(A) /\ NoDup(Tail(s)) /\ Len(Tail(s)) = Len(s) - 1
           /\ Head(s) \in A /\ Mem(s, Head(s)) /\ Head(s) = s[1] /\ Len(s) > 0
           /\ \A u : Mem(Tail(s), u) <=> Mem(s, u) /\ u # Head(s)
<1>1. /\ Tail(s) \in Seq(A) /\ Len(Tail(s)) = Len(s) - 1 /\ Len(s) \in Nat /\ Len(s) > 0 /\ Head(s) = s[1]
      /\ \A i \in 1..Len(Tail(s)) : Tail(s)[i] = s[i + 1]
  OBVIOUS
<1>2. \A i \in 1..Len(Tail(s)) : i + 1 \in 1..Len(s) /\ i + 1 # 1
  BY <1>1
<1>3. NoDup(Tail(s))
  BY <1>1, <1>2 DEF NoDup
<1>4. 1 \in 1..Len(s)
  BY <1>1
<1>5. \A u : Mem(Tail(s), u) => Mem(s, u) /\ u # Head(s)
  BY <1>1, <1>2, <1>4 DEF Mem, NoDup
<1>6. ASSUME NEW u, Mem(s, u), u # Head(s) PROVE Mem(Tail(s), u)
  <2>1. PICK i \in 1..Len(s) : s[i] = u
    BY <1>6 DEF Mem
  <2>2. i - 1 \in 1..Len(Tail(s)) /\ (i - 1) + 1 = i
    BY <2>1, <1>1, <1>6
  <2> QED BY <2>1, <2>2, <1>1 DEF Mem
<1>7. Mem(s, Head(s)) /\ Head(s) \in A
  BY <1>1, <1>4 DEF Mem
<1> QED BY <1>1, <1>3, <1>5, <1>6, <1>7

LEMMA Emptiness == NoDup(<< >>) /\ \A u : ~Mem(<< >>, u)
BY DEF NoDup, Mem

LEMMA Single == ASSUME NEW x PROVE NoDup(<<x>>) /\ Len(<<x>>) = 1 /\ \A u : Mem(<<x>>, u) <=> u = x
BY DEF NoDup, Mem

\* wait_queue_remove of pass 3.
LEMMA Removed ==
    ASSUME NEW A, NEW s \in Seq(A), NEW t, NoDup(s)
    PROVE  LET r == RemoveFirst(s, t)
           IN  /\ r \in Seq(A) /\ NoDup(r)
               /\ \A u : Mem(r, u) <=> Mem(s, u) /\ u # t
<1> DEFINE r == RemoveFirst(s, t)
<1>1. CASE ~Mem(s, t)
  <2>1. r = s
    BY <1>1 DEF RemoveFirst, Mem
  <2> QED BY <1>1, <2>1
<1>2. CASE Mem(s, t)
  <2> DEFINE I == {i \in 1..Len(s) : s[i] = t}
  <2>1. I # {} /\ I \in SUBSET Nat
    BY <1>2 DEF Mem
  <2>2. Min(I) \in I
    BY <2>1, MinIn
  <2>3. r = RemoveAt(s, Min(I))
    BY <1>2, <2>1 DEF RemoveFirst, SelectInSeq, Mem
  <2>4. PICK m \in 1..Len(s) : m = Min(I) /\ s[m] = t
    BY <2>2
  <2> HIDE DEF I
  <2>5. r = SubSeq(s, 1, m - 1) \o SubSeq(s, m + 1, Len(s))
    BY <2>3, <2>4 DEF RemoveAt
  <2> DEFINE a == SubSeq(s, 1, m - 1)
             b == SubSeq(s, m + 1, Len(s))
  <2>6. a \in Seq(A) /\ Len(a) = m - 1 /\ \A i \in 1..(m - 1) : a[i] = s[i]
    OBVIOUS
  <2>7. b \in Seq(A) /\ Len(b) = Len(s) - m /\ \A i \in 1..(Len(s) - m) : b[i] = s[m + i]
    OBVIOUS
  <2> HIDE DEF a, b, r
  <2>8. r = a \o b
    BY <2>5 DEF a, b
  <2>9. r \in Seq(A) /\ Len(r) = Len(s) - 1
    BY <2>6, <2>7, <2>8
  <2>10. ASSUME NEW i \in 1..Len(r) PROVE r[i] = IF i < m THEN s[i] ELSE s[i + 1]
    <3>1. CASE i < m
      BY <3>1, <2>6, <2>7, <2>8
    <3>2. CASE ~(i < m)
      <4>1. r[i] = b[i - Len(a)]
        BY <3>2, <2>6, <2>7, <2>8, <2>9
      <4>2. i - Len(a) = i - (m - 1) /\ i - (m - 1) \in 1..(Len(s) - m) /\ m + (i - (m - 1)) = i + 1
        BY <3>2, <2>6, <2>9
      <4> QED BY <3>2, <4>1, <4>2, <2>7
    <3> QED BY <3>1, <3>2
  <2>11. NoDup(r)
    <3> SUFFICES ASSUME NEW i \in 1..Len(r), NEW j \in 1..Len(r), r[i] = r[j] PROVE i = j
      BY DEF NoDup
    <3>1. i \in 1..Len(s) /\ i + 1 \in 1..Len(s) /\ j \in 1..Len(s) /\ j + 1 \in 1..Len(s)
      BY <2>9
    <3>2. r[i] = (IF i < m THEN s[i] ELSE s[i + 1]) /\ r[j] = (IF j < m THEN s[j] ELSE s[j + 1])
      BY <2>10
    <3>3. (IF i < m THEN i ELSE i + 1) = (IF j < m THEN j ELSE j + 1)
      <4> DEFINE x == IF i < m THEN i ELSE i + 1
                 y == IF j < m THEN j ELSE j + 1
      <4>1. s[x] = s[y] /\ x \in 1..Len(s) /\ y \in 1..Len(s)
        BY <3>1, <3>2
      <4> QED BY <4>1 DEF NoDup
    <3> QED BY <3>3
  <2>12. ASSUME NEW u, Mem(r, u) PROVE Mem(s, u) /\ u # t
    <3>1. PICK i \in 1..Len(r) : r[i] = u
      BY <2>12 DEF Mem
    <3>2. i \in 1..Len(s) /\ i + 1 \in 1..Len(s)
      BY <2>9
    <3>3. u = IF i < m THEN s[i] ELSE s[i + 1]
      BY <3>1, <2>10
    <3>4. u # s[m]
      BY <3>2, <3>3 DEF NoDup
    <3> QED BY <3>2, <3>3, <3>4, <2>4 DEF Mem
  <2>13. ASSUME NEW u, Mem(s, u), u # t PROVE Mem(r, u)
    <3>1. PICK i \in 1..Len(s) : s[i] = u
      BY <2>13 DEF Mem
    <3>2. i # m
      BY <3>1, <2>13, <2>4
    <3>3. CASE i < m
      <4>1. i \in 1..Len(r)
        BY <3>3, <2>9
      <4> QED BY <4>1, <3>3, <3>1, <2>10 DEF Mem
    <3>4. CASE i > m
      <4>1. i - 1 \in 1..Len(r) /\ ~(i - 1 < m) /\ (i - 1) + 1 = i
        BY <3>4, <2>9
      <4>2. r[i - 1] = u
        BY <4>1, <3>1, <2>10
      <4> QED BY <4>1, <4>2 DEF Mem
    <3> QED BY <3>2, <3>3, <3>4
  <2> QED BY <2>9, <2>11, <2>12, <2>13 DEF r
<1> QED BY <1>1, <1>2

----------------------------------------------------------------------------
(* The queues under wait_queue_dequeue.                                    *)

LEMMA Partners ==
    ASSUME NEW c \in Cases
    PROVE  Partner(c) \in Cases /\ Partner(c) # c /\ Partner(Partner(c)) = c /\ Partner(c)[1] = c[1] /\ c[1] \in Waitables
           /\ c = <<c[1], c[2]>> /\ c[2] \in Dirs
BY DEF Cases, Partner, Opposite, Dirs

LEMMA FirstLive ==
    ASSUME TypeOK, NEW c \in Cases, HasLive(c), NoDup(queue[c])
    PROVE  /\ First(c) \in Threads /\ In(First(c), c) /\ Live(First(c))
           /\ Rest(c) \in Seq(Threads) /\ NoDup(Rest(c)) /\ ~Mem(Rest(c), First(c))
           /\ \A u : Mem(Rest(c), u) => In(u, c)
           /\ \A u : In(u, c) /\ Live(u) /\ u # First(c) => Mem(Rest(c), u)
<1>1. queue[c] \in Seq(Threads)
  BY DEF TypeOK
<1>2. LiveIn(c) \in SUBSET Nat /\ LiveIn(c) # {}
  BY <1>1 DEF LiveIn, HasLive
<1>3. Min(LiveIn(c)) \in LiveIn(c) /\ \A k \in LiveIn(c) : Min(LiveIn(c)) <= k
  BY <1>2, MinIn
<1>4. PICK m \in 1..Len(queue[c]) : m = Min(LiveIn(c)) /\ Live(queue[c][m]) /\ \A k \in LiveIn(c) : m <= k
  <2>1. \A i \in LiveIn(c) : i \in 1..Len(queue[c]) /\ Live(queue[c][i])
    BY <1>1 DEF LiveIn
  <2> QED BY <2>1, <1>3
<1>5. First(c) = queue[c][m] /\ Rest(c) = SubSeq(queue[c], m + 1, Len(queue[c]))
  BY <1>4 DEF First, Rest
<1>6. /\ Rest(c) \in Seq(Threads) /\ NoDup(Rest(c)) /\ ~Mem(Rest(c), queue[c][m])
      /\ \A u : Mem(Rest(c), u) => Mem(queue[c], u)
      /\ \A k \in 1..Len(queue[c]) : k > m => Mem(Rest(c), queue[c][k])
  BY <1>1, <1>5, Behind
<1>7. First(c) \in Threads /\ In(First(c), c) /\ Live(First(c))
  BY <1>1, <1>4, <1>5 DEF In, Mem
<1>8. ASSUME NEW u, In(u, c), Live(u), u # First(c) PROVE Mem(Rest(c), u)
  <2>1. PICK k \in 1..Len(queue[c]) : queue[c][k] = u
    BY <1>8 DEF In, Mem
  <2>2. k \in LiveIn(c)
    BY <2>1, <1>1, <1>8 DEF LiveIn
  <2>3. k > m
    BY <2>1, <2>2, <1>4, <1>5, <1>8
  <2> QED BY <2>1, <2>3, <1>6
<1> QED BY <1>5, <1>6, <1>7, <1>8 DEF In

LEMMA NoneLive ==
    ASSUME TypeOK, NEW c \in Cases, ~HasLive(c), NEW u, In(u, c)
    PROVE  ~Live(u)
<1>1. queue[c] \in Seq(Threads)
  BY DEF TypeOK
<1> QED BY <1>1 DEF In, Mem, HasLive, LiveIn

\* Queue q keeps every live thread other than x.
Keeps(q, c, x) ==
    /\ q \in Seq(Threads) /\ NoDup(q)
    /\ \A u \in Threads : Mem(q, u) => In(u, c)
    /\ \A u \in Threads : In(u, c) /\ Live(u) /\ u # x => Mem(q, u)
Trim(q, x) == \A c \in Cases : Keeps(q[c], c, x)

LEMMA KeepsAll ==
    ASSUME TypeOK, NEW c \in Cases, NoDup(queue[c]), NEW x PROVE Keeps(queue[c], c, x)
BY DEF TypeOK, Keeps, In

LEMMA KeepsNone ==
    ASSUME TypeOK, NEW c \in Cases, ~HasLive(c), NEW x PROVE Keeps(<< >>, c, x)
BY Emptiness, NoneLive DEF Keeps

LEMMA KeepsRest ==
    ASSUME TypeOK, NEW c \in Cases, HasLive(c), NoDup(queue[c]) PROVE Keeps(Rest(c), c, First(c))
BY FirstLive DEF Keeps

LEMMA TrimNone ==
    ASSUME TypeOK, QueueInv, UNCHANGED queue PROVE Trim(queue', NoThread)
BY KeepsAll DEF Trim, QueueInv

----------------------------------------------------------------------------
(* What a step of t does to the invariant.                                 *)

LEMMA TheOne ==
    ASSUME NEW t, One(op[t].cases)
    PROVE  TheCase(t) \in Cases /\ op[t].cases = {TheCase(t)}
BY DEF One, TheCase

LEMMA Facts ==
    ASSUME TypeOK, ShapeInv
    PROVE  /\ \A t, u \in Threads : Owes(t, u) =>
                pc[u] = "parked" /\ status[u] = "waiting" /\ pc[t] \in {"ready", "closing", "close"} /\ t # u
           /\ \A u \in Threads : Sleeps(u) => ~success[u] /\ ~Runs(u) /\ Live(u)
           /\ \A u \in Threads : Runs(u) => ~Sleeps(u) /\ \A t \in Threads : ~Owes(t, u)
           /\ \A u \in Threads, c \in Cases : In(u, c) => pc[u] = "parked" \/ Runs(u)
           /\ \A u \in Threads, c \in Cases : In(u, c) /\ Live(u) => Sleeps(u)
           /\ \A u \in Threads : pc[u] \notin {"parked", "sel_relock", "sel_pass3"} =>
                ~Sleeps(u) /\ ~Runs(u) /\ ~success[u] /\ ~select_done[u] /\ status[u] = "running"
<1>1. \A t, u \in Threads : Owes(t, u) => status[u] = "waiting"
  BY DEF ShapeInv, TodoInv, OwedOK
<1>2. \A t, u \in Threads : Owes(t, u) => pc[u] = "parked"
  BY <1>1 DEF ShapeInv, OpInv, OpOK
<1>3. \A t, u \in Threads : Owes(t, u) => todo[t] # << >>
  BY Emptiness DEF Owes
<1>4. \A t, u \in Threads : Owes(t, u) => pc[t] \in {"ready", "closing", "close"}
  BY <1>3 DEF ShapeInv, TodoInv, TodoOK
<1>5. \A u \in Threads : Sleeps(u) => ~success[u] /\ ~Runs(u) /\ Live(u)
  BY DEF ShapeInv, OpInv, OpOK, QueueInv, SleepOK, Sleeps, Runs, Live, Won
<1>6. \A u \in Threads : Runs(u) => status[u] # "waiting" /\ ~Sleeps(u)
  BY DEF ShapeInv, OpInv, OpOK, Sleeps, Runs
<1>7. \A u \in Threads, c \in Cases : In(u, c) => pc[u] = "parked" \/ Runs(u)
  BY DEF ShapeInv, OpInv, OpOK, QueueInv, InOK, Sleeps, Won
<1>8. \A u \in Threads, c \in Cases : In(u, c) /\ Live(u) => Sleeps(u)
  BY DEF ShapeInv, QueueInv, InOK, Live, Won
<1>9. \A u \in Threads : pc[u] \notin {"parked", "sel_relock", "sel_pass3"} =>
                ~Sleeps(u) /\ ~Runs(u) /\ ~success[u] /\ ~select_done[u] /\ status[u] = "running"
  BY DEF ShapeInv, OpInv, OpOK, Sleeps, Runs
<1> QED BY <1>1, <1>2, <1>4, <1>5, <1>6, <1>7, <1>8, <1>9

Others(t) == \A s \in Threads \ {t} : pc'[s] = pc[s] /\ op'[s] = op[s]
Plain == {"idle", "op", "closing", "close", "sel_lock", "sel_pass1"}

\* t goes on and wakes nobody.
Passes(t) ==
    /\ Others(t) /\ Trim(queue', NoThread)
    /\ UNCHANGED <<status, select_done, waker, success, todo>>
    /\ pc[t] \in Plain /\ pc'[t] \in Plain
    /\ todo[t] # << >> => pc'[t] \in {"closing", "close"}
    /\ pc'[t] = "close" => Len(todo[t]) > 0

LEMMA PassesStates ==
    ASSUME TypeOK, ShapeInv, NEW t \in Threads, Passes(t)
    PROVE  /\ \A u \in Threads : Sleeps(u)' <=> Sleeps(u)
           /\ \A u \in Threads : Runs(u)' <=> Runs(u)
           /\ \A u \in Threads : Sleeps(u) => u # t
           /\ \A u \in Threads : Runs(u) => u # t
           /\ \A s, u \in Threads : Owes(s, u)' <=> Owes(s, u)
           /\ \A s, u \in Threads : By(s, u)' = By(s, u)
<1>1. \A s, u \in Threads : Owes(s, u)' <=> Owes(s, u)
  BY DEF Passes, Owes
<1>2. \A u \in Threads : Sleeps(u)' <=> Sleeps(u)
  BY <1>1 DEF Passes, Sleeps, Others, Plain
<1>3. \A u \in Threads : Runs(u)' <=> Runs(u)
  BY DEF Passes, Runs, Others, Plain
<1>4. \A u \in Threads : (Sleeps(u) => u # t) /\ (Runs(u) => u # t)
  BY DEF Passes, Runs, Sleeps, Plain
<1>5. \A s, u \in Threads : By(s, u)' = By(s, u)
  <2>1. \A s \in Threads \ {t} : TheCase(s)' = TheCase(s) /\ pc'[s] = pc[s]
    BY DEF TheCase, Passes, Others
  <2>2. pc[t] # "ready" /\ pc'[t] # "ready" /\ waker' = waker
    BY DEF Passes, Plain
  <2> QED BY <2>1, <2>2 DEF By, Partner
<1> QED BY <1>1, <1>2, <1>3, <1>4, <1>5

LEMMA PassesShape ==
    ASSUME TypeOK, ShapeInv, NEW t \in Threads, Passes(t), OpOK(t)'
    PROVE  ShapeInv'
<1> USE PassesStates
<1>1. OpInv'
  <2> SUFFICES ASSUME NEW u \in Threads, u # t PROVE OpOK(u)'
    BY DEF OpInv
  <2>1. OpOK(u) /\ pc'[u] = pc[u] /\ op'[u] = op[u] /\ status' = status /\ select_done' = select_done /\ success' = success
    BY DEF ShapeInv, OpInv, Passes, Others
  <2> QED BY <2>1 DEF OpOK
<1>2. \A u \in Threads, c \in Cases : In(u, c)' => In(u, c)
  BY DEF Passes, Trim, Keeps, In
<1>3. \A u \in Threads, c \in Cases : In(u, c) /\ Live(u) => In(u, c)'
  BY WaitableAssumption DEF Passes, Trim, Keeps, In
<1>4. TodoInv'
  <2>1. \A s \in Threads : TodoOK(s)'
    BY DEF TodoOK, ShapeInv, TodoInv, Passes, Others, Plain
  <2>2. \A r, s, u \in Threads : Owes(r, u)' /\ Owes(s, u)' => r = s
    BY DEF ShapeInv, TodoInv
  <2>3. ASSUME NEW s \in Threads, NEW u \in Threads, Owes(s, u)' PROVE OwedOK(s, u)'
    <3>1. Owes(s, u) /\ OwedOK(s, u) /\ By(s, u)' = By(s, u)
      BY <2>3 DEF ShapeInv, TodoInv
    <3>2. u # t
      BY <3>1, Facts DEF Passes, Plain
    <3>3. op'[u] = op[u] /\ status' = status /\ select_done' = select_done
      BY <3>2 DEF Passes, Others
    <3>4. By(s, u) \in op[u].cases /\ op[u].cases \subseteq Cases /\ ~In(u, By(s, u))
      BY <3>1 DEF OwedOK, TypeOK
    <3>5. ~In(u, By(s, u))'
      BY <3>1, <3>4, <1>2 DEF In
    <3> QED BY <3>1, <3>3, <3>5 DEF OwedOK
  <2> QED BY <2>1, <2>2, <2>3 DEF TodoInv, OwedOK
<1>5. QueueInv'
  <2>1. \A c \in Cases : NoDup(queue[c])'
    BY DEF Passes, Trim, Keeps
  <2>2. ASSUME NEW u \in Threads, NEW c \in Cases, In(u, c)' PROVE InOK(u, c)'
    <3>1. In(u, c) /\ InOK(u, c)
      BY <2>2, <1>2 DEF ShapeInv, QueueInv
    <3>2. u # t
      BY <3>1, Facts DEF Passes, Plain
    <3> QED BY <3>1, <3>2 DEF InOK, Won, Passes, Others
  <2>3. ASSUME NEW u \in Threads, Sleeps(u)' PROVE SleepOK(u)'
    <3>1. Sleeps(u) /\ SleepOK(u) /\ u # t /\ op[u].cases \subseteq Cases
      BY <2>3 DEF ShapeInv, QueueInv, TypeOK
    <3>2. op'[u] = op[u] /\ select_done' = select_done
      BY <3>1 DEF Passes, Others
    <3>3. ~Won(u)' /\ Live(u)
      BY <3>1, <3>2 DEF Won, Live, SleepOK
    <3>4. \A c \in op[u].cases : In(u, c)'
      BY <3>1, <3>3, <1>3 DEF SleepOK
    <3> QED BY <3>2, <3>3, <3>4 DEF SleepOK
  <2>4. ASSUME NEW u \in Threads, Runs(u)' PROVE RunOK(u)'
    <3>1. Runs(u) /\ RunOK(u) /\ u # t /\ op[u].cases \subseteq Cases
      BY <2>4 DEF ShapeInv, QueueInv, TypeOK
    <3>2. op'[u] = op[u] /\ select_done' = select_done /\ waker' = waker
      BY <3>1 DEF Passes, Others
    <3>3. ~In(u, waker[u])'
      BY <3>1, <3>2, <1>2 DEF RunOK, In
    <3> QED BY <3>1, <3>2, <3>3 DEF RunOK, In
  <2> QED BY <2>1, <2>2, <2>3, <2>4 DEF QueueInv, InOK, SleepOK, RunOK
<1> QED BY <1>1, <1>4, <1>5 DEF ShapeInv

LEMMA PassesDone ==
    ASSUME TypeOK, ShapeInv, NEW t \in Threads, Passes(t)
    PROVE  \A u \in Threads : \A c : Done(u, c)' <=> Done(u, c)
<1> USE PassesStates
<1>1. \A s \in Threads : (pc'[s] = "ready" <=> pc[s] = "ready") /\ (pc[s] = "ready" => TheCase(s)' = TheCase(s))
  BY DEF Passes, Others, Plain, TheCase
<1>2. \A s \in Threads : pc[s] = "ready" => Partner(TheCase(s))' = Partner(TheCase(s))
  BY <1>1 DEF Partner
<1>3. success' = success /\ waker' = waker
  BY DEF Passes
<1> QED BY <1>1, <1>2, <1>3 DEF Done

\* t takes x, which sleeps, off the queue of p; it wakes it after the unlock.
Taker(t, x, p) ==
    \/ /\ pc[t] \in {"op", "sel_pass1"} /\ pc'[t] = "ready" /\ waker' = waker
       /\ One(op'[t].cases) /\ Partner(TheCase(t))' = p /\ Len(todo'[t]) = 1
    \/ /\ pc[t] = "closing" /\ pc'[t] = "closing" /\ op'[t] = op[t]
       /\ waker'[x] = p /\ \A u \in Threads \ {x} : waker'[u] = waker[u]
Claims(t, x, p) ==
    /\ Others(t) /\ Trim(queue', x) /\ In(x, p) /\ Live(x) /\ ~Mem(queue'[p], x)
    /\ Taker(t, x, p)
    /\ UNCHANGED status /\ select_done' = Claim(x) /\ \A u \in Threads : success'[u] = success[u]
    /\ NoDup(todo'[t]) /\ \A u \in Threads : Mem(todo'[t], u) <=> Mem(todo[t], u) \/ u = x
    /\ \A s \in Threads \ {t} : todo'[s] = todo[s]

LEMMA ClaimsStates ==
    ASSUME TypeOK, ShapeInv, NEW t \in Threads, NEW x \in Threads, NEW p \in Cases, Claims(t, x, p)
    PROVE  /\ t # x /\ Sleeps(x) /\ p \in op[x].cases
           /\ \A u \in Threads : Sleeps(u)' <=> Sleeps(u) /\ u # x
           /\ \A u \in Threads : Runs(u)' <=> Runs(u)
           /\ \A u \in Threads : Runs(u) => u # t /\ u # x
           /\ \A u \in Threads : Sleeps(u) => u # t
           /\ \A s, u \in Threads : Owes(s, u)' <=> Owes(s, u) \/ (s = t /\ u = x)
           /\ \A s, u \in Threads : Owes(s, u) => u # x /\ u # t /\ By(s, u)' = By(s, u)
           /\ By(t, x)' = p
           /\ \A u \in Threads \ {x} : select_done'[u] = select_done[u] /\ waker'[u] = waker[u]
           /\ select_done'[x] = op[x].select
<1>1. Sleeps(x) /\ p \in op[x].cases
  BY Facts DEF Claims, ShapeInv, QueueInv, InOK
<1>2. pc[t] \in {"op", "sel_pass1", "closing"} /\ pc'[t] \in {"ready", "closing"}
  BY DEF Claims, Taker
<1>3. t # x
  BY <1>1, <1>2 DEF Sleeps
<1>4. \A s, u \in Threads : Owes(s, u)' <=> Owes(s, u) \/ (s = t /\ u = x)
  BY DEF Claims, Owes
<1>5. \A u \in Threads : Sleeps(u)' <=> Sleeps(u) /\ u # x
  BY <1>2, <1>4 DEF Claims, Sleeps, Others
<1>6. \A u \in Threads : Runs(u)' <=> Runs(u)
  BY <1>2 DEF Claims, Runs, Others
<1>7. \A u \in Threads : (Runs(u) => u # t /\ u # x) /\ (Sleeps(u) => u # t)
  BY <1>1, <1>2, Facts DEF Runs, Sleeps
<1>8. /\ \A u \in Threads \ {x} : select_done'[u] = select_done[u] /\ waker'[u] = waker[u]
      /\ select_done'[x] = op[x].select
  BY DEF Claims, Claim, TypeOK, Taker
<1>9. ASSUME NEW s \in Threads, NEW u \in Threads, Owes(s, u) PROVE u # x /\ u # t /\ By(s, u)' = By(s, u)
  <2>1. u # x /\ u # t
    BY <1>1, <1>2, <1>9, Facts DEF Sleeps
  <2>2. waker'[u] = waker[u]
    BY <2>1, <1>8
  <2>3. CASE s # t
    <3>1. pc'[s] = pc[s] /\ TheCase(s)' = TheCase(s)
      BY <2>3 DEF Claims, Others, TheCase
    <3> QED BY <3>1, <2>1, <2>2 DEF By, Partner
  <2>4. CASE s = t
    <3>1. pc[t] = "closing" /\ pc'[t] = "closing"
      BY <2>4, <1>9, Facts DEF Claims, Taker
    <3> QED BY <3>1, <2>4, <2>1, <2>2 DEF By
  <2> QED BY <2>3, <2>4
<1>10. By(t, x)' = p
  BY DEF Claims, Taker, By
<1> QED BY <1>1, <1>3, <1>4, <1>5, <1>6, <1>7, <1>8, <1>9, <1>10

LEMMA ClaimsShape ==
    ASSUME TypeOK, ShapeInv, NEW t \in Threads, NEW x \in Threads, NEW p \in Cases, Claims(t, x, p), OpOK(t)'
    PROVE  ShapeInv'
<1> USE ClaimsStates
<1>0. \A u \in Threads \ {t} : op'[u] = op[u] /\ pc'[u] = pc[u] /\ op[u].cases \subseteq Cases
  BY DEF Claims, Others, TypeOK
<1>1. OpInv'
  <2> SUFFICES ASSUME NEW u \in Threads, u # t PROVE OpOK(u)'
    BY DEF OpInv
  <2>1. OpOK(u) /\ status' = status /\ success'[u] = success[u]
    BY DEF ShapeInv, OpInv, Claims
  <2>2. CASE u # x
    <3>1. select_done'[u] = select_done[u]
      BY <2>2
    <3> QED BY <2>1, <3>1, <1>0 DEF OpOK
  <2>3. CASE u = x
    <3>1. select_done'[u] => op'[u].select /\ pc'[u] = "parked"
      BY <2>3, <1>0 DEF Sleeps
    <3> QED BY <2>1, <3>1, <1>0 DEF OpOK
  <2> QED BY <2>2, <2>3
<1>2. \A u \in Threads, c \in Cases : In(u, c)' => In(u, c)
  BY DEF Claims, Trim, Keeps, In
<1>3. \A u \in Threads, c \in Cases : In(u, c) /\ Live(u) /\ u # x => In(u, c)'
  BY DEF Claims, Trim, Keeps, In
<1>4. ~In(x, p)'
  BY DEF Claims, In
<1>5. TodoInv'
  <2>1. \A s \in Threads : TodoOK(s)'
    <3>1. \A s \in Threads \ {t} : TodoOK(s)'
      BY <1>0 DEF TodoOK, ShapeInv, TodoInv, Claims
    <3>2. TodoOK(t)'
      BY DEF TodoOK, Claims, Taker
    <3> QED BY <3>1, <3>2
  <2>2. \A r, s, u \in Threads : Owes(r, u)' /\ Owes(s, u)' => r = s
    BY DEF ShapeInv, TodoInv
  <2>3. ASSUME NEW s \in Threads, NEW u \in Threads, Owes(s, u) PROVE OwedOK(s, u)'
    <3>1. OwedOK(s, u) /\ By(s, u)' = By(s, u) /\ u # t /\ u # x
      BY <2>3 DEF ShapeInv, TodoInv
    <3>2. op'[u] = op[u] /\ status' = status /\ select_done'[u] = select_done[u]
      BY <3>1, <1>0 DEF Claims
    <3>3. By(s, u) \in op[u].cases /\ By(s, u) \in Cases /\ ~In(u, By(s, u))
      BY <3>1, <2>3, <1>0 DEF OwedOK
    <3>4. ~In(u, By(s, u))'
      BY <3>1, <3>3, <1>2 DEF In
    <3> QED BY <3>1, <3>2, <3>4, <2>3 DEF OwedOK
  <2>4. OwedOK(t, x)'
    <3>1. status'[x] = "waiting" /\ op'[x] = op[x]
      BY <1>0 DEF Claims, Sleeps
    <3>2. ~In(x, By(t, x))' /\ By(t, x)' \in op'[x].cases
      BY <1>4, <3>1 DEF In
    <3> QED BY <3>1, <3>2 DEF OwedOK
  <2> QED BY <2>1, <2>2, <2>3, <2>4 DEF TodoInv, OwedOK
<1>6. QueueInv'
  <2>1. \A c \in Cases : NoDup(queue[c])'
    BY DEF Claims, Trim, Keeps
  <2>2. ASSUME NEW u \in Threads, NEW c \in Cases, In(u, c)' PROVE InOK(u, c)'
    <3>1. In(u, c) /\ InOK(u, c)
      BY <2>2, <1>2 DEF ShapeInv, QueueInv
    <3>2. u # t
      BY <3>1, Facts DEF Claims, Taker
    <3>3. CASE u # x
      BY <3>1, <3>2, <3>3, <1>0 DEF InOK, Won
    <3>4. CASE u = x
      <4>1. op[x].select
        <5> SUFFICES ASSUME ~op[x].select PROVE FALSE
          OBVIOUS
        <5>1. One(op[x].cases)
          BY DEF ShapeInv, OpInv, OpOK, Sleeps
        <5>2. c = p
          BY <5>1, <3>1, <3>4 DEF One, InOK
        <5> QED BY <5>2, <3>4, <2>2, <1>4
      <4> QED BY <4>1, <3>1, <3>4, <1>0 DEF InOK, Won
    <3> QED BY <3>3, <3>4
  <2>3. ASSUME NEW u \in Threads, Sleeps(u)' PROVE SleepOK(u)'
    <3>1. Sleeps(u) /\ SleepOK(u) /\ u # t /\ u # x /\ op[u].cases \subseteq Cases
      BY <2>3, <1>0 DEF ShapeInv, QueueInv
    <3>2. op'[u] = op[u] /\ select_done'[u] = select_done[u]
      BY <3>1, <1>0
    <3>3. ~Won(u)' /\ Live(u)
      BY <3>1, <3>2 DEF Won, Live, SleepOK
    <3>4. \A c \in op[u].cases : In(u, c)'
      BY <3>1, <3>3, <1>3 DEF SleepOK
    <3> QED BY <3>2, <3>3, <3>4 DEF SleepOK
  <2>4. ASSUME NEW u \in Threads, Runs(u)' PROVE RunOK(u)'
    <3>1. Runs(u) /\ RunOK(u) /\ u # t /\ u # x /\ op[u].cases \subseteq Cases
      BY <2>4, <1>0 DEF ShapeInv, QueueInv
    <3>2. op'[u] = op[u] /\ select_done'[u] = select_done[u] /\ waker'[u] = waker[u]
      BY <3>1, <1>0
    <3>3. ~In(u, waker[u])'
      BY <3>1, <3>2, <1>2 DEF RunOK, In
    <3> QED BY <3>1, <3>2, <3>3 DEF RunOK, In
  <2> QED BY <2>1, <2>2, <2>3, <2>4 DEF QueueInv, InOK, SleepOK, RunOK
<1> QED BY <1>1, <1>5, <1>6 DEF ShapeInv

\* A call that hands over to a sleeper completes both cases, a close none.
LEMMA ClaimsDone ==
    ASSUME TypeOK, ShapeInv, NEW t \in Threads, NEW x \in Threads, NEW p \in Cases, Claims(t, x, p)
    PROVE  /\ \A c : ~Done(x, c)
           /\ \A c : ~Done(t, c)
           /\ \A u \in Threads \ {t, x} : \A c : Done(u, c)' <=> Done(u, c)
           /\ pc[t] = "closing" => \A c : ~Done(x, c)' /\ ~Done(t, c)'
           /\ pc[t] # "closing" => \A c : (Done(x, c)' <=> c = p) /\ (Done(t, c)' <=> c = TheCase(t)')
<1> USE ClaimsStates
<1>1. pc[t] \in {"op", "sel_pass1", "closing"} /\ pc'[t] = (IF pc[t] = "closing" THEN "closing" ELSE "ready")
  BY DEF Claims, Taker
<1>2. \A s \in Threads \ {t} : pc'[s] = pc[s] /\ TheCase(s)' = TheCase(s) /\ Partner(TheCase(s))' = Partner(TheCase(s))
  <2>1. \A s \in Threads \ {t} : pc'[s] = pc[s] /\ TheCase(s)' = TheCase(s)
    BY DEF Claims, Others, TheCase
  <2> QED BY <2>1 DEF Partner
<1>3. \A u \in Threads : success'[u] = success[u]
  BY DEF Claims
<1>4. \A s \in Threads : ~Owes(s, x) /\ ~Owes(s, t)
  BY Facts, <1>1 DEF Sleeps
<1>5. pc[x] = "parked" /\ pc'[x] = "parked"
  BY <1>2 DEF Sleeps
<1>6. \A c : ~Done(x, c) /\ ~Done(t, c)
  BY <1>1, <1>4, <1>5 DEF Done
<1>7. \A u \in Threads \ {t, x} : \A c : Done(u, c)' <=> Done(u, c)
  <2>1. \A u \in Threads \ {t, x} : \A s \in Threads : Owes(s, u)' <=> Owes(s, u)
    OBVIOUS
  <2>2. \A u \in Threads \ {t, x} : Owes(t, u) => pc[t] # "ready" /\ pc'[t] # "ready"
    BY <1>1, Facts
  <2>3. \A u \in Threads \ {t, x} : pc'[u] = pc[u] /\ TheCase(u)' = TheCase(u) /\ waker'[u] = waker[u]
    BY <1>2
  <2> QED BY <1>2, <1>3, <2>1, <2>2, <2>3 DEF Done
<1>8. ASSUME pc[t] = "closing" PROVE \A c : ~Done(x, c)' /\ ~Done(t, c)'
  BY <1>1, <1>4, <1>5, <1>8 DEF Done
<1>9. ASSUME pc[t] # "closing", NEW c PROVE (Done(x, c)' <=> c = p) /\ (Done(t, c)' <=> c = TheCase(t)')
  <2>1. pc'[t] = "ready" /\ Partner(TheCase(t))' = p /\ Owes(t, x)'
    BY <1>9 DEF Claims, Taker
  <2>2. \A s \in Threads : (Owes(s, x)' <=> s = t) /\ ~Owes(s, t)'
    BY <1>4
  <2> QED BY <2>1, <2>2, <1>5 DEF Done
<1> QED BY <1>6, <1>7, <1>8, <1>9

\* t goes to sleep on all its cases.
Joins(t) == \A c \in Cases :
    /\ queue'[c] \in Seq(Threads) /\ NoDup(queue'[c])
    /\ \A u \in Threads \ {t} : (Mem(queue'[c], u) => In(u, c)) /\ (In(u, c) /\ Live(u) => Mem(queue'[c], u))
    /\ Mem(queue'[c], t) <=> c \in op[t].cases
Parks(t) ==
    /\ Joins(t) /\ UNCHANGED <<op, select_done, success, todo, count, closed>>
    /\ \A u \in Threads \ {t} : pc'[u] = pc[u] /\ status'[u] = status[u] /\ waker'[u] = waker[u]
    /\ pc[t] \in {"op", "sel_pass1"} /\ pc'[t] = "parked" /\ status'[t] = "waiting"

LEMMA ParksStates ==
    ASSUME TypeOK, ShapeInv, NEW t \in Threads, Parks(t)
    PROVE  /\ \A u \in Threads : Sleeps(u)' <=> Sleeps(u) \/ u = t
           /\ \A u \in Threads : Runs(u)' <=> Runs(u)
           /\ \A u \in Threads : Runs(u) => u # t
           /\ ~Sleeps(t)
           /\ \A s, u \in Threads : Owes(s, u)' <=> Owes(s, u)
           /\ \A s, u \in Threads : Owes(s, u) => u # t /\ By(s, u)' = By(s, u)
<1>1. pc[t] \in {"op", "sel_pass1"} /\ pc'[t] = "parked" /\ status'[t] = "waiting"
  BY DEF Parks
<1>2. \A s, u \in Threads : Owes(s, u)' <=> Owes(s, u)
  BY DEF Parks, Owes
<1>3. \A s, u \in Threads : Owes(s, u) => u # t /\ s # t
  BY <1>1, Facts
<1>4. \A u \in Threads : Sleeps(u)' <=> Sleeps(u) \/ u = t
  BY <1>1, <1>2, <1>3 DEF Parks, Sleeps
<1>5. \A u \in Threads : Runs(u)' <=> Runs(u)
  BY <1>1 DEF Parks, Runs
<1>6. ~Sleeps(t) /\ \A u \in Threads : Runs(u) => u # t
  BY <1>1 DEF Sleeps, Runs
<1>7. \A s, u \in Threads : Owes(s, u) => By(s, u)' = By(s, u)
  <2>1. \A s \in Threads : TheCase(s)' = TheCase(s)
    BY DEF TheCase, Parks
  <2> QED BY <2>1, <1>3 DEF By, Partner, Parks
<1> QED BY <1>2, <1>3, <1>4, <1>5, <1>6, <1>7

LEMMA ParksShape ==
    ASSUME TypeOK, ShapeInv, NEW t \in Threads, Parks(t)
    PROVE  ShapeInv'
<1> USE ParksStates
<1>0. op' = op /\ select_done' = select_done /\ success' = success /\ \A u \in Threads : op[u].cases \subseteq Cases
  BY DEF Parks, TypeOK
<1>1. OpInv'
  <2>1. ASSUME NEW u \in Threads \ {t} PROVE OpOK(u)'
    <3>1. OpOK(u) /\ pc'[u] = pc[u] /\ status'[u] = status[u]
      BY DEF ShapeInv, OpInv, Parks
    <3> QED BY <3>1, <1>0 DEF OpOK
  <2>2. OpOK(t)'
    <3>1. OpOK(t) /\ pc[t] \in {"op", "sel_pass1"} /\ pc'[t] = "parked" /\ status'[t] = "waiting"
      BY DEF ShapeInv, OpInv, Parks
    <3> QED BY <3>1, <1>0, Facts DEF OpOK
  <2> QED BY <2>1, <2>2 DEF OpInv
<1>2. \A u \in Threads \ {t}, c \in Cases : In(u, c)' => In(u, c)
  BY DEF Parks, Joins, In
<1>3. \A u \in Threads \ {t}, c \in Cases : In(u, c) /\ Live(u) => In(u, c)'
  BY DEF Parks, Joins, In
<1>4. \A c \in Cases : In(t, c)' <=> c \in op[t].cases
  BY DEF Parks, Joins, In
<1>5. TodoInv'
  <2>1. \A s \in Threads : TodoOK(s)'
    BY DEF TodoOK, ShapeInv, TodoInv, Parks
  <2>2. \A r, s, u \in Threads : Owes(r, u)' /\ Owes(s, u)' => r = s
    BY DEF ShapeInv, TodoInv
  <2>3. ASSUME NEW s \in Threads, NEW u \in Threads, Owes(s, u) PROVE OwedOK(s, u)'
    <3>1. OwedOK(s, u) /\ By(s, u)' = By(s, u) /\ u # t
      BY <2>3 DEF ShapeInv, TodoInv
    <3>2. status'[u] = status[u]
      BY <3>1 DEF Parks
    <3>3. By(s, u) \in op[u].cases /\ By(s, u) \in Cases /\ ~In(u, By(s, u))
      BY <3>1, <2>3, <1>0 DEF OwedOK
    <3>4. ~In(u, By(s, u))'
      BY <3>1, <3>3, <1>2 DEF In
    <3> QED BY <3>1, <3>2, <3>4, <2>3, <1>0 DEF OwedOK
  <2> QED BY <2>1, <2>2, <2>3 DEF TodoInv, OwedOK
<1>6. QueueInv'
  <2>1. \A c \in Cases : NoDup(queue[c])'
    BY DEF Parks, Joins
  <2>2. ASSUME NEW u \in Threads, NEW c \in Cases, In(u, c)' PROVE InOK(u, c)'
    <3>1. CASE u # t
      <4>1. In(u, c) /\ InOK(u, c)
        BY <2>2, <1>2, <3>1 DEF ShapeInv, QueueInv
      <4> QED BY <4>1, <3>1, <1>0 DEF InOK, Won
    <3>2. CASE u = t
      BY <3>2, <2>2, <1>4, <1>0 DEF InOK
    <3> QED BY <3>1, <3>2
  <2>3. ASSUME NEW u \in Threads, Sleeps(u)' PROVE SleepOK(u)'
    <3>1. CASE u # t
      <4>1. Sleeps(u) /\ SleepOK(u)
        BY <2>3, <3>1 DEF ShapeInv, QueueInv
      <4>2. ~Won(u)' /\ Live(u)
        BY <4>1, <1>0 DEF Won, Live, SleepOK
      <4>3. \A c \in op[u].cases : In(u, c)'
        BY <4>1, <4>2, <3>1, <1>0, <1>3 DEF SleepOK
      <4> QED BY <1>0, <4>2, <4>3 DEF SleepOK
    <3>2. CASE u = t
      <4>1. ~select_done[t]
        BY Facts DEF Parks
      <4> QED BY <3>2, <4>1, <1>0, <1>4 DEF SleepOK, Won
    <3> QED BY <3>1, <3>2
  <2>4. ASSUME NEW u \in Threads, Runs(u)' PROVE RunOK(u)'
    <3>1. Runs(u) /\ RunOK(u) /\ u # t
      BY <2>4 DEF ShapeInv, QueueInv
    <3>2. waker'[u] = waker[u]
      BY <3>1 DEF Parks
    <3>3. ~In(u, waker[u])'
      BY <3>1, <3>2, <1>0, <1>2 DEF RunOK, In
    <3> QED BY <3>1, <3>2, <3>3, <1>0 DEF RunOK, In
  <2> QED BY <2>1, <2>2, <2>3, <2>4 DEF QueueInv, InOK, SleepOK, RunOK
<1> QED BY <1>1, <1>5, <1>6 DEF ShapeInv

LEMMA ParksDone ==
    ASSUME TypeOK, ShapeInv, NEW t \in Threads, Parks(t)
    PROVE  \A u \in Threads : \A c : Done(u, c)' <=> Done(u, c)
<1> USE ParksStates
<1>1. \A s \in Threads : (pc'[s] = "ready" <=> pc[s] = "ready") /\ TheCase(s)' = TheCase(s)
  BY DEF Parks, TheCase
<1>2. \A s \in Threads : Partner(TheCase(s))' = Partner(TheCase(s))
  BY <1>1 DEF Partner
<1>3. success' = success /\ \A u \in Threads : Runs(u) => waker'[u] = waker[u]
  BY DEF Parks
<1> QED BY <1>1, <1>2, <1>3 DEF Done

\* t wakes u, which it has taken off a queue.
Readies(t, u) ==
    /\ Others(t) /\ Owes(t, u)
    /\ UNCHANGED <<queue, select_done>>
    /\ status'[u] = "runnable" /\ \A v \in Threads \ {u} : status'[v] = status[v]
    /\ waker'[u] = By(t, u) /\ \A v \in Threads \ {u} : waker'[v] = waker[v] /\ success'[v] = success[v]
    /\ NoDup(todo'[t]) /\ \A v \in Threads : Mem(todo'[t], v) <=> Mem(todo[t], v) /\ v # u
    /\ \A s \in Threads \ {t} : todo'[s] = todo[s]
    /\ \/ pc[t] = "ready" /\ pc'[t] = "idle" /\ todo'[t] = << >>
       \/ pc[t] = "close" /\ pc'[t] = "idle" /\ todo'[t] = << >>
       \/ pc[t] = "close" /\ pc'[t] = "close" /\ Len(todo'[t]) > 0

LEMMA ReadiesStates ==
    ASSUME TypeOK, ShapeInv, NEW t \in Threads, NEW u \in Threads, Readies(t, u)
    PROVE  /\ t # u /\ status[u] = "waiting" /\ pc[u] = "parked" /\ pc'[u] = "parked"
           /\ \A v \in Threads : Sleeps(v)' <=> Sleeps(v)
           /\ \A v \in Threads : Runs(v)' <=> Runs(v) \/ v = u
           /\ \A v \in Threads : Runs(v) => v # t /\ v # u
           /\ \A v \in Threads : Sleeps(v) => v # t /\ v # u
           /\ \A s, v \in Threads : Owes(s, v)' <=> Owes(s, v) /\ ~(s = t /\ v = u)
           /\ \A s, v \in Threads : Owes(s, v)' => v # u /\ v # t /\ By(s, v)' = By(s, v)
<1>1. pc[t] \in {"ready", "close"} /\ pc'[t] \in {"idle", "close"} /\ (pc[t] = "ready" => pc'[t] = "idle" /\ todo'[t] = << >>)
  BY DEF Readies
<1>2. t # u /\ status[u] = "waiting" /\ pc[u] = "parked" /\ Owes(t, u)
  BY Facts DEF Readies
<1>3. pc'[u] = "parked"
  BY <1>2 DEF Readies, Others
<1>4. \A s, v \in Threads : Owes(s, v)' <=> Owes(s, v) /\ ~(s = t /\ v = u)
  BY DEF Readies, Owes
<1>5. \A s \in Threads : Owes(s, u) => s = t
  BY <1>2 DEF ShapeInv, TodoInv
<1>6. \A s, v \in Threads : Owes(s, v)' => v # u /\ v # t
  BY <1>1, <1>4, <1>5, Facts
<1>7. \A v \in Threads : Sleeps(v) => v # t /\ v # u
  BY <1>1, <1>2 DEF Sleeps
<1>8. \A v \in Threads : Sleeps(v)' <=> Sleeps(v)
  <2>1. ~Sleeps(u)' /\ ~Sleeps(t)' /\ ~Sleeps(t) /\ ~Sleeps(u)
    BY <1>1, <1>7 DEF Sleeps, Readies
  <2>2. ASSUME NEW v \in Threads \ {t, u} PROVE Sleeps(v)' <=> Sleeps(v)
    <3>1. pc'[v] = pc[v] /\ status'[v] = status[v] /\ \A s \in Threads : Owes(s, v)' <=> Owes(s, v)
      BY <1>4 DEF Readies, Others
    <3> QED BY <3>1 DEF Sleeps
  <2> QED BY <2>1, <2>2
<1>9. \A v \in Threads : Runs(v) => v # t /\ v # u
  BY <1>1, <1>2 DEF Runs
<1>10. \A v \in Threads : Runs(v)' <=> Runs(v) \/ v = u
  <2>1. Runs(u)' /\ ~Runs(t)' /\ ~Runs(t)
    BY <1>1, <1>3, <1>9 DEF Runs, Readies
  <2>2. \A v \in Threads \ {t, u} : Runs(v)' <=> Runs(v)
    BY DEF Readies, Others, Runs
  <2> QED BY <2>1, <2>2
<1>11. ASSUME NEW s \in Threads, NEW v \in Threads, Owes(s, v)' PROVE By(s, v)' = By(s, v)
  <2>1. v # u /\ v # t /\ waker'[v] = waker[v]
    BY <1>6, <1>11 DEF Readies
  <2>2. CASE s # t
    <3>1. pc'[s] = pc[s] /\ TheCase(s)' = TheCase(s)
      BY <2>2 DEF Readies, Others, TheCase
    <3> QED BY <3>1, <2>1 DEF By, Partner
  <2>3. CASE s = t
    <3>1. pc[t] # "ready" /\ pc'[t] # "ready"
      BY <2>3, <1>1, <1>11, Emptiness DEF Owes
    <3> QED BY <3>1, <2>1, <2>3 DEF By
  <2> QED BY <2>2, <2>3
<1> QED BY <1>2, <1>3, <1>4, <1>6, <1>7, <1>8, <1>9, <1>10, <1>11

LEMMA ReadiesShape ==
    ASSUME TypeOK, ShapeInv, NEW t \in Threads, NEW u \in Threads, Readies(t, u), OpOK(t)'
    PROVE  ShapeInv'
<1> USE ReadiesStates
<1>0. \A v \in Threads \ {t} : op'[v] = op[v] /\ pc'[v] = pc[v] /\ op[v].cases \subseteq Cases
  BY DEF Readies, Others, TypeOK
<1>a. queue' = queue /\ select_done' = select_done /\ \A v \in Threads : \A c : In(v, c)' <=> In(v, c)
  BY DEF Readies, In
<1>1. OpInv'
  <2>1. ASSUME NEW v \in Threads \ {t, u} PROVE OpOK(v)'
    <3>1. OpOK(v) /\ status'[v] = status[v] /\ success'[v] = success[v] /\ pc'[v] = pc[v] /\ op'[v] = op[v] /\ (Runs(v)' <=> Runs(v))
      BY <1>0 DEF ShapeInv, OpInv, Readies
    <3> QED BY <3>1, <1>a DEF OpOK
  <2>2. OpOK(u)'
    <3>1. OpOK(u) /\ status'[u] = "runnable" /\ pc[u] = "parked" /\ pc'[u] = "parked" /\ op'[u] = op[u] /\ Runs(u)'
      BY <1>0 DEF ShapeInv, OpInv, Readies
    <3> QED BY <3>1, <1>a DEF OpOK
  <2> QED BY <2>1, <2>2 DEF OpInv
<1>5. TodoInv'
  <2>1. \A s \in Threads : TodoOK(s)'
    <3>1. \A s \in Threads \ {t} : TodoOK(s)'
      BY <1>0 DEF TodoOK, ShapeInv, TodoInv, Readies
    <3>2. TodoOK(t)'
      BY DEF TodoOK, Readies
    <3> QED BY <3>1, <3>2
  <2>2. \A r, s, v \in Threads : Owes(r, v)' /\ Owes(s, v)' => r = s
    BY DEF ShapeInv, TodoInv
  <2>3. ASSUME NEW s \in Threads, NEW v \in Threads, Owes(s, v)' PROVE OwedOK(s, v)'
    <3>1. Owes(s, v) /\ OwedOK(s, v) /\ By(s, v)' = By(s, v) /\ v # t /\ v # u
      BY <2>3 DEF ShapeInv, TodoInv
    <3>2. op'[v] = op[v] /\ status'[v] = status[v]
      BY <3>1, <1>0 DEF Readies
    <3>3. In(v, By(s, v))' <=> In(v, By(s, v))
      BY <3>1, <1>a DEF In
    <3> QED BY <3>1, <3>2, <3>3, <1>a DEF OwedOK
  <2> QED BY <2>1, <2>2, <2>3 DEF TodoInv, OwedOK
<1>6. QueueInv'
  <2>1. \A c \in Cases : NoDup(queue[c])'
    BY <1>a DEF ShapeInv, QueueInv
  <2>2. ASSUME NEW v \in Threads, NEW c \in Cases, In(v, c)' PROVE InOK(v, c)'
    <3>1. In(v, c) /\ InOK(v, c)
      BY <2>2, <1>a DEF ShapeInv, QueueInv
    <3>2. v # t
      BY <3>1, Facts DEF Readies, Runs
    <3> QED BY <3>1, <3>2, <1>0, <1>a DEF InOK, Won
  <2>3. ASSUME NEW v \in Threads, Sleeps(v)' PROVE SleepOK(v)'
    <3>1. Sleeps(v) /\ SleepOK(v) /\ v # t
      BY <2>3 DEF ShapeInv, QueueInv
    <3> QED BY <3>1, <1>0, <1>a DEF SleepOK, Won
  <2>4. ASSUME NEW v \in Threads, v # u, Runs(v)' PROVE RunOK(v)'
    <3>1. Runs(v) /\ RunOK(v) /\ v # t
      BY <2>4 DEF ShapeInv, QueueInv
    <3>2. waker'[v] = waker[v]
      BY <2>4 DEF Readies
    <3> QED BY <3>1, <3>2, <1>0, <1>a DEF RunOK, In
  <2>5. RunOK(u)'
    <3>1. OwedOK(t, u) /\ Owes(t, u) /\ waker'[u] = By(t, u)
      BY DEF Readies, ShapeInv, TodoInv
    <3> QED BY <3>1, <1>0, <1>a DEF RunOK, OwedOK, In
  <2> QED BY <2>1, <2>2, <2>3, <2>4, <2>5 DEF QueueInv, InOK, SleepOK, RunOK
<1> QED BY <1>1, <1>5, <1>6 DEF ShapeInv

LEMMA ReadiesDone ==
    ASSUME TypeOK, ShapeInv, NEW t \in Threads, NEW u \in Threads, Readies(t, u),
           success'[u] = IF pc[t] = "ready" THEN TRUE ELSE success[u]
    PROVE  /\ \A v \in Threads \ {t} : \A c : Done(v, c)' <=> Done(v, c)
           /\ \A c : Done(t, c) <=> pc[t] = "ready" /\ c = TheCase(t)
           /\ \A c : ~Done(t, c)'
<1> USE ReadiesStates
<1>1. pc[t] \in {"ready", "close"} /\ pc'[t] \in {"idle", "close"} /\ (pc[t] = "ready" => todo'[t] = << >>)
  BY DEF Readies
<1>2. \A s \in Threads \ {t} : pc'[s] = pc[s] /\ TheCase(s)' = TheCase(s) /\ Partner(TheCase(s))' = Partner(TheCase(s))
  <2>1. \A s \in Threads \ {t} : pc'[s] = pc[s] /\ TheCase(s)' = TheCase(s)
    BY DEF Readies, Others, TheCase
  <2> QED BY <2>1 DEF Partner
<1>3. \A s \in Threads : ~Owes(s, t) /\ ~Owes(s, t)'
  BY <1>1, Facts
<1>4. ~Runs(t) /\ ~Runs(t)'
  OBVIOUS
<1>5. \A c : Done(t, c) <=> pc[t] = "ready" /\ c = TheCase(t)
  BY <1>3, <1>4 DEF Done
<1>6. \A c : ~Done(t, c)'
  BY <1>1, <1>3, <1>4 DEF Done
<1>7. ASSUME NEW v \in Threads \ {t, u}, NEW c PROVE Done(v, c)' <=> Done(v, c)
  <2>1. \A s \in Threads : Owes(s, v)' <=> Owes(s, v)
    OBVIOUS
  <2>2. pc[t] = "ready" => ~Owes(t, v)
    BY <1>1, <2>1, Emptiness DEF Owes
  <2>3. success'[v] = success[v] /\ waker'[v] = waker[v] /\ (Runs(v)' <=> Runs(v))
    BY DEF Readies
  <2> QED BY <1>1, <1>2, <2>1, <2>2, <2>3 DEF Done
<1>8. ASSUME NEW c PROVE Done(u, c)' <=> Done(u, c)
  <2>1. Owes(t, u) /\ waker'[u] = By(t, u)
    BY DEF Readies
  <2>2. \A s \in Threads : Owes(s, u) <=> s = t
    BY <2>1 DEF ShapeInv, TodoInv
  <2>3. \A s \in Threads : ~Owes(s, u)'
    BY <2>2
  <2>4. pc[u] = "parked" /\ pc'[u] = "parked" /\ ~Runs(u) /\ Runs(u)'
    OBVIOUS
  <2>5. Done(u, c) <=> pc[t] = "ready" /\ Partner(TheCase(t)) = c
    BY <2>2, <2>4 DEF Done
  <2>6. Done(u, c)' <=> success'[u] /\ waker'[u] = c
    BY <2>3, <2>4 DEF Done
  <2>7. ~success[u]
    BY <2>4 DEF ShapeInv, OpInv, OpOK
  <2> QED BY <1>1, <2>1, <2>5, <2>6, <2>7 DEF By
<1> QED BY <1>5, <1>6, <1>7, <1>8

\* t, which somebody has woken, returns.
Leaves(t) ==
    /\ Others(t) /\ UNCHANGED todo /\ Runs(t)
    /\ pc'[t] = "idle" /\ op'[t] = NoOp /\ status'[t] = "running" /\ ~select_done'[t] /\ ~success'[t]
    /\ \A u \in Threads \ {t} : /\ status'[u] = status[u] /\ select_done'[u] = select_done[u]
                                /\ waker'[u] = waker[u] /\ success'[u] = success[u]
    /\ \A c \in Cases : /\ NoDup(queue'[c]) /\ ~Mem(queue'[c], t)
                        /\ \A u \in Threads \ {t} : Mem(queue'[c], u) <=> In(u, c)

LEMMA LeavesStates ==
    ASSUME TypeOK, ShapeInv, NEW t \in Threads, Leaves(t)
    PROVE  /\ \A u \in Threads : Sleeps(u)' <=> Sleeps(u)
           /\ \A u \in Threads : Sleeps(u) => u # t
           /\ \A u \in Threads : Runs(u)' <=> Runs(u) /\ u # t
           /\ \A s, u \in Threads : Owes(s, u)' <=> Owes(s, u)
           /\ \A s, u \in Threads : Owes(s, u) => s # t /\ u # t /\ By(s, u)' = By(s, u)
<1>1. Runs(t) /\ pc'[t] = "idle" /\ pc[t] \in {"parked", "sel_relock", "sel_pass3"}
  BY DEF Leaves, Runs
<1>2. \A s, u \in Threads : Owes(s, u)' <=> Owes(s, u)
  BY DEF Leaves, Owes
<1>3. \A s, u \in Threads : Owes(s, u) => s # t /\ u # t
  BY <1>1, Facts
<1>4. ~Sleeps(t) /\ ~Sleeps(t)' /\ ~Runs(t)'
  BY <1>1, Facts DEF Sleeps, Runs
<1>5. \A u \in Threads \ {t} : (Sleeps(u)' <=> Sleeps(u)) /\ (Runs(u)' <=> Runs(u))
  BY <1>2 DEF Leaves, Others, Sleeps, Runs
<1>6. ASSUME NEW s \in Threads, NEW u \in Threads, Owes(s, u) PROVE By(s, u)' = By(s, u)
  <2>1. pc'[s] = pc[s] /\ TheCase(s)' = TheCase(s) /\ waker'[u] = waker[u]
    BY <1>3, <1>6 DEF Leaves, Others, TheCase
  <2> QED BY <2>1 DEF By, Partner
<1> QED BY <1>2, <1>3, <1>4, <1>5, <1>6

LEMMA LeavesShape ==
    ASSUME TypeOK, ShapeInv, NEW t \in Threads, Leaves(t)
    PROVE  ShapeInv'
<1> USE LeavesStates
<1>0. \A v \in Threads \ {t} : /\ op'[v] = op[v] /\ pc'[v] = pc[v] /\ op[v].cases \subseteq Cases
                              /\ status'[v] = status[v] /\ select_done'[v] = select_done[v]
                              /\ waker'[v] = waker[v] /\ success'[v] = success[v]
  BY DEF Leaves, Others, TypeOK
<1>a. \A u \in Threads \ {t}, c \in Cases : In(u, c)' <=> In(u, c)
  BY DEF Leaves, In
<1>b. \A c \in Cases : ~In(t, c)'
  BY DEF Leaves, In
<1>1. OpInv'
  <2>1. ASSUME NEW v \in Threads \ {t} PROVE OpOK(v)'
    <3>1. OpOK(v) /\ (Runs(v)' <=> Runs(v))
      BY DEF ShapeInv, OpInv
    <3> QED BY <3>1, <1>0 DEF OpOK
  <2>2. OpOK(t)'
    BY DEF OpOK, Leaves, NoOp
  <2> QED BY <2>1, <2>2 DEF OpInv
<1>5. TodoInv'
  <2>1. \A s \in Threads : TodoOK(s)'
    <3>1. todo' = todo /\ pc'[t] = "idle" /\ pc[t] \in {"parked", "sel_relock", "sel_pass3"}
      BY DEF Leaves, Runs
    <3> QED BY <3>1, <1>0 DEF TodoOK, ShapeInv, TodoInv
  <2>2. \A r, s, v \in Threads : Owes(r, v)' /\ Owes(s, v)' => r = s
    BY DEF ShapeInv, TodoInv
  <2>3. ASSUME NEW s \in Threads, NEW v \in Threads, Owes(s, v)' PROVE OwedOK(s, v)'
    <3>1. Owes(s, v) /\ OwedOK(s, v) /\ By(s, v)' = By(s, v) /\ v # t
      BY <2>3 DEF ShapeInv, TodoInv
    <3>2. By(s, v) \in op[v].cases /\ By(s, v) \in Cases /\ ~In(v, By(s, v))
      BY <3>1, <1>0 DEF OwedOK
    <3>3. ~In(v, By(s, v))'
      BY <3>1, <3>2, <1>a DEF In
    <3> QED BY <3>1, <3>3, <1>0 DEF OwedOK
  <2> QED BY <2>1, <2>2, <2>3 DEF TodoInv, OwedOK
<1>6. QueueInv'
  <2>1. \A c \in Cases : NoDup(queue[c])'
    BY DEF Leaves
  <2>2. ASSUME NEW v \in Threads, NEW c \in Cases, In(v, c)' PROVE InOK(v, c)'
    <3>1. v # t /\ In(v, c) /\ InOK(v, c)
      BY <2>2, <1>a, <1>b DEF ShapeInv, QueueInv
    <3> QED BY <3>1, <1>0 DEF InOK, Won
  <2>3. ASSUME NEW v \in Threads, Sleeps(v)' PROVE SleepOK(v)'
    <3>1. Sleeps(v) /\ SleepOK(v) /\ v # t
      BY <2>3 DEF ShapeInv, QueueInv
    <3>2. \A c \in op[v].cases : In(v, c)'
      BY <3>1, <1>0, <1>a DEF SleepOK
    <3> QED BY <3>1, <3>2, <1>0 DEF SleepOK, Won
  <2>4. ASSUME NEW v \in Threads, Runs(v)' PROVE RunOK(v)'
    <3>1. Runs(v) /\ RunOK(v) /\ v # t
      BY <2>4 DEF ShapeInv, QueueInv
    <3>2. waker[v] \in Cases /\ ~In(v, waker[v])
      BY <3>1, <1>0 DEF RunOK
    <3>3. ~In(v, waker[v])'
      BY <3>1, <3>2, <1>a, <1>0 DEF In
    <3> QED BY <3>1, <3>3, <1>0 DEF RunOK, In
  <2> QED BY <2>1, <2>2, <2>3, <2>4 DEF QueueInv, InOK, SleepOK, RunOK
<1> QED BY <1>1, <1>5, <1>6 DEF ShapeInv

LEMMA LeavesDone ==
    ASSUME TypeOK, ShapeInv, NEW t \in Threads, Leaves(t)
    PROVE  /\ \A v \in Threads \ {t} : \A c : Done(v, c)' <=> Done(v, c)
           /\ \A c : Done(t, c) <=> success[t] /\ c = waker[t]
           /\ \A c : ~Done(t, c)'
<1> USE LeavesStates
<1>1. Runs(t) /\ pc'[t] = "idle" /\ pc[t] \in {"parked", "sel_relock", "sel_pass3"}
  BY DEF Leaves, Runs
<1>2. \A s \in Threads \ {t} : /\ pc'[s] = pc[s] /\ TheCase(s)' = TheCase(s)
                              /\ Partner(TheCase(s))' = Partner(TheCase(s))
                              /\ waker'[s] = waker[s] /\ success'[s] = success[s]
  <2>1. \A s \in Threads \ {t} : pc'[s] = pc[s] /\ TheCase(s)' = TheCase(s) /\ waker'[s] = waker[s] /\ success'[s] = success[s]
    BY DEF Leaves, Others, TheCase
  <2> QED BY <2>1 DEF Partner
<1>3. \A s \in Threads : ~Owes(s, t) /\ ~Owes(s, t)'
  OBVIOUS
<1>4. \A c : ~Done(t, c)'
  BY <1>1, <1>3 DEF Done
<1>5. \A c : Done(t, c) <=> success[t] /\ c = waker[t]
  BY <1>1, <1>3 DEF Done
<1>6. ASSUME NEW v \in Threads \ {t}, NEW c PROVE Done(v, c)' <=> Done(v, c)
  <2>1. \A s \in Threads : Owes(s, v)' <=> Owes(s, v)
    OBVIOUS
  <2>2. ~Owes(t, v) /\ (Runs(v)' <=> Runs(v))
    OBVIOUS
  <2> QED BY <1>1, <1>2, <2>1, <2>2 DEF Done
<1> QED BY <1>4, <1>5, <1>6

\* t has been woken and takes its locks again.
Relocks(t) ==
    /\ UNCHANGED <<queue, select_done, waker, success, op, todo>>
    /\ \A s \in Threads \ {t} : pc'[s] = pc[s] /\ status'[s] = status[s]
    /\ Runs(t) /\ op[t].select /\ op[t].cases # {} /\ pc'[t] \in {"sel_relock", "sel_pass3"} /\ status'[t] = "running"

LEMMA RelocksStates ==
    ASSUME TypeOK, ShapeInv, NEW t \in Threads, Relocks(t)
    PROVE  /\ \A u \in Threads : Sleeps(u)' <=> Sleeps(u)
           /\ \A u \in Threads : Runs(u)' <=> Runs(u)
           /\ \A s, u \in Threads : Owes(s, u)' <=> Owes(s, u)
           /\ \A s, u \in Threads : Owes(s, u) => s # t /\ u # t
           /\ \A s, u \in Threads : By(s, u)' = By(s, u)
           /\ \A s \in Threads : pc'[s] = "ready" <=> pc[s] = "ready"
           /\ \A s \in Threads : TheCase(s)' = TheCase(s)
<1>1. Runs(t) /\ Runs(t)' /\ pc'[t] # "parked" /\ pc[t] # "ready" /\ pc'[t] # "ready"
  BY DEF Relocks, Runs
<1>2. \A s, u \in Threads : Owes(s, u)' <=> Owes(s, u)
  BY DEF Relocks, Owes
<1>3. ~Sleeps(t) /\ ~Sleeps(t)'
  BY <1>1, Facts DEF Sleeps
<1>4. \A u \in Threads : Sleeps(u)' <=> Sleeps(u)
  BY <1>2, <1>3 DEF Relocks, Sleeps
<1>5. \A u \in Threads : Runs(u)' <=> Runs(u)
  BY <1>1 DEF Relocks, Runs
<1>6. \A s, u \in Threads : Owes(s, u) => s # t /\ u # t
  BY <1>1, Facts DEF Runs
<1>7. \A s \in Threads : TheCase(s)' = TheCase(s)
  BY DEF TheCase, Relocks
<1>8. \A s \in Threads : pc'[s] = "ready" <=> pc[s] = "ready"
  BY <1>1 DEF Relocks
<1>9. \A s, u \in Threads : By(s, u)' = By(s, u)
  BY <1>7, <1>8 DEF By, Partner, Relocks
<1> QED BY <1>2, <1>4, <1>5, <1>6, <1>7, <1>8, <1>9

LEMMA RelocksShape ==
    ASSUME TypeOK, ShapeInv, NEW t \in Threads, Relocks(t)
    PROVE  ShapeInv'
<1> USE RelocksStates
<1>0. /\ queue' = queue /\ select_done' = select_done /\ waker' = waker /\ success' = success /\ op' = op /\ todo' = todo
      /\ \A s \in Threads \ {t} : pc'[s] = pc[s] /\ status'[s] = status[s]
  BY DEF Relocks
<1>a. \A u, c : In(u, c)' <=> In(u, c)
  BY <1>0 DEF In
<1>1. OpInv'
  <2>1. ASSUME NEW v \in Threads \ {t} PROVE OpOK(v)'
    <3>1. OpOK(v) /\ (Runs(v)' <=> Runs(v))
      BY DEF ShapeInv, OpInv
    <3> QED BY <3>1, <1>0 DEF OpOK
  <2>2. OpOK(t)'
    <3>1. OpOK(t) /\ Runs(t)'
      BY DEF ShapeInv, OpInv, Relocks
    <3> QED BY <3>1, <1>0 DEF OpOK, Relocks
  <2> QED BY <2>1, <2>2 DEF OpInv
<1>5. TodoInv'
  <2>1. \A s \in Threads : TodoOK(s)'
    <3>1. pc'[t] \in {"sel_relock", "sel_pass3"} /\ pc[t] \in {"parked", "sel_relock", "sel_pass3"}
      BY DEF Relocks, Runs
    <3> QED BY <3>1, <1>0 DEF TodoOK, ShapeInv, TodoInv
  <2>2. \A r, s, v \in Threads : Owes(r, v)' /\ Owes(s, v)' => r = s
    BY DEF ShapeInv, TodoInv
  <2>3. ASSUME NEW s \in Threads, NEW v \in Threads, Owes(s, v)' PROVE OwedOK(s, v)'
    <3>1. Owes(s, v) /\ OwedOK(s, v) /\ By(s, v)' = By(s, v) /\ v # t
      BY <2>3 DEF ShapeInv, TodoInv
    <3>2. In(v, By(s, v))' <=> In(v, By(s, v))
      BY <3>1, <1>0 DEF In
    <3> QED BY <3>1, <3>2, <1>0 DEF OwedOK
  <2> QED BY <2>1, <2>2, <2>3 DEF TodoInv, OwedOK
<1>6. QueueInv'
  <2>1. \A c \in Cases : NoDup(queue[c])'
    BY <1>0 DEF ShapeInv, QueueInv
  <2>2. \A v \in Threads, c \in Cases : InOK(v, c)'
    BY <1>0, <1>a DEF InOK, Won, ShapeInv, QueueInv
  <2>3. \A v \in Threads : SleepOK(v)'
    BY <1>0, <1>a DEF SleepOK, Won, ShapeInv, QueueInv
  <2>4. \A v \in Threads : RunOK(v)'
    BY <1>0, <1>a DEF RunOK, In, ShapeInv, QueueInv
  <2> QED BY <2>1, <2>2, <2>3, <2>4 DEF QueueInv
<1> QED BY <1>1, <1>5, <1>6 DEF ShapeInv

LEMMA RelocksDone ==
    ASSUME TypeOK, ShapeInv, NEW t \in Threads, Relocks(t)
    PROVE  \A u \in Threads : \A c : Done(u, c)' <=> Done(u, c)
<1> USE RelocksStates
<1>1. \A s \in Threads : Partner(TheCase(s))' = Partner(TheCase(s))
  BY DEF Partner
<1>2. success' = success /\ waker' = waker
  BY DEF Relocks
<1> QED BY <1>1, <1>2 DEF Done

----------------------------------------------------------------------------
(* The locks, the sleepers and the balance of sends and receives.          *)

LEMMA LockFrame ==
    ASSUME LockInv, TypeOK, NEW t \in Threads, Others(t), LockOK(t)',
           \A s \in Threads \ {t} : unlocks'[s] = unlocks[s],
           \A w \in Waitables : lock'[w] = lock[w] \/ lock[w] \in {t, NoThread}
    PROVE  LockInv'
<1> SUFFICES ASSUME NEW s \in Threads, s # t PROVE LockOK(s)'
  BY DEF LockInv
<1>1. LockOK(s) /\ pc'[s] = pc[s] /\ op'[s] = op[s] /\ unlocks'[s] = unlocks[s]
  BY DEF LockInv, Others
<1>2. Ws(s)' = Ws(s) /\ Ws(s) \subseteq Waitables /\ unlocks[s] \subseteq Waitables
  BY <1>1 DEF Ws, TypeOK, Cases
<1>3. \A w \in Waitables : lock[w] = s => lock'[w] = s
  BY WaitableAssumption
<1> QED BY <1>1, <1>2, <1>3 DEF LockOK

SleptOn(w) == \E u \in Threads : Sleeps(u) /\ \E dir \in Dirs : <<w, dir>> \in op[u].cases

LEMMA Sleepers ==
    ASSUME TypeOK, ShapeInv, NEW c \in Cases, ~HasLive(c), NEW u \in Threads, Sleeps(u)
    PROVE  c \notin op[u].cases
BY NoneLive, Facts DEF ShapeInv, QueueInv, SleepOK

LEMMA SleepKept ==
    ASSUME TypeOK, SleepInv,
           \A u \in Threads : Sleeps(u)' => Sleeps(u) /\ op'[u] = op[u],
           \A w \in Waitables : SleptOn(w) => count'[w] = count[w] /\ (closed'[w] => Closing(w)')
    PROVE  SleepInv'
<1> SUFFICES ASSUME NEW u \in Threads, Sleeps(u)', NEW w \in Waitables PROVE VainOK(u, w)'
  BY DEF SleepInv
<1>1. Sleeps(u) /\ op'[u] = op[u] /\ VainOK(u, w)
  BY DEF SleepInv
<1>2. CASE ~SleptOn(w)
  <2>1. \A dir \in Dirs : <<w, dir>> \notin op[u].cases
    BY <1>1, <1>2 DEF SleptOn
  <2> QED BY <1>1, <2>1 DEF VainOK, Dirs
<1>3. CASE SleptOn(w)
  <2>1. count'[w] = count[w] /\ (closed'[w] => Closing(w)')
    BY <1>3
  <2>2. \A v \in Threads \ {u} : Sleeps(v)' => Sleeps(v) /\ op'[v] = op[v]
    OBVIOUS
  <2>3. \A dir \in Dirs : Opposite(dir)' = Opposite(dir)
    BY DEF Opposite
  <2> QED BY <1>1, <2>1, <2>2, <2>3 DEF VainOK
<1> QED BY <1>2, <1>3

LEMMA SleepSame ==
    ASSUME TypeOK, SleepInv, NEW t \in Threads, Others(t), UNCHANGED closed,
           pc[t] = "closing" => pc'[t] = "closing" /\ op'[t] = op[t],
           \A u \in Threads : Sleeps(u)' => Sleeps(u) /\ op'[u] = op[u],
           \A w \in Waitables : SleptOn(w) => count'[w] = count[w]
    PROVE  SleepInv'
<1>1. ASSUME NEW w \in Waitables, SleptOn(w), closed'[w] PROVE Closing(w)'
  <2>1. Closing(w)
    BY <1>1 DEF SleepInv, SleptOn, VainOK
  <2>2. PICK s \in Threads : pc[s] = "closing" /\ w \in Ws(s)
    BY <2>1 DEF Closing
  <2>3. pc'[s] = "closing" /\ op'[s] = op[s]
    BY <2>2 DEF Others
  <2>4. w \in Ws(s)'
    BY <2>2, <2>3 DEF Ws
  <2> QED BY <2>3, <2>4 DEF Closing
<1> QED BY <1>1, SleepKept

Number(c) == Cardinality({u \in Threads : Done(u, c)})
CreditOK(w) == credit[w] + Number(<<w, "send">>) - Number(<<w, "wait">>) = count[w]
CreditInv == \A w \in Waitables : CreditOK(w)

LEMMA NumberNat == \A c : Number(c) \in Nat /\ Number(c)' \in Nat
<1>1. ASSUME NEW c PROVE Number(c) \in Nat /\ Number(c)' \in Nat
  <2> DEFINE S == {u \in Threads : Done(u, c)}
             T == {u \in Threads : Done(u, c)'}
  <2>1. IsFiniteSet(S) /\ IsFiniteSet(T)
    BY FS_Subset, WaitableAssumption
  <2>2. Cardinality(S) \in Nat /\ Cardinality(T) \in Nat
    BY <2>1, FS_CardinalityType
  <2> QED BY <2>2 DEF Number
<1> QED BY <1>1

LEMMA NumberSame ==
    ASSUME NEW c, \A u \in Threads : Done(u, c)' <=> Done(u, c)
    PROVE  Number(c)' = Number(c)
<1>1. {u \in Threads : Done(u, c)'} = {u \in Threads : Done(u, c)}
  OBVIOUS
<1> QED BY <1>1, Zenon DEF Number

LEMMA NumberPlus ==
    ASSUME NEW c, NEW x \in Threads, ~Done(x, c), Done(x, c)', \A u \in Threads \ {x} : Done(u, c)' <=> Done(u, c)
    PROVE  Number(c)' = Number(c) + 1
<1> DEFINE S == {u \in Threads : Done(u, c)}
           T == {u \in Threads : Done(u, c)'}
<1>1. IsFiniteSet(S) /\ x \notin S
  BY FS_Subset, WaitableAssumption
<1>2. T = S \cup {x}
  OBVIOUS
<1>3. Cardinality(S \cup {x}) = Cardinality(S) + 1
  BY <1>1, FS_AddElement
<1>4. Cardinality(T) = Cardinality(S \cup {x})
  BY <1>2, Zenon
<1> QED BY <1>3, <1>4 DEF Number

LEMMA NumberMinus ==
    ASSUME NEW c, NEW x \in Threads, Done(x, c), ~Done(x, c)', \A u \in Threads \ {x} : Done(u, c)' <=> Done(u, c)
    PROVE  Number(c)' = Number(c) - 1
<1> DEFINE S == {u \in Threads : Done(u, c)}
           T == {u \in Threads : Done(u, c)'}
<1>1. IsFiniteSet(T) /\ x \notin T
  BY FS_Subset, WaitableAssumption
<1>2. S = T \cup {x}
  OBVIOUS
<1>3. Cardinality(T \cup {x}) = Cardinality(T) + 1
  BY <1>1, FS_AddElement
<1>4. Cardinality(S) = Cardinality(T \cup {x})
  BY <1>2, Zenon
<1>5. Number(c) = Number(c)' + 1
  BY <1>3, <1>4 DEF Number
<1> QED BY <1>5, NumberNat

LEMMA CreditSame ==
    ASSUME TypeOK, CreditInv, \A u \in Threads : \A c : Done(u, c)' <=> Done(u, c),
           \A w \in Waitables : \E d \in Int : credit'[w] = credit[w] + d /\ count'[w] = count[w] + d
    PROVE  CreditInv'
<1> SUFFICES ASSUME NEW w \in Waitables PROVE CreditOK(w)'
  BY DEF CreditInv
<1>1. CreditOK(w) /\ credit[w] \in Int /\ count[w] \in Int
  BY DEF CreditInv, TypeOK
<1>2. Number(<<w, "send">>)' = Number(<<w, "send">>) /\ Number(<<w, "wait">>)' = Number(<<w, "wait">>)
  BY NumberSame
<1>3. PICK d \in Int : credit'[w] = credit[w] + d /\ count'[w] = count[w] + d
  OBVIOUS
<1> DEFINE a == Number(<<w, "send">>)
           b == Number(<<w, "wait">>)
<1>4. a \in Nat /\ b \in Nat
  BY NumberNat
<1>5. credit[w] + a - b = count[w]
  BY <1>1 DEF CreditOK
<1>6. credit'[w] + a - b = count'[w]
  <2> HIDE DEF a, b
  <2> QED BY <1>1, <1>3, <1>4, <1>5
<1> QED BY <1>2, <1>6 DEF CreditOK

\* t and x complete the two cases of one waitable.
LEMMA CreditPair ==
    ASSUME TypeOK, CreditInv, NEW c \in Cases, NEW t \in Threads, NEW x \in Threads, t # x,
           \A d : ~Done(x, d) /\ ~Done(t, d),
           \A d : (Done(x, d)' <=> d = Partner(c)) /\ (Done(t, d)' <=> d = c),
           \A u \in Threads \ {t, x} : \A d : Done(u, d)' <=> Done(u, d),
           UNCHANGED <<credit, count>>
    PROVE  CreditInv'
<1> SUFFICES ASSUME NEW w \in Waitables PROVE CreditOK(w)'
  BY DEF CreditInv
<1> DEFINE A == <<w, "send">>
           B == <<w, "wait">>
<1>1. CreditOK(w) /\ credit[w] \in Int /\ count[w] \in Int
  BY DEF CreditInv, TypeOK
<1>2. CASE c[1] # w
  <2>1. A # c /\ A # Partner(c) /\ B # c /\ B # Partner(c)
    BY <1>2 DEF Cases, Partner
  <2>2. Number(A)' = Number(A) /\ Number(B)' = Number(B)
    <3>1. \A u \in Threads : (Done(u, A)' <=> Done(u, A)) /\ (Done(u, B)' <=> Done(u, B))
      BY <2>1
    <3> QED BY <3>1, NumberSame
  <2> QED BY <1>1, <2>2 DEF CreditOK
<1>3. CASE c[1] = w
  <2>1. (c = A /\ Partner(c) = B) \/ (c = B /\ Partner(c) = A)
    BY <1>3, Partners DEF Cases, Partner, Opposite, Dirs
  <2>2. A # B
    OBVIOUS
  <2>3. ASSUME NEW y \in Threads, NEW z \in Threads, NEW d, {y, z} = {t, x}, y # z, Done(y, d)', ~Done(z, d)'
        PROVE  Number(d)' = Number(d) + 1
    BY <2>3, NumberPlus
  <2>4. Number(c)' = Number(c) + 1 /\ Number(Partner(c))' = Number(Partner(c)) + 1
    <3>1. c # Partner(c)
      BY <2>1, <2>2
    <3>2. Number(c)' = Number(c) + 1
      <4>1. Done(t, c)' /\ ~Done(x, c)' /\ {t, x} = {t, x}
        BY <3>1
      <4> QED BY <4>1, <2>3
    <3>3. Number(Partner(c))' = Number(Partner(c)) + 1
      <4> DEFINE d == Partner(c)
      <4>1. Done(x, d)' /\ ~Done(t, d)' /\ {x, t} = {t, x}
        BY <3>1
      <4>2. Number(d)' = Number(d) + 1
        BY <4>1, NumberPlus
      <4> QED BY <4>2
    <3> QED BY <3>2, <3>3
  <2>5. Number(A)' = Number(A) + 1 /\ Number(B)' = Number(B) + 1
    BY <2>1, <2>4
  <2>6. credit'[w] = credit[w] /\ count'[w] = count[w] /\ Number(A) \in Nat /\ Number(B) \in Nat
    BY NumberNat
  <2>7. credit[w] + Number(A) - Number(B) = count[w]
    BY <1>1 DEF CreditOK
  <2>8. credit'[w] + Number(A)' - Number(B)' = count'[w]
    BY <1>1, <2>5, <2>6, <2>7
  <2> QED BY <2>8 DEF CreditOK
<1> QED BY <1>2, <1>3

\* t returns from its call, which has completed c.
LEMMA CreditBack ==
    ASSUME TypeOK, CreditInv, NEW c \in Cases, NEW t \in Threads,
           \A d : (Done(t, d) <=> d = c) /\ ~Done(t, d)',
           \A u \in Threads \ {t} : \A d : Done(u, d)' <=> Done(u, d),
           credit' = Credited(c), UNCHANGED count
    PROVE  CreditInv'
<1> SUFFICES ASSUME NEW w \in Waitables PROVE CreditOK(w)'
  BY DEF CreditInv
<1> DEFINE A == <<w, "send">>
           B == <<w, "wait">>
<1>1. CreditOK(w) /\ credit[w] \in Int /\ count[w] \in Int
  BY DEF CreditInv, TypeOK
<1>2. \A d : (d # c => Number(d)' = Number(d)) /\ (d = c => Number(d)' = Number(d) - 1)
  <2>1. ASSUME NEW d, d # c PROVE Number(d)' = Number(d)
    <3>1. \A u \in Threads : Done(u, d)' <=> Done(u, d)
      BY <2>1
    <3> QED BY <3>1, NumberSame
  <2>2. Number(c)' = Number(c) - 1
    BY NumberMinus
  <2> QED BY <2>1, <2>2
<1>3. credit'[w] = IF c[1] = w THEN (IF c[2] = "send" THEN credit[w] + 1 ELSE credit[w] - 1) ELSE credit[w]
  BY DEF Credited, Moved, TypeOK
<1>4. /\ Number(A) \in Nat /\ Number(B) \in Nat /\ Number(A)' \in Nat /\ Number(B)' \in Nat
      /\ credit[w] + Number(A) - Number(B) = count[w] /\ count'[w] = count[w] /\ A # B
  BY <1>1, NumberNat DEF CreditOK
<1>5. CASE c[1] # w
  <2>1. c # A /\ c # B
    BY <1>5
  <2>2. Number(A)' = Number(A) /\ Number(B)' = Number(B) /\ credit'[w] = credit[w]
    BY <1>2, <1>3, <1>5, <2>1
  <2> QED BY <1>1, <2>2 DEF CreditOK
<1>6. CASE c[1] = w /\ c[2] = "send"
  <2>1. c = A
    BY <1>6, Partners
  <2>2. Number(A)' = Number(A) - 1 /\ Number(B)' = Number(B) /\ credit'[w] = credit[w] + 1
    BY <1>2, <1>3, <1>4, <1>6, <2>1
  <2>3. credit'[w] + Number(A)' - Number(B)' = count'[w]
    BY <1>1, <1>4, <2>2
  <2> QED BY <2>3 DEF CreditOK
<1>7. CASE c[1] = w /\ c[2] # "send"
  <2>1. c = B
    BY <1>7, Partners DEF Dirs
  <2>2. Number(A)' = Number(A) /\ Number(B)' = Number(B) - 1 /\ credit'[w] = credit[w] - 1
    BY <1>2, <1>3, <1>4, <1>7, <2>1
  <2>3. credit'[w] + Number(A)' - Number(B)' = count'[w]
    BY <1>1, <1>4, <2>2
  <2> QED BY <2>3 DEF CreditOK
<1> QED BY <1>5, <1>6, <1>7

Inv == WInv /\ CreditInv

----------------------------------------------------------------------------
(* The same, for all parts of the invariant.                               *)

NextOK == ShapeInv' /\ LockInv' /\ SleepInv' /\ CreditInv'
Balanced == \A w \in Waitables : \E d \in Int : credit'[w] = credit[w] + d /\ count'[w] = count[w] + d
LocksOf(t) ==
    /\ \A s \in Threads \ {t} : unlocks'[s] = unlocks[s]
    /\ \A w \in Waitables : lock'[w] = lock[w] \/ lock[w] \in {t, NoThread}

LEMMA Same ==
    ASSUME TypeOK, UNCHANGED <<credit, count>> PROVE Balanced
<1> SUFFICES ASSUME NEW w \in Waitables PROVE credit'[w] = credit[w] + 0 /\ count'[w] = count[w] + 0
  BY DEF Balanced
<1> QED BY DEF TypeOK

LEMMA NoUnlocks ==
    ASSUME WInv, NEW t \in Threads, pc[t] \notin {"parked", "sel_relock"} \/ ~op[t].select
    PROVE  unlocks[t] = {}
<1>1. LockOK(t) /\ unlocks[t] \subseteq Waitables
  BY DEF WInv, LockInv, TypeOK
<1> QED BY <1>1 DEF LockOK

LEMMA NoTodo ==
    ASSUME WInv, NEW t \in Threads, pc[t] \notin {"ready", "closing", "close"}
    PROVE  todo[t] = << >>
BY DEF WInv, ShapeInv, TodoInv, TodoOK

\* Where t goes has its cases.
PassOp(t) ==
    /\ pc'[t] = "op" => One(op'[t].cases)
    /\ pc'[t] \in {"sel_lock", "sel_pass1"} => op'[t].select /\ op'[t].cases # {}
    /\ pc'[t] \in {"idle", "close", "closing", "op"} => ~op'[t].select
    /\ pc'[t] = "closing" => \E w \in Waitables : op'[t].cases = {w} \X Dirs

LEMMA PassOpOK ==
    ASSUME TypeOK, ShapeInv, NEW t \in Threads, Passes(t), PassOp(t)
    PROVE  OpOK(t)'
<1>1. pc[t] \in Plain /\ pc'[t] \in Plain /\ status' = status /\ select_done' = select_done /\ success' = success
  BY DEF Passes
<1>2. status[t] = "running" /\ ~select_done[t] /\ ~success[t]
  BY <1>1, Facts DEF Plain
<1> QED BY <1>1, <1>2 DEF OpOK, PassOp, Plain

LEMMA PassStep ==
    ASSUME Inv, NEW t \in Threads, Passes(t), PassOp(t), UNCHANGED <<closed, unlocks>>, LocksOf(t),
           pc[t] # "closing", pc'[t] # "closing", pc'[t] = "sel_pass1" => \A w \in Ws(t)' : lock'[w] = t,
           Balanced, \A w \in Waitables : SleptOn(w) => count'[w] = count[w]
    PROVE  NextOK
<1>0. TypeOK /\ ShapeInv /\ LockInv /\ SleepInv /\ CreditInv /\ WInv
  BY DEF Inv, WInv
<1>1. ShapeInv'
  BY <1>0, PassOpOK, PassesShape
<1>2. Others(t) /\ pc[t] \notin {"parked", "sel_relock"}
  BY DEF Passes, Plain
<1>3. LockInv'
  <2>1. unlocks'[t] = {}
    BY <1>0, <1>2, NoUnlocks
  <2>2. LockOK(t)'
    BY <2>1 DEF LockOK
  <2> QED BY <1>0, <1>2, <2>2, LockFrame DEF LocksOf
<1>4. SleepInv'
  <2>1. \A u \in Threads : Sleeps(u)' => Sleeps(u) /\ op'[u] = op[u]
    BY <1>0, <1>2, PassesStates DEF Others
  <2> QED BY <1>0, <1>2, <2>1, SleepSame
<1>5. CreditInv'
  BY <1>0, PassesDone, CreditSame DEF Balanced
<1> QED BY <1>1, <1>3, <1>4, <1>5 DEF NextOK

LEMMA ClaimStep ==
    ASSUME Inv, NEW t \in Threads, NEW x \in Threads, NEW p \in Cases, Claims(t, x, p),
           UNCHANGED <<closed, count, credit, unlocks>>, LocksOf(t), pc'[t] = "closing" => UNCHANGED lock
    PROVE  NextOK
<1>0. TypeOK /\ ShapeInv /\ LockInv /\ SleepInv /\ CreditInv /\ WInv
  BY DEF Inv, WInv
<1> USE <1>0, ClaimsStates
<1>1. /\ pc[t] \in {"op", "sel_pass1", "closing"} /\ pc'[t] = (IF pc[t] = "closing" THEN "closing" ELSE "ready")
      /\ Others(t) /\ (pc[t] = "closing" => op'[t] = op[t])
  BY DEF Claims, Taker
<1>2. OpOK(t)'
  <2>1. status'[t] = "running" /\ ~select_done'[t] /\ ~success'[t]
    BY <1>1, Facts DEF Claims
  <2>2. CASE pc[t] = "closing"
    BY <1>1, <2>1, <2>2 DEF OpOK, ShapeInv, OpInv
  <2>3. CASE pc[t] # "closing"
    <3>1. One(op'[t].cases)
      BY <2>3 DEF Claims, Taker
    <3> QED BY <1>1, <2>1, <2>3, <3>1 DEF OpOK
  <2> QED BY <2>2, <2>3
<1>3. ShapeInv'
  BY <1>2, ClaimsShape
<1>4. LockInv'
  <2>1. unlocks'[t] = {}
    BY <1>1, NoUnlocks
  <2>2. pc'[t] = "closing" => Ws(t)' = Ws(t)
    BY <1>1 DEF Ws
  <2>3. LockOK(t)'
    BY <1>1, <2>1, <2>2 DEF LockOK, LockInv
  <2> QED BY <1>1, <2>3, LockFrame DEF LocksOf
<1>5. SleepInv'
  <2>1. \A u \in Threads : Sleeps(u)' => Sleeps(u) /\ op'[u] = op[u]
    BY <1>1 DEF Others
  <2> QED BY <1>1, <2>1, SleepSame
<1>6. CreditInv'
  <2>1. CASE pc[t] = "closing"
    <3>1. \A u \in Threads : \A c : Done(u, c)' <=> Done(u, c)
      BY <2>1, ClaimsDone
    <3> QED BY <3>1, Same, CreditSame DEF Balanced
  <2>2. CASE pc[t] # "closing"
    <3>1. PICK c \in Cases : c = TheCase(t)' /\ Partner(c) = p
      <4>1. One(op'[t].cases) /\ Partner(TheCase(t)') = p
        BY <2>2 DEF Claims, Taker, Partner
      <4>2. TheCase(t)' \in Cases
        BY <4>1 DEF TheCase, One
      <4> QED BY <4>1, <4>2
    <3>2. /\ \A d : ~Done(x, d) /\ ~Done(t, d)
          /\ \A d : (Done(x, d)' <=> d = Partner(c)) /\ (Done(t, d)' <=> d = c)
          /\ \A u \in Threads \ {t, x} : \A d : Done(u, d)' <=> Done(u, d)
      BY <2>2, <3>1, ClaimsDone
    <3> QED BY <3>2, CreditPair
  <2> QED BY <2>1, <2>2
<1> QED BY <1>3, <1>4, <1>5, <1>6 DEF NextOK

LEMMA ParkStep ==
    ASSUME Inv, NEW t \in Threads, Parks(t), UNCHANGED credit, LocksOf(t), LockOK(t)',
           \A c \in op[t].cases : ~closed[c[1]] /\ ~HasLive(Partner(c)) /\ ~CountAllows(c)
    PROVE  NextOK
<1>0. TypeOK /\ ShapeInv /\ LockInv /\ SleepInv /\ CreditInv /\ op[t].cases \subseteq Cases
  BY DEF Inv, WInv, TypeOK
<1> USE <1>0, ParksStates
<1>1. op' = op /\ count' = count /\ closed' = closed /\ Others(t) /\ pc[t] # "closing"
  BY DEF Parks, Others
<1>2. ShapeInv'
  BY ParksShape
<1>3. LockInv'
  BY <1>1, LockFrame DEF LocksOf
<1>4. SleepInv'
  <2> SUFFICES ASSUME NEW u \in Threads, Sleeps(u)', NEW w \in Waitables PROVE VainOK(u, w)'
    BY DEF SleepInv
  <2>0. \A dir \in Dirs : Opposite(dir)' = Opposite(dir) /\ Opposite(dir) \in Dirs /\ Opposite(Opposite(dir)) = dir
    BY DEF Opposite, Dirs
  <2>1. CASE u # t
    <3>1. Sleeps(u) /\ VainOK(u, w)
      BY <2>1 DEF SleepInv
    <3>2. Closing(w) => Closing(w)'
      <4>1. \A s \in Threads : Ws(s)' = Ws(s)
        BY <1>1 DEF Ws
      <4> QED BY <4>1, <1>1 DEF Closing, Others
    <3>3. ASSUME NEW dir \in Dirs, <<w, dir>> \in op[u].cases PROVE <<w, Opposite(dir)>> \notin op[t].cases
      <4> SUFFICES ASSUME <<w, Opposite(dir)>> \in op[t].cases PROVE FALSE
        OBVIOUS
      <4> DEFINE c == <<w, Opposite(dir)>>
      <4>1. Partner(c) = <<w, dir>>
        BY <2>0 DEF Partner
      <4>2. ~HasLive(<<w, dir>>)
        BY <4>1
      <4>3. <<w, dir>> \in Cases
        BY DEF Cases
      <4> QED BY <3>1, <3>3, <4>2, <4>3, Sleepers
    <3> QED BY <1>1, <2>0, <3>1, <3>2, <3>3 DEF VainOK
  <2>2. CASE u = t
    <3>1. count[w] \in Nat /\ count[w] <= Size[w] /\ Size[w] \in Nat
      BY WaitableAssumption DEF TypeOK
    <3>2. <<w, "wait">> \in op[t].cases => count[w] = 0
      BY <3>1 DEF CountAllows
    <3>3. <<w, "send">> \in op[t].cases => count[w] = Size[w]
      BY <3>1 DEF CountAllows
    <3>4. ASSUME NEW dir \in Dirs, <<w, dir>> \in op[t].cases
          PROVE  ~closed[w] /\ \A v \in Threads : Sleeps(v) => <<w, Opposite(dir)>> \notin op[v].cases
      <4> DEFINE c == <<w, dir>>
      <4>1. Partner(c) = <<w, Opposite(dir)>> /\ Partner(c) \in Cases
        BY <2>0 DEF Partner, Cases
      <4>2. ~HasLive(Partner(c)) /\ ~closed[w]
        BY <3>4
      <4> QED BY <4>1, <4>2, Sleepers
    <3> QED BY <1>1, <2>0, <2>2, <3>2, <3>3, <3>4 DEF VainOK
  <2> QED BY <2>1, <2>2
<1>5. CreditInv'
  BY <1>1, ParksDone, Same, CreditSame DEF Balanced
<1> QED BY <1>2, <1>3, <1>4, <1>5 DEF NextOK

LEMMA ReadyStep ==
    ASSUME Inv, NEW t \in Threads, NEW u \in Threads, Readies(t, u), UNCHANGED <<count, closed, lock, unlocks>>,
           ~op'[t].select, success'[u] = (IF pc[t] = "ready" THEN TRUE ELSE success[u]),
           credit' = IF pc[t] = "ready" THEN Credited(TheCase(t)) ELSE credit
    PROVE  NextOK
<1>0. TypeOK /\ ShapeInv /\ LockInv /\ SleepInv /\ CreditInv /\ WInv
  BY DEF Inv, WInv
<1> USE <1>0, ReadiesStates
<1>1. Others(t) /\ pc[t] \in {"ready", "close"} /\ pc'[t] \in {"idle", "close"}
  BY DEF Readies
<1>2. OpOK(t)'
  <2>1. status'[t] = "running" /\ ~select_done'[t] /\ ~success'[t]
    BY <1>1, Facts DEF Readies
  <2> QED BY <1>1, <2>1 DEF OpOK
<1>3. ShapeInv'
  BY <1>2, ReadiesShape
<1>4. LockInv'
  <2>1. unlocks'[t] = {}
    BY <1>1, NoUnlocks
  <2>2. LockOK(t)'
    BY <1>1, <2>1 DEF LockOK
  <2> QED BY <1>1, <2>2, LockFrame
<1>5. SleepInv'
  <2>1. \A v \in Threads : Sleeps(v)' => Sleeps(v) /\ op'[v] = op[v]
    BY <1>1 DEF Others
  <2> QED BY <1>1, <2>1, SleepSame
<1>6. CreditInv'
  <2>1. CASE pc[t] = "ready"
    <3>1. PICK c \in Cases : c = TheCase(t)
      BY <2>1, TheOne DEF ShapeInv, OpInv, OpOK
    <3>2. /\ \A d : (Done(t, d) <=> d = c) /\ ~Done(t, d)'
          /\ \A v \in Threads \ {t} : \A d : Done(v, d)' <=> Done(v, d)
      BY <2>1, <3>1, ReadiesDone
    <3>3. credit' = Credited(c)
      BY <2>1, <3>1
    <3> QED BY <3>2, <3>3, CreditBack
  <2>2. CASE pc[t] = "close"
    <3>1. \A v \in Threads : \A d : Done(v, d)' <=> Done(v, d)
      BY <2>2, ReadiesDone, ZenonT(60)
    <3>2. credit' = credit
      BY <2>2
    <3> QED BY <3>1, <3>2, Same, CreditSame DEF Balanced
  <2> QED BY <1>1, <2>1, <2>2
<1> QED BY <1>3, <1>4, <1>5, <1>6 DEF NextOK

LEMMA LeaveStep ==
    ASSUME Inv, NEW t \in Threads, Leaves(t), UNCHANGED <<count, closed, unlocks>>, LocksOf(t), unlocks[t] = {},
           credit' = IF success[t] THEN Credited(waker[t]) ELSE credit
    PROVE  NextOK
<1>0. TypeOK /\ ShapeInv /\ LockInv /\ SleepInv /\ CreditInv /\ WInv
  BY DEF Inv, WInv
<1> USE <1>0, LeavesStates
<1>1. Others(t) /\ Runs(t) /\ pc'[t] = "idle" /\ pc[t] # "closing"
  BY DEF Leaves, Runs
<1>2. ShapeInv'
  BY LeavesShape
<1>3. LockInv'
  <2>1. LockOK(t)'
    BY <1>1 DEF LockOK
  <2> QED BY <1>1, <2>1, LockFrame DEF LocksOf
<1>4. SleepInv'
  <2>1. \A v \in Threads : Sleeps(v)' => Sleeps(v) /\ op'[v] = op[v]
    BY <1>1 DEF Others
  <2> QED BY <1>1, <2>1, SleepSame
<1>5. CreditInv'
  <2>1. CASE success[t]
    <3>1. PICK c \in Cases : c = waker[t]
      BY <1>1 DEF ShapeInv, QueueInv, RunOK, TypeOK
    <3>2. /\ \A d : (Done(t, d) <=> d = c) /\ ~Done(t, d)'
          /\ \A v \in Threads \ {t} : \A d : Done(v, d)' <=> Done(v, d)
      BY <2>1, <3>1, LeavesDone
    <3>3. credit' = Credited(c)
      BY <2>1, <3>1
    <3> QED BY <3>2, <3>3, CreditBack
  <2>2. CASE ~success[t]
    <3>1. \A v \in Threads : \A d : Done(v, d)' <=> Done(v, d)
      BY <2>2, LeavesDone
    <3>2. credit' = credit
      BY <2>2
    <3> QED BY <3>1, <3>2, Same, CreditSame DEF Balanced
  <2> QED BY <2>1, <2>2
<1> QED BY <1>2, <1>3, <1>4, <1>5 DEF NextOK

LEMMA RelockStep ==
    ASSUME Inv, NEW t \in Threads, Relocks(t), UNCHANGED <<count, closed, credit>>, LocksOf(t), LockOK(t)'
    PROVE  NextOK
<1>0. TypeOK /\ ShapeInv /\ LockInv /\ SleepInv /\ CreditInv /\ WInv
  BY DEF Inv, WInv
<1> USE <1>0, RelocksStates
<1>1. Others(t) /\ Runs(t) /\ pc[t] # "closing" /\ op' = op
  BY DEF Relocks, Runs, Others
<1>2. ShapeInv'
  BY RelocksShape
<1>3. LockInv'
  BY <1>1, LockFrame DEF LocksOf
<1>4. SleepInv'
  <2>1. \A v \in Threads : Sleeps(v)' => Sleeps(v) /\ op'[v] = op[v]
    BY <1>1
  <2> QED BY <1>1, <2>1, SleepSame
<1>5. CreditInv'
  BY RelocksDone, Same, CreditSame DEF Balanced
<1> QED BY <1>2, <1>3, <1>4, <1>5 DEF NextOK

\* Nothing moves but the locks.
LEMMA StillStep ==
    ASSUME Inv, UNCHANGED <<count, closed, queue, status, select_done, waker, success, pc, op, todo, credit>>, LockInv'
    PROVE  NextOK
<1>0. TypeOK /\ ShapeInv /\ LockInv /\ SleepInv /\ CreditInv
  BY DEF Inv, WInv
<1>1. \A u, c : In(u, c)' <=> In(u, c)
  BY DEF In
<1>2. \A s, u : Owes(s, u)' <=> Owes(s, u)
  BY DEF Owes
<1>3. \A u : (Sleeps(u)' <=> Sleeps(u)) /\ (Runs(u)' <=> Runs(u)) /\ (Won(u)' <=> Won(u))
  BY <1>2 DEF Sleeps, Runs, Won
<1>4. \A s : TheCase(s)' = TheCase(s)
  BY DEF TheCase
<1>5. \A s : Partner(TheCase(s))' = Partner(TheCase(s))
  BY <1>4 DEF Partner
<1>6. \A s, u : By(s, u)' = By(s, u)
  BY <1>5 DEF By
<1>7. OpInv'
  BY <1>0, <1>3 DEF ShapeInv, OpInv, OpOK
<1>8. TodoInv'
  <2>1. \A s \in Threads : TodoOK(s)'
    BY <1>0 DEF ShapeInv, TodoInv, TodoOK
  <2>2. \A s, u \in Threads : In(u, By(s, u))' <=> In(u, By(s, u))
    BY <1>6 DEF In
  <2>3. \A s, u \in Threads : OwedOK(s, u)'
    BY <1>0, <1>2, <1>6, <2>2 DEF ShapeInv, TodoInv, OwedOK
  <2> QED BY <1>0, <1>2, <2>1, <2>3 DEF ShapeInv, TodoInv
<1>9. QueueInv'
  <2>1. \A u \in Threads : In(u, waker[u])' <=> In(u, waker[u])
    BY DEF In
  <2>2. \A u \in Threads : RunOK(u)'
    BY <1>0, <1>3, <2>1 DEF ShapeInv, QueueInv, RunOK
  <2>3. \A u \in Threads : SleepOK(u)' /\ \A c \in Cases : InOK(u, c)'
    BY <1>0, <1>1, <1>3 DEF ShapeInv, QueueInv, SleepOK, InOK
  <2> QED BY <1>0, <2>2, <2>3 DEF ShapeInv, QueueInv
<1>10. SleepInv'
  <2>1. ASSUME NEW w \in Waitables, SleptOn(w), closed'[w] PROVE Closing(w)'
    <3>1. Closing(w)
      BY <1>0, <2>1 DEF SleepInv, SleptOn, VainOK
    <3>2. \A s \in Threads : Ws(s)' = Ws(s)
      BY DEF Ws
    <3> QED BY <3>1, <3>2 DEF Closing
  <2> QED BY <1>0, <1>3, <2>1, SleepKept
<1>11. CreditInv'
  <2>1. \A u \in Threads : \A c : Done(u, c)' <=> Done(u, c)
    BY <1>2, <1>3, <1>4, <1>5 DEF Done
  <2> QED BY <1>0, <2>1, Same, CreditSame DEF Balanced
<1> QED BY <1>7, <1>8, <1>9, <1>10, <1>11 DEF NextOK, ShapeInv

----------------------------------------------------------------------------
(* The actions.                                                            *)

LEMMA Moves ==
    ASSUME TypeOK, NEW c \in Cases, count' = Counted(c), credit' = Credited(c), CountAllows(c)
    PROVE  /\ Balanced /\ \A w \in Waitables \ {c[1]} : count'[w] = count[w]
           /\ count' \in [Waitables -> Nat] /\ credit' \in [Waitables -> Int]
           /\ \A w \in Waitables : count'[w] <= Size[w]
<1>1. c[1] \in Waitables /\ c[2] \in Dirs
  BY Partners
<1>2. count \in [Waitables -> Nat] /\ credit \in [Waitables -> Int] /\ \A w \in Waitables : count[w] <= Size[w] /\ Size[w] \in Nat
  BY WaitableAssumption DEF TypeOK
<1>3. \A w \in Waitables \ {c[1]} : count'[w] = count[w] /\ credit'[w] = credit[w]
  BY <1>1, <1>2 DEF Counted, Credited, Moved
<1> DEFINE d == IF c[2] = "send" THEN 1 ELSE 0 - 1
<1>4. count'[c[1]] = count[c[1]] + d /\ credit'[c[1]] = credit[c[1]] + d /\ d \in Int
  BY <1>1, <1>2 DEF Counted, Credited, Moved
<1>5. Balanced
  <2> SUFFICES ASSUME NEW w \in Waitables PROVE \E e \in Int : credit'[w] = credit[w] + e /\ count'[w] = count[w] + e
    BY DEF Balanced
  <2>1. CASE w = c[1]
    BY <2>1, <1>4
  <2>2. CASE w # c[1]
    <3>1. credit'[w] = credit[w] + 0 /\ count'[w] = count[w] + 0
      BY <2>2, <1>2, <1>3
    <3> QED BY <3>1
  <2> QED BY <2>1, <2>2
<1>6. count' \in [Waitables -> Nat] /\ credit' \in [Waitables -> Int]
  BY <1>1, <1>2 DEF Counted, Credited, Moved, CountAllows
<1>7. \A w \in Waitables : count'[w] <= Size[w]
  <2>1. count'[c[1]] <= Size[c[1]]
    BY <1>1, <1>2, <1>4 DEF CountAllows
  <2> QED BY <1>2, <1>3, <2>1
<1> QED BY <1>3, <1>5, <1>6, <1>7

\* Nobody sleeps on a waitable whose count lets a call through.
LEMMA CountFree ==
    ASSUME WInv, NEW c \in Cases, CountAllows(c), ~HasLive(Partner(c))
    PROVE  ~SleptOn(c[1])
<1>0. TypeOK /\ ShapeInv /\ SleepInv /\ c[1] \in Waitables /\ c[2] \in Dirs /\ c = <<c[1], c[2]>> /\ Partner(c) \in Cases
  BY Partners DEF WInv
<1> SUFFICES ASSUME NEW u \in Threads, Sleeps(u), NEW dir \in Dirs, <<c[1], dir>> \in op[u].cases PROVE FALSE
  BY DEF SleptOn
<1>1. VainOK(u, c[1]) /\ count[c[1]] \in Nat /\ Size[c[1]] \in Nat
  BY <1>0, WaitableAssumption DEF SleepInv, TypeOK
<1>2. Partner(c) \notin op[u].cases
  BY <1>0, Sleepers
<1>3. <<c[1], dir>> = c
  BY <1>0, <1>2 DEF Partner, Opposite, Dirs
<1>4. CASE c[2] = "send"
  <2>1. <<c[1], "send">> \in op[u].cases
    BY <1>0, <1>3, <1>4
  <2> QED BY <1>1, <1>4, <2>1 DEF VainOK, CountAllows
<1>5. CASE c[2] = "wait"
  <2>1. <<c[1], "wait">> \in op[u].cases
    BY <1>0, <1>3, <1>5
  <2> QED BY <1>1, <1>5, <2>1 DEF VainOK, CountAllows
<1> QED BY <1>0, <1>4, <1>5 DEF Dirs

\* Nobody sleeps on a closed waitable nobody is working on.
LEMMA ClosedFree ==
    ASSUME WInv, NEW w \in Waitables, closed[w], lock[w] = NoThread
    PROVE  ~SleptOn(w)
<1> SUFFICES ASSUME SleptOn(w) PROVE FALSE
  OBVIOUS
<1>1. Closing(w)
  BY DEF WInv, SleepInv, SleptOn, VainOK
<1>2. PICK s \in Threads : pc[s] = "closing" /\ w \in Ws(s)
  BY <1>1 DEF Closing
<1>3. lock[w] = s
  BY <1>2 DEF WInv, LockInv, LockOK
<1> QED BY <1>3, WaitableAssumption

LEMMA CallInv ==
    ASSUME Inv, NEW t \in Threads, NEW c \in Cases, NEW block \in BOOLEAN, Call(t, c, block)
    PROVE  TypeOK' /\ NextOK
<1>0. TypeOK /\ ShapeInv /\ WInv /\ QueueInv
  BY DEF Inv, WInv, ShapeInv
<1>1. /\ pc[t] = "idle" /\ pc' = [pc EXCEPT ![t] = "op"]
      /\ op' = [op EXCEPT ![t] = [cases |-> {c}, block |-> block, select |-> FALSE]]
      /\ UNCHANGED <<count, closed, queue, lock, status, select_done, waker, success, todo, unlocks, credit>>
  BY DEF Call, Goto
<1>2. TypeOK'
  BY <1>0, <1>1 DEF TypeOK
<1>3. pc'[t] = "op" /\ op'[t].cases = {c} /\ ~op'[t].select /\ Others(t)
  BY <1>0, <1>1 DEF TypeOK, Others
<1>4. Passes(t)
  BY <1>0, <1>1, <1>3, NoTodo, TrimNone DEF Passes, Plain
<1>5. PassOp(t)
  BY <1>3 DEF PassOp, One
<1>6. NextOK
  BY <1>0, <1>1, <1>3, <1>4, <1>5, Same, PassStep DEF LocksOf
<1> QED BY <1>2, <1>6

LEMMA SelectCallInv ==
    ASSUME Inv, NEW t \in Threads, NEW cases \in Selects, NEW block \in BOOLEAN, SelectCall(t, cases, block)
    PROVE  TypeOK' /\ NextOK
<1>0. TypeOK /\ ShapeInv /\ WInv /\ QueueInv /\ cases \subseteq Cases /\ cases # {}
  BY WaitableAssumption DEF Inv, WInv, ShapeInv
<1>1. /\ pc[t] = "idle" /\ pc' = [pc EXCEPT ![t] = "sel_lock"]
      /\ op' = [op EXCEPT ![t] = [cases |-> cases, block |-> block, select |-> TRUE]]
      /\ UNCHANGED <<count, closed, queue, lock, status, select_done, waker, success, todo, unlocks, credit>>
  BY DEF SelectCall, Goto
<1>2. TypeOK'
  BY <1>0, <1>1 DEF TypeOK
<1>3. pc'[t] = "sel_lock" /\ op'[t].cases = cases /\ op'[t].select /\ Others(t)
  BY <1>0, <1>1 DEF TypeOK, Others
<1>4. Passes(t)
  BY <1>0, <1>1, <1>3, NoTodo, TrimNone DEF Passes, Plain
<1>5. PassOp(t)
  BY <1>0, <1>3 DEF PassOp
<1>6. NextOK
  BY <1>0, <1>1, <1>3, <1>4, <1>5, Same, PassStep DEF LocksOf
<1> QED BY <1>2, <1>6

\* A call of t that returns at once.
LEMMA ReturnInv ==
    ASSUME Inv, NEW t \in Threads, pc[t] \in {"op", "sel_pass1"}, Return(t), Trim(queue', NoThread), queue' \in [Cases -> Seq(Threads)],
           UNCHANGED <<closed, status, select_done, waker, success, todo, unlocks>>,
           LocksOf(t), lock' \in [Waitables -> Threads \cup {NoThread}],
           Balanced, \A w \in Waitables : SleptOn(w) => count'[w] = count[w],
           count' \in [Waitables -> Nat] /\ credit' \in [Waitables -> Int] /\ \A w \in Waitables : count'[w] <= Size[w]
    PROVE  TypeOK' /\ NextOK
<1>0. TypeOK /\ ShapeInv /\ WInv
  BY DEF Inv, WInv
<1>1. pc' = [pc EXCEPT ![t] = "idle"] /\ op' = [op EXCEPT ![t] = NoOp]
  BY DEF Return, Goto
<1>2. TypeOK'
  <2>1. op' \in [Threads -> [cases : SUBSET Cases, block : BOOLEAN, select : BOOLEAN]]
    BY <1>0, <1>1 DEF TypeOK, NoOp
  <2>2. pc' \in [Threads -> {"idle", "op", "ready", "parked", "closing", "close", "sel_lock", "sel_pass1", "sel_relock", "sel_pass3"}]
    BY <1>0, <1>1 DEF TypeOK
  <2> QED BY <1>0, <2>1, <2>2 DEF TypeOK
<1>3. pc'[t] = "idle" /\ ~op'[t].select /\ Others(t)
  BY <1>0, <1>1 DEF TypeOK, Others, NoOp
<1>4. Passes(t)
  BY <1>0, <1>3, NoTodo DEF Passes, Plain
<1>5. PassOp(t)
  BY <1>3 DEF PassOp
<1>6. NextOK
  BY <1>0, <1>3, <1>4, <1>5, PassStep
<1> QED BY <1>2, <1>6

LEMMA CountSame ==
    ASSUME TypeOK, UNCHANGED <<count, credit>>
    PROVE  /\ Balanced /\ \A w \in Waitables : SleptOn(w) => count'[w] = count[w]
           /\ count' \in [Waitables -> Nat] /\ credit' \in [Waitables -> Int] /\ \A w \in Waitables : count'[w] <= Size[w]
BY Same DEF TypeOK

LEMMA FastFailInv ==
    ASSUME Inv, NEW t \in Threads, FastFail(t)
    PROVE  TypeOK' /\ NextOK
<1>0. TypeOK /\ ShapeInv /\ WInv /\ QueueInv
  BY DEF Inv, WInv, ShapeInv
<1>1. /\ pc[t] = "op" /\ Return(t)
      /\ UNCHANGED <<count, closed, queue, lock, status, select_done, waker, success, todo, unlocks, credit>>
  BY DEF FastFail
<1>2. queue' \in [Cases -> Seq(Threads)] /\ lock' \in [Waitables -> Threads \cup {NoThread}] /\ LocksOf(t)
  BY <1>0, <1>1 DEF TypeOK, LocksOf
<1>3. Trim(queue', NoThread)
  BY <1>0, <1>1, TrimNone
<1> QED BY <1>0, <1>1, <1>2, <1>3, CountSame, ReturnInv

LEMMA EmptyQueue ==
    ASSUME TypeOK, QueueInv, NEW p \in Cases, ~HasLive(p), queue' = [queue EXCEPT ![p] = << >>]
    PROVE  Trim(queue', NoThread) /\ queue' \in [Cases -> Seq(Threads)]
<1>1. queue' \in [Cases -> Seq(Threads)] /\ queue'[p] = << >> /\ \A c \in Cases \ {p} : queue'[c] = queue[c]
  BY DEF TypeOK
<1>2. \A c \in Cases \ {p} : Keeps(queue'[c], c, NoThread)
  BY <1>1, KeepsAll DEF QueueInv
<1>3. Keeps(queue'[p], p, NoThread)
  BY <1>1, KeepsNone
<1> QED BY <1>1, <1>2, <1>3 DEF Trim

\* Operate, with its case as a parameter and one operator per branch.
Hands(t, c) ==
    /\ HasLive(Partner(c))
    /\ queue' = [queue EXCEPT ![Partner(c)] = Rest(Partner(c))]
    /\ select_done' = Claim(First(Partner(c)))
    /\ todo' = [todo EXCEPT ![t] = <<First(Partner(c))>>]
    /\ Goto(t, "ready") /\ UNCHANGED <<count, status, op, credit>>
Counts(t, c) ==
    /\ closed[c[1]] \/ ~HasLive(Partner(c))
    /\ CountAllows(c)
    /\ queue' = IF closed[c[1]] THEN queue ELSE [queue EXCEPT ![Partner(c)] = << >>]
    /\ count' = Counted(c) /\ credit' = Credited(c)
    /\ Return(t) /\ UNCHANGED <<status, select_done, todo>>
Fails(t, c) ==
    /\ ~HasLive(Partner(c)) /\ queue' = [queue EXCEPT ![Partner(c)] = << >>]
    /\ Return(t) /\ UNCHANGED <<count, status, select_done, todo, credit>>
Blocks(t, c) ==
    /\ ~closed[c[1]] /\ ~HasLive(Partner(c)) /\ ~CountAllows(c)
    /\ queue' = [queue EXCEPT ![Partner(c)] = << >>, ![c] = Append(@, t)]
    /\ status' = [status EXCEPT ![t] = "waiting"]
    /\ Goto(t, "parked") /\ UNCHANGED <<count, select_done, op, todo, credit>>

LEMMA OperateBranches ==
    ASSUME NEW t, Operate(t)
    PROVE  /\ pc[t] = "op" /\ lock[TheCase(t)[1]] = NoThread /\ UNCHANGED <<closed, lock, waker, success, unlocks>>
           /\ \/ Return(t) /\ UNCHANGED <<count, queue, status, select_done, todo, credit>>
              \/ Hands(t, TheCase(t)) \/ Counts(t, TheCase(t)) \/ Fails(t, TheCase(t)) \/ Blocks(t, TheCase(t))
BY Zenon DEF Operate, Hands, Counts, Fails, Blocks

LEMMA HandsInv ==
    ASSUME Inv, NEW t \in Threads, pc[t] = "op", UNCHANGED <<closed, lock, waker, success, unlocks>>,
           NEW c \in Cases, op[t].cases = {c}, Hands(t, c)
    PROVE  TypeOK' /\ NextOK
<1>0. TypeOK /\ ShapeInv /\ WInv /\ QueueInv
  BY DEF Inv, WInv, ShapeInv
<1>1. PICK p \in Cases : p = Partner(c) /\ Partner(p) = c
  BY Partners
<1>2. HasLive(p) /\ NoDup(queue[p])
  BY <1>0, <1>1 DEF Hands, QueueInv
<1>3. PICK x \in Threads : x = First(p) /\ In(x, p) /\ Live(x)
  BY <1>0, <1>2, FirstLive
<1>4. Rest(p) \in Seq(Threads) /\ ~Mem(Rest(p), x) /\ Keeps(Rest(p), p, x)
  BY <1>0, <1>2, <1>3, FirstLive, KeepsRest
<1>5. /\ queue' = [queue EXCEPT ![p] = Rest(p)] /\ select_done' = Claim(x) /\ todo' = [todo EXCEPT ![t] = <<x>>]
      /\ pc' = [pc EXCEPT ![t] = "ready"] /\ UNCHANGED <<count, status, op, credit>>
  BY <1>1, <1>3 DEF Hands, Goto
<1>6. TypeOK'
  <2>1. queue' \in [Cases -> Seq(Threads)]
    BY <1>0, <1>4, <1>5 DEF TypeOK
  <2>2. select_done' \in [Threads -> BOOLEAN]
    BY <1>0, <1>3, <1>5 DEF TypeOK, Claim
  <2>3. todo' \in [Threads -> Seq(Threads)]
    BY <1>0, <1>3, <1>5 DEF TypeOK
  <2>4. pc' \in [Threads -> {"idle", "op", "ready", "parked", "closing", "close", "sel_lock", "sel_pass1", "sel_relock", "sel_pass3"}]
    BY <1>0, <1>5 DEF TypeOK
  <2> QED BY <1>0, <1>5, <2>1, <2>2, <2>3, <2>4 DEF TypeOK
<1>7. Trim(queue', x) /\ ~Mem(queue'[p], x)
  <2>1. queue'[p] = Rest(p) /\ \A d \in Cases \ {p} : queue'[d] = queue[d]
    BY <1>0, <1>5 DEF TypeOK
  <2>2. \A d \in Cases \ {p} : Keeps(queue'[d], d, x)
    BY <1>0, <2>1, KeepsAll DEF QueueInv
  <2> QED BY <1>4, <2>1, <2>2 DEF Trim
<1>8. Others(t) /\ pc'[t] = "ready" /\ todo'[t] = <<x>> /\ \A s \in Threads \ {t} : todo'[s] = todo[s]
  BY <1>0, <1>5 DEF TypeOK, Others
<1>9. todo[t] = << >>
  BY <1>0, NoTodo
<1>10. NoDup(todo'[t]) /\ Len(todo'[t]) = 1 /\ \A u \in Threads : Mem(todo'[t], u) <=> Mem(todo[t], u) \/ u = x
  BY <1>8, <1>9, Single, Emptiness
<1>11. One(op'[t].cases) /\ Partner(TheCase(t))' = p
  <2>1. TheCase(t) = c /\ TheCase(t)' = c
    BY <1>5 DEF TheCase
  <2> QED BY <1>1, <1>5, <2>1 DEF Partner, One
<1>12. Claims(t, x, p)
  BY <1>3, <1>5, <1>7, <1>8, <1>10, <1>11 DEF Claims, Taker
<1>13. NextOK
  BY <1>5, <1>8, <1>12, ClaimStep DEF LocksOf
<1> QED BY <1>6, <1>13

LEMMA CountsInv ==
    ASSUME Inv, NEW t \in Threads, pc[t] = "op", UNCHANGED <<closed, lock, waker, success, unlocks>>,
           NEW c \in Cases, lock[c[1]] = NoThread, Counts(t, c)
    PROVE  TypeOK' /\ NextOK
<1>0. TypeOK /\ ShapeInv /\ WInv /\ QueueInv /\ c[1] \in Waitables /\ Partner(c) \in Cases
  BY Partners DEF Inv, WInv, ShapeInv
<1>1. ~SleptOn(c[1])
  BY <1>0, CountFree, ClosedFree DEF Counts
<1>2. Trim(queue', NoThread) /\ queue' \in [Cases -> Seq(Threads)]
  <2>1. CASE closed[c[1]]
    <3>1. queue' = queue
      BY <2>1 DEF Counts
    <3> QED BY <1>0, <3>1, TrimNone DEF TypeOK
  <2>2. CASE ~closed[c[1]]
    <3>1. queue' = [queue EXCEPT ![Partner(c)] = << >>] /\ ~HasLive(Partner(c))
      BY <2>2 DEF Counts
    <3> QED BY <1>0, <3>1, EmptyQueue
  <2> QED BY <2>1, <2>2
<1>3. /\ Balanced /\ \A w \in Waitables \ {c[1]} : count'[w] = count[w]
      /\ count' \in [Waitables -> Nat] /\ credit' \in [Waitables -> Int] /\ \A w \in Waitables : count'[w] <= Size[w]
  BY <1>0, Moves DEF Counts
<1>4. LocksOf(t) /\ lock' \in [Waitables -> Threads \cup {NoThread}]
  BY <1>0 DEF LocksOf, TypeOK
<1>5. Return(t) /\ UNCHANGED <<status, select_done, todo>>
  BY DEF Counts
<1>6. \A w \in Waitables : SleptOn(w) => count'[w] = count[w]
  BY <1>1, <1>3
<1> QED BY <1>2, <1>3, <1>4, <1>5, <1>6, ReturnInv

LEMMA FailsInv ==
    ASSUME Inv, NEW t \in Threads, pc[t] = "op", UNCHANGED <<closed, lock, waker, success, unlocks>>,
           NEW c \in Cases, Fails(t, c)
    PROVE  TypeOK' /\ NextOK
<1>0. TypeOK /\ QueueInv /\ Partner(c) \in Cases
  BY Partners DEF Inv, WInv, ShapeInv
<1>1. Trim(queue', NoThread) /\ queue' \in [Cases -> Seq(Threads)]
  BY <1>0, EmptyQueue DEF Fails
<1>2. LocksOf(t) /\ lock' \in [Waitables -> Threads \cup {NoThread}]
  BY <1>0 DEF LocksOf, TypeOK
<1>3. Return(t) /\ UNCHANGED <<count, status, select_done, todo, credit>>
  BY DEF Fails
<1> QED BY <1>0, <1>1, <1>2, <1>3, CountSame, ReturnInv

LEMMA BlocksInv ==
    ASSUME Inv, NEW t \in Threads, pc[t] = "op", UNCHANGED <<closed, lock, waker, success, unlocks>>,
           NEW c \in Cases, op[t].cases = {c}, Blocks(t, c)
    PROVE  TypeOK' /\ NextOK
<1>0. TypeOK /\ ShapeInv /\ WInv /\ QueueInv
  BY DEF Inv, WInv, ShapeInv
<1>1. PICK p \in Cases : p = Partner(c) /\ p # c
  BY Partners
<1>2. /\ ~closed[c[1]] /\ ~HasLive(p) /\ ~CountAllows(c) /\ queue' = [queue EXCEPT ![p] = << >>, ![c] = Append(@, t)]
      /\ status' = [status EXCEPT ![t] = "waiting"] /\ pc' = [pc EXCEPT ![t] = "parked"]
      /\ UNCHANGED <<count, select_done, op, todo, credit>>
  BY <1>1 DEF Blocks, Goto
<1>3. queue[c] \in Seq(Threads) /\ NoDup(queue[c]) /\ ~Mem(queue[c], t)
  BY <1>0, Facts DEF TypeOK, QueueInv, In, Runs
<1>4. queue' \in [Cases -> Seq(Threads)] /\ queue'[p] = << >> /\ queue'[c] = Append(queue[c], t)
      /\ \A d \in Cases \ {p, c} : queue'[d] = queue[d]
  <2>1. queue \in [Cases -> Seq(Threads)] /\ << >> \in Seq(Threads)
    BY <1>0 DEF TypeOK
  <2> DEFINE f == [queue EXCEPT ![p] = << >>]
  <2>2. f \in [Cases -> Seq(Threads)] /\ f[p] = << >> /\ \A d \in Cases \ {p} : f[d] = queue[d]
    BY <2>1
  <2>3. queue' = [f EXCEPT ![c] = Append(queue[c], t)]
    BY <1>2
  <2> HIDE DEF f
  <2>4. f[c] = queue[c] /\ Append(queue[c], t) \in Seq(Threads)
    BY <1>1, <1>3, <2>2
  <2> QED BY <1>1, <2>2, <2>3, <2>4
<1>5. TypeOK'
  <2>1. status' \in [Threads -> {"running", "waiting", "runnable"}]
    BY <1>0, <1>2 DEF TypeOK
  <2>2. pc' \in [Threads -> {"idle", "op", "ready", "parked", "closing", "close", "sel_lock", "sel_pass1", "sel_relock", "sel_pass3"}]
    BY <1>0, <1>2 DEF TypeOK
  <2> QED BY <1>0, <1>2, <1>4, <2>1, <2>2 DEF TypeOK
<1>6. Joins(t)
  <2> SUFFICES ASSUME NEW d \in Cases
               PROVE  /\ queue'[d] \in Seq(Threads) /\ NoDup(queue'[d])
                      /\ \A u \in Threads \ {t} : (Mem(queue'[d], u) => In(u, d)) /\ (In(u, d) /\ Live(u) => Mem(queue'[d], u))
                      /\ Mem(queue'[d], t) <=> d \in op[t].cases
    BY DEF Joins
  <2>1. CASE d = p
    <3>1. Keeps(<< >>, p, NoThread)
      BY <1>0, <1>2, KeepsNone
    <3> QED BY <2>1, <3>1, <1>1, <1>4, Emptiness, WaitableAssumption DEF Keeps
  <2>2. CASE d = c
    <3>1. /\ Append(queue[c], t) \in Seq(Threads) /\ NoDup(Append(queue[c], t))
          /\ \A u : Mem(Append(queue[c], t), u) <=> Mem(queue[c], u) \/ u = t
      BY <1>3, Added
    <3> QED BY <2>2, <3>1, <1>4 DEF In
  <2>3. CASE d # p /\ d # c
    <3>1. queue'[d] = queue[d] /\ NoDup(queue[d]) /\ ~In(t, d)
      BY <2>3, <1>0, <1>4, Facts DEF QueueInv, Runs
    <3> QED BY <2>3, <3>1, <1>4 DEF In
  <2> QED BY <2>1, <2>2, <2>3
<1>7. \A u \in Threads \ {t} : pc'[u] = pc[u] /\ status'[u] = status[u] /\ waker'[u] = waker[u]
  BY <1>0, <1>2 DEF TypeOK
<1>8. pc'[t] = "parked" /\ status'[t] = "waiting"
  BY <1>0, <1>2 DEF TypeOK
<1>9. Parks(t)
  BY <1>2, <1>6, <1>7, <1>8 DEF Parks
<1>10. unlocks'[t] = {}
  BY <1>0, NoUnlocks
<1>11. LockOK(t)'
  BY <1>8, <1>10 DEF LockOK
<1>12. NextOK
  BY <1>1, <1>2, <1>9, <1>11, ParkStep DEF LocksOf
<1> QED BY <1>5, <1>12

LEMMA OperateInv ==
    ASSUME Inv, NEW t \in Threads, Operate(t)
    PROVE  TypeOK' /\ NextOK
<1>0. TypeOK /\ ShapeInv /\ WInv /\ QueueInv
  BY DEF Inv, WInv, ShapeInv
<1>1. /\ pc[t] = "op" /\ lock[TheCase(t)[1]] = NoThread /\ UNCHANGED <<closed, lock, waker, success, unlocks>>
      /\ \/ Return(t) /\ UNCHANGED <<count, queue, status, select_done, todo, credit>>
         \/ Hands(t, TheCase(t)) \/ Counts(t, TheCase(t)) \/ Fails(t, TheCase(t)) \/ Blocks(t, TheCase(t))
  BY OperateBranches
<1>2. PICK c \in Cases : c = TheCase(t) /\ op[t].cases = {c}
  BY <1>0, <1>1, TheOne DEF ShapeInv, OpInv, OpOK
<1>3. CASE Return(t) /\ UNCHANGED <<count, queue, status, select_done, todo, credit>>
  <2>1. queue' \in [Cases -> Seq(Threads)] /\ lock' \in [Waitables -> Threads \cup {NoThread}] /\ LocksOf(t)
    BY <1>0, <1>1, <1>3 DEF TypeOK, LocksOf
  <2>2. Trim(queue', NoThread)
    BY <1>0, <1>3, TrimNone
  <2> QED BY <1>0, <1>1, <1>3, <2>1, <2>2, CountSame, ReturnInv
<1>4. CASE Hands(t, TheCase(t))
  BY <1>1, <1>2, <1>4, HandsInv
<1>5. CASE Counts(t, TheCase(t))
  BY <1>1, <1>2, <1>5, CountsInv
<1>6. CASE Fails(t, TheCase(t))
  BY <1>1, <1>2, <1>6, FailsInv
<1>7. CASE Blocks(t, TheCase(t))
  BY <1>1, <1>2, <1>7, BlocksInv
<1> QED BY <1>1, <1>3, <1>4, <1>5, <1>6, <1>7

Pcs == {"idle", "op", "ready", "parked", "closing", "close", "sel_lock", "sel_pass1", "sel_relock", "sel_pass3"}

LEMMA ReadyInv ==
    ASSUME Inv, NEW t \in Threads, Ready(t)
    PROVE  TypeOK' /\ NextOK
<1>0. TypeOK /\ ShapeInv /\ WInv
  BY DEF Inv, WInv
<1>1. pc[t] = "ready" /\ todo[t] \in Seq(Threads) /\ Len(todo[t]) = 1
  BY <1>0 DEF Ready, ShapeInv, TodoInv, TodoOK, TypeOK
<1>2. PICK u \in Threads : u = Head(todo[t]) /\ \A v \in Threads : Mem(todo[t], v) <=> v = u
  <2>1. Head(todo[t]) = todo[t][1] /\ todo[t][1] \in Threads
    BY <1>1
  <2> QED BY <1>1, <2>1 DEF Mem
<1>3. PICK c \in Cases : c = TheCase(t)
  BY <1>0, <1>1, TheOne DEF ShapeInv, OpInv, OpOK
<1>4. PICK p \in Cases : p = Partner(c)
  BY Partners
<1>5. /\ waker' = [waker EXCEPT ![u] = p] /\ success' = [success EXCEPT ![u] = TRUE]
      /\ status' = [status EXCEPT ![u] = "runnable"] /\ todo' = [todo EXCEPT ![t] = << >>]
      /\ credit' = Credited(TheCase(t)) /\ pc' = [pc EXCEPT ![t] = "idle"] /\ op' = [op EXCEPT ![t] = NoOp]
      /\ UNCHANGED <<count, closed, queue, lock, select_done, unlocks>>
  BY <1>2, <1>3, <1>4 DEF Ready, Return, Goto
<1>6. TypeOK'
  <2>1. op' \in [Threads -> [cases : SUBSET Cases, block : BOOLEAN, select : BOOLEAN]]
    BY <1>0, <1>5 DEF TypeOK, NoOp
  <2>2. credit' \in [Waitables -> Int]
    BY <1>0, <1>3, <1>5, Partners DEF TypeOK, Credited, Moved
  <2>3. pc' \in [Threads -> Pcs]
    BY <1>0, <1>5 DEF TypeOK, Pcs
  <2>4. waker' \in [Threads -> Cases \cup {NoCase}] /\ success' \in [Threads -> BOOLEAN]
        /\ status' \in [Threads -> {"running", "waiting", "runnable"}] /\ todo' \in [Threads -> Seq(Threads)]
    BY <1>0, <1>5 DEF TypeOK
  <2> QED BY <1>0, <1>5, <2>1, <2>2, <2>3, <2>4 DEF TypeOK, Pcs
<1>7. /\ Others(t) /\ pc'[t] = "idle" /\ ~op'[t].select /\ success'[u] = TRUE
      /\ waker'[u] = p /\ \A v \in Threads \ {u} : waker'[v] = waker[v] /\ success'[v] = success[v]
      /\ status'[u] = "runnable" /\ \A v \in Threads \ {u} : status'[v] = status[v]
      /\ todo'[t] = << >> /\ \A s \in Threads \ {t} : todo'[s] = todo[s]
  BY <1>0, <1>5 DEF TypeOK, Others, NoOp
<1>8. By(t, u) = p
  BY <1>1, <1>3, <1>4 DEF By
<1>9. NoDup(todo'[t]) /\ \A v \in Threads : Mem(todo'[t], v) <=> Mem(todo[t], v) /\ v # u
  BY <1>2, <1>7, Emptiness
<1>10. Readies(t, u)
  BY <1>1, <1>2, <1>5, <1>7, <1>8, <1>9 DEF Readies, Owes
<1>11. NextOK
  BY <1>1, <1>5, <1>7, <1>10, ReadyStep
<1> QED BY <1>6, <1>11

LEMMA CloseReadyInv ==
    ASSUME Inv, NEW t \in Threads, CloseReady(t)
    PROVE  TypeOK' /\ NextOK
<1>0. TypeOK /\ ShapeInv /\ WInv
  BY DEF Inv, WInv
<1>1. pc[t] = "close" /\ todo[t] \in Seq(Threads) /\ Len(todo[t]) > 0 /\ NoDup(todo[t])
  BY <1>0 DEF CloseReady, ShapeInv, TodoInv, TodoOK, TypeOK
<1>2. todo[t] # << >>
  BY <1>1
<1>3. /\ Tail(todo[t]) \in Seq(Threads) /\ NoDup(Tail(todo[t])) /\ Len(Tail(todo[t])) = Len(todo[t]) - 1
      /\ Head(todo[t]) \in Threads /\ Mem(todo[t], Head(todo[t]))
      /\ \A v : Mem(Tail(todo[t]), v) <=> Mem(todo[t], v) /\ v # Head(todo[t])
  BY <1>1, <1>2, Popped
<1>4. PICK u \in Threads : u = Head(todo[t])
  BY <1>3
<1>5. PICK l \in {"idle", "close"} : l = IF Len(todo[t]) = 1 THEN "idle" ELSE "close"
  OBVIOUS
<1>6. /\ status' = [status EXCEPT ![u] = "runnable"] /\ todo' = [todo EXCEPT ![t] = Tail(todo[t])] /\ pc' = [pc EXCEPT ![t] = l]
      /\ UNCHANGED <<count, closed, queue, lock, select_done, waker, success, op, unlocks, credit>>
  BY <1>4, <1>5 DEF CloseReady, Goto
<1>7. TypeOK'
  <2>1. pc' \in [Threads -> Pcs]
    BY <1>0, <1>6 DEF TypeOK, Pcs
  <2>2. status' \in [Threads -> {"running", "waiting", "runnable"}] /\ todo' \in [Threads -> Seq(Threads)]
    BY <1>0, <1>3, <1>6 DEF TypeOK
  <2> QED BY <1>0, <1>6, <2>1, <2>2 DEF TypeOK, Pcs
<1>8. /\ Others(t) /\ pc'[t] = l
      /\ status'[u] = "runnable" /\ \A v \in Threads \ {u} : status'[v] = status[v]
      /\ todo'[t] = Tail(todo[t]) /\ \A s \in Threads \ {t} : todo'[s] = todo[s]
  BY <1>0, <1>6 DEF TypeOK, Others
<1>9. By(t, u) = waker[u]
  BY <1>1 DEF By
<1>10. (l = "idle" => todo'[t] = << >>) /\ (l = "close" => Len(todo'[t]) > 0)
  <2>1. PICK r \in Seq(Threads) : r = todo'[t] /\ Len(r) = Len(todo[t]) - 1
    BY <1>3, <1>8
  <2>2. PICK n \in Nat : n = Len(todo[t]) /\ n > 0
    BY <1>1
  <2>3. (l = "idle" => n = 1) /\ (l = "close" => n # 1)
    BY <1>5, <2>2
  <2>4. Len(r) = n - 1
    BY <2>1, <2>2
  <2>5. l = "idle" => r = << >>
    BY <2>3, <2>4
  <2>6. ASSUME l = "close" PROVE Len(r) > 0
    <3>1. n # 1 /\ n > 0
      BY <2>2, <2>3, <2>6
    <3>2. n - 1 > 0
      BY <3>1
    <3> QED BY <2>4, <3>2
  <2> QED BY <2>1, <2>5, <2>6
<1>11. ~op'[t].select
  BY <1>0, <1>1, <1>6 DEF ShapeInv, OpInv, OpOK
<1>12. Readies(t, u)
  BY <1>1, <1>3, <1>4, <1>6, <1>8, <1>9, <1>10 DEF Readies, Owes
<1>13. NextOK
  BY <1>1, <1>6, <1>11, <1>12, ReadyStep
<1> QED BY <1>7, <1>13

LEMMA WokenInv ==
    ASSUME Inv, NEW t \in Threads, Woken(t)
    PROVE  TypeOK' /\ NextOK
<1>0. TypeOK /\ ShapeInv /\ WInv /\ QueueInv
  BY DEF Inv, WInv, ShapeInv
<1>1. /\ pc[t] = "parked" /\ ~op[t].select /\ status[t] = "runnable"
      /\ status' = [status EXCEPT ![t] = "running"] /\ success' = [success EXCEPT ![t] = FALSE]
      /\ credit' = (IF success[t] THEN Credited(TheCase(t)) ELSE credit)
      /\ pc' = [pc EXCEPT ![t] = "idle"] /\ op' = [op EXCEPT ![t] = NoOp]
      /\ UNCHANGED <<count, closed, queue, lock, select_done, waker, todo, unlocks>>
  BY DEF Woken, Return, Goto
<1>2. PICK c \in Cases : c = TheCase(t) /\ op[t].cases = {c}
  BY <1>0, <1>1, TheOne DEF ShapeInv, OpInv, OpOK
<1>3. Runs(t) /\ ~select_done[t]
  BY <1>0, <1>1 DEF Runs, ShapeInv, OpInv, OpOK
<1>4. waker[t] = c
  BY <1>0, <1>2, <1>3 DEF QueueInv, RunOK
<1>5. TypeOK'
  <2>1. op' \in [Threads -> [cases : SUBSET Cases, block : BOOLEAN, select : BOOLEAN]]
    BY <1>0, <1>1 DEF TypeOK, NoOp
  <2>2. Credited(c) \in [Waitables -> Int]
    BY <1>0, Partners DEF TypeOK, Credited, Moved
  <2>3. credit' \in [Waitables -> Int]
    BY <1>0, <1>1, <1>2, <2>2 DEF TypeOK
  <2>4. pc' \in [Threads -> Pcs]
    BY <1>0, <1>1 DEF TypeOK, Pcs
  <2>5. success' \in [Threads -> BOOLEAN] /\ status' \in [Threads -> {"running", "waiting", "runnable"}]
    BY <1>0, <1>1 DEF TypeOK
  <2> QED BY <1>0, <1>1, <2>1, <2>3, <2>4, <2>5 DEF TypeOK, Pcs
<1>6. Others(t) /\ pc'[t] = "idle" /\ op'[t] = NoOp /\ status'[t] = "running" /\ ~success'[t]
      /\ \A u \in Threads \ {t} : status'[u] = status[u] /\ success'[u] = success[u]
  BY <1>0, <1>1 DEF TypeOK, Others
<1>7. \A d \in Cases : NoDup(queue[d]) /\ ~In(t, d)
  <2>1. \A d \in Cases : NoDup(queue[d]) /\ InOK(t, d)
    BY <1>0 DEF QueueInv
  <2>2. ~Won(t) /\ ~Sleeps(t)
    BY <1>1, <1>3 DEF Won, Sleeps
  <2> QED BY <2>1, <2>2 DEF InOK
<1>8. Leaves(t)
  BY <1>1, <1>3, <1>6, <1>7 DEF Leaves, In
<1>9. unlocks[t] = {}
  BY <1>0, <1>1, NoUnlocks
<1>10. NextOK
  BY <1>1, <1>2, <1>4, <1>8, <1>9, LeaveStep DEF LocksOf
<1> QED BY <1>5, <1>10

LEMMA CloseInv ==
    ASSUME Inv, NEW t \in Threads, NEW w \in Waitables, Close(t, w)
    PROVE  TypeOK' /\ NextOK
<1>0. TypeOK /\ ShapeInv /\ WInv /\ QueueInv /\ LockInv /\ SleepInv /\ CreditInv
  BY DEF Inv, WInv, ShapeInv
<1>1. /\ pc[t] = "idle" /\ lock[w] = NoThread /\ closed' = [closed EXCEPT ![w] = TRUE] /\ lock' = [lock EXCEPT ![w] = t]
      /\ op' = [op EXCEPT ![t].cases = {w} \X Dirs] /\ pc' = [pc EXCEPT ![t] = "closing"]
      /\ UNCHANGED <<count, queue, status, select_done, waker, success, todo, unlocks, credit>>
  BY DEF Close, Goto
<1>2. TypeOK'
  <2>1. {w} \X Dirs \subseteq Cases
    BY DEF Cases
  <2>2. op' \in [Threads -> [cases : SUBSET Cases, block : BOOLEAN, select : BOOLEAN]]
    BY <1>0, <1>1, <2>1, ZenonT(60) DEF TypeOK
  <2>3. pc' \in [Threads -> Pcs] /\ closed' \in [Waitables -> BOOLEAN] /\ lock' \in [Waitables -> Threads \cup {NoThread}]
    BY <1>0, <1>1 DEF TypeOK, Pcs
  <2> QED BY <1>0, <1>1, <2>2, <2>3 DEF TypeOK, Pcs
<1>3. /\ Others(t) /\ pc'[t] = "closing" /\ op'[t].cases = {w} \X Dirs /\ op'[t].select = op[t].select
      /\ lock'[w] = t /\ \A v \in Waitables \ {w} : lock'[v] = lock[v] /\ closed'[v] = closed[v]
  BY <1>0, <1>1 DEF TypeOK, Others
<1>4. Passes(t)
  BY <1>0, <1>1, <1>3, NoTodo, TrimNone DEF Passes, Plain
<1>5. PassOp(t)
  BY <1>0, <1>1, <1>3 DEF PassOp, ShapeInv, OpInv, OpOK
<1>6. ShapeInv'
  BY <1>0, <1>4, <1>5, PassOpOK, PassesShape
<1>7. Ws(t)' = {w}
  <2>1. Ws(t)' = {c[1] : c \in {w} \X Dirs}
    BY <1>3 DEF Ws
  <2>2. <<w, "send">> \in {w} \X Dirs /\ <<w, "send">>[1] = w
    BY DEF Dirs
  <2> QED BY <2>1, <2>2
<1>8. LockInv'
  <2>1. unlocks'[t] = {}
    BY <1>0, <1>1, NoUnlocks
  <2>2. LockOK(t)'
    BY <1>3, <1>7, <2>1 DEF LockOK
  <2>3. \A v \in Waitables : lock'[v] = lock[v] \/ lock[v] \in {t, NoThread}
    BY <1>1, <1>3
  <2> QED BY <1>0, <1>1, <1>3, <2>2, <2>3, LockFrame
<1>9. SleepInv'
  <2>1. \A u \in Threads : Sleeps(u)' => Sleeps(u) /\ op'[u] = op[u]
    BY <1>0, <1>3, <1>4, PassesStates DEF Others
  <2>2. ASSUME NEW v \in Waitables, SleptOn(v), closed'[v] PROVE Closing(v)'
    <3>1. CASE v = w
      BY <3>1, <1>3, <1>7 DEF Closing
    <3>2. CASE v # w
      <4>1. Closing(v)
        BY <1>0, <1>3, <2>2, <3>2 DEF SleepInv, SleptOn, VainOK
      <4>2. PICK s \in Threads : pc[s] = "closing" /\ v \in Ws(s)
        BY <4>1 DEF Closing
      <4>3. pc'[s] = "closing" /\ op'[s] = op[s]
        BY <4>2, <1>1, <1>3 DEF Others
      <4>4. v \in Ws(s)'
        BY <4>2, <4>3 DEF Ws
      <4> QED BY <4>3, <4>4 DEF Closing
    <3> QED BY <3>1, <3>2
  <2> QED BY <1>0, <1>1, <2>1, <2>2, SleepKept
<1>10. CreditInv'
  BY <1>0, <1>1, <1>4, PassesDone, Same, CreditSame DEF Balanced
<1> QED BY <1>2, <1>6, <1>8, <1>9, <1>10 DEF NextOK

LEMMA TheClosed ==
    ASSUME Inv, NEW t \in Threads, pc[t] = "closing"
    PROVE  \E w \in Waitables : TheWaitable(t) = w /\ Ws(t) = {w} /\ op[t].cases = {w} \X Dirs /\ lock[w] = t
<1>1. PICK w \in Waitables : op[t].cases = {w} \X Dirs
  BY DEF Inv, WInv, ShapeInv, OpInv, OpOK
<1>2. Ws(t) = {w}
  <2>1. <<w, "send">> \in {w} \X Dirs /\ <<w, "send">>[1] = w
    BY DEF Dirs
  <2> QED BY <1>1, <2>1 DEF Ws
<1>3. TheWaitable(t) = w
  BY <1>2 DEF TheWaitable
<1>4. lock[w] = t
  BY <1>2 DEF Inv, WInv, LockInv, LockOK
<1> QED BY <1>1, <1>2, <1>3, <1>4

LEMMA CloseTakeInv ==
    ASSUME Inv, NEW t \in Threads, NEW dir \in Dirs, CloseTake(t, dir)
    PROVE  TypeOK' /\ NextOK
<1>0. TypeOK /\ ShapeInv /\ WInv /\ QueueInv /\ pc[t] = "closing"
  BY DEF Inv, WInv, ShapeInv, CloseTake
<1>1. PICK w \in Waitables : TheWaitable(t) = w
  BY <1>0, TheClosed
<1>2. PICK p \in Cases : p = <<w, dir>>
  BY DEF Cases
<1>3. PICK r \in Cases : r = <<w, "wait">>
  BY DEF Cases, Dirs
<1>4. HasLive(p) /\ NoDup(queue[p]) /\ (r # p => ~HasLive(r))
  BY <1>0, <1>1, <1>2, <1>3 DEF CloseTake, QueueInv, Dirs
<1>5. PICK x \in Threads : x = First(p) /\ In(x, p) /\ Live(x)
  BY <1>0, <1>4, FirstLive
<1>6. Rest(p) \in Seq(Threads) /\ ~Mem(Rest(p), x) /\ Keeps(Rest(p), p, x)
  BY <1>0, <1>4, <1>5, FirstLive, KeepsRest
<1>7. /\ queue' = [c \in Cases |-> IF c = p THEN Rest(p) ELSE IF c = r THEN << >> ELSE queue[c]]
      /\ select_done' = Claim(x) /\ waker' = [waker EXCEPT ![x] = p] /\ success' = [success EXCEPT ![x] = FALSE]
      /\ todo' = [todo EXCEPT ![t] = <<x>> \o todo[t]]
      /\ UNCHANGED <<count, closed, lock, status, pc, op, unlocks, credit>>
  BY <1>1, <1>2, <1>3, <1>5 DEF CloseTake
<1>8. todo[t] \in Seq(Threads) /\ NoDup(todo[t]) /\ ~Mem(todo[t], x) /\ Sleeps(x)
  <2>1. Sleeps(x)
    BY <1>0, <1>5, Facts
  <2> QED BY <1>0, <2>1 DEF TypeOK, ShapeInv, TodoInv, TodoOK, Sleeps, Owes
<1>9. /\ <<x>> \o todo[t] \in Seq(Threads) /\ NoDup(<<x>> \o todo[t])
      /\ \A u : Mem(<<x>> \o todo[t], u) <=> Mem(todo[t], u) \/ u = x
  BY <1>8, Pushed
<1>10. TypeOK'
  <2>1. queue' \in [Cases -> Seq(Threads)]
    BY <1>0, <1>6, <1>7 DEF TypeOK
  <2>2. select_done' \in [Threads -> BOOLEAN]
    BY <1>0, <1>7 DEF TypeOK, Claim
  <2>3. todo' \in [Threads -> Seq(Threads)] /\ waker' \in [Threads -> Cases \cup {NoCase}] /\ success' \in [Threads -> BOOLEAN]
    BY <1>0, <1>7, <1>9 DEF TypeOK
  <2> QED BY <1>0, <1>7, <2>1, <2>2, <2>3 DEF TypeOK
<1>11. Trim(queue', x) /\ ~Mem(queue'[p], x)
  <2>1. queue'[p] = Rest(p) /\ (r # p => queue'[r] = << >>) /\ \A c \in Cases \ {p, r} : queue'[c] = queue[c]
    BY <1>7
  <2>2. \A c \in Cases \ {p, r} : Keeps(queue'[c], c, x)
    BY <1>0, <2>1, KeepsAll DEF QueueInv
  <2>3. r # p => Keeps(queue'[r], r, x)
    BY <1>0, <1>4, <2>1, KeepsNone
  <2> QED BY <1>6, <2>1, <2>2, <2>3 DEF Trim
<1>12. /\ Others(t) /\ pc'[t] = "closing" /\ op'[t] = op[t] /\ todo'[t] = <<x>> \o todo[t] /\ \A s \in Threads \ {t} : todo'[s] = todo[s]
       /\ waker'[x] = p /\ \A u \in Threads \ {x} : waker'[u] = waker[u] /\ success'[u] = success[u]
       /\ success'[x] = FALSE
  BY <1>0, <1>7 DEF TypeOK, Others
<1>13. \A u \in Threads : success'[u] = success[u]
  <2>1. success[x] = FALSE
    BY <1>0, <1>8, Facts DEF TypeOK
  <2> QED BY <1>12, <2>1
<1>14. Claims(t, x, p)
  <2>1. Taker(t, x, p)
    BY <1>0, <1>12 DEF Taker
  <2> QED BY <1>5, <1>7, <1>9, <1>11, <1>12, <1>13, <2>1 DEF Claims
<1>15. NextOK
  BY <1>7, <1>14, ClaimStep DEF LocksOf
<1> QED BY <1>10, <1>15

LEMMA UnlockedAll ==
    ASSUME TypeOK, NEW t \in Threads, lock' = UnlockAll(t)
    PROVE  /\ lock' \in [Waitables -> Threads \cup {NoThread}]
           /\ \A w \in Waitables : lock'[w] = lock[w] \/ lock[w] \in {t, NoThread}
BY DEF TypeOK, UnlockAll

LEMMA CloseUnlockInv ==
    ASSUME Inv, NEW t \in Threads, CloseUnlock(t)
    PROVE  TypeOK' /\ NextOK
<1>0. TypeOK /\ ShapeInv /\ WInv /\ QueueInv /\ LockInv /\ SleepInv /\ CreditInv /\ pc[t] = "closing"
  BY DEF Inv, WInv, ShapeInv, CloseUnlock
<1>1. PICK w \in Waitables : TheWaitable(t) = w /\ Ws(t) = {w}
  BY <1>0, TheClosed
<1>2. PICK l \in {"idle", "close"} : l = IF todo[t] = << >> THEN "idle" ELSE "close"
  OBVIOUS
<1>3. PICK ps : ps = {w} \X Dirs
  OBVIOUS
<1>4. /\ \A p \in ps : ~HasLive(p) /\ p \in Cases
      /\ queue' = [c \in Cases |-> IF c \in ps THEN << >> ELSE queue[c]]
      /\ lock' = UnlockAll(t) /\ op' = [op EXCEPT ![t] = NoOp] /\ pc' = [pc EXCEPT ![t] = l]
      /\ UNCHANGED <<count, closed, status, select_done, waker, success, todo, unlocks, credit>>
  BY <1>1, <1>2, <1>3 DEF CloseUnlock, Goto, Cases
<1>5. lock' \in [Waitables -> Threads \cup {NoThread}] /\ \A v \in Waitables : lock'[v] = lock[v] \/ lock[v] \in {t, NoThread}
  BY <1>0, <1>4, UnlockedAll
<1>6. TypeOK'
  <2>1. op' \in [Threads -> [cases : SUBSET Cases, block : BOOLEAN, select : BOOLEAN]]
    BY <1>0, <1>4 DEF TypeOK, NoOp
  <2>2. pc' \in [Threads -> Pcs] /\ queue' \in [Cases -> Seq(Threads)]
    BY <1>0, <1>4 DEF TypeOK, Pcs
  <2> QED BY <1>0, <1>4, <1>5, <2>1, <2>2 DEF TypeOK, Pcs
<1>7. Others(t) /\ pc'[t] = l /\ op'[t] = NoOp /\ ~op'[t].select
  BY <1>0, <1>4 DEF TypeOK, Others, NoOp
<1>8. Trim(queue', NoThread)
  <2>1. \A c \in Cases : queue'[c] = IF c \in ps THEN << >> ELSE queue[c]
    BY <1>4
  <2>2. \A c \in Cases : c \in ps => Keeps(queue'[c], c, NoThread)
    BY <1>0, <1>4, <2>1, KeepsNone
  <2>3. \A c \in Cases : c \notin ps => Keeps(queue'[c], c, NoThread)
    BY <1>0, <2>1, KeepsAll DEF QueueInv
  <2> QED BY <2>2, <2>3 DEF Trim
<1>9. Passes(t)
  <2>1. l = "close" => Len(todo[t]) > 0
    BY <1>0, <1>2 DEF TypeOK
  <2> QED BY <1>0, <1>2, <1>4, <1>7, <1>8, <2>1 DEF Passes, Plain
<1>10. PassOp(t)
  BY <1>7 DEF PassOp
<1>11. ShapeInv'
  BY <1>0, <1>9, <1>10, PassOpOK, PassesShape
<1>12. LockInv'
  <2>1. unlocks'[t] = {}
    BY <1>0, <1>4, NoUnlocks
  <2>2. LockOK(t)'
    BY <1>7, <2>1 DEF LockOK
  <2> QED BY <1>0, <1>4, <1>5, <1>7, <2>2, LockFrame
<1>13. SleepInv'
  <2>1. \A u \in Threads : Sleeps(u)' => Sleeps(u) /\ op'[u] = op[u]
    BY <1>0, <1>7, <1>9, PassesStates DEF Others
  <2>2. ASSUME NEW v \in Waitables, SleptOn(v), closed'[v] PROVE Closing(v)'
    <3>1. v # w
      <4>1. PICK u \in Threads, dir \in Dirs : Sleeps(u) /\ <<v, dir>> \in op[u].cases
        BY <2>2 DEF SleptOn
      <4>2. v = w => <<v, dir>> \in ps
        BY <1>3
      <4> QED BY <1>0, <1>4, <4>1, <4>2, Sleepers
    <3>2. Closing(v)
      BY <1>0, <1>4, <2>2 DEF SleepInv, SleptOn, VainOK
    <3>3. PICK s \in Threads : pc[s] = "closing" /\ v \in Ws(s)
      BY <3>2 DEF Closing
    <3>4. pc'[s] = "closing" /\ op'[s] = op[s]
      BY <3>1, <3>3, <1>1, <1>7 DEF Others
    <3>5. v \in Ws(s)'
      BY <3>3, <3>4 DEF Ws
    <3> QED BY <3>4, <3>5 DEF Closing
  <2> QED BY <1>0, <1>4, <2>1, <2>2, SleepKept
<1>14. CreditInv'
  BY <1>0, <1>4, <1>9, PassesDone, Same, CreditSame DEF Balanced
<1> QED BY <1>6, <1>11, <1>12, <1>13, <1>14 DEF NextOK

----------------------------------------------------------------------------
(* The select.                                                             *)

LEMMA SelectWokenInv ==
    ASSUME Inv, NEW t \in Threads, SelectWoken(t)
    PROVE  TypeOK' /\ NextOK
<1>0. TypeOK /\ ShapeInv /\ WInv /\ QueueInv /\ LockInv
  BY DEF Inv, WInv, ShapeInv
<1>1. /\ pc[t] = "parked" /\ op[t].select /\ status[t] = "runnable"
      /\ status' = [status EXCEPT ![t] = "running"] /\ pc' = [pc EXCEPT ![t] = "sel_relock"]
      /\ UNCHANGED <<count, closed, queue, lock, select_done, waker, success, op, todo, unlocks, credit>>
  BY DEF SelectWoken, Goto
<1>2. TypeOK'
  <2>1. pc' \in [Threads -> Pcs] /\ status' \in [Threads -> {"running", "waiting", "runnable"}]
    BY <1>0, <1>1 DEF TypeOK, Pcs
  <2> QED BY <1>0, <1>1, <2>1 DEF TypeOK, Pcs
<1>3. /\ pc'[t] = "sel_relock" /\ status'[t] = "running"
      /\ \A s \in Threads \ {t} : pc'[s] = pc[s] /\ status'[s] = status[s]
  BY <1>0, <1>1 DEF TypeOK
<1>4. Runs(t) /\ op[t].cases # {}
  BY <1>0, <1>1 DEF Runs, QueueInv, RunOK
<1>5. Relocks(t)
  BY <1>1, <1>3, <1>4 DEF Relocks
<1>6. LockOK(t)'
  <2>1. LockOK(t) /\ Ws(t)' = Ws(t)
    BY <1>0, <1>1 DEF LockInv, Ws
  <2> QED BY <1>1, <1>3, <2>1 DEF LockOK
<1>7. NextOK
  BY <1>1, <1>5, <1>6, RelockStep DEF LocksOf
<1> QED BY <1>2, <1>7

LEMMA SelectParkUnlockInv ==
    ASSUME Inv, NEW t \in Threads, SelectParkUnlock(t)
    PROVE  TypeOK' /\ NextOK
<1>0. TypeOK /\ ShapeInv /\ WInv /\ LockInv
  BY DEF Inv, WInv
<1>1. unlocks[t] \in SUBSET Nat /\ unlocks[t] # {} /\ unlocks[t] \subseteq Waitables
  BY <1>0, WaitableAssumption DEF TypeOK, SelectParkUnlock
<1>2. Min(unlocks[t]) \in unlocks[t]
  BY <1>1, MinIn
<1>3. PICK m \in unlocks[t] : m = Min(unlocks[t])
  BY <1>2
<1>4. /\ lock' = [lock EXCEPT ![m] = NoThread] /\ unlocks' = [unlocks EXCEPT ![t] = unlocks[t] \ {m}]
      /\ UNCHANGED <<count, closed, queue, status, select_done, waker, success, pc, op, todo, credit>>
  BY <1>3 DEF SelectParkUnlock
<1>5. TypeOK'
  <2>1. lock' \in [Waitables -> Threads \cup {NoThread}] /\ unlocks' \in [Threads -> SUBSET Waitables]
    BY <1>0, <1>1, <1>4 DEF TypeOK
  <2> QED BY <1>0, <1>4, <2>1 DEF TypeOK
<1>6. /\ unlocks'[t] = unlocks[t] \ {m} /\ (\A s \in Threads \ {t} : unlocks'[s] = unlocks[s])
      /\ \A w \in Waitables \ {m} : lock'[w] = lock[w]
  BY <1>0, <1>1, <1>4 DEF TypeOK
<1>7. LockOK(t) /\ lock[m] = t /\ pc[t] \in {"parked", "sel_relock"} /\ Ws(t)' = Ws(t)
  BY <1>0, <1>4 DEF LockInv, LockOK, Ws
<1>8. LockOK(t)'
  BY <1>1, <1>4, <1>6, <1>7 DEF LockOK
<1>9. LockInv'
  <2>1. Others(t) /\ \A w \in Waitables : lock'[w] = lock[w] \/ lock[w] \in {t, NoThread}
    BY <1>4, <1>6, <1>7 DEF Others
  <2> QED BY <1>0, <1>6, <1>8, <2>1, LockFrame
<1>10. NextOK
  BY <1>4, <1>9, StillStep
<1> QED BY <1>5, <1>10

LEMMA SelectLockInv ==
    ASSUME Inv, NEW t \in Threads, SelectLock(t)
    PROVE  TypeOK' /\ NextOK
<1>0. TypeOK /\ ShapeInv /\ WInv /\ QueueInv /\ LockInv
  BY DEF Inv, WInv, ShapeInv
<1>1. PICK w : w = Min(Ws(t) \ Held(t))
  OBVIOUS
<1>2. /\ pc[t] \in {"sel_lock", "sel_relock"} /\ lock[w] = NoThread /\ lock' = [lock EXCEPT ![w] = t]
      /\ \/ Ws(t) \ Held(t) = {w} /\ pc' = [pc EXCEPT ![t] = IF pc[t] = "sel_lock" THEN "sel_pass1" ELSE "sel_pass3"]
         \/ pc' = pc
      /\ UNCHANGED <<count, closed, queue, status, select_done, waker, success, op, todo, unlocks, credit>>
  BY <1>1 DEF SelectLock, Goto
<1>3. lock' \in [Waitables -> Threads \cup {NoThread}] /\ LocksOf(t)
      /\ \A v \in Waitables : lock'[v] = IF v = w THEN t ELSE lock[v]
  BY <1>0, <1>2 DEF TypeOK, LocksOf
<1>4. TypeOK'
  <2>1. pc' \in [Threads -> Pcs]
    BY <1>0, <1>2 DEF TypeOK, Pcs
  <2> QED BY <1>0, <1>2, <1>3, <2>1 DEF TypeOK, Pcs
<1>5. Others(t) /\ op' = op /\ op[t].select /\ op[t].cases # {} /\ Ws(t)' = Ws(t) /\ Ws(t) \subseteq Waitables
  BY <1>0, <1>2 DEF TypeOK, Others, ShapeInv, OpInv, OpOK, Ws, Cases
<1>6. LockOK(t) /\ unlocks' = unlocks /\ unlocks[t] \subseteq Waitables
  BY <1>0, <1>2 DEF LockInv, TypeOK
<1>7. ASSUME Ws(t) \ Held(t) = {w} PROVE unlocks[t] = {} /\ \A v \in Ws(t) : lock'[v] = t
  <2>1. \A v \in Ws(t) : v = w \/ lock[v] = t
    BY <1>7 DEF Held
  <2>2. \A v \in unlocks[t] : v \in Ws(t) \ Held(t) /\ lock[v] = t
    BY <1>6 DEF LockOK, Held
  <2>3. \A v \in unlocks[t] : FALSE
    BY <1>2, <1>7, <2>2, WaitableAssumption
  <2> QED BY <1>3, <1>5, <2>1, <2>3
<1>8. CASE pc[t] = "sel_lock"
  <2>1. pc'[t] \in {"sel_lock", "sel_pass1"} /\ (pc'[t] = "sel_pass1" => Ws(t) \ Held(t) = {w})
    BY <1>0, <1>2, <1>8 DEF TypeOK
  <2>2. Passes(t)
    BY <1>0, <1>2, <1>5, <1>8, <2>1, NoTodo, TrimNone DEF Passes, Plain
  <2>3. PassOp(t)
    BY <1>5, <2>1 DEF PassOp
  <2>4. pc'[t] = "sel_pass1" => \A v \in Ws(t)' : lock'[v] = t
    BY <1>5, <1>7, <2>1
  <2>5. Balanced /\ \A v \in Waitables : SleptOn(v) => count'[v] = count[v]
    BY <1>0, <1>2, Same
  <2>6. NextOK
    BY <1>2, <1>3, <1>8, <2>1, <2>2, <2>3, <2>4, <2>5, PassStep
  <2> QED BY <1>4, <2>6
<1>9. CASE pc[t] = "sel_relock"
  <2>1. pc'[t] \in {"sel_relock", "sel_pass3"} /\ (pc'[t] = "sel_pass3" => Ws(t) \ Held(t) = {w})
    BY <1>0, <1>2, <1>9 DEF TypeOK
  <2>2. Runs(t) /\ status[t] = "running"
    BY <1>0, <1>9 DEF Runs, ShapeInv, OpInv, OpOK
  <2>3. Relocks(t)
    BY <1>2, <1>5, <2>1, <2>2 DEF Relocks, Others
  <2>4. LockOK(t)'
    <3>1. \A v \in unlocks'[t] : lock'[v] = t /\ v \in Ws(t)' /\ op'[t].select
      BY <1>3, <1>5, <1>6 DEF LockOK
    <3>2. pc'[t] = "sel_pass3" => unlocks'[t] = {}
      BY <1>6, <1>7, <2>1
    <3> QED BY <2>1, <3>1, <3>2 DEF LockOK
  <2>5. NextOK
    BY <1>2, <1>3, <2>3, <2>4, RelockStep
  <2> QED BY <1>4, <2>5
<1> QED BY <1>2, <1>8, <1>9

LEMMA SelectPass3Inv ==
    ASSUME Inv, NEW t \in Threads, SelectPass3(t)
    PROVE  TypeOK' /\ NextOK
<1>0. TypeOK /\ ShapeInv /\ WInv /\ QueueInv
  BY DEF Inv, WInv, ShapeInv
<1>1. /\ pc[t] = "sel_pass3" /\ select_done' = [select_done EXCEPT ![t] = FALSE]
      /\ queue' = [p \in Cases |-> IF p \in op[t].cases \ {waker[t]} THEN RemoveFirst(queue[p], t) ELSE queue[p]]
      /\ waker' = [waker EXCEPT ![t] = NoCase] /\ success' = [success EXCEPT ![t] = FALSE]
      /\ credit' = (IF success[t] THEN Credited(waker[t]) ELSE credit)
      /\ lock' = UnlockAll(t) /\ pc' = [pc EXCEPT ![t] = "idle"] /\ op' = [op EXCEPT ![t] = NoOp]
      /\ UNCHANGED <<count, closed, status, todo, unlocks>>
  BY DEF SelectPass3, Return, Goto
<1>2. Runs(t) /\ status[t] = "running"
  BY <1>0, <1>1 DEF Runs, ShapeInv, OpInv, OpOK
<1>3. PICK c \in Cases : c = waker[t] /\ ~In(t, c)
  BY <1>0, <1>2 DEF QueueInv, RunOK, TypeOK
<1>4. ASSUME NEW d \in Cases
      PROVE  /\ queue'[d] \in Seq(Threads) /\ NoDup(queue'[d]) /\ ~Mem(queue'[d], t)
             /\ \A u \in Threads \ {t} : Mem(queue'[d], u) <=> In(u, d)
  <2>1. queue[d] \in Seq(Threads) /\ NoDup(queue[d]) /\ (In(t, d) => d \in op[t].cases \ {c})
    BY <1>0, <1>3 DEF TypeOK, QueueInv, InOK
  <2>2. CASE d \in op[t].cases \ {c}
    <3>1. queue'[d] = RemoveFirst(queue[d], t)
      BY <1>1, <1>3, <2>2
    <3>2. LET r == RemoveFirst(queue[d], t)
          IN  r \in Seq(Threads) /\ NoDup(r) /\ \A u : Mem(r, u) <=> Mem(queue[d], u) /\ u # t
      BY <2>1, Removed
    <3> QED BY <3>1, <3>2 DEF In
  <2>3. CASE d \notin op[t].cases \ {c}
    <3>1. queue'[d] = queue[d]
      BY <1>1, <1>3, <2>3
    <3> QED BY <2>1, <2>3, <3>1 DEF In
  <2> QED BY <2>2, <2>3
<1>5. lock' \in [Waitables -> Threads \cup {NoThread}] /\ \A v \in Waitables : lock'[v] = lock[v] \/ lock[v] \in {t, NoThread}
  BY <1>0, <1>1, UnlockedAll
<1>6. TypeOK'
  <2>1. op' \in [Threads -> [cases : SUBSET Cases, block : BOOLEAN, select : BOOLEAN]]
    BY <1>0, <1>1 DEF TypeOK, NoOp
  <2>2. Credited(c) \in [Waitables -> Int]
    BY <1>0, Partners DEF TypeOK, Credited, Moved
  <2>3. credit' \in [Waitables -> Int]
    BY <1>0, <1>1, <1>3, <2>2 DEF TypeOK
  <2>4. pc' \in [Threads -> Pcs]
    BY <1>0, <1>1 DEF TypeOK, Pcs
  <2>5. success' \in [Threads -> BOOLEAN] /\ select_done' \in [Threads -> BOOLEAN] /\ waker' \in [Threads -> Cases \cup {NoCase}]
    BY <1>0, <1>1 DEF TypeOK
  <2>6. queue' \in [Cases -> Seq(Threads)]
    <3>1. DOMAIN queue' = Cases /\ queue' = [d \in Cases |-> queue'[d]]
      BY <1>1
    <3> QED BY <1>4, <3>1
  <2> QED BY <1>0, <1>1, <1>5, <2>1, <2>3, <2>4, <2>5, <2>6 DEF TypeOK, Pcs
<1>7. /\ Others(t) /\ pc'[t] = "idle" /\ op'[t] = NoOp /\ ~select_done'[t] /\ ~success'[t]
      /\ \A u \in Threads \ {t} : select_done'[u] = select_done[u] /\ waker'[u] = waker[u] /\ success'[u] = success[u]
  BY <1>0, <1>1 DEF TypeOK, Others
<1>8. Leaves(t)
  BY <1>1, <1>2, <1>4, <1>7 DEF Leaves
<1>9. unlocks[t] = {}
  BY <1>0, <1>1, NoUnlocks
<1>10. NextOK
  BY <1>1, <1>5, <1>8, <1>9, LeaveStep DEF LocksOf
<1> QED BY <1>6, <1>10

\* A case that pass 1 leaves behind.
LEMMA NotPossible ==
    ASSUME TypeOK, NEW c \in Cases, ~Possible(c)
    PROVE  ~HasLive(Partner(c)) /\ ~CountAllows(c) /\ ~closed[c[1]]
<1>1. count[c[1]] \in Nat /\ c[2] \in Dirs
  BY Partners DEF TypeOK
<1> QED BY <1>1 DEF Possible, Takes, EndsClosed, CountAllows, Dirs

LEMMA EmptiedTrim ==
    ASSUME TypeOK, QueueInv, NEW skipped \in SUBSET Cases, \A c \in skipped : ~Possible(c), NEW x
    PROVE  /\ Emptied(skipped) \in [Cases -> Seq(Threads)]
           /\ \A p \in Cases : Keeps(Emptied(skipped)[p], p, x)
<1>1. Emptied(skipped) \in [Cases -> Seq(Threads)]
  BY DEF Emptied, TypeOK
<1>2. ASSUME NEW p \in Cases PROVE Keeps(Emptied(skipped)[p], p, x)
  <2>1. CASE \E c \in skipped : p = Partner(c)
    <3>1. PICK c \in skipped : p = Partner(c)
      BY <2>1
    <3>2. ~HasLive(p)
      BY <3>1, NotPossible
    <3>3. Emptied(skipped)[p] = << >>
      BY <2>1 DEF Emptied
    <3> QED BY <3>2, <3>3, KeepsNone
  <2>2. CASE ~\E c \in skipped : p = Partner(c)
    <3>1. Emptied(skipped)[p] = queue[p]
      BY <2>2 DEF Emptied
    <3> QED BY <3>1, KeepsAll DEF QueueInv
  <2> QED BY <2>1, <2>2
<1> QED BY <1>1, <1>2

\* The two outcomes of pass 1.
Pass1Takes(t, c, skipped) ==
    /\ Takes(c)
    /\ queue' = [Emptied(skipped) EXCEPT ![Partner(c)] = Rest(Partner(c))]
    /\ select_done' = Claim(First(Partner(c)))
    /\ todo' = [todo EXCEPT ![t] = <<First(Partner(c))>>]
    /\ op' = [op EXCEPT ![t].cases = {c}]
    /\ Goto(t, "ready") /\ UNCHANGED <<count, credit>>
Pass1Returns(t, c, skipped) ==
    /\ ~Takes(c) /\ queue' = Emptied(skipped)
    /\ count' = (IF EndsClosed(c) THEN count ELSE Counted(c))
    /\ credit' = (IF EndsClosed(c) THEN credit ELSE Credited(c))
    /\ Return(t) /\ UNCHANGED <<select_done, todo>>

LEMMA Pass1TakesInv ==
    ASSUME Inv, NEW t \in Threads, pc[t] = "sel_pass1", lock' = UnlockAll(t), UNCHANGED <<closed, status, waker, success, unlocks>>,
           NEW c \in Cases, NEW skipped \in SUBSET Cases, \A d \in skipped : ~Possible(d), Pass1Takes(t, c, skipped)
    PROVE  TypeOK' /\ NextOK
<1>0. TypeOK /\ ShapeInv /\ WInv /\ QueueInv
  BY DEF Inv, WInv, ShapeInv
<1>1. PICK p \in Cases : p = Partner(c) /\ Partner(p) = c
  BY Partners
<1>2. HasLive(p) /\ NoDup(queue[p])
  BY <1>0, <1>1 DEF Pass1Takes, Takes, QueueInv
<1>3. PICK x \in Threads : x = First(p) /\ In(x, p) /\ Live(x)
  BY <1>0, <1>2, FirstLive
<1>4. Rest(p) \in Seq(Threads) /\ ~Mem(Rest(p), x) /\ Keeps(Rest(p), p, x)
  BY <1>0, <1>2, <1>3, FirstLive, KeepsRest
<1>5. PICK q : q = Emptied(skipped) /\ q \in [Cases -> Seq(Threads)] /\ \A d \in Cases : Keeps(q[d], d, x)
  BY <1>0, EmptiedTrim
<1>6. /\ queue' = [q EXCEPT ![p] = Rest(p)] /\ select_done' = Claim(x) /\ todo' = [todo EXCEPT ![t] = <<x>>]
      /\ pc' = [pc EXCEPT ![t] = "ready"] /\ op' = [op EXCEPT ![t].cases = {c}] /\ UNCHANGED <<count, credit>>
  BY <1>1, <1>3, <1>5 DEF Pass1Takes, Goto
<1>7. lock' \in [Waitables -> Threads \cup {NoThread}] /\ LocksOf(t)
  BY <1>0, UnlockedAll DEF LocksOf
<1>8. TypeOK'
  <2>1. queue' \in [Cases -> Seq(Threads)]
    BY <1>4, <1>5, <1>6
  <2>2. select_done' \in [Threads -> BOOLEAN]
    BY <1>0, <1>3, <1>6 DEF TypeOK, Claim
  <2>3. todo' \in [Threads -> Seq(Threads)]
    BY <1>0, <1>3, <1>6 DEF TypeOK
  <2>4. pc' \in [Threads -> Pcs]
    BY <1>0, <1>6 DEF TypeOK, Pcs
  <2>5. op' \in [Threads -> [cases : SUBSET Cases, block : BOOLEAN, select : BOOLEAN]]
    BY <1>0, <1>6, ZenonT(60) DEF TypeOK
  <2> QED BY <1>0, <1>6, <1>7, <2>1, <2>2, <2>3, <2>4, <2>5 DEF TypeOK, Pcs
<1>9. Trim(queue', x) /\ ~Mem(queue'[p], x)
  <2>1. queue'[p] = Rest(p) /\ \A d \in Cases \ {p} : queue'[d] = q[d]
    BY <1>5, <1>6
  <2> QED BY <1>4, <1>5, <2>1 DEF Trim
<1>10. Others(t) /\ pc'[t] = "ready" /\ todo'[t] = <<x>> /\ (\A s \in Threads \ {t} : todo'[s] = todo[s]) /\ op'[t].cases = {c}
  BY <1>0, <1>6 DEF TypeOK, Others
<1>11. todo[t] = << >>
  BY <1>0, NoTodo
<1>12. NoDup(todo'[t]) /\ Len(todo'[t]) = 1 /\ \A u \in Threads : Mem(todo'[t], u) <=> Mem(todo[t], u) \/ u = x
  BY <1>10, <1>11, Single, Emptiness
<1>13. One(op'[t].cases) /\ Partner(TheCase(t))' = p
  <2>1. TheCase(t)' = c
    BY <1>10 DEF TheCase
  <2> QED BY <1>1, <1>10, <2>1 DEF Partner, One
<1>14. Claims(t, x, p)
  <2>1. Taker(t, x, p)
    BY <1>10, <1>12, <1>13 DEF Taker
  <2> QED BY <1>3, <1>6, <1>9, <1>10, <1>12, <2>1 DEF Claims
<1>15. NextOK
  BY <1>6, <1>7, <1>10, <1>14, ClaimStep
<1> QED BY <1>8, <1>15

LEMMA Pass1ReturnsInv ==
    ASSUME Inv, NEW t \in Threads, pc[t] = "sel_pass1", lock' = UnlockAll(t), UNCHANGED <<closed, status, waker, success, unlocks>>,
           NEW c \in Cases, Possible(c), NEW skipped \in SUBSET Cases, \A d \in skipped : ~Possible(d), Pass1Returns(t, c, skipped)
    PROVE  TypeOK' /\ NextOK
<1>0. TypeOK /\ ShapeInv /\ WInv /\ QueueInv /\ c[1] \in Waitables /\ c[2] \in Dirs
  BY Partners DEF Inv, WInv, ShapeInv
<1>1. /\ ~Takes(c) /\ queue' = Emptied(skipped) /\ Return(t) /\ UNCHANGED <<select_done, todo>>
      /\ count' = (IF EndsClosed(c) THEN count ELSE Counted(c)) /\ credit' = (IF EndsClosed(c) THEN credit ELSE Credited(c))
  BY DEF Pass1Returns
<1>2. Trim(queue', NoThread) /\ queue' \in [Cases -> Seq(Threads)]
  BY <1>0, <1>1, EmptiedTrim DEF Trim
<1>3. lock' \in [Waitables -> Threads \cup {NoThread}] /\ LocksOf(t)
  BY <1>0, UnlockedAll DEF LocksOf
<1>4. CASE EndsClosed(c)
  <2>1. UNCHANGED <<count, credit>>
    BY <1>1, <1>4
  <2> QED BY <1>0, <1>1, <1>2, <1>3, <2>1, CountSame, ReturnInv
<1>5. CASE ~EndsClosed(c)
  <2>1. CountAllows(c) /\ ~HasLive(Partner(c)) /\ count' = Counted(c) /\ credit' = Credited(c)
    BY <1>1, <1>5 DEF Possible, EndsClosed, Takes
  <2>2. ~SleptOn(c[1])
    BY <1>0, <2>1, CountFree
  <2>3. /\ Balanced /\ \A w \in Waitables \ {c[1]} : count'[w] = count[w]
        /\ count' \in [Waitables -> Nat] /\ credit' \in [Waitables -> Int] /\ \A w \in Waitables : count'[w] <= Size[w]
    BY <1>0, <2>1, Moves
  <2>4. \A w \in Waitables : SleptOn(w) => count'[w] = count[w]
    BY <2>2, <2>3
  <2> QED BY <1>1, <1>2, <1>3, <2>3, <2>4, ReturnInv
<1> QED BY <1>4, <1>5

LEMMA SelectPass1Inv ==
    ASSUME Inv, NEW t \in Threads, SelectPass1(t)
    PROVE  TypeOK' /\ NextOK
<1>0. op[t].cases \subseteq Cases
  BY DEF Inv, WInv, TypeOK
<1>1. PICK c \in op[t].cases, skipped \in SUBSET {d \in op[t].cases : ~Possible(d)} :
          Possible(c) /\ lock' = UnlockAll(t) /\ (Pass1Takes(t, c, skipped) \/ Pass1Returns(t, c, skipped))
  BY Zenon DEF SelectPass1, Pass1Takes, Pass1Returns
<1>2. pc[t] = "sel_pass1" /\ UNCHANGED <<closed, status, waker, success, unlocks>>
  BY DEF SelectPass1
<1>3. c \in Cases /\ skipped \in SUBSET Cases /\ \A d \in skipped : ~Possible(d)
  BY <1>0, <1>1
<1>4. CASE Pass1Takes(t, c, skipped)
  BY <1>1, <1>2, <1>3, <1>4, Pass1TakesInv
<1>5. CASE Pass1Returns(t, c, skipped)
  BY <1>1, <1>2, <1>3, <1>5, Pass1ReturnsInv
<1> QED BY <1>1, <1>4, <1>5

LEMMA SelectPass2Inv ==
    ASSUME Inv, NEW t \in Threads, SelectPass2(t)
    PROVE  TypeOK' /\ NextOK
<1>0. TypeOK /\ ShapeInv /\ WInv /\ QueueInv /\ LockInv
  BY DEF Inv, WInv, ShapeInv
<1>1. PICK cs \in SUBSET Cases : cs = op[t].cases
  BY <1>0 DEF TypeOK
<1>2. pc[t] = "sel_pass1" /\ (\A c \in cs : ~Possible(c)) /\ UNCHANGED <<count, closed, select_done, success, todo, credit>>
  BY <1>1 DEF SelectPass2
<1>3. PICK q : q = Emptied(cs) /\ q \in [Cases -> Seq(Threads)] /\ \A d \in Cases : Keeps(q[d], d, NoThread)
  BY <1>0, <1>2, EmptiedTrim
<1>4. CASE ~op[t].block
  <2>1. queue' = q /\ lock' = UnlockAll(t) /\ Return(t) /\ UNCHANGED <<waker, status, unlocks>>
    BY <1>1, <1>3, <1>4 DEF SelectPass2
  <2>2. lock' \in [Waitables -> Threads \cup {NoThread}] /\ LocksOf(t)
    BY <1>0, <2>1, UnlockedAll DEF LocksOf
  <2>3. Trim(queue', NoThread)
    BY <1>3, <2>1 DEF Trim
  <2> QED BY <1>0, <1>2, <1>3, <2>1, <2>2, <2>3, CountSame, ReturnInv
<1>5. CASE op[t].block
  <2>1. /\ queue' = [p \in Cases |-> IF p \in cs THEN Append(q[p], t) ELSE q[p]]
        /\ waker' = [waker EXCEPT ![t] = NoCase] /\ status' = [status EXCEPT ![t] = "waiting"]
        /\ unlocks' = [unlocks EXCEPT ![t] = Ws(t)] /\ pc' = [pc EXCEPT ![t] = "parked"] /\ UNCHANGED <<lock, op>>
    BY <1>1, <1>3, <1>5 DEF SelectPass2, Goto
  <2>2. Ws(t) \subseteq Waitables /\ Ws(t)' = Ws(t)
    BY <1>0, <2>1 DEF Ws, TypeOK, Cases
  <2>3. ASSUME NEW d \in Cases
        PROVE  /\ queue'[d] \in Seq(Threads) /\ NoDup(queue'[d])
               /\ \A u \in Threads \ {t} : (Mem(queue'[d], u) => In(u, d)) /\ (In(u, d) /\ Live(u) => Mem(queue'[d], u))
               /\ Mem(queue'[d], t) <=> d \in op[t].cases
    <3>1. q[d] \in Seq(Threads) /\ NoDup(q[d]) /\ ~Mem(q[d], t)
      <4>1. ~In(t, d)
        BY <1>0, <1>2, Facts DEF Runs
      <4> QED BY <1>3, <4>1 DEF Keeps
    <3>2. \A u \in Threads \ {t} : (Mem(q[d], u) => In(u, d)) /\ (In(u, d) /\ Live(u) => Mem(q[d], u))
      BY <1>3, WaitableAssumption DEF Keeps
    <3>3. CASE d \in cs
      <4>1. /\ Append(q[d], t) \in Seq(Threads) /\ NoDup(Append(q[d], t))
            /\ \A u : Mem(Append(q[d], t), u) <=> Mem(q[d], u) \/ u = t
        BY <3>1, Added
      <4>2. queue'[d] = Append(q[d], t)
        BY <2>1, <3>3
      <4> QED BY <1>1, <3>2, <3>3, <4>1, <4>2
    <3>4. CASE d \notin cs
      <4>1. queue'[d] = q[d]
        BY <2>1, <3>4
      <4> QED BY <1>1, <3>1, <3>2, <3>4, <4>1
    <3> QED BY <3>3, <3>4
  <2>4. TypeOK'
    <3>1. queue' \in [Cases -> Seq(Threads)]
      <4>1. queue' = [d \in Cases |-> queue'[d]]
        BY <2>1
      <4> QED BY <2>3, <4>1
    <3>2. pc' \in [Threads -> Pcs]
      BY <1>0, <2>1 DEF TypeOK, Pcs
    <3>3. waker' \in [Threads -> Cases \cup {NoCase}] /\ status' \in [Threads -> {"running", "waiting", "runnable"}]
          /\ unlocks' \in [Threads -> SUBSET Waitables]
      BY <1>0, <2>1, <2>2 DEF TypeOK
    <3> QED BY <1>0, <1>2, <2>1, <3>1, <3>2, <3>3 DEF TypeOK, Pcs
  <2>5. /\ pc'[t] = "parked" /\ status'[t] = "waiting" /\ unlocks'[t] = Ws(t)
        /\ \A s \in Threads \ {t} : /\ pc'[s] = pc[s] /\ status'[s] = status[s] /\ waker'[s] = waker[s]
                                    /\ unlocks'[s] = unlocks[s]
    BY <1>0, <2>1 DEF TypeOK
  <2>6. Parks(t)
    BY <1>2, <2>1, <2>3, <2>5 DEF Parks, Joins
  <2>7. LockOK(t)'
    <3>1. \A w \in Ws(t) : lock[w] = t
      BY <1>0, <1>2 DEF LockInv, LockOK
    <3>2. op[t].select
      BY <1>0, <1>2 DEF ShapeInv, OpInv, OpOK
    <3> QED BY <2>1, <2>2, <2>5, <3>1, <3>2 DEF LockOK
  <2>8. \A c \in op[t].cases : ~closed[c[1]] /\ ~HasLive(Partner(c)) /\ ~CountAllows(c)
    BY <1>0, <1>1, <1>2, NotPossible
  <2>9. NextOK
    BY <1>2, <2>1, <2>5, <2>6, <2>7, <2>8, ParkStep DEF LocksOf
  <2> QED BY <2>4, <2>9
<1> QED BY <1>4, <1>5

----------------------------------------------------------------------------
(* The invariant and the properties of Waitable.                           *)

LEMMA InitInv == Init => Inv
<1> SUFFICES ASSUME Init PROVE Inv
  OBVIOUS
<1>1. TypeOK
  BY WaitableAssumption DEF Init, TypeOK, NoOp
<1>2. \A c \in Cases : queue[c] = << >>
  BY DEF Init
<1>3. \A t \in Threads : /\ pc[t] = "idle" /\ status[t] = "running" /\ todo[t] = << >> /\ unlocks[t] = {}
                        /\ ~select_done[t] /\ ~success[t] /\ ~op[t].select
  BY DEF Init, NoOp
<1>4. \A t, u \in Threads : ~Owes(t, u) /\ ~Sleeps(u) /\ ~Runs(u)
  BY <1>3, Emptiness DEF Owes, Sleeps, Runs
<1>5. \A u \in Threads, c \in Cases : ~In(u, c)
  BY <1>2, Emptiness DEF In
<1>6. ShapeInv
  <2>1. OpInv
    BY <1>3 DEF OpInv, OpOK
  <2>2. TodoInv
    BY <1>3, <1>4, Emptiness DEF TodoInv, TodoOK, OwedOK
  <2>3. QueueInv
    BY <1>2, <1>4, <1>5, Emptiness DEF QueueInv, InOK, SleepOK, RunOK
  <2> QED BY <2>1, <2>2, <2>3 DEF ShapeInv
<1>7. LockInv /\ SleepInv
  BY <1>3, <1>4 DEF LockInv, LockOK, SleepInv
<1>8. CreditInv
  <2> SUFFICES ASSUME NEW w \in Waitables PROVE CreditOK(w)
    BY DEF CreditInv
  <2>1. \A u \in Threads : \A c : ~Done(u, c)
    BY <1>3, <1>4 DEF Done
  <2>2. \A c : {u \in Threads : Done(u, c)} = {}
    BY <2>1
  <2>3. \A c : Number(c) = 0
    BY <2>2, FS_EmptySet DEF Number
  <2>4. credit[w] = 0 /\ count[w] = 0
    BY DEF Init
  <2> QED BY <2>3, <2>4 DEF CreditOK
<1> QED BY <1>1, <1>6, <1>7, <1>8 DEF Inv, WInv

LEMMA NextInv == Inv /\ [Next]_vars => Inv'
<1> SUFFICES ASSUME Inv, [Next]_vars PROVE TypeOK' /\ NextOK
  BY DEF Inv, WInv, NextOK
<1>0. TypeOK /\ LockInv
  BY DEF Inv, WInv
<1>1. CASE UNCHANGED vars
  <2>1. TypeOK'
    BY <1>0, <1>1 DEF TypeOK, vars
  <2>2. LockInv'
    <3>1. \A t \in Threads : Ws(t)' = Ws(t)
      BY <1>1 DEF vars, Ws
    <3> QED BY <1>0, <1>1, <3>1 DEF vars, LockInv, LockOK
  <2>3. NextOK
    BY <1>1, <2>2, StillStep DEF vars
  <2> QED BY <2>1, <2>3
<1>2. CASE Next
  <2>1. PICK t \in Threads : Start(t) \/ Inside(t)
    BY <1>2 DEF Next
  <2>2. CASE \E c \in Calls, block \in BOOLEAN : Call(t, c, block)
    BY <2>2, CallInv, WaitableAssumption
  <2>3. CASE \E cases \in Selects, block \in BOOLEAN : SelectCall(t, cases, block)
    BY <2>3, SelectCallInv
  <2>4. CASE \E w \in Waitables : Close(t, w)
    BY <2>4, CloseInv
  <2>5. CASE FastFail(t)
    BY <2>5, FastFailInv
  <2>6. CASE Operate(t)
    BY <2>6, OperateInv
  <2>7. CASE Ready(t)
    BY <2>7, ReadyInv
  <2>8. CASE Woken(t)
    BY <2>8, WokenInv
  <2>9. CASE \E dir \in Dirs : CloseTake(t, dir)
    BY <2>9, CloseTakeInv
  <2>10. CASE CloseUnlock(t)
    BY <2>10, CloseUnlockInv
  <2>11. CASE CloseReady(t)
    BY <2>11, CloseReadyInv
  <2>12. CASE SelectLock(t)
    BY <2>12, SelectLockInv
  <2>13. CASE SelectPass1(t)
    BY <2>13, SelectPass1Inv
  <2>14. CASE SelectPass2(t)
    BY <2>14, SelectPass2Inv
  <2>15. CASE SelectParkUnlock(t)
    BY <2>15, SelectParkUnlockInv
  <2>16. CASE SelectWoken(t)
    BY <2>16, SelectWokenInv
  <2>17. CASE SelectPass3(t)
    BY <2>17, SelectPass3Inv
  <2> QED BY <2>1, <2>2, <2>3, <2>4, <2>5, <2>6, <2>7, <2>8, <2>9, <2>10, <2>11, <2>12, <2>13, <2>14, <2>15, <2>16, <2>17
          DEF Start, Inside
<1> QED BY <1>1, <1>2

LEMMA InvHolds == Spec => []Inv
BY InitInv, NextInv, PTL DEF Spec

LEMMA OwesTodo ==
    ASSUME TypeOK, NEW t \in Threads, NEW u PROVE Owes(t, u) <=> u \in Range(todo[t])
<1>1. todo[t] \in Seq(Threads) /\ DOMAIN todo[t] = 1..Len(todo[t])
  BY DEF TypeOK
<1> QED BY <1>1 DEF Owes, Mem, Range

LEMMA AsleepSleeps ==
    ASSUME TypeOK, NEW u \in Threads PROVE Asleep(u) <=> Sleeps(u)
BY OwesTodo DEF Asleep, Sleeps, ToBeReadied

\* waitable.c keeps every variable in its type, and the count of a waitable
\* between 0 and its size.
THEOREM WaitableTypes == Spec => []TypeOK
<1>1. Inv => TypeOK
  BY DEF Inv, WInv
<1> QED BY <1>1, InvHolds, PTL

\* No thread is taken off the queues by two callers, whatever queues its
\* descriptors stand in, and scheduler_ready_thread finds it WAITING.
THEOREM WakesOnce == Spec => []ReadiedOnceWhileWaiting
<1>1. Inv => ReadiedOnceWhileWaiting
  <2> SUFFICES ASSUME Inv, NEW t1 \in Threads, NEW t2 \in Threads, NEW i \in DOMAIN todo[t1], NEW j \in DOMAIN todo[t2]
               PROVE  /\ status[todo[t1][i]] = "waiting"
                      /\ todo[t1][i] = todo[t2][j] => t1 = t2 /\ i = j
    BY DEF ReadiedOnceWhileWaiting
  <2>1. TypeOK /\ TodoInv /\ NoDup(todo[t1])
    BY DEF Inv, WInv, ShapeInv, TodoInv, TodoOK
  <2>2. todo[t1] \in Seq(Threads) /\ todo[t2] \in Seq(Threads) /\ i \in 1..Len(todo[t1]) /\ j \in 1..Len(todo[t2])
    BY <2>1 DEF TypeOK
  <2>3. PICK u \in Threads : u = todo[t1][i] /\ Owes(t1, u)
    BY <2>2 DEF Owes, Mem
  <2>4. status[u] = "waiting"
    BY <2>1, <2>3 DEF TodoInv, OwedOK
  <2>5. ASSUME todo[t2][j] = u PROVE t1 = t2 /\ i = j
    <3>1. Owes(t2, u)
      BY <2>2, <2>5 DEF Owes, Mem
    <3>2. t1 = t2
      BY <2>1, <2>3, <3>1 DEF TodoInv
    <3> QED BY <2>1, <2>2, <2>3, <2>5, <3>2 DEF NoDup
  <2> QED BY <2>3, <2>4, <2>5
<1> QED BY <1>1, InvHolds, PTL

\* A sleeper has exactly one descriptor in the queue of every case of its call,
\* and no queue holds the descriptor of a call that has returned.
THEOREM QueuesHoldTheSleepers == Spec => []DescriptorsExact
<1>1. Inv => DescriptorsExact
  <2> SUFFICES ASSUME Inv, NEW c \in Cases, NEW t \in Threads
               PROVE  LET copies == Cardinality({i \in DOMAIN queue[c] : queue[c][i] = t})
                      IN  /\ Asleep(t) /\ c \in op[t].cases => copies = 1
                          /\ copies # 0 => /\ c \in op[t].cases /\ copies = 1
                                           /\ ~Asleep(t) => op[t].select /\ pc[t] \in {"parked", "sel_relock", "sel_pass3"}
    BY DEF DescriptorsExact
  <2> DEFINE S == {i \in DOMAIN queue[c] : queue[c][i] = t}
  <2>1. TypeOK /\ ShapeInv /\ NoDup(queue[c]) /\ InOK(t, c) /\ SleepOK(t) /\ OpOK(t)
    BY DEF Inv, WInv, ShapeInv, QueueInv, OpInv
  <2>2. queue[c] \in Seq(Threads) /\ DOMAIN queue[c] = 1..Len(queue[c])
    BY <2>1 DEF TypeOK
  <2>3. In(t, c) => Cardinality(S) = 1
    <3> SUFFICES ASSUME In(t, c) PROVE Cardinality(S) = 1
      OBVIOUS
    <3>1. PICK k \in 1..Len(queue[c]) : queue[c][k] = t
      BY DEF In, Mem
    <3>2. S = {k}
      BY <2>1, <2>2, <3>1 DEF NoDup
    <3>3. Cardinality({k}) = 1
      BY FS_Singleton
    <3> QED BY <3>2, <3>3
  <2>4. ~In(t, c) => Cardinality(S) = 0
    <3> SUFFICES ASSUME ~In(t, c) PROVE Cardinality(S) = 0
      OBVIOUS
    <3>1. S = {}
      BY <2>2 DEF In, Mem
    <3> QED BY <3>1, FS_EmptySet
  <2>5. Asleep(t) /\ c \in op[t].cases => In(t, c)
    BY <2>1, AsleepSleeps DEF SleepOK
  <2>6. In(t, c) => c \in op[t].cases /\ (~Asleep(t) => op[t].select /\ pc[t] \in {"parked", "sel_relock", "sel_pass3"})
    BY <2>1, AsleepSleeps DEF InOK, Won, OpOK, Runs
  <2> HIDE DEF S
  <2>7. /\ Asleep(t) /\ c \in op[t].cases => Cardinality(S) = 1
        /\ Cardinality(S) # 0 => /\ c \in op[t].cases /\ Cardinality(S) = 1
                                 /\ ~Asleep(t) => op[t].select /\ pc[t] \in {"parked", "sel_relock", "sel_pass3"}
    BY <2>3, <2>4, <2>5, <2>6
  <2> QED BY <2>7 DEF S
<1> QED BY <1>1, InvHolds, PTL

\* Nobody sleeps on a waitable that would let it go on, and nobody on one that
\* has been closed, whatever the selects and the closes do at the same time.
THEOREM SleepersMustWait == Spec => []NobodySleepsInVain
<1>1. Inv => NobodySleepsInVain
  <2> SUFFICES ASSUME Inv, NEW w \in Waitables, NEW u \in Threads, lock[w] = NoThread, Asleep(u)
               PROVE  /\ <<w, "wait">> \in op[u].cases => count[w] = 0
                      /\ <<w, "send">> \in op[u].cases => count[w] = Size[w]
                      /\ \A dir \in Dirs : <<w, dir>> \in op[u].cases =>
                            /\ ~closed[w]
                            /\ \A v \in Threads \ {u} : Asleep(v) => <<w, Opposite(dir)>> \notin op[v].cases
    BY DEF NobodySleepsInVain
  <2>1. WInv /\ TypeOK /\ SleepInv
    BY DEF Inv, WInv
  <2>2. Sleeps(u) /\ VainOK(u, w)
    BY <2>1, AsleepSleeps DEF SleepInv
  <2>3. \A v \in Threads : Asleep(v) => Sleeps(v)
    BY <2>1, AsleepSleeps
  <2>4. \A dir \in Dirs : <<w, dir>> \in op[u].cases => ~closed[w]
    BY <2>1, <2>2, ClosedFree DEF SleptOn
  <2> QED BY <2>2, <2>3, <2>4 DEF VainOK
<1> QED BY <1>1, InvHolds, PTL

\* What has been sent successfully has been received successfully once or is
\* still counted, across hand-overs, selects and closes.
THEOREM SendsBalanceReceives == Spec => []EverySendReceivedOnce
<1>1. Inv => EverySendReceivedOnce
  <2> SUFFICES ASSUME Inv, NEW w \in Waitables
               PROVE  credit[w] + Cardinality(Completed(<<w, "send">>)) - Cardinality(Completed(<<w, "wait">>)) = count[w]
    BY DEF EverySendReceivedOnce
  <2>1. TypeOK /\ ShapeInv /\ CreditOK(w)
    BY DEF Inv, WInv, CreditInv
  <2>2. ASSUME NEW c PROVE Completed(c) = {u \in Threads : Done(u, c)}
    <3>1. \A u \in Threads : success[u] => Runs(u)
      BY <2>1 DEF ShapeInv, OpInv, OpOK
    <3>2. \A u \in Threads : Runs(u) => pc[u] \in {"parked", "sel_relock", "sel_pass3"}
      BY DEF Runs
    <3>3. \A s, u \in Threads : Owes(s, u) <=> u \in Range(todo[s])
      BY <2>1, OwesTodo
    <3> QED BY <3>1, <3>2, <3>3 DEF Completed, Done
  <2>3. \A c : Cardinality(Completed(c)) = Number(c)
    BY <2>2, Zenon DEF Number
  <2> QED BY <2>1, <2>3 DEF CreditOK
<1> QED BY <1>1, InvHolds, PTL

=============================================================================
