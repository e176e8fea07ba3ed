--------------------------- MODULE ResourceProofs ---------------------------
(***************************************************************************)
(* Proofs about the pools above the memory: the descriptors and stacks of  *)
(* threads, the descriptors they wait with, and those of a virtio queue,   *)
(* for every number of CPUs, threads, stacks, descriptors and functions    *)
(* and every size of the caches and of the queue.                          *)
(***************************************************************************)
EXTENDS MCResources, FiniteSetTheorems, SequenceTheorems, WellFoundedInduction, TLAPS

(***************************************************************************)
(* Thread descriptors and stacks                                           *)
(***************************************************************************)
In(s, x) == \E i \in 1..Len(s) : s[i] = x
Once(s) == \A i, j \in 1..Len(s) : s[i] = s[j] => i = j

CallRec == [at : {"none", "base", "get", "alloc", "setup", "push"}, cpu : Cpus \cup {Gone}, base : Cpus \cup {Gone},
            new : Threads \cup {Gone}]

\* No descriptor stands in two lists, or in one list twice.
ListsOK(lo, gl) ==
    /\ lo \in [Cpus -> Seq(Threads)] /\ gl \in Seq(Threads)
    /\ Once(gl) /\ \A c \in Cpus : Once(lo[c])
    /\ \A t \in Threads, c \in Cpus : ~ (In(lo[c], t) /\ In(gl, t))
    /\ \A t \in Threads : \A c, d \in Cpus : In(lo[c], t) /\ In(lo[d], t) => c = d

\* The descriptor waits in a list.
Dead(lo, gl, t) == In(gl, t) \/ \E c \in Cpus : In(lo[c], t)

\* A call of create_thread or release_thread has the descriptor.
Handed(ca, t) == \E k \in Callers : ca[k].new = t

ListInv == ListsOK(local, global)

\* The count of the global list is exact; those of the CPUs need not be.
CountInv == count \in [Cpus -> Int] /\ total = Len(global)

\* A call has a descriptor from get_free_thread or alloc_thread to the end of
\* create_thread, or from the last reference to the push, and no two calls the same.
CallOK(r) ==
    /\ r \in CallRec
    /\ r.new # Gone <=> r.at \in {"setup", "push"}
    /\ r.at \in {"base", "get", "push"} => r.cpu \in Cpus /\ r.base \in Cpus
CallInv ==
    /\ call \in [Callers -> CallRec] /\ \A k \in Callers : CallOK(call[k])
    /\ \A k, l \in Callers : call[k].new # Gone /\ call[k].new = call[l].new => k = l

\* The references of a descriptor are the scheduler's and the caller's, and one
\* that is dead and without references is in a list or has been handed to a call.
DescriptorAt(st, re, ow, de, ha) ==
    /\ re = (IF st \in {"waiting", "dropped"} THEN 1 ELSE 0) + (IF ow THEN 1 ELSE 0)
    /\ st = "idle" => ~ ow
    /\ de \/ ha => st = "dead" /\ ~ ow
    /\ ~ (de /\ ha)
    /\ st = "dead" /\ ~ ow => de \/ ha

DescriptorInv ==
    /\ status \in [Threads -> {"idle", "dead", "waiting", "dropped"}]
    /\ refs \in [Threads -> Nat] /\ owed \subseteq Threads
    /\ \A t \in Threads :
          DescriptorAt(status[t], refs[t], t \in owed, Dead(local, global, t), Handed(call, t))

\* A stack below `next' is unused, or of one descriptor, or lost.
StackInv ==
    /\ stack \in [Threads -> Nat] /\ next \in Nat \ {0} /\ all \subseteq Threads
    /\ unused \in Seq(Nat \ {0}) /\ Once(unused) /\ \A n \in Nat : In(unused, n) => n < next
    /\ \A t \in Threads :
          /\ status[t] = "idle" <=> stack[t] = 0
          /\ stack[t] # 0 => stack[t] < next /\ t \in all /\ ~ In(unused, stack[t])
    /\ \A t, u \in Threads : stack[t] # 0 /\ stack[t] = stack[u] => t = u

Sound == ListInv /\ CountInv /\ CallInv /\ DescriptorInv /\ StackInv

ThreadInv == torn = TRUE \/ (torn = FALSE /\ Sound)

----------------------------------------------------------------------------
(* Sequences                                                               *)

LEMMA SeqFacts ==
    ASSUME NEW S, NEW s \in Seq(S)
    PROVE  Len(s) \in Nat /\ \A i \in 1..Len(s) : s[i] \in S
BY LenProperties, ElementOfSeq

LEMMA InSeq ==
    ASSUME NEW S, NEW s \in Seq(S), NEW x, In(s, x)
    PROVE  x \in S
BY SeqFacts DEF In

LEMMA NothingIn ==
    /\ \A x : ~ In(<<>>, x)
    /\ Once(<<>>)
BY DEF In, Once

LEMMA Reversed ==
    ASSUME NEW S, NEW s \in Seq(S)
    PROVE  /\ T!Reverse(s) \in Seq(S) /\ Len(T!Reverse(s)) = Len(s)
           /\ \A x : In(T!Reverse(s), x) <=> In(s, x)
           /\ Once(s) => Once(T!Reverse(s))
<1> DEFINE r == T!Reverse(s)
<1>1. Len(s) \in Nat /\ \A i \in 1..Len(s) : s[i] \in S
  BY SeqFacts
<1>2. r = [i \in 1..Len(s) |-> s[Len(s) - i + 1]]
  BY DEF T!Reverse
<1>3. r \in Seq(S) /\ Len(r) = Len(s)
  <2>1. \A i \in 1..Len(s) : s[Len(s) - i + 1] \in S
    BY <1>1
  <2> QED BY <1>1, <1>2, <2>1
<1>4. \A i \in 1..Len(s) : r[i] = s[Len(s) - i + 1] /\ Len(s) - i + 1 \in 1..Len(s)
  BY <1>1, <1>2
<1> HIDE DEF r
<1>5. ASSUME NEW x, In(r, x) PROVE In(s, x)
  BY <1>3, <1>4, <1>5 DEF In
<1>6. ASSUME NEW x, In(s, x) PROVE In(r, x)
  <2>1. PICK i \in 1..Len(s) : s[i] = x
    BY <1>6 DEF In
  <2>2. Len(s) - i + 1 \in 1..Len(s) /\ Len(s) - (Len(s) - i + 1) + 1 = i
    BY <1>1
  <2>3. r[Len(s) - i + 1] = x
    BY <1>4, <2>1, <2>2
  <2> QED BY <1>3, <2>2, <2>3 DEF In
<1>7. ASSUME Once(s) PROVE Once(r)
  <2>1. ASSUME NEW i \in 1..Len(s), NEW j \in 1..Len(s), r[i] = r[j] PROVE i = j
    <3>1. Len(s) - i + 1 = Len(s) - j + 1
      BY <1>4, <1>7, <2>1 DEF Once
    <3> QED BY <1>1, <3>1
  <2> QED BY <1>3, <2>1 DEF Once
<1> QED BY <1>3, <1>5, <1>6, <1>7 DEF r

LEMMA CutInTwo ==
    ASSUME NEW S, NEW s \in Seq(S), NEW n \in 0..Len(s)
    PROVE  LET a == SubSeq(s, 1, n)
               b == SubSeq(s, n + 1, Len(s))
           IN  /\ a \in Seq(S) /\ b \in Seq(S) /\ Len(a) = n /\ Len(b) = Len(s) - n
               /\ \A x : In(s, x) <=> In(a, x) \/ In(b, x)
               /\ Once(s) => Once(a) /\ Once(b) /\ \A x : ~ (In(a, x) /\ In(b, x))
<1> DEFINE a == SubSeq(s, 1, n)
           b == SubSeq(s, n + 1, Len(s))
<1>1. Len(s) \in Nat /\ n \in Nat /\ \A i \in 1..Len(s) : s[i] \in S
  BY SeqFacts
<1>2. a \in Seq(S) /\ Len(a) = n /\ \A i \in 1..n : a[i] = s[i]
  <2>1. \A i \in 1..n : s[i] \in S
    BY <1>1
  <2>2. /\ a \in Seq(S) /\ Len(a) = (IF 1 <= n THEN n - 1 + 1 ELSE 0)
        /\ \A i \in 1..(n - 1 + 1) : a[i] = s[1 + i - 1]
    BY <1>1, <2>1, SubSeqProperties
  <2>3. n - 1 + 1 = n /\ \A i \in 1..n : 1 + i - 1 = i
    BY <1>1
  <2> HIDE DEF a
  <2> QED BY <1>1, <2>2, <2>3
<1>3. b \in Seq(S) /\ Len(b) = Len(s) - n /\ \A i \in 1..(Len(s) - n) : b[i] = s[n + i]
  <2>1. \A i \in (n + 1)..Len(s) : s[i] \in S
    BY <1>1
  <2>2. /\ b \in Seq(S) /\ Len(b) = (IF n + 1 <= Len(s) THEN Len(s) - (n + 1) + 1 ELSE 0)
        /\ \A i \in 1..(Len(s) - (n + 1) + 1) : b[i] = s[n + 1 + i - 1]
    BY <1>1, <2>1, SubSeqProperties
  <2>3. Len(s) - (n + 1) + 1 = Len(s) - n /\ \A i \in 1..(Len(s) - n) : n + 1 + i - 1 = n + i
    BY <1>1
  <2> HIDE DEF b
  <2>4. Len(b) = Len(s) - n
    BY <1>1, <2>2
  <2>5. ASSUME NEW i \in 1..(Len(s) - n) PROVE b[i] = s[n + i]
    <3>1. i \in 1..(Len(s) - (n + 1) + 1) /\ n + 1 + i - 1 = n + i
      BY <1>1
    <3>2. b[i] = s[n + 1 + i - 1]
      BY <2>2, <3>1
    <3> QED BY <3>1, <3>2
  <2> QED BY <2>2, <2>4, <2>5
<1> HIDE DEF a, b
<1>4. ASSUME NEW x, In(s, x) PROVE In(a, x) \/ In(b, x)
  <2>1. PICK i \in 1..Len(s) : s[i] = x
    BY <1>4 DEF In
  <2>2. CASE i <= n
    BY <1>1, <1>2, <2>1, <2>2 DEF In
  <2>3. CASE ~ (i <= n)
    <3>1. i - n \in 1..(Len(s) - n) /\ n + (i - n) = i
      BY <1>1, <2>3
    <3> QED BY <1>3, <2>1, <3>1 DEF In
  <2> QED BY <2>2, <2>3
<1>5. ASSUME NEW x, In(a, x) PROVE In(s, x)
  BY <1>1, <1>2, <1>5 DEF In
<1>6. ASSUME NEW x, In(b, x) PROVE In(s, x)
  <2>1. PICK i \in 1..(Len(s) - n) : b[i] = x
    BY <1>3, <1>6 DEF In
  <2>2. n + i \in 1..Len(s) /\ s[n + i] = x
    BY <1>1, <1>3, <2>1
  <2> QED BY <2>2 DEF In
<1>7. ASSUME Once(s) PROVE Once(a) /\ Once(b) /\ \A x : ~ (In(a, x) /\ In(b, x))
  <2>1. Once(a)
    BY <1>1, <1>2, <1>7 DEF Once
  <2>2. Once(b)
    <3>1. ASSUME NEW i \in 1..(Len(s) - n), NEW j \in 1..(Len(s) - n), b[i] = b[j] PROVE i = j
      <4>1. n + i \in 1..Len(s) /\ n + j \in 1..Len(s) /\ s[n + i] = s[n + j]
        BY <1>1, <1>3, <3>1
      <4>2. n + i = n + j
        BY <1>7, <4>1 DEF Once
      <4> QED BY <1>1, <4>2
    <3> QED BY <1>3, <3>1 DEF Once
  <2>3. ASSUME NEW x, In(a, x), In(b, x) PROVE FALSE
    <3>1. PICK i \in 1..n : s[i] = x
      BY <1>2, <2>3 DEF In
    <3>2. PICK j \in 1..(Len(s) - n) : s[n + j] = x
      BY <1>3, <2>3 DEF In
    <3>3. i \in 1..Len(s) /\ n + j \in 1..Len(s) /\ i # n + j
      BY <1>1
    <3> QED BY <1>7, <3>1, <3>2, <3>3 DEF Once
  <2> QED BY <2>1, <2>2, <2>3
<1> QED BY <1>2, <1>3, <1>4, <1>5, <1>6, <1>7 DEF a, b

LEMMA Joined ==
    ASSUME NEW S, NEW s \in Seq(S), NEW t \in Seq(S)
    PROVE  /\ s \o t \in Seq(S) /\ Len(s \o t) = Len(s) + Len(t)
           /\ \A x : In(s \o t, x) <=> In(s, x) \/ In(t, x)
           /\ Once(s) /\ Once(t) /\ (\A x : ~ (In(s, x) /\ In(t, x))) => Once(s \o t)
<1>1. PICK u : u = s \o t
  OBVIOUS
<1>2. /\ u \in Seq(S) /\ Len(u) = Len(s) + Len(t)
      /\ \A i \in 1..(Len(s) + Len(t)) : u[i] = IF i <= Len(s) THEN s[i] ELSE t[i - Len(s)]
  BY <1>1, ConcatProperties
<1>3. Len(s) \in Nat /\ Len(t) \in Nat
  BY SeqFacts
<1>4. ASSUME NEW x, In(u, x) PROVE In(s, x) \/ In(t, x)
  <2>1. PICK i \in 1..(Len(s) + Len(t)) : u[i] = x
    BY <1>2, <1>4 DEF In
  <2>2. CASE i <= Len(s)
    BY <1>2, <1>3, <2>1, <2>2 DEF In
  <2>3. CASE ~ (i <= Len(s))
    <3>1. i - Len(s) \in 1..Len(t) /\ t[i - Len(s)] = x
      BY <1>2, <1>3, <2>1, <2>3
    <3> QED BY <3>1 DEF In
  <2> QED BY <2>2, <2>3
<1>5. ASSUME NEW x, In(s, x) PROVE In(u, x)
  BY <1>2, <1>3, <1>5 DEF In
<1>6. ASSUME NEW x, In(t, x) PROVE In(u, x)
  <2>1. PICK i \in 1..Len(t) : t[i] = x
    BY <1>6 DEF In
  <2>2. PICK k : k = Len(s) + i
    OBVIOUS
  <2>3. k \in 1..(Len(s) + Len(t)) /\ ~ (k <= Len(s)) /\ k - Len(s) = i
    BY <1>3, <2>2
  <2>4. u[k] = t[i]
    BY <1>2, <2>3
  <2> QED BY <1>2, <2>1, <2>3, <2>4 DEF In
<1>7. ASSUME Once(s), Once(t), \A x : ~ (In(s, x) /\ In(t, x)) PROVE Once(u)
  <2>1. ASSUME NEW i \in 1..Len(u), NEW j \in 1..Len(u), u[i] = u[j] PROVE i = j
    <3>1. CASE i <= Len(s) /\ j <= Len(s)
      BY <1>2, <1>3, <1>7, <2>1, <3>1 DEF Once
    <3>2. CASE ~ (i <= Len(s)) /\ ~ (j <= Len(s))
      <4>1. i - Len(s) \in 1..Len(t) /\ j - Len(s) \in 1..Len(t) /\ t[i - Len(s)] = t[j - Len(s)]
        BY <1>2, <1>3, <2>1, <3>2
      <4>2. i - Len(s) = j - Len(s)
        BY <1>7, <4>1 DEF Once
      <4> QED BY <1>2, <1>3, <4>2
    <3>3. ASSUME NEW k \in 1..Len(u), NEW l \in 1..Len(u), k <= Len(s), ~ (l <= Len(s)), u[k] = u[l] PROVE FALSE
      <4>1. k \in 1..Len(s) /\ l - Len(s) \in 1..Len(t) /\ s[k] = t[l - Len(s)]
        BY <1>2, <1>3, <3>3
      <4>2. In(s, s[k]) /\ In(t, s[k])
        BY <4>1 DEF In
      <4> QED BY <1>7, <4>2
    <3> QED BY <2>1, <3>1, <3>2, <3>3
  <2> QED BY <2>1 DEF Once
<1> QED BY <1>1, <1>2, <1>4, <1>5, <1>6, <1>7

LEMMA PushedOn ==
    ASSUME NEW S, NEW s \in Seq(S), NEW t \in S
    PROVE  /\ T!Pushed(s, t) \in Seq(S) /\ Len(T!Pushed(s, t)) = Len(s) + 1
           /\ \A x : In(T!Pushed(s, t), x) <=> x = t \/ In(s, x)
           /\ Once(s) /\ ~ In(s, t) => Once(T!Pushed(s, t))
<1>1. <<t>> \in Seq(S) /\ Len(<<t>>) = 1 /\ <<t>>[1] = t
  OBVIOUS
<1>2. (\A x : In(<<t>>, x) <=> x = t) /\ Once(<<t>>)
  BY <1>1 DEF In, Once
<1>3. Len(s) \in Nat
  BY SeqFacts
<1>4. PICK u : u = <<t>>
  OBVIOUS
<1>5. u \in Seq(S) /\ Len(u) = 1 /\ (\A x : In(u, x) <=> x = t) /\ Once(u)
  BY <1>1, <1>2, <1>4
<1>6. /\ u \o s \in Seq(S) /\ Len(u \o s) = Len(u) + Len(s)
      /\ \A x : In(u \o s, x) <=> In(u, x) \/ In(s, x)
      /\ Once(u) /\ Once(s) /\ (\A x : ~ (In(u, x) /\ In(s, x))) => Once(u \o s)
  BY <1>5, Joined
<1>7. T!Pushed(s, t) = u \o s
  BY <1>4 DEF T!Pushed
<1> QED BY <1>3, <1>5, <1>6, <1>7

LEMMA HeadAndTail ==
    ASSUME NEW S, NEW s \in Seq(S), s # <<>>
    PROVE  /\ Head(s) \in S /\ Tail(s) \in Seq(S) /\ Len(s) \in Nat \ {0} /\ Len(Tail(s)) = Len(s) - 1
           /\ \A x : In(s, x) <=> x = Head(s) \/ In(Tail(s), x)
           /\ Once(s) => Once(Tail(s)) /\ ~ In(Tail(s), Head(s))
<1>1. PICK h, u : h = Head(s) /\ u = Tail(s)
  OBVIOUS
<1>2. /\ h \in S /\ u \in Seq(S) /\ Len(u) = Len(s) - 1
      /\ \A i \in 1..Len(u) : u[i] = s[i + 1]
  BY <1>1, HeadTailProperties
<1>3. Len(s) \in Nat \ {0} /\ h = s[1]
  BY <1>1, EmptySeq, SeqFacts
<1>4. ASSUME NEW x, In(s, x) PROVE x = h \/ In(u, x)
  <2>1. PICK i \in 1..Len(s) : s[i] = x
    BY <1>4 DEF In
  <2>2. CASE i = 1
    BY <1>3, <2>1, <2>2
  <2>3. CASE i # 1
    <3>1. i - 1 \in 1..Len(u) /\ u[i - 1] = s[i]
      BY <1>2, <1>3, <2>3
    <3> QED BY <2>1, <3>1 DEF In
  <2> QED BY <2>2, <2>3
<1>5. ASSUME NEW x, x = h \/ In(u, x) PROVE In(s, x)
  <2>1. CASE x = h
    BY <1>3, <2>1 DEF In
  <2>2. CASE In(u, x)
    <3>1. PICK i \in 1..Len(u) : u[i] = x
      BY <2>2 DEF In
    <3>2. i + 1 \in 1..Len(s) /\ s[i + 1] = x
      BY <1>2, <1>3, <3>1
    <3> QED BY <3>2 DEF In
  <2> QED BY <1>5, <2>1, <2>2
<1>6. ASSUME Once(s) PROVE Once(u) /\ ~ In(u, h)
  <2>1. ASSUME NEW i \in 1..Len(u), NEW j \in 1..Len(u), u[i] = u[j] PROVE i = j
    <3>1. i + 1 \in 1..Len(s) /\ j + 1 \in 1..Len(s) /\ s[i + 1] = s[j + 1]
      BY <1>2, <1>3, <2>1
    <3>2. i + 1 = j + 1
      BY <1>6, <3>1 DEF Once
    <3> QED BY <1>2, <1>3, <3>2
  <2>2. ASSUME NEW i \in 1..Len(u), u[i] = h PROVE FALSE
    <3>1. i + 1 \in 1..Len(s) /\ s[i + 1] = s[1] /\ 1 \in 1..Len(s) /\ i + 1 # 1
      BY <1>2, <1>3, <2>2
    <3> QED BY <1>6, <3>1 DEF Once
  <2> QED BY <2>1, <2>2 DEF Once, In
<1> QED BY <1>1, <1>2, <1>3, <1>4, <1>5, <1>6
----------------------------------------------------------------------------
(* What an action does to the lists, the calls and the descriptors         *)

\* The list of one CPU and the global list exchange descriptors, give some away
\* (Out) and take some that were in no list (Fresh).
Moves(lo, gl, c, a, b, Out, Fresh) ==
    /\ a \in Seq(Threads) /\ b \in Seq(Threads) /\ Once(a) /\ Once(b)
    /\ \A t \in Threads :
          /\ ~ (In(a, t) /\ In(b, t))
          /\ (In(a, t) \/ In(b, t)) <=> ((In(lo[c], t) \/ In(gl, t)) /\ t \notin Out) \/ t \in Fresh
          /\ t \in Fresh => ~ Dead(lo, gl, t)
          /\ t \in Out => In(lo[c], t) \/ In(gl, t)

LEMMA ListsMove ==
    ASSUME NEW lo, NEW gl, ListsOK(lo, gl), NEW c \in Cpus, NEW a, NEW b, NEW Out, NEW Fresh,
           Moves(lo, gl, c, a, b, Out, Fresh)
    PROVE  /\ ListsOK([lo EXCEPT ![c] = a], b)
           /\ \A t \in Threads : Dead([lo EXCEPT ![c] = a], b, t) <=> (Dead(lo, gl, t) /\ t \notin Out) \/ t \in Fresh
<1> USE DEF Moves
<1>1. PICK l : l = [lo EXCEPT ![c] = a]
  OBVIOUS
<1>2. l \in [Cpus -> Seq(Threads)] /\ l[c] = a /\ \A d \in Cpus : d # c => l[d] = lo[d]
  BY <1>1 DEF ListsOK
<1>3. \A d \in Cpus : Once(l[d])
  BY <1>2 DEF ListsOK
<1>4. ASSUME NEW t \in Threads, NEW d \in Cpus, d # c, In(l[d], t) PROVE ~ In(a, t) /\ ~ In(b, t)
  <2>1. In(lo[d], t) /\ Dead(lo, gl, t)
    BY <1>2, <1>4 DEF Dead
  <2>2. ~ In(gl, t) /\ ~ In(lo[c], t)
    BY <1>4, <2>1 DEF ListsOK
  <2> QED BY <2>1, <2>2
<1>5. ListsOK(l, b)
  <2>1. ASSUME NEW t \in Threads, NEW d \in Cpus, In(l[d], t), In(b, t) PROVE FALSE
    BY <1>2, <1>4, <2>1
  <2>2. ASSUME NEW t \in Threads, NEW d \in Cpus, NEW e \in Cpus, In(l[d], t), In(l[e], t) PROVE d = e
    <3>1. CASE d = c \/ e = c
      BY <1>2, <1>4, <2>2, <3>1
    <3>2. CASE d # c /\ e # c
      BY <1>2, <2>2, <3>2 DEF ListsOK
    <3> QED BY <3>1, <3>2
  <2> QED BY <1>2, <1>3, <2>1, <2>2 DEF ListsOK
<1>6. ASSUME NEW t \in Threads PROVE Dead(l, b, t) <=> (Dead(lo, gl, t) /\ t \notin Out) \/ t \in Fresh
  <2>1. ASSUME Dead(l, b, t) PROVE (Dead(lo, gl, t) /\ t \notin Out) \/ t \in Fresh
    <3>1. CASE In(a, t) \/ In(b, t)
      BY <3>1 DEF Dead
    <3>2. ASSUME NEW d \in Cpus, d # c, In(l[d], t) PROVE Dead(lo, gl, t) /\ t \notin Out
      <4>1. In(lo[d], t)
        BY <1>2, <3>2
      <4>2. ~ In(gl, t) /\ ~ In(lo[c], t)
        BY <3>2, <4>1 DEF ListsOK
      <4> QED BY <4>1, <4>2 DEF Dead
    <3>3. In(a, t) \/ In(b, t) \/ \E d \in Cpus : d # c /\ In(l[d], t)
      BY <1>2, <2>1 DEF Dead
    <3> QED BY <3>1, <3>2, <3>3
  <2>2. ASSUME Dead(lo, gl, t), t \notin Out PROVE Dead(l, b, t)
    <3>1. CASE In(gl, t) \/ In(lo[c], t)
      <4>1. In(a, t) \/ In(b, t)
        BY <2>2, <3>1
      <4> QED BY <1>2, <4>1 DEF Dead
    <3>2. ASSUME NEW d \in Cpus, d # c, In(lo[d], t) PROVE Dead(l, b, t)
      BY <1>2, <3>2 DEF Dead
    <3> QED BY <2>2, <3>1, <3>2 DEF Dead
  <2>3. ASSUME t \in Fresh PROVE Dead(l, b, t)
    BY <1>2, <2>3 DEF Dead
  <2> QED BY <2>1, <2>2, <2>3
<1> QED BY <1>1, <1>5, <1>6

LEMMA ListsDrop ==
    ASSUME NEW lo, NEW gl, ListsOK(lo, gl)
    PROVE  /\ ListsOK(lo, <<>>)
           /\ \A t \in Threads : Dead(lo, <<>>, t) <=> Dead(lo, gl, t) /\ ~ In(gl, t)
<1>1. PICK e : e = <<>>
  OBVIOUS
<1>2. e \in Seq(Threads) /\ Once(e) /\ \A x : ~ In(e, x)
  BY <1>1, NothingIn
<1>3. ListsOK(lo, e)
  BY <1>2 DEF ListsOK
<1>4. \A t \in Threads : Dead(lo, e, t) <=> Dead(lo, gl, t) /\ ~ In(gl, t)
  BY <1>2 DEF Dead, ListsOK
<1> QED BY <1>1, <1>3, <1>4

\* A call goes on, and its descriptor may be another afterwards.
LEMMA CallStep ==
    ASSUME CallInv, Gone \notin Threads, NEW k \in Callers, NEW r, CallOK(r),
           r.new = call[k].new \/ r.new = Gone \/ ~ Handed(call, r.new),
           call' = [call EXCEPT ![k] = r]
    PROVE  /\ CallInv'
           /\ \A t \in Threads : Handed(call', t) <=> (Handed(call, t) /\ t # call[k].new) \/ t = r.new
<1>1. call' \in [Callers -> CallRec] /\ call'[k] = r /\ \A d \in Callers : d # k => call'[d] = call[d]
  BY DEF CallInv, CallOK
<1>2. \A d \in Callers : CallOK(call'[d])
  BY <1>1 DEF CallInv
<1>3. ASSUME NEW d \in Callers, d # k, r.new # Gone, call[d].new = r.new PROVE FALSE
  BY <1>3 DEF CallInv, Handed
<1>4. ASSUME NEW d \in Callers, NEW e \in Callers, call'[d].new # Gone, call'[d].new = call'[e].new PROVE d = e
  <2>1. CASE d = k /\ e # k
    BY <1>1, <1>3, <1>4, <2>1
  <2>2. CASE d # k /\ e = k
    BY <1>1, <1>3, <1>4, <2>2
  <2>3. CASE d # k /\ e # k
    BY <1>1, <1>4, <2>3 DEF CallInv
  <2> QED BY <2>1, <2>2, <2>3
<1>5. CallInv'
  BY <1>1, <1>2, <1>4 DEF CallInv
<1>6. ASSUME NEW t \in Threads PROVE Handed(call', t) <=> (Handed(call, t) /\ t # call[k].new) \/ t = r.new
  <2>1. ASSUME NEW d \in Callers, call'[d].new = t PROVE (Handed(call, t) /\ t # call[k].new) \/ t = r.new
    <3>1. CASE d = k
      BY <1>1, <2>1, <3>1
    <3>2. CASE d # k
      BY <1>1, <2>1, <3>2 DEF CallInv, Handed
    <3> QED BY <3>1, <3>2
  <2>2. ASSUME NEW d \in Callers, call[d].new = t, t # call[k].new PROVE Handed(call', t)
    BY <1>1, <2>2 DEF Handed
  <2>3. ASSUME t = r.new PROVE Handed(call', t)
    BY <1>1, <2>3 DEF Handed
  <2> QED BY <2>1, <2>2, <2>3 DEF Handed
<1> QED BY <1>5, <1>6

\* The descriptors only change hands.
LEMMA DescriptorsKept ==
    ASSUME DescriptorInv, status' = status, refs' = refs, owed' = owed,
           \A t \in Threads : Dead(local', global', t) \/ Handed(call', t) <=> Dead(local, global, t) \/ Handed(call, t),
           \A t \in Threads : ~ (Dead(local', global', t) /\ Handed(call', t))
    PROVE  DescriptorInv'
<1>1. ASSUME NEW t \in Threads
      PROVE  DescriptorAt(status[t], refs[t], t \in owed, Dead(local', global', t), Handed(call', t))
  <2>1. DescriptorAt(status[t], refs[t], t \in owed, Dead(local, global, t), Handed(call, t))
    BY DEF DescriptorInv
  <2> QED BY <2>1 DEF DescriptorAt
<1> QED BY <1>1 DEF DescriptorInv

LEMMA StacksKept ==
    ASSUME StackInv, stack' = stack, next' = next, unused' = unused, all' = all,
           \A t \in Threads : status'[t] = "idle" <=> status[t] = "idle"
    PROVE  StackInv'
BY DEF StackInv

LEMMA NoCallIs ==
    CallOK(T!NoCall) /\ T!NoCall.new = Gone
BY DEF T!NoCall, CallRec, CallOK

----------------------------------------------------------------------------
(* The actions                                                             *)

\* A call goes on without a descriptor, before and after, or with the same.
LEMMA CallMoves ==
    ASSUME Sound, NEW k \in Callers, NEW r, CallOK(r), r.new = call[k].new, call' = [call EXCEPT ![k] = r],
           UNCHANGED <<local, count, global, total, status, refs, stack, next, unused, all, owed>>
    PROVE  Sound'
<1>1. Gone \notin Threads
  BY ResourcesAssumption
<1>2. CallInv' /\ \A t \in Threads : Handed(call', t) <=> (Handed(call, t) /\ t # call[k].new) \/ t = r.new
  BY <1>1, CallStep DEF Sound
<1>3. \A t \in Threads : Handed(call', t) <=> Handed(call, t)
  BY <1>2 DEF Handed
<1>4. DescriptorInv'
  <2>1. \A t \in Threads : ~ (Dead(local, global, t) /\ Handed(call, t))
    BY DEF Sound, DescriptorInv, DescriptorAt
  <2> QED BY <1>3, <2>1, DescriptorsKept DEF Sound
<1>5. StackInv'
  BY StacksKept DEF Sound
<1>6. ListInv' /\ CountInv'
  BY DEF Sound, ListInv, CountInv
<1> QED BY <1>2, <1>4, <1>5, <1>6 DEF Sound

LEMMA CallKeeps ==
    ASSUME Sound, torn = FALSE, NEW k \in Callers, T!Call(k)
    PROVE  ThreadInv'
<1>1. call[k].at = "none" /\ CallOK(call[k])
  BY DEF T!Call, Sound, CallInv
<1>2. PICK c \in Cpus : call' = [call EXCEPT ![k] = [T!NoCall EXCEPT !.at = "base", !.cpu = c, !.base = c]]
  BY DEF T!Call
<1>3. PICK r : r = [T!NoCall EXCEPT !.at = "base", !.cpu = c, !.base = c]
  OBVIOUS
<1>4. r = [at |-> "base", cpu |-> c, base |-> c, new |-> Gone]
  BY <1>3 DEF T!NoCall
<1>5. CallOK(r) /\ r.new = call[k].new
  BY <1>1, <1>4 DEF CallOK, CallRec
<1>6. Sound'
  BY <1>2, <1>3, <1>5, CallMoves DEF T!Call
<1> QED BY <1>6 DEF ThreadInv, T!Call

LEMMA MigrateKeeps ==
    ASSUME Sound, torn = FALSE, NEW k \in Callers, NEW c \in Cpus, T!Migrate(k, c)
    PROVE  ThreadInv'
<1>1. CallOK(call[k])
  BY DEF Sound, CallInv
<1>2. PICK r : r = [call[k] EXCEPT !.cpu = c]
  OBVIOUS
<1>3. CallOK(r) /\ r.new = call[k].new
  BY <1>1, <1>2 DEF CallOK, CallRec
<1>4. call' = [call EXCEPT ![k] = r]
  BY <1>2 DEF T!Migrate
<1>5. Sound'
  BY <1>3, <1>4, CallMoves DEF T!Migrate
<1> QED BY <1>5 DEF ThreadInv, T!Migrate

LEMMA EnterKeeps ==
    ASSUME Sound, torn = FALSE, NEW k \in Callers, T!Enter(k)
    PROVE  ThreadInv'
<1>1. CallOK(call[k]) /\ call[k].at = "base"
  BY DEF Sound, CallInv, T!Enter
<1>2. PICK r : r = [call[k] EXCEPT !.at = "get"]
  OBVIOUS
<1>3. CallOK(r) /\ r.new = call[k].new
  BY <1>1, <1>2 DEF CallOK, CallRec
<1>4. call' = [call EXCEPT ![k] = r]
  BY <1>2 DEF T!Enter
<1>5. Sound'
  BY <1>3, <1>4, CallMoves DEF T!Enter
<1>6. torn' = TRUE \/ torn' = FALSE
  BY DEF T!Enter
<1> QED BY <1>5, <1>6 DEF ThreadInv

\* What get_free_thread has when its list is empty: some threads of the global
\* list; otherwise its list as it is.
LEMMA GetFreeKeeps ==
    ASSUME Sound, torn = FALSE, NEW k \in Callers, T!GetFree(k)
    PROVE  ThreadInv'
<1>1. PICK b, c : b = call[k].base /\ c = call[k].cpu
  OBVIOUS
<1>2. /\ b \in Cpus /\ c \in Cpus /\ call[k].new = Gone /\ Gone \notin Threads /\ call \in [Callers -> CallRec]
      /\ Half \in Nat /\ torn' = FALSE
  BY <1>1, ResourcesAssumption DEF T!GetFree, Sound, CallInv, CallOK
<1>3. /\ ListsOK(local, global) /\ local \in [Cpus -> Seq(Threads)] /\ global \in Seq(Threads) /\ local[b] \in Seq(Threads)
      /\ Once(local[b]) /\ Once(global) /\ count \in [Cpus -> Int] /\ total = Len(global)
      /\ \A t \in Threads : ~ (In(local[b], t) /\ In(global, t))
  BY <1>2 DEF Sound, ListInv, ListsOK, CountInv
<1>4. Len(global) \in Nat /\ Len(local[b]) \in Nat
  BY <1>3, SeqFacts
<1>5. PICK room : room = IF local[b] # <<>> \/ count[c] >= Half THEN 0 ELSE Half - count[c]
  OBVIOUS
<1>6. PICK n : n = IF room < Len(global) THEN room ELSE Len(global)
  OBVIOUS
<1>7. n \in 0..Len(global)
  BY <1>2, <1>3, <1>4, <1>5, <1>6
<1>8. PICK a, g : a = SubSeq(global, 1, n) /\ g = SubSeq(global, n + 1, Len(global))
  OBVIOUS
<1>9. /\ a \in Seq(Threads) /\ g \in Seq(Threads) /\ Len(g) = Len(global) - n
      /\ \A x : In(global, x) <=> In(a, x) \/ In(g, x)
      /\ Once(a) /\ Once(g) /\ \A x : ~ (In(a, x) /\ In(g, x))
  BY <1>3, <1>7, <1>8, CutInTwo
<1>10. PICK v : v = T!Reverse(a)
  OBVIOUS
<1>11. v \in Seq(Threads) /\ (\A x : In(v, x) <=> In(a, x)) /\ Once(v)
  BY <1>9, <1>10, Reversed
<1>12. \A x : ~ (In(v, x) /\ In(local[b], x)) /\ ~ (In(g, x) /\ In(local[b], x))
  BY <1>3, <1>9, <1>11, InSeq
<1>13. PICK w : w = v \o local[b]
  OBVIOUS
<1>14. /\ w \in Seq(Threads) /\ Len(w) = Len(v) + Len(local[b]) /\ Once(w)
       /\ \A x : In(w, x) <=> In(v, x) \/ In(local[b], x)
  <2>1. /\ v \o local[b] \in Seq(Threads) /\ Len(v \o local[b]) = Len(v) + Len(local[b])
        /\ \A x : In(v \o local[b], x) <=> In(v, x) \/ In(local[b], x)
        /\ Once(v) /\ Once(local[b]) /\ (\A x : ~ (In(v, x) /\ In(local[b], x))) => Once(v \o local[b])
    BY <1>3, <1>11, Joined
  <2>2. Once(v \o local[b])
    BY <1>3, <1>11, <1>12, <2>1
  <2> QED BY <1>13, <2>1, <2>2
<1>15. /\ \A t : ~ (In(w, t) /\ In(g, t))
       /\ \A t : In(w, t) \/ In(g, t) <=> In(local[b], t) \/ In(global, t)
  BY <1>9, <1>11, <1>12, <1>14
<1>16. /\ global' = g /\ total' = total - n
       /\ \/ w = <<>> /\ call' = [call EXCEPT ![k] = [T!NoCall EXCEPT !.at = "alloc"]] /\ local' = local /\ count' = count
          \/ /\ w # <<>> /\ local' = [local EXCEPT ![b] = Tail(w)] /\ count' = [count EXCEPT ![c] = count[c] + n - 1]
             /\ call' = [call EXCEPT ![k] = [T!NoCall EXCEPT !.at = "setup", !.new = Head(w)]]
  BY <1>1, <1>5, <1>6, <1>8, <1>10, <1>13 DEF T!GetFree
<1>17. CountInv'
  <2>1. total' = Len(global')
    BY <1>3, <1>4, <1>7, <1>9, <1>16
  <2>2. n \in Int /\ count[c] + n - 1 \in Int
    BY <1>2, <1>3, <1>7
  <2>3. count' \in [Cpus -> Int]
    BY <1>3, <1>16, <2>2
  <2> QED BY <2>1, <2>3 DEF CountInv
<1>18. StackInv'
  BY StacksKept DEF T!GetFree, Sound
<1>19. DescriptorInv /\ status' = status /\ refs' = refs /\ owed' = owed
  BY DEF T!GetFree, Sound
<1>20. \A t \in Threads : ~ (Dead(local, global, t) /\ Handed(call, t))
  BY DEF Sound, DescriptorInv, DescriptorAt
<1>21. CASE w = <<>>
  <2>1. PICK q : q = [T!NoCall EXCEPT !.at = "alloc"]
    OBVIOUS
  <2>2. q = [at |-> "alloc", cpu |-> Gone, base |-> Gone, new |-> Gone]
    BY <2>1 DEF T!NoCall
  <2>3. CallOK(q) /\ q.new = Gone
    BY <2>2 DEF CallOK, CallRec
  <2>4. call' = [call EXCEPT ![k] = q]
    BY <1>16, <1>21, <2>1
  <2>5. CallInv' /\ \A t \in Threads : Handed(call', t) <=> (Handed(call, t) /\ t # call[k].new) \/ t = q.new
    BY <1>2, <2>3, <2>4, CallStep DEF Sound
  <2>6. Len(w) = 0
    BY <1>21
  <2>7. Len(local[b]) = 0
    <3>1. Len(v) \in Nat
      BY <1>11, SeqFacts
    <3>2. PICK i, j : i = Len(v) /\ j = Len(local[b])
      OBVIOUS
    <3>3. i \in Nat /\ j \in Nat /\ i + j = 0
      BY <1>4, <1>14, <2>6, <3>1, <3>2
    <3>4. j = 0
      BY <3>3
    <3> QED BY <3>2, <3>4
  <2>8. local[b] = w
    BY <1>3, <1>21, <2>7, EmptySeq
  <2>9. PICK e : e = {}
    OBVIOUS
  <2>10. Moves(local, global, b, w, g, e, e)
    BY <1>9, <1>14, <1>15, <2>9 DEF Moves
  <2>11. /\ ListsOK([local EXCEPT ![b] = w], g)
         /\ \A t \in Threads : Dead([local EXCEPT ![b] = w], g, t) <=> (Dead(local, global, t) /\ t \notin e) \/ t \in e
    BY <1>2, <1>3, <2>10, ListsMove
  <2>12. [local EXCEPT ![b] = w] = local'
    BY <1>3, <1>16, <1>21, <2>8
  <2>13. ListInv' /\ \A t \in Threads : Dead(local', global', t) <=> Dead(local, global, t)
    BY <1>16, <2>9, <2>11, <2>12 DEF ListInv
  <2>14. DescriptorInv'
    <3>1. \A t \in Threads : Handed(call', t) <=> Handed(call, t)
      BY <1>2, <2>3, <2>5
    <3> QED BY <1>19, <1>20, <2>13, <3>1, DescriptorsKept
  <2> QED BY <1>2, <1>17, <1>18, <2>5, <2>13, <2>14 DEF ThreadInv, Sound
<1>22. CASE w # <<>>
  <2>1. PICK h, u : h = Head(w) /\ u = Tail(w)
    OBVIOUS
  <2>2. /\ h \in Threads /\ u \in Seq(Threads)
        /\ \A x : In(w, x) <=> x = h \/ In(u, x)
        /\ Once(u) /\ ~ In(u, h)
    BY <1>14, <1>22, <2>1, HeadAndTail
  <2>3. PICK q : q = [T!NoCall EXCEPT !.at = "setup", !.new = h]
    OBVIOUS
  <2>4. q = [at |-> "setup", cpu |-> Gone, base |-> Gone, new |-> h]
    BY <2>3 DEF T!NoCall
  <2>5. CallOK(q) /\ q.new = h
    BY <1>2, <2>2, <2>4 DEF CallOK, CallRec
  <2>6. call' = [call EXCEPT ![k] = q]
    BY <1>16, <1>22, <2>1, <2>3
  <2>7. Dead(local, global, h)
    BY <1>2, <1>15, <2>2 DEF Dead
  <2>8. ~ Handed(call, h)
    BY <1>20, <2>2, <2>7
  <2>9. CallInv' /\ \A t \in Threads : Handed(call', t) <=> (Handed(call, t) /\ t # call[k].new) \/ t = q.new
    BY <1>2, <2>5, <2>6, <2>8, CallStep DEF Sound
  <2>10. PICK e, o : e = {} /\ o = {h}
    OBVIOUS
  <2>11. Moves(local, global, b, u, g, o, e)
    BY <1>9, <1>15, <2>2, <2>10 DEF Moves
  <2>12. /\ ListsOK([local EXCEPT ![b] = u], g)
         /\ \A t \in Threads : Dead([local EXCEPT ![b] = u], g, t) <=> (Dead(local, global, t) /\ t \notin o) \/ t \in e
    BY <1>2, <1>3, <2>11, ListsMove
  <2>13. local' = [local EXCEPT ![b] = u]
    BY <1>16, <1>22, <2>1
  <2>14. ListInv' /\ \A t \in Threads : Dead(local', global', t) <=> Dead(local, global, t) /\ t # h
    BY <1>16, <2>10, <2>12, <2>13 DEF ListInv
  <2>15. DescriptorInv'
    <3>1. \A t \in Threads : Handed(call', t) <=> Handed(call, t) \/ t = h
      BY <1>2, <2>5, <2>9
    <3>2. \A t \in Threads : Dead(local', global', t) \/ Handed(call', t) <=> Dead(local, global, t) \/ Handed(call, t)
      BY <2>7, <2>14, <3>1
    <3>3. \A t \in Threads : ~ (Dead(local', global', t) /\ Handed(call', t))
      BY <1>20, <2>14, <3>1
    <3> QED BY <1>19, <3>2, <3>3, DescriptorsKept
  <2> QED BY <1>2, <1>17, <1>18, <2>9, <2>14, <2>15 DEF ThreadInv, Sound
<1> QED BY <1>21, <1>22

LEMMA AllocStackIs ==
    ASSUME StackInv, Stacks \in Nat, NEW r, r = T!alloc_stack
    PROVE  /\ r.next \in Nat \ {0} /\ next <= r.next
           /\ r.unused \in Seq(Nat \ {0}) /\ Once(r.unused)
           /\ \A n \in Nat : In(r.unused, n) => In(unused, n)
           /\ r.top \in Nat
           /\ r.top # 0 => r.top < r.next /\ ~ In(r.unused, r.top) /\ \A t \in Threads : stack[t] # r.top
<1>1. /\ stack \in [Threads -> Nat] /\ next \in Nat \ {0} /\ unused \in Seq(Nat \ {0}) /\ Once(unused)
      /\ \A n \in Nat : In(unused, n) => n < next
      /\ \A t \in Threads : stack[t] # 0 => stack[t] < next /\ ~ In(unused, stack[t])
  BY DEF StackInv
<1>2. CASE unused # <<>>
  <2>1. PICK h, u : h = Head(unused) /\ u = Tail(unused)
    OBVIOUS
  <2>2. r.top = h /\ r.next = next /\ r.unused = u
    BY <1>2, <2>1 DEF T!alloc_stack
  <2>3. /\ h \in Nat \ {0} /\ u \in Seq(Nat \ {0}) /\ Once(u) /\ ~ In(u, h)
        /\ \A x : In(unused, x) <=> x = h \/ In(u, x)
    BY <1>1, <1>2, <2>1, HeadAndTail
  <2>4. In(unused, h) /\ h < next
    BY <1>1, <2>3
  <2>5. \A t \in Threads : stack[t] # h
    BY <1>1, <2>3, <2>4
  <2> QED BY <1>1, <2>2, <2>3, <2>4, <2>5
<1>3. CASE unused = <<>>
  <2>1. r.unused = unused /\ ((r.top = 0 /\ r.next = next) \/ (r.top = next /\ r.next = next + 1))
    BY <1>3 DEF T!alloc_stack
  <2>2. \A x : ~ In(unused, x)
    BY <1>3, NothingIn
  <2>3. \A t \in Threads : stack[t] # next
    BY <1>1
  <2> QED BY <1>1, <2>1, <2>2, <2>3
<1> QED BY <1>2, <1>3

LEMMA AllocThreadKeeps ==
    ASSUME Sound, torn = FALSE, NEW k \in Callers, T!AllocThread(k)
    PROVE  ThreadInv'
<1>1. /\ Gone \notin Threads /\ Stacks \in Nat /\ CallOK(call[k]) /\ call \in [Callers -> CallRec]
      /\ call[k].at = "alloc" /\ call[k].new = Gone
  BY ResourcesAssumption DEF T!AllocThread, Sound, CallInv, CallOK
<1>2. local' = local /\ global' = global /\ count' = count /\ total' = total /\ torn' = FALSE /\ refs' = refs /\ owed' = owed
  BY DEF T!AllocThread
<1>3. ListInv' /\ CountInv'
  BY <1>2 DEF Sound, ListInv, CountInv
<1>4. \A t \in Threads : ~ (Dead(local, global, t) /\ Handed(call, t))
  BY DEF Sound, DescriptorInv, DescriptorAt
<1>5. PICK r : r = T!alloc_stack
  OBVIOUS
<1>6. /\ r.next \in Nat \ {0} /\ next <= r.next
      /\ r.unused \in Seq(Nat \ {0}) /\ Once(r.unused)
      /\ \A n \in Nat : In(r.unused, n) => In(unused, n)
      /\ r.top \in Nat
      /\ r.top # 0 => r.top < r.next /\ ~ In(r.unused, r.top) /\ \A t \in Threads : stack[t] # r.top
  BY <1>1, <1>5, AllocStackIs DEF Sound
<1>7. /\ stack \in [Threads -> Nat] /\ next \in Nat \ {0} /\ all \subseteq Threads
      /\ \A n \in Nat : In(unused, n) => n < next
      /\ \A t \in Threads : (status[t] = "idle" <=> stack[t] = 0)
      /\ \A t \in Threads : stack[t] # 0 => stack[t] < next /\ t \in all /\ ~ In(unused, stack[t])
      /\ \A t, u \in Threads : stack[t] # 0 /\ stack[t] = stack[u] => t = u
  BY DEF Sound, StackInv
<1>8. ASSUME call' = [call EXCEPT ![k] = T!NoCall], status' = status
      PROVE  CallInv' /\ DescriptorInv'
  <2>1. PICK q : q = T!NoCall
    OBVIOUS
  <2>2. CallOK(q) /\ q.new = Gone
    BY <2>1, NoCallIs
  <2>3. CallInv' /\ \A t \in Threads : Handed(call', t) <=> (Handed(call, t) /\ t # call[k].new) \/ t = q.new
    BY <1>1, <1>8, <2>1, <2>2, CallStep DEF Sound
  <2>4. \A t \in Threads : Handed(call', t) <=> Handed(call, t)
    BY <1>1, <2>2, <2>3
  <2>5. DescriptorInv
    BY DEF Sound
  <2> QED BY <1>2, <1>4, <1>8, <2>3, <2>4, <2>5, DescriptorsKept
<1>9. CASE call' = [call EXCEPT ![k] = T!NoCall] /\ UNCHANGED <<status, stack, next, unused, all>>
  <2>1. StackInv'
    BY <1>9, StacksKept DEF Sound
  <2> QED BY <1>2, <1>3, <1>8, <1>9, <2>1 DEF ThreadInv, Sound
<1>10. CASE /\ next' = r.next /\ unused' = r.unused
            /\ call' = [call EXCEPT ![k] = T!NoCall] /\ UNCHANGED <<status, stack, all>>
  <2>1. \A n \in Nat : In(unused', n) => n < next'
    BY <1>6, <1>7, <1>10
  <2>2. \A t \in Threads : stack[t] # 0 => stack[t] < next' /\ t \in all /\ ~ In(unused', stack[t])
    BY <1>6, <1>7, <1>10
  <2>3. StackInv'
    BY <1>6, <1>7, <1>10, <2>1, <2>2 DEF StackInv
  <2> QED BY <1>2, <1>3, <1>8, <1>10, <2>3 DEF ThreadInv, Sound
<1>11. ASSUME next' = r.next, unused' = r.unused, r.top # 0,
              NEW t \in Threads, stack[t] = 0,
              stack' = [stack EXCEPT ![t] = r.top], status' = [status EXCEPT ![t] = "dead"], all' = all \union {t},
              call' = [call EXCEPT ![k] = [T!NoCall EXCEPT !.at = "setup", !.new = t]]
       PROVE  ThreadInv'
  <2>3. PICK q : q = [T!NoCall EXCEPT !.at = "setup", !.new = t]
    OBVIOUS
  <2>4. q = [at |-> "setup", cpu |-> Gone, base |-> Gone, new |-> t]
    BY <2>3 DEF T!NoCall
  <2>5. CallOK(q) /\ q.new = t
    BY <1>1, <1>11, <2>4 DEF CallOK, CallRec
  <2>6. call' = [call EXCEPT ![k] = q]
    BY <1>11, <2>3
  <2>7. ~ Handed(call, t)
    <3>1. status[t] = "idle" /\ DescriptorAt(status[t], refs[t], t \in owed, Dead(local, global, t), Handed(call, t))
      BY <1>7, <1>11 DEF Sound, DescriptorInv
    <3> QED BY <3>1 DEF DescriptorAt
  <2>8. CallInv' /\ \A u \in Threads : Handed(call', u) <=> (Handed(call, u) /\ u # call[k].new) \/ u = q.new
    BY <1>1, <1>11, <2>5, <2>6, <2>7, CallStep DEF Sound
  <2>9. \A u \in Threads : Handed(call', u) <=> Handed(call, u) \/ u = t
    BY <1>1, <2>5, <2>8
  <2>10. /\ status \in [Threads -> {"idle", "dead", "waiting", "dropped"}] /\ refs \in [Threads -> Nat] /\ owed \subseteq Threads
         /\ \A u \in Threads : DescriptorAt(status[u], refs[u], u \in owed, Dead(local, global, u), Handed(call, u))
    BY DEF Sound, DescriptorInv
  <2>11. /\ status' \in [Threads -> {"idle", "dead", "waiting", "dropped"}] /\ status'[t] = "dead"
         /\ \A u \in Threads : u # t => status'[u] = status[u]
    BY <1>11, <2>10
  <2>12. ASSUME NEW u \in Threads
         PROVE  DescriptorAt(status'[u], refs[u], u \in owed, Dead(local, global, u), Handed(call', u))
    <3>1. DescriptorAt(status[u], refs[u], u \in owed, Dead(local, global, u), Handed(call, u))
      BY <2>10
    <3>2. CASE u = t
      <4>1. status[t] = "idle"
        BY <1>7, <1>11
      <4> QED BY <2>7, <2>9, <2>11, <3>1, <3>2, <4>1 DEF DescriptorAt
    <3>3. CASE u # t
      BY <2>9, <2>11, <3>1, <3>3 DEF DescriptorAt
    <3> QED BY <3>2, <3>3
  <2>13. DescriptorInv'
    BY <1>2, <2>10, <2>11, <2>12 DEF DescriptorInv
  <2>14. stack' \in [Threads -> Nat] /\ stack'[t] = r.top /\ \A u \in Threads : u # t => stack'[u] = stack[u]
    BY <1>6, <1>7, <1>11
  <2>15. \A n \in Nat : In(unused', n) => n < next'
    BY <1>6, <1>7, <1>11
  <2>16. \A u \in Threads : status'[u] = "idle" <=> stack'[u] = 0
    BY <1>7, <1>11, <2>11, <2>14
  <2>17. \A u \in Threads : stack'[u] # 0 => stack'[u] < next' /\ u \in all' /\ ~ In(unused', stack'[u])
    <3>1. ASSUME NEW u \in Threads, stack'[u] # 0 PROVE stack'[u] < next' /\ u \in all' /\ ~ In(unused', stack'[u])
      <4>1. CASE u = t
        BY <1>6, <1>11, <2>14, <4>1
      <4>2. CASE u # t
        BY <1>6, <1>7, <1>11, <2>14, <3>1, <4>2
      <4> QED BY <4>1, <4>2
    <3> QED BY <3>1
  <2>18. \A u, v \in Threads : stack'[u] # 0 /\ stack'[u] = stack'[v] => u = v
    BY <1>6, <1>7, <1>11, <2>14
  <2>19. StackInv'
    BY <1>6, <1>7, <1>11, <2>14, <2>15, <2>16, <2>17, <2>18 DEF StackInv
  <2> QED BY <1>2, <1>3, <2>8, <2>13, <2>19 DEF ThreadInv, Sound
<1> QED BY <1>5, <1>9, <1>10, <1>11 DEF T!AllocThread

LEMMA SetupKeeps ==
    ASSUME Sound, torn = FALSE, NEW k \in Callers, T!Setup(k)
    PROVE  ThreadInv'
<1>1. PICK t : t = call[k].new
  OBVIOUS
<1>2. /\ call[k].at = "setup" /\ status[t] = "dead" /\ status' = [status EXCEPT ![t] = "waiting"]
      /\ \/ refs' = [refs EXCEPT ![t] = 1] /\ owed' = owed
         \/ refs' = [refs EXCEPT ![t] = 2] /\ owed' = owed \union {t}
      /\ call' = [call EXCEPT ![k] = T!NoCall]
      /\ UNCHANGED <<local, count, global, total, stack, next, unused, all, torn>>
  BY <1>1 DEF T!Setup
<1>3. Gone \notin Threads /\ t \in Threads /\ Handed(call, t)
  BY <1>1, <1>2, ResourcesAssumption DEF Sound, CallInv, CallOK, CallRec, Handed
<1>4. PICK q : q = T!NoCall
  OBVIOUS
<1>5. CallOK(q) /\ q.new = Gone
  BY <1>4, NoCallIs
<1>6. CallInv' /\ \A u \in Threads : Handed(call', u) <=> (Handed(call, u) /\ u # call[k].new) \/ u = q.new
  BY <1>2, <1>3, <1>4, <1>5, CallStep DEF Sound
<1>7. \A u \in Threads : Handed(call', u) <=> Handed(call, u) /\ u # t
  BY <1>1, <1>3, <1>5, <1>6
<1>8. /\ status \in [Threads -> {"idle", "dead", "waiting", "dropped"}] /\ refs \in [Threads -> Nat] /\ owed \subseteq Threads
      /\ \A u \in Threads : DescriptorAt(status[u], refs[u], u \in owed, Dead(local, global, u), Handed(call, u))
  BY DEF Sound, DescriptorInv
<1>9. /\ status' \in [Threads -> {"idle", "dead", "waiting", "dropped"}] /\ status'[t] = "waiting"
      /\ \A u \in Threads : u # t => status'[u] = status[u]
  BY <1>2, <1>3, <1>8
<1>10. /\ refs' \in [Threads -> Nat] /\ owed' \subseteq Threads
       /\ \/ refs'[t] = 1 /\ (t \in owed' <=> t \in owed)
          \/ refs'[t] = 2 /\ t \in owed'
       /\ \A u \in Threads : u # t => refs'[u] = refs[u] /\ (u \in owed' <=> u \in owed)
  BY <1>2, <1>3, <1>8
<1>11. ASSUME NEW u \in Threads
       PROVE  DescriptorAt(status'[u], refs'[u], u \in owed', Dead(local, global, u), Handed(call', u))
  <2>1. DescriptorAt(status[u], refs[u], u \in owed, Dead(local, global, u), Handed(call, u))
    BY <1>8
  <2>2. CASE u = t
    <3>1. t \notin owed /\ ~ Dead(local, global, t)
      BY <1>3, <2>1, <2>2 DEF DescriptorAt
    <3>2. ~ Handed(call', t)
      BY <1>3, <1>7
    <3>3. refs'[t] = 1 + (IF t \in owed' THEN 1 ELSE 0)
      BY <1>10, <3>1
    <3> QED BY <1>9, <2>2, <3>1, <3>2, <3>3 DEF DescriptorAt
  <2>3. CASE u # t
    BY <1>7, <1>9, <1>10, <2>1, <2>3 DEF DescriptorAt
  <2> QED BY <2>2, <2>3
<1>12. DescriptorInv'
  BY <1>2, <1>9, <1>10, <1>11 DEF DescriptorInv
<1>13. StackInv'
  BY <1>2, <1>9, StacksKept DEF Sound
<1>14. ListInv' /\ CountInv'
  BY <1>2 DEF Sound, ListInv, CountInv
<1> QED BY <1>2, <1>6, <1>12, <1>13, <1>14 DEF ThreadInv, Sound

LEMMA DropKeeps ==
    ASSUME Sound, torn = FALSE, NEW t \in Threads, T!Drop(t)
    PROVE  ThreadInv'
<1>1. /\ status[t] = "waiting" /\ status' = [status EXCEPT ![t] = "dropped"]
      /\ UNCHANGED <<local, count, global, total, refs, stack, next, unused, all, call, owed, torn>>
  BY DEF T!Drop
<1>2. /\ status \in [Threads -> {"idle", "dead", "waiting", "dropped"}] /\ refs \in [Threads -> Nat] /\ owed \subseteq Threads
      /\ \A u \in Threads : DescriptorAt(status[u], refs[u], u \in owed, Dead(local, global, u), Handed(call, u))
  BY DEF Sound, DescriptorInv
<1>3. /\ status' \in [Threads -> {"idle", "dead", "waiting", "dropped"}] /\ status'[t] = "dropped"
      /\ \A u \in Threads : u # t => status'[u] = status[u]
  BY <1>1, <1>2
<1>4. ASSUME NEW u \in Threads
      PROVE  DescriptorAt(status'[u], refs[u], u \in owed, Dead(local, global, u), Handed(call, u))
  <2>1. DescriptorAt(status[u], refs[u], u \in owed, Dead(local, global, u), Handed(call, u))
    BY <1>2
  <2> QED BY <1>1, <1>3, <2>1 DEF DescriptorAt
<1>5. DescriptorInv'
  BY <1>1, <1>2, <1>3, <1>4 DEF DescriptorInv
<1>6. StackInv'
  BY <1>1, <1>3, StacksKept DEF Sound
<1>7. ListInv' /\ CountInv' /\ CallInv'
  BY <1>1 DEF Sound, ListInv, CountInv, CallInv
<1> QED BY <1>1, <1>5, <1>6, <1>7 DEF ThreadInv, Sound

\* release_thread: with the last reference the descriptor enters a list.
LEMMA PushIs ==
    ASSUME Sound, torn = FALSE, NEW b \in Cpus, NEW c \in Cpus, NEW t \in Threads, ~ Dead(local, global, t), T!Push(b, c, t)
    PROVE  \/ torn' = TRUE
           \/ /\ torn' = FALSE /\ ListInv' /\ CountInv'
              /\ \A u \in Threads : Dead(local', global', u) <=> Dead(local, global, u) \/ u = t
<1> SUFFICES ASSUME torn' # TRUE
             PROVE  /\ torn' = FALSE /\ ListInv' /\ CountInv'
                    /\ \A u \in Threads : Dead(local', global', u) <=> Dead(local, global, u) \/ u = t
  OBVIOUS
<1>1. /\ ListsOK(local, global) /\ local \in [Cpus -> Seq(Threads)] /\ global \in Seq(Threads)
      /\ Once(local[b]) /\ Once(global) /\ local[b] \in Seq(Threads)
      /\ \A u \in Threads : ~ (In(local[b], u) /\ In(global, u))
      /\ count \in [Cpus -> Int] /\ total = Len(global)
  BY DEF Sound, ListInv, ListsOK, CountInv
<1>2. Half \in Nat /\ count[c] \in Int /\ Len(global) \in Nat
  BY <1>1, ResourcesAssumption, SeqFacts
<1>3. PICK w, n : w = T!Pushed(local[b], t) /\ n = IF count[c] + 1 >= 2 * Half THEN count[c] + 2 - Half ELSE 0
  OBVIOUS
<1>4. /\ n <= Len(w)
      /\ local' = [local EXCEPT ![b] = SubSeq(w, n + 1, Len(w))]
      /\ count' = [count EXCEPT ![c] = count[c] + 1 - n]
      /\ global' = T!Reverse(SubSeq(w, 1, n)) \o global
      /\ total' = total + n /\ torn' = FALSE
  BY <1>3 DEF T!Push
<1>5. ~ In(local[b], t) /\ ~ In(global, t)
  BY DEF Dead
<1>6. /\ w \in Seq(Threads) /\ Len(w) = Len(local[b]) + 1
      /\ (\A x : In(w, x) <=> x = t \/ In(local[b], x)) /\ Once(w)
  <2>1. /\ T!Pushed(local[b], t) \in Seq(Threads) /\ Len(T!Pushed(local[b], t)) = Len(local[b]) + 1
        /\ \A x : In(T!Pushed(local[b], t), x) <=> x = t \/ In(local[b], x)
        /\ Once(local[b]) /\ ~ In(local[b], t) => Once(T!Pushed(local[b], t))
    BY <1>1, PushedOn
  <2> QED BY <1>1, <1>3, <1>5, <2>1
<1>7. n \in 0..Len(w) /\ Len(w) \in Nat
  <2>1. Len(w) \in Nat
    BY <1>6, SeqFacts
  <2> QED BY <1>2, <1>3, <1>4, <2>1
<1>8. PICK a, z : a = SubSeq(w, n + 1, Len(w)) /\ z = SubSeq(w, 1, n)
  OBVIOUS
<1>9. /\ a \in Seq(Threads) /\ z \in Seq(Threads) /\ Len(z) = n /\ Len(a) = Len(w) - n
      /\ \A x : In(w, x) <=> In(z, x) \/ In(a, x)
      /\ Once(z) /\ Once(a) /\ \A x : ~ (In(z, x) /\ In(a, x))
  BY <1>6, <1>7, <1>8, CutInTwo
<1>10. PICK v : v = T!Reverse(z)
  OBVIOUS
<1>11. v \in Seq(Threads) /\ Len(v) = n /\ (\A x : In(v, x) <=> In(z, x)) /\ Once(v)
  BY <1>9, <1>10, Reversed
<1>12. \A x : ~ (In(v, x) /\ In(global, x))
  <2>1. ASSUME NEW x, In(v, x), In(global, x) PROVE FALSE
    <3>1. x = t \/ In(local[b], x)
      BY <1>6, <1>9, <1>11, <2>1
    <3>2. x \in Threads
      BY <1>1, <2>1, InSeq
    <3> QED BY <1>1, <1>5, <2>1, <3>1, <3>2
  <2> QED BY <2>1
<1>13. PICK g : g = v \o global
  OBVIOUS
<1>14. /\ g \in Seq(Threads) /\ Len(g) = Len(v) + Len(global)
       /\ (\A x : In(g, x) <=> In(v, x) \/ In(global, x)) /\ Once(g)
  <2>1. v \in Seq(Threads) /\ global \in Seq(Threads)
    BY <1>1, <1>11
  <2>2. /\ v \o global \in Seq(Threads) /\ Len(v \o global) = Len(v) + Len(global)
        /\ \A x : In(v \o global, x) <=> In(v, x) \/ In(global, x)
        /\ Once(v) /\ Once(global) /\ (\A x : ~ (In(v, x) /\ In(global, x))) => Once(v \o global)
    BY <2>1, Joined
  <2>3. Once(v \o global)
    BY <1>1, <1>11, <1>12, <2>2
  <2> QED BY <1>13, <2>2, <2>3
<1>15. local' = [local EXCEPT ![b] = a] /\ global' = g
  BY <1>4, <1>8, <1>10, <1>13
<1>16. PICK e, f : e = {} /\ f = {t}
  OBVIOUS
<1>17. Moves(local, global, b, a, g, e, f)
  <2>1. ASSUME NEW u \in Threads, In(a, u), In(g, u) PROVE FALSE
    <3>1. In(global, u)
      BY <1>9, <1>11, <1>14, <2>1
    <3>2. u = t \/ In(local[b], u)
      BY <1>6, <1>9, <2>1
    <3> QED BY <1>1, <1>5, <3>1, <3>2
  <2>2. \A u \in Threads : (In(a, u) \/ In(g, u)) <=> ((In(local[b], u) \/ In(global, u)) /\ u \notin e) \/ u \in f
    BY <1>6, <1>9, <1>11, <1>14, <1>16
  <2>3. \A u \in Threads : (u \in f => ~ Dead(local, global, u)) /\ u \notin e
    BY <1>16
  <2> QED BY <1>9, <1>14, <2>1, <2>2, <2>3 DEF Moves
<1>18. /\ ListsOK([local EXCEPT ![b] = a], g)
       /\ \A u \in Threads : Dead([local EXCEPT ![b] = a], g, u) <=> (Dead(local, global, u) /\ u \notin e) \/ u \in f
  BY <1>1, <1>17, ListsMove
<1>19. ListInv'
  BY <1>15, <1>18 DEF ListInv
<1>20. \A u \in Threads : Dead(local', global', u) <=> Dead(local, global, u) \/ u = t
  BY <1>15, <1>16, <1>18
<1>21. CountInv'
  <2>1. n \in Int /\ count[c] + 1 - n \in Int
    BY <1>2, <1>7
  <2>2. count' \in [Cpus -> Int]
    BY <1>1, <1>4, <2>1
  <2>3. total' = Len(global')
    BY <1>1, <1>2, <1>4, <1>7, <1>11, <1>14, <1>15, SMTT(30)
  <2> QED BY <2>2, <2>3 DEF CountInv
<1> QED BY <1>4, <1>19, <1>20, <1>21

LEMMA ReleaseCallerRefKeeps ==
    ASSUME Sound, torn = FALSE, NEW k \in Callers, NEW t \in Threads, T!ReleaseCallerRef(k, t)
    PROVE  ThreadInv'
<1>1. /\ call[k].at = "none" /\ t \in owed /\ status[t] \in {"dead", "dropped"}
      /\ owed' = owed \ {t} /\ refs' = [refs EXCEPT ![t] = refs[t] - 1]
      /\ UNCHANGED <<local, count, global, total, status, stack, next, unused, all>>
  BY DEF T!ReleaseCallerRef
<1>2. /\ status \in [Threads -> {"idle", "dead", "waiting", "dropped"}] /\ refs \in [Threads -> Nat] /\ owed \subseteq Threads
      /\ \A u \in Threads : DescriptorAt(status[u], refs[u], u \in owed, Dead(local, global, u), Handed(call, u))
  BY DEF Sound, DescriptorInv
<1>3. /\ refs[t] \in Nat \ {0} /\ (refs[t] = 1 <=> status[t] = "dead")
      /\ ~ Dead(local, global, t) /\ ~ Handed(call, t) /\ refs[t] = (IF status[t] = "dropped" THEN 1 ELSE 0) + 1
  <2>1. DescriptorAt(status[t], refs[t], t \in owed, Dead(local, global, t), Handed(call, t))
    BY <1>2
  <2> QED BY <1>1, <1>2, <2>1 DEF DescriptorAt
<1>4. /\ refs' \in [Threads -> Nat] /\ refs'[t] = refs[t] - 1 /\ owed' \subseteq Threads /\ t \notin owed'
      /\ \A u \in Threads : u # t => refs'[u] = refs[u] /\ (u \in owed' <=> u \in owed)
  BY <1>1, <1>2, <1>3
<1>5. /\ CallInv' /\ torn' \in {TRUE, FALSE}
      /\ \A u \in Threads : Handed(call', u) <=> Handed(call, u) \/ (u = t /\ refs[t] = 1)
  <2>1. CASE ~ T!LastRef(t)
    <3>1. call' = call /\ torn' = torn /\ refs[t] # 1
      BY <2>1 DEF T!ReleaseCallerRef, T!LastRef
    <3> QED BY <3>1 DEF Sound, CallInv
  <2>2. CASE T!LastRef(t)
    <3>1. PICK c \in Cpus : /\ call' = [call EXCEPT ![k] = [at |-> "push", cpu |-> c, base |-> c, new |-> t]]
                            /\ torn' = (T!Inside(c) # {})
      BY <2>2 DEF T!ReleaseCallerRef
    <3>2. PICK r : r = [at |-> "push", cpu |-> c, base |-> c, new |-> t]
      OBVIOUS
    <3>3. Gone \notin Threads /\ r.new = t
      BY <3>2, ResourcesAssumption
    <3>4. CallOK(r)
      BY <3>2, <3>3 DEF CallOK, CallRec
    <3>5. call' = [call EXCEPT ![k] = r] /\ ~ Handed(call, r.new)
      BY <1>3, <3>1, <3>2, <3>3
    <3>6. CallInv' /\ \A u \in Threads : Handed(call', u) <=> (Handed(call, u) /\ u # call[k].new) \/ u = r.new
      BY <3>3, <3>4, <3>5, CallStep DEF Sound
    <3>7. call[k].new = Gone
      BY <1>1 DEF Sound, CallInv, CallOK
    <3>8. refs[t] = 1
      BY <2>2 DEF T!LastRef
    <3>9. \A u \in Threads : Handed(call', u) <=> Handed(call, u) \/ (u = t /\ refs[t] = 1)
      BY <3>3, <3>6, <3>7, <3>8
    <3> QED BY <3>1, <3>6, <3>9
  <2> QED BY <2>1, <2>2
<1>6. ASSUME NEW u \in Threads
      PROVE  DescriptorAt(status[u], refs'[u], u \in owed', Dead(local, global, u), Handed(call', u))
  <2>1. DescriptorAt(status[u], refs[u], u \in owed, Dead(local, global, u), Handed(call, u))
    BY <1>2
  <2>2. CASE u = t
    <3>1. /\ refs'[t] = (IF status[t] = "dropped" THEN 1 ELSE 0) /\ (Handed(call', t) <=> status[t] = "dead")
          /\ t \notin owed' /\ ~ Dead(local, global, t)
      BY <1>3, <1>4, <1>5
    <3> QED BY <1>1, <2>2, <3>1 DEF DescriptorAt
  <2>3. CASE u # t
    <3>1. refs'[u] = refs[u] /\ (u \in owed' <=> u \in owed) /\ (Handed(call', u) <=> Handed(call, u))
      BY <1>4, <1>5, <2>3
    <3> QED BY <2>1, <3>1 DEF DescriptorAt
  <2> QED BY <2>2, <2>3
<1>7. DescriptorInv'
  BY <1>1, <1>2, <1>4, <1>6 DEF DescriptorInv
<1>8. StackInv'
  BY <1>1, StacksKept DEF Sound
<1>9. ListInv' /\ CountInv'
  BY <1>1 DEF Sound, ListInv, CountInv
<1> QED BY <1>5, <1>7, <1>8, <1>9 DEF ThreadInv, Sound

LEMMA ReleasePushKeeps ==
    ASSUME Sound, torn = FALSE, NEW k \in Callers, T!ReleasePush(k)
    PROVE  ThreadInv'
<1>1. PICK t, b, c : t = call[k].new /\ b = call[k].base /\ c = call[k].cpu
  OBVIOUS
<1>2. /\ call[k].at = "push" /\ T!Push(b, c, t) /\ call' = [call EXCEPT ![k] = T!NoCall]
      /\ UNCHANGED <<status, refs, stack, next, unused, all, owed>>
  BY <1>1 DEF T!ReleasePush
<1>3. CallOK(call[k]) /\ Gone \notin Threads
  BY ResourcesAssumption DEF Sound, CallInv
<1>4. t \in Threads /\ b \in Cpus /\ c \in Cpus /\ Handed(call, t)
  BY <1>1, <1>2, <1>3 DEF CallOK, CallRec, Handed
<1>5. \A u \in Threads : ~ (Dead(local, global, u) /\ Handed(call, u))
  BY DEF Sound, DescriptorInv, DescriptorAt
<1>6. \/ torn' = TRUE
      \/ /\ torn' = FALSE /\ ListInv' /\ CountInv'
         /\ \A u \in Threads : Dead(local', global', u) <=> Dead(local, global, u) \/ u = t
  BY <1>2, <1>4, <1>5, PushIs
<1>7. CASE torn' = TRUE
  BY <1>7 DEF ThreadInv
<1>8. CASE torn' # TRUE
  <2>1. PICK q : q = T!NoCall
    OBVIOUS
  <2>2. CallOK(q) /\ q.new = Gone
    BY <2>1, NoCallIs
  <2>3. CallInv' /\ \A u \in Threads : Handed(call', u) <=> (Handed(call, u) /\ u # call[k].new) \/ u = q.new
    BY <1>2, <1>3, <2>1, <2>2, CallStep DEF Sound
  <2>4. \A u \in Threads : Handed(call', u) <=> Handed(call, u) /\ u # t
    BY <1>1, <1>3, <2>2, <2>3
  <2>5. \A u \in Threads : Dead(local', global', u) <=> Dead(local, global, u) \/ u = t
    BY <1>6, <1>8
  <2>6. \A u \in Threads : Dead(local', global', u) \/ Handed(call', u) <=> Dead(local, global, u) \/ Handed(call, u)
    BY <1>4, <2>4, <2>5
  <2>7. \A u \in Threads : ~ (Dead(local', global', u) /\ Handed(call', u))
    BY <1>5, <2>4, <2>5
  <2>8. DescriptorInv'
    BY <1>2, <2>6, <2>7, DescriptorsKept DEF Sound
  <2>9. StackInv'
    BY <1>2, StacksKept DEF Sound
  <2> QED BY <1>6, <1>8, <2>3, <2>8, <2>9 DEF ThreadInv, Sound
<1> QED BY <1>7, <1>8

LEMMA DropReleaseKeeps ==
    ASSUME Sound, torn = FALSE, NEW c \in Cpus, NEW t \in Threads, T!DropRelease(c, t)
    PROVE  ThreadInv'
<1>1. /\ status[t] = "dropped" /\ status' = [status EXCEPT ![t] = "dead"] /\ refs' = [refs EXCEPT ![t] = refs[t] - 1]
      /\ \/ refs[t] # 1 /\ UNCHANGED <<local, count, global, total, torn>>
         \/ torn' = TRUE
         \/ refs[t] = 1 /\ T!Push(c, c, t)
      /\ UNCHANGED <<stack, next, unused, all, call, owed>>
  BY DEF T!DropRelease, T!LastRef
<1>2. /\ status \in [Threads -> {"idle", "dead", "waiting", "dropped"}] /\ refs \in [Threads -> Nat] /\ owed \subseteq Threads
      /\ \A u \in Threads : DescriptorAt(status[u], refs[u], u \in owed, Dead(local, global, u), Handed(call, u))
  BY DEF Sound, DescriptorInv
<1>3. /\ status' \in [Threads -> {"idle", "dead", "waiting", "dropped"}] /\ status'[t] = "dead"
      /\ \A u \in Threads : u # t => status'[u] = status[u]
  BY <1>1, <1>2
<1>4. /\ refs[t] \in Nat \ {0} /\ (refs[t] = 1 <=> t \notin owed)
      /\ ~ Dead(local, global, t) /\ ~ Handed(call, t) /\ refs[t] = 1 + (IF t \in owed THEN 1 ELSE 0)
  <2>1. DescriptorAt(status[t], refs[t], t \in owed, Dead(local, global, t), Handed(call, t))
    BY <1>2
  <2> QED BY <1>1, <1>2, <2>1 DEF DescriptorAt
<1>5. refs' \in [Threads -> Nat] /\ refs'[t] = refs[t] - 1 /\ \A u \in Threads : u # t => refs'[u] = refs[u]
  BY <1>1, <1>2, <1>4
<1>6. \/ torn' = TRUE
      \/ /\ torn' = FALSE /\ ListInv' /\ CountInv'
         /\ \A u \in Threads : Dead(local', global', u) <=> Dead(local, global, u) \/ (u = t /\ refs[t] = 1)
  <2>1. CASE refs[t] # 1 /\ UNCHANGED <<local, count, global, total, torn>>
    BY <2>1 DEF Sound, ListInv, CountInv
  <2>2. CASE refs[t] = 1 /\ T!Push(c, c, t)
    <3>1. \/ torn' = TRUE
          \/ /\ torn' = FALSE /\ ListInv' /\ CountInv'
             /\ \A u \in Threads : Dead(local', global', u) <=> Dead(local, global, u) \/ u = t
      BY <1>4, <2>2, PushIs
    <3> QED BY <2>2, <3>1
  <2> QED BY <1>1, <2>1, <2>2
<1>7. CASE torn' = TRUE
  BY <1>7 DEF ThreadInv
<1>8. CASE torn' # TRUE
  <2>1. \A u \in Threads : Dead(local', global', u) <=> Dead(local, global, u) \/ (u = t /\ refs[t] = 1)
    BY <1>6, <1>8
  <2>2. ASSUME NEW u \in Threads
        PROVE  DescriptorAt(status'[u], refs'[u], u \in owed, Dead(local', global', u), Handed(call, u))
    <3>1. DescriptorAt(status[u], refs[u], u \in owed, Dead(local, global, u), Handed(call, u))
      BY <1>2
    <3>2. CASE u = t
      <4>1. refs'[t] = (IF t \in owed THEN 1 ELSE 0) /\ (Dead(local', global', t) <=> t \notin owed)
        BY <1>4, <1>5, <2>1
      <4> QED BY <1>3, <1>4, <3>2, <4>1 DEF DescriptorAt
    <3>3. CASE u # t
      <4>1. refs'[u] = refs[u] /\ status'[u] = status[u] /\ (Dead(local', global', u) <=> Dead(local, global, u))
        BY <1>3, <1>5, <2>1, <3>3
      <4> QED BY <3>1, <4>1 DEF DescriptorAt
    <3> QED BY <3>2, <3>3
  <2>3. DescriptorInv'
    BY <1>1, <1>2, <1>3, <1>5, <2>2 DEF DescriptorInv
  <2>4. StackInv'
    BY <1>1, <1>3, StacksKept DEF Sound
  <2>5. CallInv'
    BY <1>1 DEF Sound, CallInv
  <2> QED BY <1>6, <1>8, <2>3, <2>4, <2>5 DEF ThreadInv, Sound
<1> QED BY <1>7, <1>8

LEMMA SetOf ==
    ASSUME NEW S, NEW s \in Seq(S), NEW x
    PROVE  x \in T!ToSet(s) <=> In(s, x)
<1>1. DOMAIN s = 1..Len(s)
  BY LenProperties
<1> QED BY <1>1 DEF T!ToSet, In

LEMMA ReclaimKeeps ==
    ASSUME Sound, torn = FALSE, T!Reclaim
    PROVE  ThreadInv'
<1>1. /\ ListsOK(local, global) /\ global \in Seq(Threads) /\ Once(global) /\ total = Len(global)
      /\ count \in [Cpus -> Int]
  BY DEF Sound, ListInv, ListsOK, CountInv
<1>2. /\ stack \in [Threads -> Nat] /\ next \in Nat \ {0} /\ all \subseteq Threads
      /\ unused \in Seq(Nat \ {0}) /\ Once(unused)
      /\ \A n \in Nat : In(unused, n) => n < next
      /\ \A t \in Threads : (status[t] = "idle" <=> stack[t] = 0)
      /\ \A t \in Threads : stack[t] # 0 => stack[t] < next /\ t \in all /\ ~ In(unused, stack[t])
      /\ \A t, u \in Threads : stack[t] # 0 /\ stack[t] = stack[u] => t = u
  BY DEF Sound, StackInv
<1>3. /\ status \in [Threads -> {"idle", "dead", "waiting", "dropped"}] /\ refs \in [Threads -> Nat] /\ owed \subseteq Threads
      /\ \A t \in Threads : DescriptorAt(status[t], refs[t], t \in owed, Dead(local, global, t), Handed(call, t))
  BY DEF Sound, DescriptorInv
<1>4. Len(global) \in Nat /\ \A i \in 1..Len(global) : global[i] \in Threads
  BY <1>1, SeqFacts
<1>5. PICK z : z = [i \in 1..Len(global) |-> stack[global[i]]]
  OBVIOUS
<1>6. /\ global' = <<>> /\ total' = total - Len(global) /\ unused' = T!Reverse(z) \o unused
      /\ stack' = [t \in Threads |-> IF t \in T!ToSet(global) THEN 0 ELSE stack[t]]
      /\ status' = [t \in Threads |-> IF t \in T!ToSet(global) THEN "idle" ELSE status[t]]
      /\ UNCHANGED <<local, count, refs, next, all, call, owed, torn>>
  BY <1>5 DEF T!Reclaim
<1>7. \A t \in Threads : t \in T!ToSet(global) <=> In(global, t)
  BY <1>1, SetOf
<1>8. ASSUME NEW t \in Threads, In(global, t) PROVE status[t] = "dead" /\ t \notin owed /\ ~ Handed(call, t) /\ stack[t] # 0 /\ refs[t] = 0
  <2>1. DescriptorAt(status[t], refs[t], t \in owed, Dead(local, global, t), Handed(call, t)) /\ Dead(local, global, t)
    BY <1>3, <1>8 DEF Dead
  <2>2. status[t] = "dead" /\ t \notin owed /\ ~ Handed(call, t) /\ refs[t] = 0
    BY <2>1 DEF DescriptorAt
  <2> QED BY <1>2, <2>2
<1>9. \A i \in 1..Len(global) : In(global, global[i])
  BY DEF In
<1>10. z \in Seq(Nat \ {0}) /\ Len(z) = Len(global) /\ \A i \in 1..Len(global) : z[i] = stack[global[i]]
  <2>1. \A i \in 1..Len(global) : stack[global[i]] \in Nat \ {0}
    BY <1>2, <1>4, <1>8, <1>9
  <2> QED BY <1>4, <1>5, <2>1
<1>11. Once(z)
  <2>1. ASSUME NEW i \in 1..Len(global), NEW j \in 1..Len(global), z[i] = z[j] PROVE i = j
    <3>1. global[i] = global[j]
      BY <1>2, <1>4, <1>8, <1>9, <1>10, <2>1
    <3> QED BY <1>1, <3>1 DEF Once
  <2> QED BY <1>10, <2>1 DEF Once
<1>12. ASSUME NEW n, In(z, n) PROVE \E t \in Threads : In(global, t) /\ stack[t] = n
  <2>1. PICK i \in 1..Len(global) : z[i] = n
    BY <1>10, <1>12 DEF In
  <2> QED BY <1>4, <1>9, <1>10, <2>1
<1>13. PICK v : v = T!Reverse(z)
  OBVIOUS
<1>14. v \in Seq(Nat \ {0}) /\ (\A x : In(v, x) <=> In(z, x)) /\ Once(v)
  BY <1>10, <1>11, <1>13, Reversed
<1>15. \A x : ~ (In(v, x) /\ In(unused, x))
  BY <1>2, <1>8, <1>12, <1>14
<1>16. /\ unused' \in Seq(Nat \ {0}) /\ Once(unused')
       /\ \A x : In(unused', x) <=> In(v, x) \/ In(unused, x)
  <2>1. v \in Seq(Nat \ {0}) /\ unused \in Seq(Nat \ {0})
    BY <1>2, <1>14
  <2>2. /\ v \o unused \in Seq(Nat \ {0}) /\ Len(v \o unused) = Len(v) + Len(unused)
        /\ \A x : In(v \o unused, x) <=> In(v, x) \/ In(unused, x)
        /\ Once(v) /\ Once(unused) /\ (\A x : ~ (In(v, x) /\ In(unused, x))) => Once(v \o unused)
    BY <2>1, Joined
  <2>3. Once(v \o unused)
    BY <1>2, <1>14, <1>15, <2>2
  <2> QED BY <1>6, <1>13, <2>2, <2>3
<1>17. /\ stack' \in [Threads -> Nat]
       /\ status' \in [Threads -> {"idle", "dead", "waiting", "dropped"}]
       /\ \A t \in Threads : In(global, t) => stack'[t] = 0 /\ status'[t] = "idle"
       /\ \A t \in Threads : ~ In(global, t) => stack'[t] = stack[t] /\ status'[t] = status[t]
  BY <1>2, <1>3, <1>6, <1>7
<1>18. StackInv'
  <2>1. \A n \in Nat : In(unused', n) => n < next
    BY <1>2, <1>8, <1>12, <1>14, <1>16
  <2>2. \A t \in Threads : status'[t] = "idle" <=> stack'[t] = 0
    BY <1>2, <1>17
  <2>3. ASSUME NEW t \in Threads, stack'[t] # 0 PROVE stack'[t] < next /\ t \in all /\ ~ In(unused', stack'[t])
    <3>1. ~ In(global, t) /\ stack'[t] = stack[t]
      BY <1>17, <2>3
    <3>2. ~ In(v, stack[t])
      BY <1>2, <1>8, <1>12, <1>14, <2>3, <3>1
    <3> QED BY <1>2, <1>16, <2>3, <3>1, <3>2
  <2>4. \A t, u \in Threads : stack'[t] # 0 /\ stack'[t] = stack'[u] => t = u
    BY <1>2, <1>17
  <2> QED BY <1>2, <1>6, <1>16, <1>17, <2>1, <2>2, <2>3, <2>4 DEF StackInv
<1>19. ListInv' /\ \A t \in Threads : Dead(local', global', t) <=> Dead(local, global, t) /\ ~ In(global, t)
  <2>1. ListsOK(local, <<>>) /\ \A t \in Threads : Dead(local, <<>>, t) <=> Dead(local, global, t) /\ ~ In(global, t)
    BY <1>1, ListsDrop
  <2> QED BY <1>6, <2>1 DEF ListInv
<1>20. CountInv'
  <2>1. total' = 0 /\ Len(<<>>) = 0
    BY <1>1, <1>4, <1>6
  <2> QED BY <1>1, <1>6, <2>1 DEF CountInv
<1>21. ASSUME NEW t \in Threads
       PROVE  DescriptorAt(status'[t], refs[t], t \in owed, Dead(local', global', t), Handed(call, t))
  <2>1. DescriptorAt(status[t], refs[t], t \in owed, Dead(local, global, t), Handed(call, t))
    BY <1>3
  <2>2. CASE In(global, t)
    <3>1. status'[t] = "idle" /\ refs[t] = 0 /\ t \notin owed /\ ~ Handed(call, t) /\ ~ Dead(local', global', t)
      BY <1>8, <1>17, <1>19, <2>2
    <3> QED BY <3>1 DEF DescriptorAt
  <2>3. CASE ~ In(global, t)
    <3>1. status'[t] = status[t] /\ (Dead(local', global', t) <=> Dead(local, global, t))
      BY <1>17, <1>19, <2>3
    <3> QED BY <2>1, <3>1 DEF DescriptorAt
  <2> QED BY <2>2, <2>3
<1>22. DescriptorInv' /\ CallInv'
  BY <1>3, <1>6, <1>17, <1>21 DEF DescriptorInv, Sound, CallInv
<1> QED BY <1>6, <1>18, <1>19, <1>20, <1>22 DEF ThreadInv, Sound

----------------------------------------------------------------------------

LEMMA ThreadsStart == Init => ThreadInv
<1> SUFFICES ASSUME T!Init PROVE ThreadInv
  BY DEF Init
<1>1. PICK e : e = <<>>
  OBVIOUS
<1>2. e \in Seq(Threads) /\ e \in Seq(Nat \ {0}) /\ Len(e) = 0 /\ Once(e) /\ \A x : ~ In(e, x)
  BY <1>1, NothingIn
<1>3. local = [c \in Cpus |-> e] /\ global = e /\ unused = e /\ count = [c \in Cpus |-> 0] /\ total = 0
  BY <1>1 DEF T!Init
<1>4. /\ status = [t \in Threads |-> "idle"] /\ refs = [t \in Threads |-> 0] /\ stack = [t \in Threads |-> 0]
      /\ next = 1 /\ all = {} /\ call = [k \in Callers |-> T!NoCall] /\ owed = {} /\ torn = FALSE
  BY DEF T!Init
<1>5. ListInv
  BY <1>2, <1>3 DEF ListInv, ListsOK
<1>6. Half \in Nat /\ Half > 0 /\ Gone \notin Threads
  BY ResourcesAssumption
<1>7. CountInv
  BY <1>2, <1>3, <1>6 DEF CountInv
<1>8. CallInv
  <2>1. CallOK(T!NoCall) /\ T!NoCall \in CallRec /\ T!NoCall.new = Gone
    BY NoCallIs DEF CallOK
  <2>2. call \in [Callers -> CallRec] /\ \A k \in Callers : call[k] = T!NoCall
    BY <1>4, <2>1
  <2> QED BY <2>1, <2>2 DEF CallInv
<1>9. \A t \in Threads : ~ Dead(local, global, t) /\ ~ Handed(call, t)
  BY <1>2, <1>3, <1>4, <1>6, NoCallIs DEF Dead, Handed
<1>10. DescriptorInv
  <2>1. ASSUME NEW t \in Threads
        PROVE  DescriptorAt(status[t], refs[t], t \in owed, Dead(local, global, t), Handed(call, t))
    <3>1. status[t] = "idle" /\ refs[t] = 0 /\ t \notin owed
      BY <1>4
    <3> QED BY <1>9, <3>1 DEF DescriptorAt
  <2> QED BY <1>4, <2>1 DEF DescriptorInv
<1>11. StackInv
  BY <1>2, <1>3, <1>4 DEF StackInv
<1> QED BY <1>4, <1>5, <1>7, <1>8, <1>10, <1>11 DEF ThreadInv, Sound

LEMMA ThreadsStay ==
    ASSUME ThreadInv, UNCHANGED tvars
    PROVE  ThreadInv'
<1>1. /\ local' = local /\ count' = count /\ global' = global /\ total' = total /\ status' = status /\ refs' = refs
      /\ stack' = stack /\ next' = next /\ unused' = unused /\ all' = all /\ call' = call /\ owed' = owed /\ torn' = torn
  BY DEF tvars
<1>2. ASSUME Sound PROVE Sound'
  <2>1. ListInv' /\ CountInv' /\ CallInv'
    BY <1>1, <1>2 DEF Sound, ListInv, CountInv, CallInv
  <2>2. DescriptorInv'
    BY <1>1, <1>2 DEF Sound, DescriptorInv
  <2>3. StackInv'
    BY <1>1, <1>2 DEF Sound, StackInv
  <2> QED BY <2>1, <2>2, <2>3 DEF Sound
<1> QED BY <1>1, <1>2 DEF ThreadInv

LEMMA ThreadsStep == ThreadInv /\ [Next]_vars => ThreadInv'
<1> SUFFICES ASSUME ThreadInv, [Next]_vars PROVE ThreadInv'
  OBVIOUS
<1>1. CASE torn = TRUE
  <2>1. ~ T!Next
    BY <1>1 DEF T!Next, T!Call, T!Migrate, T!Enter, T!GetFree, T!AllocThread, T!Setup, T!ReleaseCallerRef,
         T!ReleasePush, T!DropRelease, T!Drop, T!Reclaim
  <2>2. UNCHANGED tvars
    BY <2>1 DEF Next, vars, tvars
  <2> QED BY <2>2, ThreadsStay
<1>2. CASE torn = FALSE /\ Sound
  <2>1. CASE T!Next
    <3>1. ASSUME NEW k \in Callers, T!Call(k) PROVE ThreadInv'
      BY <1>2, <3>1, CallKeeps
    <3>2. ASSUME NEW k \in Callers, T!GetFree(k) PROVE ThreadInv'
      BY <1>2, <3>2, GetFreeKeeps
    <3>3. ASSUME NEW k \in Callers, T!AllocThread(k) PROVE ThreadInv'
      BY <1>2, <3>3, AllocThreadKeeps
    <3>4. ASSUME NEW k \in Callers, T!Setup(k) PROVE ThreadInv'
      BY <1>2, <3>4, SetupKeeps
    <3>5. ASSUME NEW k \in Callers, NEW c \in Cpus, T!Migrate(k, c) PROVE ThreadInv'
      BY <1>2, <3>5, MigrateKeeps
    <3>6. ASSUME NEW k \in Callers, NEW t \in Threads, T!ReleaseCallerRef(k, t) PROVE ThreadInv'
      BY <1>2, <3>6, ReleaseCallerRefKeeps
    <3>7. ASSUME NEW c \in Cpus, NEW t \in Threads, T!DropRelease(c, t) PROVE ThreadInv'
      BY <1>2, <3>7, DropReleaseKeeps
    <3>8. ASSUME NEW t \in Threads, T!Drop(t) PROVE ThreadInv'
      BY <1>2, <3>8, DropKeeps
    <3>9. ASSUME T!Reclaim PROVE ThreadInv'
      BY <1>2, <3>9, ReclaimKeeps
    <3>10. ASSUME NEW k \in Callers, T!Enter(k) PROVE ThreadInv'
      BY <1>2, <3>10, EnterKeeps
    <3>11. ASSUME NEW k \in Callers, T!ReleasePush(k) PROVE ThreadInv'
      BY <1>2, <3>11, ReleasePushKeeps
    <3> QED BY <2>1, <3>1, <3>2, <3>3, <3>4, <3>5, <3>6, <3>7, <3>8, <3>9, <3>10, <3>11 DEF T!Next
  <2>2. CASE UNCHANGED tvars
    BY <2>2, ThreadsStay
  <2>3. T!Next \/ UNCHANGED tvars
    BY DEF Next, vars, tvars
  <2> QED BY <2>1, <2>2, <2>3
<1> QED BY <1>1, <1>2 DEF ThreadInv

LEMMA ListedIs ==
    ASSUME Sound, NEW t \in Threads
    PROVE  /\ Dead(local, global, t) => \E p \in T!Listed(t) : T!Listed(t) = {p}
           /\ ~ Dead(local, global, t) => T!Listed(t) = {}
<1>1. /\ local \in [Cpus -> Seq(Threads)] /\ global \in Seq(Threads) /\ Gone \notin Cpus
      /\ Once(global) /\ \A c \in Cpus : Once(local[c])
      /\ \A c \in Cpus : ~ (In(local[c], t) /\ In(global, t))
      /\ \A c, d \in Cpus : In(local[c], t) /\ In(local[d], t) => c = d
  BY ResourcesAssumption DEF Sound, ListInv, ListsOK
<1>2. /\ Len(global) \in Nat /\ DOMAIN global = 1..Len(global)
      /\ \A c \in Cpus : Len(local[c]) \in Nat /\ DOMAIN local[c] = 1..Len(local[c])
  BY <1>1, LenProperties
<1>3. PICK A, B : /\ A = UNION {{<<c, i>> : i \in {j \in DOMAIN local[c] : local[c][j] = t}} : c \in Cpus}
                  /\ B = {<<Gone, i>> : i \in {j \in DOMAIN global : global[j] = t}}
  OBVIOUS
<1>4. T!Listed(t) = A \cup B
  BY <1>3 DEF T!Listed
<1>5. ASSUME NEW p \in A PROVE \E c \in Cpus : \E i \in 1..Len(local[c]) : p = <<c, i>> /\ local[c][i] = t
  <2>1. PICK c \in Cpus : p \in {<<c, i>> : i \in {j \in DOMAIN local[c] : local[c][j] = t}}
    BY <1>3
  <2> QED BY <1>2, <2>1
<1>6. ASSUME NEW c \in Cpus, NEW i \in 1..Len(local[c]), local[c][i] = t PROVE <<c, i>> \in A
  <2>1. <<c, i>> \in {<<c, n>> : n \in {j \in DOMAIN local[c] : local[c][j] = t}}
    BY <1>2, <1>6
  <2> QED BY <1>3, <2>1
<1>7. ASSUME NEW p \in B PROVE \E i \in 1..Len(global) : p = <<Gone, i>> /\ global[i] = t
  BY <1>2, <1>3
<1>8. ASSUME NEW i \in 1..Len(global), global[i] = t PROVE <<Gone, i>> \in B
  BY <1>2, <1>3, <1>8
<1>9. ASSUME NEW c \in Cpus, In(local[c], t) PROVE \E p \in A \cup B : A \cup B = {p}
  <2>1. PICK i \in 1..Len(local[c]) : local[c][i] = t
    BY <1>9 DEF In
  <2>2. <<c, i>> \in A
    BY <1>6, <2>1
  <2>3. ASSUME NEW q \in A PROVE q = <<c, i>>
    <3> PICK d \in Cpus : \E j \in 1..Len(local[d]) : q = <<d, j>> /\ local[d][j] = t
      BY <1>5
    <3>1. PICK j \in 1..Len(local[d]) : q = <<d, j>> /\ local[d][j] = t
      OBVIOUS
    <3>2. d = c
      BY <1>1, <1>9, <3>1 DEF In
    <3>3. j = i
      BY <1>1, <2>1, <3>1, <3>2 DEF Once
    <3> QED BY <3>1, <3>2, <3>3
  <2>4. B = {}
    BY <1>1, <1>7, <1>9 DEF In
  <2> QED BY <2>2, <2>3, <2>4
<1>10. ASSUME In(global, t) PROVE \E p \in A \cup B : A \cup B = {p}
  <2>1. PICK i \in 1..Len(global) : global[i] = t
    BY <1>10 DEF In
  <2>2. <<Gone, i>> \in B
    BY <1>8, <2>1
  <2>3. ASSUME NEW q \in B PROVE q = <<Gone, i>>
    BY <1>1, <1>7, <2>1 DEF Once
  <2>4. A = {}
    <3>1. ASSUME NEW p \in A PROVE FALSE
      BY <1>1, <1>5, <1>10 DEF In
    <3> QED BY <3>1
  <2> QED BY <2>2, <2>3, <2>4
<1>11. ASSUME ~ Dead(local, global, t) PROVE A \cup B = {}
  <2>1. ASSUME NEW p \in A PROVE FALSE
    BY <1>5, <1>11 DEF In, Dead
  <2>2. ASSUME NEW p \in B PROVE FALSE
    BY <1>7, <1>11 DEF In, Dead
  <2> QED BY <2>1, <2>2
<1> QED BY <1>4, <1>9, <1>10, <1>11 DEF Dead

LEMMA SoundIsEnough ==
    ASSUME Sound
    PROVE  T!ThreadsHeldOnce
<1>1. total = Len(global)
  BY DEF Sound, CountInv
<1>2. ASSUME NEW t \in Threads, NEW held_, held_ = {k \in Callers : call[k].new = t}
      PROVE  /\ refs[t] > 0 \/ held_ # {} => T!Listed(t) = {}
             /\ held_ # {} => refs[t] = 0 /\ \A k, l \in held_ : k = l
             /\ stack[t] # 0 /\ status[t] = "dead" /\ refs[t] = 0 /\ held_ = {} => \E p \in T!Listed(t) : T!Listed(t) = {p}
             /\ stack[t] # 0 => /\ stack[t] \notin T!ToSet(unused) /\ t \in all
                                /\ \A u \in Threads \ {t} : stack[u] # stack[t]
  <2>1. held_ # {} <=> Handed(call, t)
    BY <1>2 DEF Handed
  <2>2. /\ Dead(local, global, t) => \E p \in T!Listed(t) : T!Listed(t) = {p}
        /\ ~ Dead(local, global, t) => T!Listed(t) = {}
    BY ListedIs
  <2>3. DescriptorAt(status[t], refs[t], t \in owed, Dead(local, global, t), Handed(call, t))
    BY DEF Sound, DescriptorInv
  <2>4. refs[t] > 0 \/ Handed(call, t) => ~ Dead(local, global, t)
    BY <2>3 DEF DescriptorAt
  <2>5. Handed(call, t) => refs[t] = 0
    BY <2>3 DEF DescriptorAt
  <2>6. status[t] = "dead" /\ refs[t] = 0 /\ ~ Handed(call, t) => Dead(local, global, t)
    BY <2>3 DEF DescriptorAt
  <2>7. \A k, l \in held_ : k = l
    <3>1. t # Gone
      BY ResourcesAssumption
    <3> QED BY <1>2, <3>1 DEF Sound, CallInv
  <2>8. /\ unused \in Seq(Nat \ {0}) /\ stack \in [Threads -> Nat]
        /\ stack[t] # 0 => t \in all /\ ~ In(unused, stack[t])
        /\ \A u \in Threads : stack[t] # 0 /\ stack[t] = stack[u] => t = u
    BY DEF Sound, StackInv
  <2>9. stack[t] # 0 => stack[t] \notin T!ToSet(unused)
    BY <2>8, SetOf
  <2> QED BY <2>1, <2>2, <2>4, <2>5, <2>6, <2>7, <2>8, <2>9
<1> QED BY <1>1, <1>2 DEF T!ThreadsHeldOnce

\* create_thread hands a descriptor and a stack to nobody who is not alone with
\* them, whatever CPU's list and count a call has worked with: for every number of
\* CPUs, callers, threads and stacks and every cache size, until two calls are in
\* the list of one CPU at once or a count of another CPU makes a list run out
\* (kernel/thread/thread.c, stack.c).
THEOREM ThreadsAlwaysHeldOnce == Spec => []ThreadsHeldOnce
<1>1. ThreadInv => ThreadsHeldOnce
  <2>1. ASSUME torn = TRUE PROVE T!ThreadsHeldOnce
    BY <2>1 DEF T!ThreadsHeldOnce
  <2> QED BY <2>1, SoundIsEnough DEF ThreadInv, ThreadsHeldOnce
<1> QED BY <1>1, ThreadsStart, ThreadsStep, PTL DEF Spec

(***************************************************************************)
(* Wait descriptors                                                        *)
(***************************************************************************)

\* No descriptor stands in two arrays, or in one array twice.
CachesOK(ca) ==
    /\ ca \in [Cpus -> Seq(Descriptors)]
    /\ \A c \in Cpus : Once(ca[c]) /\ Len(ca[c]) <= 2 * WtHalf
    /\ \A w \in Descriptors : \A c, d \in Cpus : In(ca[c], w) /\ In(ca[d], w) => c = d

Cached(ca, w) == \E c \in Cpus : In(ca[c], w)

\* The chain that starts at m_global_wt_cache is the sequence g, and ends.
GlobalList(g, hd, li) ==
    /\ g \in Seq(Descriptors) /\ Once(g)
    /\ hd = (IF Len(g) = 0 THEN Nil ELSE g[1])
    /\ \A i \in 1..Len(g) : li[g[i]] = (IF i = Len(g) THEN Nil ELSE g[i + 1])

Apart(g, ca, he, ma) == \A w \in Descriptors : In(g, w) => w \in ma /\ w \notin he /\ ~ Cached(ca, w)

\* A descriptor that is held, in an array or not yet allocated is clean and not
\* in the chain.  (Those that a transfer loses are in none of the places.)
WaitInv ==
    /\ CachesOK(cache)
    /\ link \in [Descriptors -> Descriptors \cup {Nil}] /\ held \subseteq made /\ made \subseteq Descriptors
    /\ \A w \in Descriptors :
          /\ Cached(cache, w) => w \in made /\ w \notin held
          /\ Cached(cache, w) \/ w \in held \/ w \notin made => link[w] = Nil
    /\ \E g : GlobalList(g, head, link) /\ Apart(g, cache, held, made)

LEMMA Least ==
    ASSUME NEW S \in SUBSET Nat, S # {}
    PROVE  \E m \in S : \A k \in S : m <= k
<1>1. PICK R : R = {p \in Nat \X Nat : p[1] < p[2]}
  OBVIOUS
<1>2. IsWellFoundedOn(R, Nat)
  BY <1>1, NatLessThanWellFounded, Zenon DEF OpToRel
<1>3. \E x \in S : \A y \in S : ~ (<<y, x>> \in R)
  BY <1>2, WFMin, Zenon
<1>4. PICK x \in S : \A y \in S : ~ (<<y, x>> \in R)
  BY <1>3
<1>5. ASSUME NEW y \in S PROVE x <= y
  <2>1. x \in Nat /\ y \in Nat /\ ~ (<<y, x>> \in R)
    BY <1>4
  <2>2. ~ (y < x)
    BY <1>1, <2>1
  <2> QED BY <2>1, <2>2
<1> QED BY <1>5

LEMMA FrontAndLast ==
    ASSUME NEW S, NEW s \in Seq(S), Len(s) # 0
    PROVE  /\ W!Front(s) \in Seq(S) /\ Len(W!Front(s)) = Len(s) - 1 /\ Len(s) \in Nat \ {0} /\ s[Len(s)] \in S
           /\ \A x : In(s, x) <=> x = s[Len(s)] \/ In(W!Front(s), x)
           /\ Once(s) => Once(W!Front(s)) /\ ~ In(W!Front(s), s[Len(s)])
<1>1. Len(s) \in Nat \ {0} /\ \A i \in 1..Len(s) : s[i] \in S
  BY SeqFacts
<1>2. PICK n : n = Len(s) - 1
  OBVIOUS
<1>3. n \in 0..Len(s) /\ n + 1 = Len(s) /\ Len(s) \in 1..Len(s)
  BY <1>1, <1>2
<1>4. PICK a, b : a = SubSeq(s, 1, n) /\ b = SubSeq(s, n + 1, Len(s))
  OBVIOUS
<1>5. /\ a \in Seq(S) /\ b \in Seq(S) /\ Len(a) = n /\ Len(b) = Len(s) - n
      /\ \A x : In(s, x) <=> In(a, x) \/ In(b, x)
      /\ Once(s) => Once(a) /\ Once(b) /\ \A x : ~ (In(a, x) /\ In(b, x))
  BY <1>3, <1>4, CutInTwo
<1>6. Len(b) = 1 /\ b[1] = s[Len(s)]
  <2>1. \A i \in (n + 1)..Len(s) : s[i] \in S
    BY <1>1, <1>3
  <2>2. \A i \in 1..(Len(s) - (n + 1) + 1) : b[i] = s[n + 1 + i - 1]
    BY <1>1, <1>3, <1>4, <2>1, SubSeqProperties
  <2>3. 1 \in 1..(Len(s) - (n + 1) + 1) /\ n + 1 + 1 - 1 = Len(s)
    BY <1>1, <1>3
  <2>4. b[1] = s[n + 1 + 1 - 1]
    BY <2>2, <2>3
  <2> QED BY <1>1, <1>3, <1>5, <2>3, <2>4
<1>7. \A x : In(b, x) <=> x = s[Len(s)]
  BY <1>6 DEF In
<1>8. W!Front(s) = a
  BY <1>2, <1>4 DEF W!Front
<1> QED BY <1>1, <1>2, <1>3, <1>5, <1>7, <1>8

LEMMA AppendedTo ==
    ASSUME NEW S, NEW s \in Seq(S), NEW t \in S
    PROVE  /\ Append(s, t) \in Seq(S) /\ Len(Append(s, t)) = Len(s) + 1
           /\ \A x : In(Append(s, t), x) <=> x = t \/ In(s, x)
           /\ Once(s) /\ ~ In(s, t) => Once(Append(s, t))
<1>1. PICK u : u = Append(s, t)
  OBVIOUS
<1>2. Len(s) \in Nat
  BY SeqFacts
<1>3. u \in Seq(S) /\ Len(u) = Len(s) + 1 /\ (\A i \in 1..Len(s) : u[i] = s[i]) /\ u[Len(s) + 1] = t
  BY <1>1, AppendProperties
<1>4. \A i \in 1..Len(u) : i \in 1..Len(s) \/ i = Len(s) + 1
  BY <1>2, <1>3
<1>5. Len(s) + 1 \in 1..Len(u) /\ \A i \in 1..Len(s) : i \in 1..Len(u)
  BY <1>2, <1>3
<1>6. \A x : In(u, x) <=> x = t \/ In(s, x)
  BY <1>3, <1>4, <1>5 DEF In
<1>7. ASSUME Once(s), ~ In(s, t) PROVE Once(u)
  BY <1>3, <1>4, <1>7 DEF Once, In
<1> QED BY <1>1, <1>3, <1>6, <1>7

LEMMA SetOfW ==
    ASSUME NEW S, NEW s \in Seq(S), NEW x
    PROVE  x \in W!ToSet(s) <=> In(s, x)
<1>1. DOMAIN s = 1..Len(s)
  BY LenProperties
<1> QED BY <1>1 DEF W!ToSet, In

\* What one step of the walk along the chain appends.
Onward(s) ==
    LET w == IF s = <<>> THEN head ELSE link[s[Len(s)]]
    IN  IF w = Nil THEN s ELSE Append(s, w)

Walk(f, n) == IF n = 0 THEN <<>> ELSE Onward(f[n - 1])

\* One step further along a list of length L, in numbers.
LEMMA NextPrefix ==
    ASSUME NEW n \in Nat, n # 0, NEW L \in Nat, NEW k, k = IF n - 1 <= L THEN n - 1 ELSE L
    PROVE  /\ n - 1 \in Nat /\ k \in 0..L /\ k \in Nat
           /\ k = L => (IF n <= L THEN n ELSE L) = k
           /\ k # L => k + 1 = n /\ n <= L /\ n \in 1..L /\ k = n - 1
OBVIOUS

\* The walk is well defined, and yields the prefixes of the list.
LEMMA WalkOfPrefix ==
    ASSUME NEW g, GlobalList(g, head, link), Nil \notin Descriptors,
           NEW F, F = [n \in Nat |-> SubSeq(g, 1, IF n <= Len(g) THEN n ELSE Len(g))],
           NEW n \in Nat
    PROVE  F[n] = Walk(F, n)
<1>1. /\ g \in Seq(Descriptors) /\ Len(g) \in Nat /\ \A i \in 1..Len(g) : g[i] \in Descriptors
      /\ head = (IF Len(g) = 0 THEN Nil ELSE g[1])
      /\ \A i \in 1..Len(g) : link[g[i]] = (IF i = Len(g) THEN Nil ELSE g[i + 1])
  BY SeqFacts DEF GlobalList
<1>2. CASE n = 0
  <2>1. F[n] = SubSeq(g, 1, 0)
    BY <1>1, <1>2
  <2>2. SubSeq(g, 1, 0) = <<>>
    BY SubSeqEmpty
  <2> QED BY <1>2, <2>1, <2>2 DEF Walk
<1>3. CASE n # 0
  <2>1. PICK k : k = IF n - 1 <= Len(g) THEN n - 1 ELSE Len(g)
    OBVIOUS
  <2>2. PICK s : s = SubSeq(g, 1, k)
    OBVIOUS
  <2>3. /\ n - 1 \in Nat /\ k \in 0..Len(g) /\ k \in Nat
        /\ k = Len(g) => (IF n <= Len(g) THEN n ELSE Len(g)) = k
        /\ k # Len(g) => k + 1 = n /\ n <= Len(g) /\ n \in 1..Len(g) /\ k = n - 1
    <3>1. Len(g) \in Nat
      BY <1>1
    <3> QED BY <1>3, <2>1, <3>1, NextPrefix
  <2>4. F[n - 1] = s
    BY <2>1, <2>2, <2>3
  <2>5. /\ s \in Seq(Descriptors) /\ Len(s) = k
        /\ \A i \in 1..k : s[i] = g[i]
    <3>1. \A i \in 1..k : g[i] \in Descriptors
      BY <1>1, <2>3
    <3>2. /\ s \in Seq(Descriptors) /\ Len(s) = (IF 1 <= k THEN k - 1 + 1 ELSE 0)
          /\ \A i \in 1..(k - 1 + 1) : s[i] = g[1 + i - 1]
      BY <2>2, <2>3, <3>1, SubSeqProperties
    <3>3. k - 1 + 1 = k /\ \A i \in 1..k : 1 + i - 1 = i
      BY <2>3
    <3> QED BY <2>3, <3>2, <3>3
  <2>6. PICK w : w = IF s = <<>> THEN head ELSE link[s[Len(s)]]
    OBVIOUS
  <2>7. Walk(F, n) = IF w = Nil THEN s ELSE Append(s, w)
    <3>1. Walk(F, n) = Onward(F[n - 1])
      BY <1>3 DEF Walk
    <3>2. Walk(F, n) = Onward(s)
      BY <2>4, <3>1
    <3>3. Onward(s) = IF w = Nil THEN s ELSE Append(s, w)
      BY <2>6 DEF Onward
    <3> QED BY <3>2, <3>3
  <2>8. s = <<>> <=> k = 0
    <3>1. s = <<>> => Len(s) = 0
      BY EmptySeq
    <3>2. s # <<>> => Len(s) \in Nat \ {0}
      BY <2>5, EmptySeq
    <3> QED BY <2>5, <3>1, <3>2
  <2>9. w = (IF k = Len(g) THEN Nil ELSE g[k + 1])
    <3>1. CASE k = 0
      BY <1>1, <2>6, <2>8, <3>1
    <3>2. CASE k # 0
      <4>1. k \in 1..k /\ k \in 1..Len(g)
        BY <1>1, <2>3, <3>2
      <4>2. w = link[g[k]]
        BY <2>5, <2>6, <2>8, <3>2, <4>1
      <4> QED BY <1>1, <4>1, <4>2
    <3> QED BY <3>1, <3>2
  <2>10. CASE k = Len(g)
    <3>1. F[n] = SubSeq(g, 1, k)
      BY <2>3, <2>10
    <3> QED BY <2>2, <2>7, <2>9, <2>10, <3>1
  <2>11. CASE k # Len(g)
    <3>1. k + 1 = n /\ n <= Len(g) /\ n \in 1..Len(g) /\ k = n - 1
      BY <2>3, <2>11
    <3>2. w = g[n] /\ w \in Descriptors /\ w # Nil
      BY <1>1, <2>9, <2>11, <3>1
    <3>3. F[n] = SubSeq(g, 1, n)
      BY <3>1
    <3>4. SubSeq(g, 1, n) = SubSeq(g, 1, n - 1) \o <<g[n]>>
      <4>1. 1 \in 1..Len(g) /\ n \in 1..Len(g)
        BY <1>1, <3>1
      <4> QED BY <1>1, <4>1, SubSeqRecursiveSecond
    <3>5. Append(s, w) = s \o <<w>>
      BY <2>5, <3>2, AppendIsConcat
    <3> QED BY <2>2, <2>7, <3>1, <3>2, <3>3, <3>4, <3>5
  <2> QED BY <2>10, <2>11
<1> QED BY <1>2, <1>3

LEMMA FirstOfIs ==
    ASSUME NEW g, GlobalList(g, head, link), Nil \notin Descriptors, NEW n \in Nat
    PROVE  W!FirstOf[n] = SubSeq(g, 1, IF n <= Len(g) THEN n ELSE Len(g))
<1>1. PICK F : F = [k \in Nat |-> SubSeq(g, 1, IF k <= Len(g) THEN k ELSE Len(g))]
  OBVIOUS
<1>2. \A k \in Nat : F[k] = Walk(F, k)
  BY <1>1, WalkOfPrefix
<1>3. F = [k \in Nat |-> Walk(F, k)]
  BY <1>1, <1>2
<1>4. W!FirstOf = [k \in Nat |-> Walk(W!FirstOf, k)]
  BY <1>3 DEF W!FirstOf, Walk, Onward
<1>5. PICK f : f = W!FirstOf
  OBVIOUS
<1>6. \A k \in Nat : f[k] = Walk(f, k)
  BY <1>4, <1>5
<1>7. ASSUME f[n] # F[n] PROVE FALSE
  <2>1. PICK S : S = {k \in Nat : f[k] # F[k]}
    OBVIOUS
  <2>2. S \in SUBSET Nat /\ S # {}
    BY <1>7, <2>1
  <2>3. PICK m \in S : \A k \in S : m <= k
    BY <2>2, Least
  <2>4. m \in Nat /\ f[m] # F[m] /\ f[m] = Walk(f, m) /\ F[m] = Walk(F, m)
    BY <1>2, <1>6, <2>1
  <2>5. m # 0
    BY <2>4 DEF Walk
  <2>6. m - 1 \in Nat /\ ~ (m <= m - 1)
    BY <2>4, <2>5
  <2>7. f[m - 1] = F[m - 1]
    BY <2>1, <2>3, <2>6
  <2> QED BY <2>4, <2>5, <2>7 DEF Walk
<1> QED BY <1>1, <1>5, <1>7

LEMMA CacheMove ==
    ASSUME NEW ca, CachesOK(ca), NEW c \in Cpus, NEW a \in Seq(Descriptors), Once(a), Len(a) <= 2 * WtHalf,
           \A w \in Descriptors : In(a, w) => In(ca[c], w) \/ ~ Cached(ca, w)
    PROVE  /\ CachesOK([ca EXCEPT ![c] = a])
           /\ \A w \in Descriptors : Cached([ca EXCEPT ![c] = a], w) <=> (Cached(ca, w) /\ ~ In(ca[c], w)) \/ In(a, w)
<1>1. PICK l : l = [ca EXCEPT ![c] = a]
  OBVIOUS
<1>2. l \in [Cpus -> Seq(Descriptors)] /\ l[c] = a /\ \A d \in Cpus : d # c => l[d] = ca[d]
  BY <1>1 DEF CachesOK
<1>3. ASSUME NEW w \in Descriptors, NEW d \in Cpus, d # c, In(l[d], w) PROVE ~ In(a, w) /\ ~ In(ca[c], w) /\ Cached(ca, w)
  <2>1. In(ca[d], w) /\ Cached(ca, w)
    BY <1>2, <1>3 DEF Cached
  <2>2. ~ In(ca[c], w)
    BY <1>3, <2>1 DEF CachesOK
  <2> QED BY <2>1, <2>2
<1>4. CachesOK(l)
  <2>1. ASSUME NEW w \in Descriptors, NEW d \in Cpus, NEW e \in Cpus, In(l[d], w), In(l[e], w) PROVE d = e
    <3>1. CASE d = c \/ e = c
      BY <1>2, <1>3, <2>1, <3>1
    <3>2. CASE d # c /\ e # c
      BY <1>2, <2>1, <3>2 DEF CachesOK
    <3> QED BY <3>1, <3>2
  <2>2. \A d \in Cpus : Once(l[d]) /\ Len(l[d]) <= 2 * WtHalf
    BY <1>2 DEF CachesOK
  <2> QED BY <1>2, <2>1, <2>2 DEF CachesOK
<1>5. ASSUME NEW w \in Descriptors PROVE Cached(l, w) <=> (Cached(ca, w) /\ ~ In(ca[c], w)) \/ In(a, w)
  <2>1. ASSUME NEW d \in Cpus, In(l[d], w) PROVE (Cached(ca, w) /\ ~ In(ca[c], w)) \/ In(a, w)
    BY <1>2, <1>3, <2>1
  <2>2. ASSUME NEW d \in Cpus, In(ca[d], w), ~ In(ca[c], w) PROVE Cached(l, w)
    BY <1>2, <2>2 DEF Cached
  <2>3. ASSUME In(a, w) PROVE Cached(l, w)
    BY <1>2, <2>3 DEF Cached
  <2> QED BY <2>1, <2>2, <2>3 DEF Cached
<1> QED BY <1>1, <1>4, <1>5

\* A descriptor in front of the chain.
LEMMA PushGlobal ==
    ASSUME NEW g, NEW hd, NEW li, GlobalList(g, hd, li), NEW x \in Descriptors, ~ In(g, x),
           NEW l2, l2[x] = hd, \A y \in Descriptors : In(g, y) => l2[y] = li[y]
    PROVE  /\ GlobalList(T!Pushed(g, x), x, l2)
           /\ \A y : In(T!Pushed(g, x), y) <=> y = x \/ In(g, y)
<1>1. /\ g \in Seq(Descriptors) /\ Once(g) /\ Len(g) \in Nat /\ \A i \in 1..Len(g) : g[i] \in Descriptors
      /\ hd = (IF Len(g) = 0 THEN Nil ELSE g[1])
      /\ \A i \in 1..Len(g) : li[g[i]] = (IF i = Len(g) THEN Nil ELSE g[i + 1])
  BY SeqFacts DEF GlobalList
<1>2. PICK h : h = T!Pushed(g, x)
  OBVIOUS
<1>3. h \in Seq(Descriptors) /\ Len(h) = Len(g) + 1 /\ Once(h) /\ \A y : In(h, y) <=> y = x \/ In(g, y)
  BY <1>1, <1>2, PushedOn
<1>4. h[1] = x /\ \A i \in 1..Len(g) : h[i + 1] = g[i]
  <2>1. <<x>> \in Seq(Descriptors) /\ Len(<<x>>) = 1 /\ <<x>>[1] = x
    OBVIOUS
  <2>2. PICK u : u = <<x>>
    OBVIOUS
  <2>3. \A i \in 1..(Len(u) + Len(g)) : (u \o g)[i] = IF i <= Len(u) THEN u[i] ELSE g[i - Len(u)]
    BY <1>1, <2>1, <2>2, ConcatProperties
  <2>4. h = u \o g
    BY <1>2, <2>2 DEF T!Pushed
  <2>5. \A i \in 1..(1 + Len(g)) : h[i] = IF i <= 1 THEN u[i] ELSE g[i - 1]
    BY <2>1, <2>2, <2>3, <2>4
  <2>6. 1 \in 1..(1 + Len(g)) /\ \A i \in 1..Len(g) : i + 1 \in 1..(1 + Len(g)) /\ ~ (i + 1 <= 1) /\ i + 1 - 1 = i
    BY <1>1
  <2>7. h[1] = x
    BY <2>1, <2>2, <2>5, <2>6
  <2>8. ASSUME NEW i \in 1..Len(g) PROVE h[i + 1] = g[i]
    BY <2>5, <2>6
  <2> QED BY <2>7, <2>8
<1>5. ASSUME NEW i \in 1..Len(h) PROVE l2[h[i]] = (IF i = Len(h) THEN Nil ELSE h[i + 1])
  <2>1. CASE i = 1
    <3>1. l2[h[1]] = hd /\ (Len(h) = 1 <=> Len(g) = 0)
      BY <1>1, <1>3, <1>4
    <3>2. CASE Len(g) = 0
      BY <1>1, <2>1, <3>1, <3>2
    <3>3. CASE Len(g) # 0
      <4>1. 1 \in 1..Len(g) /\ hd = g[1]
        BY <1>1, <3>3
      <4>2. h[1 + 1] = g[1]
        BY <1>4, <4>1
      <4> QED BY <2>1, <3>1, <3>3, <4>1, <4>2
    <3> QED BY <3>2, <3>3
  <2>2. CASE i # 1
    <3>1. PICK j : j = i - 1
      OBVIOUS
    <3>2. j \in 1..Len(g) /\ j + 1 = i /\ (j = Len(g) <=> i = Len(h))
      BY <1>1, <1>3, <2>2, <3>1
    <3>3. h[i] = g[j] /\ g[j] \in Descriptors /\ In(g, g[j])
      BY <1>1, <1>4, <3>2 DEF In
    <3>4. l2[h[i]] = (IF j = Len(g) THEN Nil ELSE g[j + 1])
      BY <1>1, <3>2, <3>3
    <3>5. j # Len(g) => j + 1 \in 1..Len(g) /\ h[j + 1 + 1] = g[j + 1]
      <4>1. j # Len(g) => j + 1 \in 1..Len(g)
        BY <1>1, <3>2
      <4> QED BY <1>4, <4>1
    <3> QED BY <3>2, <3>4, <3>5
  <2> QED BY <2>1, <2>2
<1>6. GlobalList(h, x, l2)
  <2>1. Len(h) # 0
    BY <1>1, <1>3
  <2> QED BY <1>3, <1>4, <1>5, <2>1 DEF GlobalList
<1> QED BY <1>2, <1>3, <1>6

\* The chain without its first n descriptors.
LEMMA CutGlobal ==
    ASSUME NEW g, NEW hd, NEW li, GlobalList(g, hd, li), NEW n \in 1..Len(g), NEW b, b = SubSeq(g, n + 1, Len(g)),
           NEW l2, \A y \in Descriptors : In(b, y) => l2[y] = li[y]
    PROVE  GlobalList(b, li[g[n]], l2)
<1>1. /\ g \in Seq(Descriptors) /\ Once(g) /\ Len(g) \in Nat /\ \A i \in 1..Len(g) : g[i] \in Descriptors
      /\ \A i \in 1..Len(g) : li[g[i]] = (IF i = Len(g) THEN Nil ELSE g[i + 1])
  BY SeqFacts DEF GlobalList
<1>2. n \in 0..Len(g)
  BY <1>1
<1>3. b \in Seq(Descriptors) /\ Len(b) = Len(g) - n /\ Once(b)
  BY <1>1, <1>2, CutInTwo
<1>4. ASSUME NEW i \in 1..Len(b) PROVE b[i] = g[n + i] /\ n + i \in 1..Len(g) /\ (i = Len(b) <=> n + i = Len(g))
  <2>1. \A j \in (n + 1)..Len(g) : g[j] \in Descriptors
    BY <1>1
  <2>2. \A j \in 1..(Len(g) - (n + 1) + 1) : b[j] = g[n + 1 + j - 1]
    BY <1>1, <2>1, SubSeqProperties
  <2>3. i \in 1..(Len(g) - (n + 1) + 1) /\ n + 1 + i - 1 = n + i
    BY <1>1, <1>3
  <2>4. b[i] = g[n + 1 + i - 1]
    BY <2>2, <2>3
  <2>5. n + i \in 1..Len(g) /\ (i = Len(b) <=> n + i = Len(g))
    BY <1>1, <1>3
  <2> QED BY <2>3, <2>4, <2>5
<1>5. li[g[n]] = (IF Len(b) = 0 THEN Nil ELSE b[1])
  <2>1. CASE Len(b) = 0
    BY <1>1, <1>3, <2>1
  <2>2. CASE Len(b) # 0
    <3>1. 1 \in 1..Len(b) /\ n # Len(g)
      BY <1>1, <1>3, <2>2
    <3>2. b[1] = g[n + 1]
      BY <1>4, <3>1
    <3> QED BY <1>1, <2>2, <3>1, <3>2
  <2> QED BY <2>1, <2>2
<1>6. ASSUME NEW i \in 1..Len(b) PROVE l2[b[i]] = (IF i = Len(b) THEN Nil ELSE b[i + 1])
  <2>1. In(b, b[i]) /\ b[i] \in Descriptors
    BY <1>1, <1>4 DEF In
  <2>2. l2[b[i]] = (IF n + i = Len(g) THEN Nil ELSE g[n + i + 1])
    BY <1>1, <1>4, <2>1
  <2>3. CASE i = Len(b)
    BY <1>4, <2>2, <2>3
  <2>4. CASE i # Len(b)
    <3>1. i + 1 \in 1..Len(b) /\ n + (i + 1) = n + i + 1
      BY <1>1, <1>3, <2>4
    <3>2. b[i + 1] = g[n + i + 1]
      BY <1>4, <3>1
    <3> QED BY <1>4, <2>2, <2>4, <3>2
  <2> QED BY <2>3, <2>4
<1> QED BY <1>3, <1>5, <1>6 DEF GlobalList

\* acquire_waiting_thread takes the last descriptor of the array.
Pop(c) ==
    /\ cache[c] # <<>> /\ held' = held \union {cache[c][Len(cache[c])]}
    /\ cache' = [cache EXCEPT ![c] = W!Front(@)] /\ UNCHANGED <<head, link, made>>

LEMMA PopKeeps ==
    ASSUME WaitInv, NEW c \in Cpus, Pop(c)
    PROVE  WaitInv'
<1>1. /\ CachesOK(cache) /\ cache \in [Cpus -> Seq(Descriptors)] /\ cache[c] \in Seq(Descriptors)
      /\ Once(cache[c]) /\ Len(cache[c]) <= 2 * WtHalf /\ WtHalf \in Nat
      /\ link \in [Descriptors -> Descriptors \cup {Nil}] /\ held \subseteq made /\ made \subseteq Descriptors
      /\ \A w \in Descriptors : Cached(cache, w) => w \in made /\ w \notin held
      /\ \A w \in Descriptors : Cached(cache, w) \/ w \in held \/ w \notin made => link[w] = Nil
  BY ResourcesAssumption DEF WaitInv, CachesOK
<1>2. Len(cache[c]) # 0
  BY <1>1, EmptySeq DEF Pop
<1>3. PICK x, a : x = cache[c][Len(cache[c])] /\ a = W!Front(cache[c])
  OBVIOUS
<1>4. /\ a \in Seq(Descriptors) /\ Len(a) = Len(cache[c]) - 1 /\ Len(cache[c]) \in Nat /\ x \in Descriptors
      /\ \A y : In(cache[c], y) <=> y = x \/ In(a, y)
      /\ Once(a) /\ ~ In(a, x)
  BY <1>1, <1>2, <1>3, FrontAndLast
<1>5. cache' = [cache EXCEPT ![c] = a] /\ held' = held \union {x} /\ head' = head /\ link' = link /\ made' = made
  BY <1>1, <1>3 DEF Pop
<1>6. Len(a) <= 2 * WtHalf /\ \A w \in Descriptors : In(a, w) => In(cache[c], w) \/ ~ Cached(cache, w)
  BY <1>1, <1>4
<1>7. CachesOK(cache') /\ \A w \in Descriptors : Cached(cache', w) <=> (Cached(cache, w) /\ ~ In(cache[c], w)) \/ In(a, w)
  BY <1>1, <1>4, <1>5, <1>6, CacheMove
<1>8. \A w \in Descriptors : In(cache[c], w) => Cached(cache, w)
  BY DEF Cached
<1>9. \A w \in Descriptors : Cached(cache', w) <=> Cached(cache, w) /\ w # x
  BY <1>4, <1>7, <1>8
<1>10. Cached(cache, x) /\ x \in made /\ x \notin held
  BY <1>1, <1>4, <1>8
<1>11. /\ \A w \in Descriptors : Cached(cache', w) => w \in made /\ w \notin held'
       /\ \A w \in Descriptors : Cached(cache', w) \/ w \in held' \/ w \notin made => link[w] = Nil
       /\ held' \subseteq made
  BY <1>1, <1>5, <1>9, <1>10
<1>12. PICK g : GlobalList(g, head, link) /\ Apart(g, cache, held, made)
  BY DEF WaitInv
<1>13. Apart(g, cache', held', made)
  BY <1>5, <1>9, <1>10, <1>12 DEF Apart
<1> QED BY <1>1, <1>5, <1>7, <1>11, <1>12, <1>13 DEF WaitInv

LEMMA RefillKeeps ==
    ASSUME WaitInv, NEW c \in Cpus, W!Refill(c)
    PROVE  WaitInv'
<1>1. /\ CachesOK(cache) /\ cache \in [Cpus -> Seq(Descriptors)] /\ WtHalf \in Nat /\ WtHalf > 0 /\ Nil \notin Descriptors
      /\ link \in [Descriptors -> Descriptors \cup {Nil}] /\ held \subseteq made /\ made \subseteq Descriptors
      /\ \A w \in Descriptors : Cached(cache, w) => w \in made /\ w \notin held
      /\ \A w \in Descriptors : Cached(cache, w) \/ w \in held \/ w \notin made => link[w] = Nil
  BY ResourcesAssumption DEF WaitInv, CachesOK
<1>2. PICK g : GlobalList(g, head, link) /\ Apart(g, cache, held, made)
  BY DEF WaitInv
<1>3. g \in Seq(Descriptors) /\ Once(g) /\ Len(g) \in Nat /\ \A i \in 1..Len(g) : g[i] \in Descriptors
  BY <1>2, SeqFacts DEF GlobalList
<1>4. PICK n : n = IF WtHalf <= Len(g) THEN WtHalf ELSE Len(g)
  OBVIOUS
<1>5. PICK s, b : s = SubSeq(g, 1, n) /\ b = SubSeq(g, n + 1, Len(g))
  OBVIOUS
<1>6. W!FirstOf[WtHalf] = s
  BY <1>1, <1>2, <1>4, <1>5, FirstOfIs
<1>7. n \in 0..Len(g) /\ n <= WtHalf /\ n \in Nat
  BY <1>1, <1>3, <1>4
<1>8. /\ s \in Seq(Descriptors) /\ b \in Seq(Descriptors) /\ Len(s) = n
      /\ \A x : In(g, x) <=> In(s, x) \/ In(b, x)
      /\ Once(s) /\ Once(b) /\ \A x : ~ (In(s, x) /\ In(b, x))
  BY <1>3, <1>5, <1>7, CutInTwo
<1>9. \A w : ~ In(cache[c], w)
  BY NothingIn DEF W!Refill
<1>10. CASE s # <<>>
  <2>1. Len(s) # 0 /\ n \in 1..Len(g)
    <3>1. Len(s) # 0
      BY <1>8, <1>10, EmptySeq
    <3> QED BY <1>7, <1>8, <3>1
  <2>2. PICK x, a : x = s[Len(s)] /\ a = W!Front(s)
    OBVIOUS
  <2>3. /\ a \in Seq(Descriptors) /\ Len(a) = Len(s) - 1 /\ x \in Descriptors
        /\ \A y : In(s, y) <=> y = x \/ In(a, y)
        /\ Once(a) /\ ~ In(a, x)
    BY <1>8, <2>1, <2>2, FrontAndLast
  <2>4. x = g[n]
    <3>1. \A i \in 1..n : g[i] \in Descriptors
      BY <1>3, <2>1
    <3>2. \A i \in 1..(n - 1 + 1) : s[i] = g[1 + i - 1]
      BY <1>5, <1>7, <3>1, SubSeqProperties
    <3>3. n \in 1..(n - 1 + 1) /\ 1 + n - 1 = n
      BY <2>1
    <3>4. s[n] = g[1 + n - 1]
      BY <3>2, <3>3
    <3> QED BY <1>8, <2>2, <3>3, <3>4
  <2>5. /\ head' = link[x] /\ link' = [w \in Descriptors |-> IF w \in W!ToSet(s) THEN Nil ELSE link[w]]
        /\ cache' = [cache EXCEPT ![c] = a] /\ held' = held \union {x} /\ made' = made
    BY <1>6, <1>10, <2>2 DEF W!Refill
  <2>6. /\ link' \in [Descriptors -> Descriptors \cup {Nil}]
        /\ \A w \in Descriptors : In(s, w) => link'[w] = Nil
        /\ \A w \in Descriptors : ~ In(s, w) => link'[w] = link[w]
    <3>1. \A w \in Descriptors : w \in W!ToSet(s) <=> In(s, w)
      BY <1>8, SetOfW
    <3> QED BY <1>1, <2>5, <3>1
  <2>7. \A w \in Descriptors : In(g, w) => w \in made /\ w \notin held /\ ~ Cached(cache, w)
    BY <1>2 DEF Apart
  <2>8. Len(a) <= 2 * WtHalf /\ \A w \in Descriptors : In(a, w) => In(cache[c], w) \/ ~ Cached(cache, w)
    <3>1. Len(a) <= 2 * WtHalf
      BY <1>1, <1>7, <1>8, <2>3
    <3> QED BY <1>8, <2>3, <2>7, <3>1
  <2>9. CachesOK(cache') /\ \A w \in Descriptors : Cached(cache', w) <=> (Cached(cache, w) /\ ~ In(cache[c], w)) \/ In(a, w)
    BY <1>1, <2>3, <2>5, <2>8, CacheMove
  <2>10. \A w \in Descriptors : Cached(cache', w) <=> Cached(cache, w) \/ In(a, w)
    BY <1>9, <2>9
  <2>11. \A w \in Descriptors : Cached(cache', w) => w \in made /\ w \notin held'
    BY <1>1, <1>8, <2>3, <2>5, <2>7, <2>10
  <2>12. \A w \in Descriptors : Cached(cache', w) \/ w \in held' \/ w \notin made => link'[w] = Nil
    <3>1. ASSUME NEW w \in Descriptors, Cached(cache', w) \/ w \in held' \/ w \notin made, ~ In(s, w) PROVE link[w] = Nil
      <4>1. w # x /\ ~ In(a, w)
        BY <2>3, <3>1
      <4> QED BY <1>1, <2>5, <2>10, <3>1, <4>1
    <3> QED BY <2>6, <3>1
  <2>13. GlobalList(b, head', link')
    <3>1. \A y \in Descriptors : In(b, y) => link'[y] = link[y]
      BY <1>8, <2>6
    <3>2. PICK l2 : l2 = link'
      OBVIOUS
    <3>3. GlobalList(b, link[g[n]], l2)
      BY <1>2, <1>5, <2>1, <3>1, <3>2, CutGlobal
    <3> QED BY <2>4, <2>5, <3>2, <3>3
  <2>14. Apart(b, cache', held', made)
    <3>1. ASSUME NEW w \in Descriptors, In(b, w) PROVE w \in made /\ w \notin held' /\ ~ Cached(cache', w)
      <4>1. ~ In(s, w) /\ In(g, w)
        BY <1>8, <3>1
      <4> QED BY <2>3, <2>5, <2>7, <2>10, <4>1
    <3> QED BY <3>1 DEF Apart
  <2>15. held' \subseteq made
    BY <1>1, <1>8, <2>3, <2>5, <2>7
  <2> QED BY <1>1, <2>5, <2>6, <2>9, <2>11, <2>12, <2>13, <2>14, <2>15 DEF WaitInv
<1>11. CASE s = <<>>
  <2>1. PICK w \in Descriptors \ made : /\ made' = made \union {w} /\ held' = held \union {w}
                                        /\ cache' = cache /\ head' = head /\ link' = link
    BY <1>6, <1>11 DEF W!Refill
  <2>2. w \notin held /\ ~ Cached(cache, w) /\ link[w] = Nil
    BY <1>1
  <2>3. /\ \A v \in Descriptors : Cached(cache, v) => v \in made' /\ v \notin held'
        /\ \A v \in Descriptors : Cached(cache, v) \/ v \in held' \/ v \notin made' => link[v] = Nil
        /\ held' \subseteq made' /\ made' \subseteq Descriptors
    BY <1>1, <2>1, <2>2
  <2>4. Apart(g, cache, held', made')
    BY <1>2, <2>1 DEF Apart
  <2> QED BY <1>1, <1>2, <2>1, <2>3, <2>4 DEF WaitInv
<1> QED BY <1>10, <1>11

\* The links after a transfer of the chain h.
ChainLinks(h, w) ==
    [d \in Descriptors |->
        IF d = w THEN Nil
        ELSE IF d \notin W!ToSet(h) THEN link[d]
        ELSE LET i == CHOOSE j \in 1..WtHalf : h[j] = d IN IF i = WtHalf THEN head ELSE h[i + 1]]

LEMMA ReleaseWaitKeeps ==
    ASSUME WaitInv, NEW c \in Cpus, NEW w \in Descriptors, W!Release(c, w)
    PROVE  WaitInv'
<1>1. /\ CachesOK(cache) /\ cache \in [Cpus -> Seq(Descriptors)] /\ cache[c] \in Seq(Descriptors)
      /\ Once(cache[c]) /\ Len(cache[c]) <= 2 * WtHalf /\ WtHalf \in Nat /\ WtHalf > 0
      /\ link \in [Descriptors -> Descriptors \cup {Nil}] /\ held \subseteq made /\ made \subseteq Descriptors
      /\ \A v \in Descriptors : Cached(cache, v) => v \in made /\ v \notin held
      /\ \A v \in Descriptors : Cached(cache, v) \/ v \in held \/ v \notin made => link[v] = Nil
  BY ResourcesAssumption DEF WaitInv, CachesOK
<1>2. PICK g : GlobalList(g, head, link) /\ Apart(g, cache, held, made)
  BY DEF WaitInv
<1>3. /\ g \in Seq(Descriptors) /\ Len(g) \in Nat /\ \A i \in 1..Len(g) : g[i] \in Descriptors
      /\ head = (IF Len(g) = 0 THEN Nil ELSE g[1])
      /\ \A v \in Descriptors : In(g, v) => v \in made /\ v \notin held /\ ~ Cached(cache, v)
  BY <1>2, SeqFacts DEF GlobalList, Apart
<1>4. w \in held /\ held' = held \ {w} /\ made' = made /\ w \in made /\ ~ Cached(cache, w) /\ ~ In(g, w)
  BY <1>1, <1>3 DEF W!Release
<1>5. \A v \in Descriptors : In(cache[c], v) => Cached(cache, v)
  BY DEF Cached
<1>6. CASE Len(cache[c]) < 2 * WtHalf
  <2>1. PICK a : a = Append(cache[c], w)
    OBVIOUS
  <2>2. cache' = [cache EXCEPT ![c] = a] /\ link' = [link EXCEPT ![w] = Nil] /\ head' = head
    BY <1>1, <1>6, <2>1 DEF W!Release
  <2>3. a \in Seq(Descriptors) /\ Len(a) = Len(cache[c]) + 1 /\ (\A x : In(a, x) <=> x = w \/ In(cache[c], x)) /\ Once(a)
    BY <1>1, <1>4, <1>5, <2>1, AppendedTo
  <2>4. Len(a) <= 2 * WtHalf /\ \A v \in Descriptors : In(a, v) => In(cache[c], v) \/ ~ Cached(cache, v)
    <3>1. Len(cache[c]) \in Nat
      BY <1>1, SeqFacts
    <3> QED BY <1>1, <1>4, <1>6, <2>3, <3>1
  <2>5. CachesOK(cache') /\ \A v \in Descriptors : Cached(cache', v) <=> (Cached(cache, v) /\ ~ In(cache[c], v)) \/ In(a, v)
    BY <1>1, <2>2, <2>3, <2>4, CacheMove
  <2>6. \A v \in Descriptors : Cached(cache', v) <=> Cached(cache, v) \/ v = w
    BY <1>5, <2>3, <2>5
  <2>7. /\ link' \in [Descriptors -> Descriptors \cup {Nil}] /\ link'[w] = Nil
        /\ \A v \in Descriptors : v # w => link'[v] = link[v]
    BY <1>1, <2>2
  <2>8. /\ \A v \in Descriptors : Cached(cache', v) => v \in made /\ v \notin held'
        /\ \A v \in Descriptors : Cached(cache', v) \/ v \in held' \/ v \notin made => link'[v] = Nil
        /\ held' \subseteq made
    BY <1>1, <1>4, <2>6, <2>7
  <2>9. GlobalList(g, head, link')
    <3>1. \A i \in 1..Len(g) : g[i] # w
      BY <1>4 DEF In
    <3> QED BY <1>2, <1>3, <2>7, <3>1 DEF GlobalList
  <2>10. Apart(g, cache', held', made)
    BY <1>3, <1>4, <2>6 DEF Apart
  <2> QED BY <1>1, <1>4, <2>2, <2>5, <2>7, <2>8, <2>9, <2>10 DEF WaitInv
<1>7. CASE ~ (Len(cache[c]) < 2 * WtHalf)
  <2>1. PICK s : s = cache[c]
    OBVIOUS
  <2>2. s \in Seq(Descriptors) /\ Once(s) /\ Len(s) = 2 * WtHalf /\ WtHalf \in 0..Len(s)
    <3>1. Len(s) \in Nat
      BY <1>1, <2>1, SeqFacts
    <3> QED BY <1>1, <1>7, <2>1, <3>1
  <2>3. PICK a, b : a = SubSeq(s, 1, WtHalf) /\ b = SubSeq(s, WtHalf + 1, Len(s))
    OBVIOUS
  <2>4. /\ a \in Seq(Descriptors) /\ b \in Seq(Descriptors) /\ Len(a) = WtHalf /\ Len(b) = Len(s) - WtHalf
        /\ \A y : In(s, y) <=> In(a, y) \/ In(b, y)
        /\ Once(a) /\ Once(b) /\ \A y : ~ (In(a, y) /\ In(b, y))
    BY <2>2, <2>3, CutInTwo
  <2>5. PICK h : h = W!Reverse(SubSeq(s, WtHalf + 1, 2 * WtHalf))
    OBVIOUS
  <2>6. h = T!Reverse(b)
    BY <2>2, <2>3, <2>5 DEF W!Reverse, T!Reverse
  <2>7. h \in Seq(Descriptors) /\ Len(h) = Len(b) /\ (\A y : In(h, y) <=> In(b, y)) /\ Once(h)
    BY <2>4, <2>6, Reversed
  <2>8. Len(h) = WtHalf /\ WtHalf \in 1..Len(h) /\ \A i \in 1..WtHalf : h[i] \in Descriptors
    <3>1. Len(h) = WtHalf
      BY <1>1, <2>2, <2>4, <2>7
    <3> QED BY <1>1, <2>7, <3>1, SeqFacts
  <2>9. PICK x : x = h[WtHalf]
    OBVIOUS
  <2>10. x \in Descriptors /\ In(h, x) /\ In(s, x) /\ Cached(cache, x) /\ x # w /\ ~ In(a, x)
    <3>1. x \in Descriptors /\ In(h, x)
      BY <2>8, <2>9 DEF In
    <3>2. In(s, x) /\ ~ In(a, x)
      BY <2>4, <2>7, <3>1
    <3> QED BY <1>4, <1>5, <2>1, <3>1, <3>2
  <2>11. link' = ChainLinks(h, w) /\ head' = x /\ cache' = [cache EXCEPT ![c] = Append(a, w)]
    <3>1. W!Transfer(s, c, w)
      BY <1>7, <2>1 DEF W!Release
    <3>2. link' = ChainLinks(W!Reverse(SubSeq(s, WtHalf + 1, 2 * WtHalf)), w)
      BY <3>1, Zenon DEF W!Transfer, ChainLinks
    <3>3. head' = W!Reverse(SubSeq(s, WtHalf + 1, 2 * WtHalf))[WtHalf] /\ cache' = [cache EXCEPT ![c] = Append(SubSeq(s, 1, WtHalf), w)]
      BY <3>1, Zenon DEF W!Transfer
    <3> QED BY <2>3, <2>5, <2>9, <3>2, <3>3
  <2>12. \A d \in Descriptors : d \in W!ToSet(h) <=> In(h, d)
    BY <2>7, SetOfW
  <2>13. link'[w] = Nil /\ \A d \in Descriptors : d # w /\ ~ In(h, d) => link'[d] = link[d]
    BY <2>11, <2>12 DEF ChainLinks
  <2>14. ASSUME NEW d \in Descriptors, d # w, In(h, d)
         PROVE  \E i \in 1..WtHalf : h[i] = d /\ link'[d] = IF i = WtHalf THEN head ELSE h[i + 1]
    <3>1. PICK i : i = CHOOSE j \in 1..WtHalf : h[j] = d
      OBVIOUS
    <3>2. \E j \in 1..WtHalf : h[j] = d
      BY <2>8, <2>14 DEF In
    <3>3. i \in 1..WtHalf /\ h[i] = d
      BY <3>1, <3>2
    <3>4. link'[d] = IF i = WtHalf THEN head ELSE h[i + 1]
      BY <2>11, <2>12, <2>14, <3>1 DEF ChainLinks
    <3> QED BY <3>3, <3>4
  <2>15. link'[x] = head
    <3>1. PICK i \in 1..WtHalf : h[i] = x /\ link'[x] = IF i = WtHalf THEN head ELSE h[i + 1]
      BY <2>10, <2>14
    <3>2. i = WtHalf
      BY <2>7, <2>8, <2>9, <3>1 DEF Once
    <3> QED BY <3>1, <3>2
  <2>16. link' \in [Descriptors -> Descriptors \cup {Nil}]
    <3>1. head \in Descriptors \cup {Nil}
      BY <1>3
    <3>2. ASSUME NEW d \in Descriptors PROVE link'[d] \in Descriptors \cup {Nil}
      <4>1. CASE d = w \/ ~ In(h, d)
        BY <1>1, <2>13, <4>1
      <4>2. CASE d # w /\ In(h, d)
        <5>1. PICK i \in 1..WtHalf : link'[d] = IF i = WtHalf THEN head ELSE h[i + 1]
          BY <2>14, <4>2
        <5>2. i # WtHalf => i + 1 \in 1..WtHalf
          BY <1>1
        <5> QED BY <2>8, <3>1, <5>1, <5>2
      <4> QED BY <4>1, <4>2
    <3>3. PICK l : l = link'
      OBVIOUS
    <3>4. DOMAIN l = Descriptors /\ l = [d \in Descriptors |-> l[d]]
      BY <2>11, <3>3 DEF ChainLinks
    <3> QED BY <3>2, <3>3, <3>4
  <2>17. PICK e : e = Append(a, w)
    OBVIOUS
  <2>18. e \in Seq(Descriptors) /\ Len(e) = Len(a) + 1 /\ (\A y : In(e, y) <=> y = w \/ In(a, y)) /\ Once(e)
    <3>1. ~ In(a, w)
      BY <1>4, <1>5, <2>1, <2>4
    <3> QED BY <2>4, <2>17, <3>1, AppendedTo
  <2>19. cache' = [cache EXCEPT ![c] = e]
    BY <2>11, <2>17
  <2>20. Len(e) <= 2 * WtHalf /\ \A v \in Descriptors : In(e, v) => In(cache[c], v) \/ ~ Cached(cache, v)
    <3>1. Len(e) <= 2 * WtHalf
      BY <1>1, <2>4, <2>18
    <3> QED BY <1>4, <2>1, <2>4, <2>18, <3>1
  <2>21. CachesOK(cache') /\ \A v \in Descriptors : Cached(cache', v) <=> (Cached(cache, v) /\ ~ In(cache[c], v)) \/ In(e, v)
    BY <1>1, <2>18, <2>19, <2>20, CacheMove
  <2>22. \A v \in Descriptors : Cached(cache', v) => v = w \/ (Cached(cache, v) /\ ~ In(h, v))
    BY <1>5, <2>1, <2>4, <2>7, <2>18, <2>21
  <2>23. \A v \in Descriptors : In(h, v) => Cached(cache, v)
    BY <1>5, <2>1, <2>4, <2>7
  <2>24. /\ \A v \in Descriptors : Cached(cache', v) => v \in made /\ v \notin held'
         /\ held' \subseteq made
    BY <1>1, <1>4, <2>22
  <2>25. ASSUME NEW v \in Descriptors, Cached(cache', v) \/ v \in held' \/ v \notin made PROVE link'[v] = Nil
    <3>1. CASE v = w
      BY <2>13, <3>1
    <3>2. CASE v # w
      <4>1. ~ In(h, v) /\ (Cached(cache, v) \/ v \in held \/ v \notin made)
        BY <1>1, <1>4, <2>22, <2>23, <2>25, <3>2
      <4> QED BY <1>1, <2>13, <3>2, <4>1
    <3> QED BY <3>1, <3>2
  <2>26. PICK f, l : f = T!Pushed(g, x) /\ l = link'
    OBVIOUS
  <2>27. GlobalList(f, x, l) /\ \A y : In(f, y) <=> y = x \/ In(g, y)
    <3>1. ~ In(g, x) /\ l[x] = head
      BY <1>3, <2>10, <2>15, <2>26
    <3>2. \A y \in Descriptors : In(g, y) => l[y] = link[y]
      BY <1>3, <1>4, <2>13, <2>23, <2>26
    <3> QED BY <1>2, <2>10, <2>26, <3>1, <3>2, PushGlobal
  <2>28. Apart(f, cache', held', made)
    <3>1. x \in made /\ x \notin held' /\ ~ Cached(cache', x)
      BY <1>1, <1>4, <2>10, <2>22
    <3>2. ASSUME NEW v \in Descriptors, In(g, v) PROVE v \in made /\ v \notin held' /\ ~ Cached(cache', v)
      BY <1>3, <1>4, <2>22, <3>2
    <3> QED BY <2>27, <3>1, <3>2 DEF Apart
  <2>29. GlobalList(f, head', link')
    BY <2>11, <2>26, <2>27
  <2> QED BY <1>1, <1>4, <2>16, <2>21, <2>24, <2>25, <2>28, <2>29 DEF WaitInv
<1> QED BY <1>6, <1>7

LEMMA WaitsStart == Init => WaitInv
<1> SUFFICES ASSUME W!Init PROVE WaitInv
  BY DEF Init
<1>1. PICK e : e = <<>>
  OBVIOUS
<1>2. e \in Seq(Descriptors) /\ Len(e) = 0 /\ Once(e) /\ \A x : ~ In(e, x)
  BY <1>1, NothingIn
<1>3. cache = [c \in Cpus |-> e] /\ head = Nil /\ link = [w \in Descriptors |-> Nil] /\ held = {} /\ made = {}
  BY <1>1 DEF W!Init
<1>4. CachesOK(cache) /\ \A w \in Descriptors : ~ Cached(cache, w)
  <2>1. WtHalf \in Nat
    BY ResourcesAssumption
  <2> QED BY <1>2, <1>3, <2>1 DEF CachesOK, Cached
<1>5. GlobalList(e, head, link) /\ Apart(e, cache, held, made)
  BY <1>2, <1>3 DEF GlobalList, Apart
<1>6. link \in [Descriptors -> Descriptors \cup {Nil}] /\ \A w \in Descriptors : link[w] = Nil
  BY <1>3
<1> QED BY <1>3, <1>4, <1>5, <1>6 DEF WaitInv

LEMMA WaitsStep == WaitInv /\ [Next]_vars => WaitInv'
<1> SUFFICES ASSUME WaitInv, [Next]_vars PROVE WaitInv'
  OBVIOUS
<1>1. CASE W!Next
  <2>1. ASSUME NEW c \in Cpus, W!Acquire(c) PROVE WaitInv'
    <3>1. CASE W!Refill(c)
      BY <3>1, RefillKeeps
    <3>2. CASE Pop(c)
      BY <3>2, PopKeeps
    <3>3. W!Refill(c) \/ Pop(c)
      BY <2>1 DEF W!Acquire, Pop
    <3> QED BY <3>1, <3>2, <3>3
  <2>2. ASSUME NEW c \in Cpus, NEW w \in Descriptors, W!Release(c, w) PROVE WaitInv'
    BY <2>2, ReleaseWaitKeeps
  <2> QED BY <1>1, <2>1, <2>2 DEF W!Next
<1>2. CASE UNCHANGED wvars
  BY <1>2 DEF wvars, WaitInv
<1>3. W!Next \/ UNCHANGED wvars
  BY DEF Next, vars, wvars
<1> QED BY <1>1, <1>2, <1>3

LEMMA WaitInvIsEnough ==
    ASSUME WaitInv
    PROVE  W!WaitersGetCleanDescriptors
<1>1. /\ CachesOK(cache) /\ cache \in [Cpus -> Seq(Descriptors)] /\ Nil \notin Descriptors
      /\ held \subseteq Descriptors
      /\ \A w \in Descriptors : Cached(cache, w) => w \notin held
      /\ \A w \in Descriptors : Cached(cache, w) \/ w \in held => link[w] = Nil
  BY ResourcesAssumption DEF WaitInv, CachesOK
<1>2. PICK g : GlobalList(g, head, link) /\ Apart(g, cache, held, made)
  BY DEF WaitInv
<1>3. g \in Seq(Descriptors) /\ Len(g) \in Nat
  BY <1>2, SeqFacts DEF GlobalList
<1>4. PICK free : free = UNION {W!ToSet(cache[c]) : c \in Cpus}
  OBVIOUS
<1>5. \A w : w \in free <=> Cached(cache, w)
  <2>1. ASSUME NEW c \in Cpus, NEW w PROVE w \in W!ToSet(cache[c]) <=> In(cache[c], w)
    <3>1. cache[c] \in Seq(Descriptors)
      BY <1>1
    <3> QED BY <3>1, SetOfW
  <2> QED BY <1>4, <2>1 DEF Cached
<1>6. free \subseteq Descriptors
  <2>1. ASSUME NEW w \in free PROVE w \in Descriptors
    <3>1. PICK c \in Cpus : In(cache[c], w)
      BY <1>5 DEF Cached
    <3>2. cache[c] \in Seq(Descriptors)
      BY <1>1
    <3> QED BY <3>1, <3>2, InSeq
  <2> QED BY <2>1
<1>7. \A w \in W!Chain : w \in Descriptors /\ In(g, w)
  <2>1. PICK k : k = W!Cardinality(Descriptors)
    OBVIOUS
  <2>2. k \in Nat
    <3>1. W!Cardinality(Descriptors) = Cardinality(Descriptors)
      BY Zenon DEF Cardinality, W!Cardinality
    <3>2. Cardinality(Descriptors) \in Nat
      BY ResourcesAssumption, FS_CardinalityType
    <3> QED BY <2>1, <3>1, <3>2
  <2>3. PICK n, s : n = (IF k <= Len(g) THEN k ELSE Len(g)) /\ s = SubSeq(g, 1, n)
    OBVIOUS
  <2>4. W!FirstOf[k] = s /\ n \in 0..Len(g)
    BY <1>1, <1>2, <1>3, <2>2, <2>3, FirstOfIs
  <2>5. s \in Seq(Descriptors) /\ \A x : In(s, x) => In(g, x)
    BY <1>3, <2>3, <2>4, CutInTwo
  <2>6. ASSUME NEW w \in W!Chain PROVE w \in Descriptors /\ In(g, w)
    <3>1. w \in W!ToSet(s)
      BY <2>1, <2>4, <2>6 DEF W!Chain
    <3>2. In(s, w)
      BY <2>5, <3>1, SetOfW
    <3> QED BY <2>5, <3>2, InSeq
  <2> QED BY <2>6
<1>8. /\ \A w \in W!Chain : w \notin held /\ w \notin free
      /\ \A w \in held : w \notin free
  BY <1>1, <1>2, <1>5, <1>7 DEF Apart
<1>9. ASSUME NEW c \in Cpus, NEW d \in Cpus, NEW i \in DOMAIN cache[c], NEW j \in DOMAIN cache[d], cache[c][i] = cache[d][j]
      PROVE  c = d /\ i = j
  <2>1. i \in 1..Len(cache[c]) /\ j \in 1..Len(cache[d]) /\ cache[c][i] \in Descriptors
    <3>1. cache[c] \in Seq(Descriptors) /\ cache[d] \in Seq(Descriptors)
      BY <1>1
    <3> QED BY <3>1, LenProperties, SeqFacts
  <2>2. In(cache[c], cache[c][i]) /\ In(cache[d], cache[c][i])
    BY <1>9, <2>1 DEF In
  <2>3. c = d
    BY <1>1, <2>1, <2>2 DEF CachesOK
  <2> QED BY <1>1, <1>9, <2>1, <2>3 DEF CachesOK, Once
<1>10. (\A w \in held \union free : link[w] = Nil) /\ \A c \in Cpus : Len(cache[c]) <= 2 * WtHalf
  BY <1>1, <1>5, <1>6 DEF CachesOK
<1>11. held \intersect (free \union W!Chain) = {} /\ free \intersect W!Chain = {}
  BY <1>8
<1> QED BY <1>4, <1>9, <1>10, <1>11 DEF W!WaitersGetCleanDescriptors

\* A wait descriptor is never handed out twice, and always clean, for every
\* number of CPUs and descriptors and every length of the arrays, although a
\* transfer links its half by the wrong end (kernel/thread/thread.c).
THEOREM WaitersAlwaysGetCleanDescriptors == Spec => []WaitersGetCleanDescriptors
<1>1. WaitInv => WaitersGetCleanDescriptors
  BY WaitInvIsEnough DEF WaitersGetCleanDescriptors
<1> QED BY <1>1, WaitsStart, WaitsStep, PTL DEF Spec

(***************************************************************************)
(* Drivers                                                                 *)
(***************************************************************************)

Fs == D!Functions2
Work == {"reset", "features", "msix", "queue", "ok", "noQueue", "read", "notify", "wait", "drain", "done", "threw"}
MainRec == [at : {"scan", "offer"} \cup Work, i : Nat, fn : {0, 1}]

\* What the scan is to find, and what of it comes before function n of device i.
Found(ki, mu, f) == ki[f] # "absent" /\ (f[2] = 1 => mu[f[1]] /\ ki[<<f[1], 0>>] # "absent")
Reached(f, i, n) == f[1] < i \/ (f[1] = i /\ f[2] < n)

Scanning(ki, mu, re, m) ==
    /\ m.i \in 1..Slots + 1
    /\ m.fn = 1 => m.i <= Slots /\ mu[m.i] /\ ki[<<m.i, 0>>] # "absent"
    /\ \A f \in Fs : In(re, f) <=> Found(ki, mu, f) /\ Reached(f, m.i, m.fn)

\* f stands at a place of s from m on, or before m.
Later(s, f, m) == \E j \in 1..Len(s) : j >= m /\ s[j] = f
Sooner(s, f, m) == \E j \in 1..Len(s) : j < m /\ s[j] = f

\* The functions found have been offered or stand behind the one that is on
\* offer; those before it have been offered and left where they are.
Offering(ki, mu, re, of, i, k) ==
    /\ i \in 1..Len(re) + 1
    /\ k > i => i <= Len(re) /\ ki[re[i]] = "block"
    /\ \A f \in Fs :
          /\ Found(ki, mu, f) <=> In(of, f) \/ Later(re, f, k)
          /\ ~ (In(of, f) /\ Later(re, f, k))
          /\ In(of, f) /\ ki[f] # "block" <=> Sooner(re, f, i)

Mark(m) == IF m.at = "offer" THEN m.i ELSE m.i + 1

BusInv ==
    /\ kind \in [Fs -> D!Kinds] /\ multi \in [1..Slots -> BOOLEAN] /\ main \in MainRec
    /\ resources \in Seq(Fs) /\ Once(resources) /\ offered \in Seq(Fs) /\ Once(offered)
    /\ main.at = "scan" => offered = <<>> /\ Scanning(kind, multi, resources, main)
    /\ main.at # "scan" => Offering(kind, multi, resources, offered, main.i, Mark(main))

\* The elements after the removal of the i-th.
LEMMA RemovedAt ==
    ASSUME NEW S, NEW s \in Seq(S), NEW i \in 1..Len(s), NEW r, r = D!RemoveAt(s, i)
    PROVE  /\ r \in Seq(S) /\ Len(r) = Len(s) - 1
           /\ \A j \in 1..Len(r) : r[j] = IF j < i THEN s[j] ELSE s[j + 1]
           /\ Once(s) => Once(r)
<1>1. Len(s) \in Nat /\ \A j \in 1..Len(s) : s[j] \in S
  BY SeqFacts
<1>2. PICK a, b : a = SubSeq(s, 1, i - 1) /\ b = SubSeq(s, i + 1, Len(s))
  OBVIOUS
<1>3. i \in Nat /\ i - 1 \in Nat /\ i - 1 \in 0..Len(s) /\ i + 1 \in Nat
  BY <1>1
<1>4. a \in Seq(S) /\ Len(a) = i - 1 /\ \A j \in 1..i - 1 : a[j] = s[j]
  <2>1. \A j \in 1..(i - 1) : s[j] \in S
    BY <1>1, <1>3
  <2>2. /\ a \in Seq(S) /\ Len(a) = (IF 1 <= i - 1 THEN i - 1 - 1 + 1 ELSE 0)
        /\ \A j \in 1..(i - 1 - 1 + 1) : a[j] = s[1 + j - 1]
    BY <1>2, <1>3, <2>1, SubSeqProperties
  <2>3. i - 1 - 1 + 1 = i - 1 /\ \A j \in 1..i - 1 : 1 + j - 1 = j
    BY <1>3
  <2> QED BY <1>3, <2>2, <2>3
<1>5. b \in Seq(S) /\ Len(b) = Len(s) - i /\ \A j \in 1..Len(s) - i : b[j] = s[i + j]
  <2>1. \A j \in (i + 1)..Len(s) : s[j] \in S
    BY <1>1, <1>3
  <2>2. /\ b \in Seq(S) /\ Len(b) = (IF i + 1 <= Len(s) THEN Len(s) - (i + 1) + 1 ELSE 0)
        /\ \A j \in 1..(Len(s) - (i + 1) + 1) : b[j] = s[i + 1 + j - 1]
    BY <1>1, <1>2, <1>3, <2>1, SubSeqProperties
  <2>3. Len(s) - (i + 1) + 1 = Len(s) - i /\ \A j \in 1..Len(s) - i : i + 1 + j - 1 = i + j
    BY <1>1, <1>3
  <2>4. Len(b) = Len(s) - i
    <3>1. Len(b) = (IF i + 1 <= Len(s) THEN Len(s) - (i + 1) + 1 ELSE 0)
      BY <2>2
    <3>2. i <= Len(s) /\ i \in Nat /\ Len(s) \in Nat
      BY <1>1
    <3> QED BY <3>1, <3>2
  <2>5. \A j \in 1..Len(s) - i : b[j] = s[i + j]
    BY <2>2, <2>3
  <2> QED BY <2>2, <2>4, <2>5
<1>6. r = a \o b
  BY <1>2 DEF D!RemoveAt
<1>7. /\ r \in Seq(S) /\ Len(r) = Len(a) + Len(b)
      /\ \A j \in 1..(Len(a) + Len(b)) : r[j] = IF j <= Len(a) THEN a[j] ELSE b[j - Len(a)]
  <2>1. a \in Seq(S) /\ b \in Seq(S)
    BY <1>4, <1>5
  <2> QED BY <1>6, <2>1, ConcatProperties
<1>8. Len(r) = Len(s) - 1
  BY <1>1, <1>3, <1>4, <1>5, <1>7
<1>9. ASSUME NEW j \in 1..Len(r) PROVE r[j] = IF j < i THEN s[j] ELSE s[j + 1]
  <2>1. r[j] = IF j <= i - 1 THEN a[j] ELSE b[j - (i - 1)]
    BY <1>4, <1>7
  <2>2. CASE j < i
    <3>1. j \in 1..i - 1
      BY <1>3, <1>8, <2>2
    <3> QED BY <1>3, <1>4, <2>1, <2>2, <3>1
  <2>3. CASE ~ (j < i)
    <3>1. j - (i - 1) \in 1..Len(s) - i /\ i + (j - (i - 1)) = j + 1 /\ ~ (j <= i - 1)
      BY <1>1, <1>3, <1>8, <2>3
    <3>2. b[j - (i - 1)] = s[j + 1]
      BY <1>5, <3>1
    <3> QED BY <2>1, <2>3, <3>1, <3>2
  <2> QED BY <2>2, <2>3
<1>10. ASSUME Once(s) PROVE Once(r)
  <2>1. ASSUME NEW j \in 1..Len(r), NEW k \in 1..Len(r), r[j] = r[k] PROVE j = k
    <3>1. PICK x, y : x = (IF j < i THEN j ELSE j + 1) /\ y = (IF k < i THEN k ELSE k + 1)
      OBVIOUS
    <3>2. x \in 1..Len(s) /\ y \in 1..Len(s) /\ (x = y => j = k)
      BY <1>1, <1>3, <1>8, <3>1
    <3>3. r[j] = s[x] /\ r[k] = s[y]
      BY <1>9, <3>1
    <3> QED BY <1>10, <2>1, <3>2, <3>3 DEF Once
  <2> QED BY <2>1 DEF Once
<1> QED BY <1>7, <1>8, <1>9, <1>10

\* A sequence without repetitions has as many elements as places.
LEMMA OnceCardinality ==
    ASSUME NEW S, NEW s \in Seq(S), Once(s), NEW X, \A x : x \in X <=> In(s, x)
    PROVE  IsFiniteSet(X) /\ Cardinality(X) = Len(s)
<1>1. Len(s) \in Nat /\ DOMAIN s = 1..Len(s)
  BY LenProperties
<1>2. s \in Bijection(1..Len(s), X)
  <2>1. s \in [1..Len(s) -> X]
    <3>1. \A i \in 1..Len(s) : s[i] \in X
      BY DEF In
    <3>2. s = [i \in 1..Len(s) |-> s[i]]
      BY LenProperties
    <3> QED BY <3>1, <3>2
  <2>2. \A i, j \in 1..Len(s) : s[i] = s[j] => i = j
    BY DEF Once
  <2>3. \A x \in X : \E i \in 1..Len(s) : s[i] = x
    BY DEF In
  <2> QED BY <2>1, <2>2, <2>3 DEF Bijection, Injection, Surjection, IsInjective
<1>3. ExistsBijection(1..Len(s), X)
  BY <1>2 DEF ExistsBijection
<1> QED BY <1>1, <1>3, FS_CountingElements, FS_NatBijection

LEMMA FunctionIs ==
    /\ \A f \in Fs : f[1] \in 1..Slots /\ f[2] \in {0, 1} /\ f = <<f[1], f[2]>>
    /\ \A i \in 1..Slots, n \in {0, 1} : <<i, n>> \in Fs /\ <<i, n>>[1] = i /\ <<i, n>>[2] = n
    /\ Slots \in Nat
BY ResourcesAssumption DEF Fs, D!Functions2

LEMMA BusStart == Init => BusInv
<1> SUFFICES ASSUME D!Init PROVE BusInv
  BY DEF Init
<1>1. /\ kind \in [Fs -> D!Kinds] /\ multi \in [1..Slots -> BOOLEAN] /\ main = [at |-> "scan", i |-> 1, fn |-> 0]
      /\ resources = <<>> /\ offered = <<>>
  BY DEF D!Init, Fs
<1>2. main \in MainRec /\ main.at = "scan" /\ main.i = 1 /\ main.fn = 0
  BY <1>1 DEF MainRec
<1>3. resources \in Seq(Fs) /\ Once(resources) /\ offered \in Seq(Fs) /\ Once(offered) /\ \A f : ~ In(resources, f)
  <2>1. <<>> \in Seq(Fs)
    OBVIOUS
  <2> QED BY <1>1, <2>1, NothingIn
<1>4. \A f \in Fs : ~ Reached(f, 1, 0)
  BY FunctionIs DEF Reached
<1>5. Scanning(kind, multi, resources, main)
  BY <1>2, <1>3, <1>4, FunctionIs DEF Scanning
<1> QED BY <1>1, <1>2, <1>3, <1>5 DEF BusInv

LEMMA ScanKeeps ==
    ASSUME BusInv, D!Scan
    PROVE  BusInv'
<1>1. /\ kind \in [Fs -> D!Kinds] /\ multi \in [1..Slots -> BOOLEAN] /\ main \in MainRec
      /\ resources \in Seq(Fs) /\ Once(resources) /\ offered \in Seq(Fs) /\ Once(offered)
      /\ main.at = "scan" /\ offered = <<>> /\ Scanning(kind, multi, resources, main)
      /\ kind' = kind /\ multi' = multi /\ offered' = offered
  BY DEF BusInv, D!Scan, D!At
<1>2. PICK i, n, f : i = main.i /\ n = main.fn /\ f = <<i, n>>
  OBVIOUS
<1>3. PICK others : others = (n = 0 /\ kind[f] # "absent" /\ multi[i])
  OBVIOUS
<1>4. /\ i <= Slots
      /\ resources' = IF kind[f] = "absent" THEN resources ELSE Append(resources, f)
      /\ main' = IF others THEN [main EXCEPT !.fn = 1] ELSE [main EXCEPT !.i = @ + 1, !.fn = 0]
  BY <1>2, <1>3 DEF D!Scan
<1>5. i \in 1..Slots /\ n \in {0, 1} /\ f \in Fs /\ f[1] = i /\ f[2] = n
  <2>1. i \in 1..Slots
    BY <1>1, <1>2, <1>4, FunctionIs DEF Scanning
  <2>2. n \in {0, 1}
    BY <1>1, <1>2 DEF MainRec
  <2> QED BY <1>2, <2>1, <2>2, FunctionIs
<1>6. /\ n = 1 => multi[i] /\ kind[<<i, 0>>] # "absent"
      /\ \A g \in Fs : In(resources, g) <=> Found(kind, multi, g) /\ Reached(g, i, n)
  BY <1>1, <1>2 DEF Scanning
<1>7. Found(kind, multi, f) <=> kind[f] # "absent"
  BY <1>5, <1>6 DEF Found
<1>8. ~ In(resources, f)
  <2>1. ~ Reached(f, i, n)
    BY <1>5 DEF Reached
  <2> QED BY <1>5, <1>6, <2>1
<1>9. /\ resources' \in Seq(Fs) /\ Once(resources')
      /\ \A g \in Fs : In(resources', g) <=> In(resources, g) \/ (g = f /\ kind[f] # "absent")
  <2>1. CASE kind[f] = "absent"
    BY <1>1, <1>4, <2>1
  <2>2. CASE kind[f] # "absent"
    BY <1>1, <1>4, <1>5, <1>8, <2>2, AppendedTo
  <2> QED BY <2>1, <2>2
<1>10. CASE others
  <2>1. main' = [main EXCEPT !.fn = 1] /\ n = 0 /\ multi[i] /\ kind[f] # "absent" /\ f = <<i, 0>>
    BY <1>2, <1>3, <1>4, <1>10
  <2>2. main' \in MainRec /\ main'.at = "scan" /\ main'.i = i /\ main'.fn = 1
    BY <1>1, <1>2, <2>1 DEF MainRec
  <2>3. \A g \in Fs : Reached(g, i, 1) <=> Reached(g, i, 0) \/ g = f
    BY <1>5, <2>1, FunctionIs DEF Reached
  <2>4. \A g \in Fs : In(resources', g) <=> Found(kind, multi, g) /\ Reached(g, i, 1)
    BY <1>6, <1>7, <1>9, <2>1, <2>3
  <2>5. Scanning(kind, multi, resources', main')
    <3>1. i \in 1..Slots + 1 /\ i <= Slots
      BY <1>5, FunctionIs
    <3> QED BY <2>1, <2>2, <2>4, <3>1 DEF Scanning
  <2> QED BY <1>1, <1>9, <2>2, <2>5 DEF BusInv
<1>11. CASE ~ others
  <2>1. main' = [main EXCEPT !.i = i + 1, !.fn = 0]
    BY <1>2, <1>4, <1>11
  <2>2. main' \in MainRec /\ main'.at = "scan" /\ main'.i = i + 1 /\ main'.fn = 0
    <3>1. PICK at : main = [at |-> at, i |-> i, fn |-> n] /\ at = "scan"
      BY <1>1, <1>2 DEF MainRec
    <3>2. main' = [at |-> "scan", i |-> i + 1, fn |-> 0]
      BY <2>1, <3>1
    <3>3. i + 1 \in Nat
      BY <1>5
    <3> QED BY <3>2, <3>3 DEF MainRec
  <2>3. \A g \in Fs : Reached(g, i + 1, 0) <=> Reached(g, i, n) \/ g = f \/ (n = 0 /\ g = <<i, 1>>)
    <3>1. ASSUME NEW g \in Fs PROVE Reached(g, i + 1, 0) <=> Reached(g, i, n) \/ g = f \/ (n = 0 /\ g = <<i, 1>>)
      <4>1. PICK x, y : x = g[1] /\ y = g[2]
        OBVIOUS
      <4>2. x \in Nat /\ y \in {0, 1} /\ i \in Nat /\ g = <<x, y>> /\ f = <<i, n>>
        BY <1>2, <1>5, <4>1, FunctionIs
      <4>3. (g = f <=> x = i /\ y = n) /\ (g = <<i, 1>> <=> x = i /\ y = 1)
        BY <4>2
      <4>4. (Reached(g, i + 1, 0) <=> x <= i) /\ (Reached(g, i, n) <=> x < i \/ (x = i /\ y < n))
        BY <4>1, <4>2 DEF Reached
      <4> QED BY <1>5, <4>2, <4>3, <4>4
    <3> QED BY <3>1
  <2>4. n = 0 => ~ Found(kind, multi, <<i, 1>>)
    <3>1. <<i, 1>>[1] = i /\ <<i, 1>>[2] = 1
      BY <1>5, FunctionIs
    <3> QED BY <1>2, <1>3, <1>11, <3>1 DEF Found
  <2>5. \A g \in Fs : In(resources', g) <=> Found(kind, multi, g) /\ Reached(g, i + 1, 0)
    BY <1>6, <1>7, <1>9, <2>3, <2>4
  <2>6. Scanning(kind, multi, resources', main')
    <3>1. i + 1 \in 1..Slots + 1
      BY <1>5, FunctionIs
    <3> QED BY <2>2, <2>5, <3>1 DEF Scanning
  <2> QED BY <1>1, <1>9, <2>2, <2>6 DEF BusInv
<1> QED BY <1>10, <1>11

LEMMA RegisterKeeps ==
    ASSUME BusInv, D!Register
    PROVE  BusInv'
<1>1. /\ kind \in [Fs -> D!Kinds] /\ multi \in [1..Slots -> BOOLEAN] /\ main \in MainRec
      /\ resources \in Seq(Fs) /\ Once(resources) /\ offered \in Seq(Fs) /\ Once(offered)
      /\ main.at = "scan" /\ offered = <<>> /\ Scanning(kind, multi, resources, main)
      /\ kind' = kind /\ multi' = multi /\ offered' = offered /\ resources' = resources
      /\ main.i > Slots /\ main' = [at |-> "offer", i |-> 1, fn |-> 0]
  BY DEF BusInv, D!Register, D!At, D!scan
<1>2. main' \in MainRec /\ main'.at = "offer" /\ main'.i = 1 /\ Mark(main') = 1
  BY <1>1 DEF MainRec, Mark
<1>3. \A f \in Fs : In(resources, f) <=> Found(kind, multi, f)
  <2>1. \A f \in Fs : Reached(f, main.i, main.fn)
    BY <1>1, FunctionIs DEF Reached, Scanning
  <2> QED BY <1>1, <2>1 DEF Scanning
<1>4. Len(resources) \in Nat /\ \A f : ~ In(offered, f)
  BY <1>1, SeqFacts, NothingIn
<1>5. \A f \in Fs : (Later(resources, f, 1) <=> In(resources, f)) /\ ~ Sooner(resources, f, 1)
  BY <1>4 DEF Later, Sooner, In
<1>6. Offering(kind, multi, resources, offered, 1, 1)
  BY <1>3, <1>4, <1>5 DEF Offering
<1> QED BY <1>1, <1>2, <1>6 DEF BusInv

LEMMA OfferKeeps ==
    ASSUME BusInv, D!Offer
    PROVE  BusInv'
<1>1. /\ kind \in [Fs -> D!Kinds] /\ multi \in [1..Slots -> BOOLEAN] /\ main \in MainRec
      /\ resources \in Seq(Fs) /\ Once(resources) /\ offered \in Seq(Fs) /\ Once(offered)
      /\ main.at = "offer" /\ Offering(kind, multi, resources, offered, main.i, Mark(main))
      /\ kind' = kind /\ multi' = multi /\ resources' = resources
      /\ main.i <= Len(resources)
  BY DEF BusInv, D!Offer, D!At
<1>2. PICK i, f : i = main.i /\ f = resources[i]
  OBVIOUS
<1>3. /\ offered' = Append(offered, f)
      /\ IF kind[f] = "block" THEN main' = [main EXCEPT !.at = "reset"] ELSE main' = [main EXCEPT !.i = i + 1]
  BY <1>2 DEF D!Offer, D!Goto
<1>4. i \in Nat /\ i \in 1..Len(resources) /\ Len(resources) \in Nat /\ f \in Fs
  BY <1>1, <1>2, SeqFacts DEF Offering, MainRec
<1>5. Offering(kind, multi, resources, offered, i, i)
  BY <1>1, <1>2 DEF Mark
<1>6. Later(resources, f, i) /\ ~ Later(resources, f, i + 1) /\ ~ Sooner(resources, f, i)
  BY <1>1, <1>2, <1>4 DEF Later, Sooner, Once
<1>7. \A g \in Fs : (Later(resources, g, i) <=> Later(resources, g, i + 1) \/ g = f)
  BY <1>2, <1>4 DEF Later
<1>8. \A g \in Fs : (Sooner(resources, g, i + 1) <=> Sooner(resources, g, i) \/ g = f)
  BY <1>2, <1>4 DEF Sooner
<1>9. /\ offered' \in Seq(Fs) /\ Once(offered') /\ ~ In(offered, f)
      /\ \A g : In(offered', g) <=> g = f \/ In(offered, g)
  <2>1. ~ In(offered, f)
    BY <1>4, <1>5, <1>6 DEF Offering
  <2> QED BY <1>1, <1>3, <1>4, <2>1, AppendedTo
<1>10. CASE kind[f] = "block"
  <2>1. main' \in MainRec /\ main'.at = "reset" /\ main'.i = i /\ Mark(main') = i + 1
    BY <1>1, <1>2, <1>3, <1>10 DEF MainRec, Work, Mark
  <2>2. ASSUME NEW g \in Fs
        PROVE  /\ Found(kind, multi, g) <=> In(offered', g) \/ Later(resources, g, i + 1)
               /\ ~ (In(offered', g) /\ Later(resources, g, i + 1))
               /\ In(offered', g) /\ kind[g] # "block" <=> Sooner(resources, g, i)
    BY <1>5, <1>6, <1>7, <1>9, <1>10 DEF Offering
  <2>3. i \in 1..Len(resources) + 1 /\ (i + 1 > i => i <= Len(resources) /\ kind[resources[i]] = "block")
    BY <1>2, <1>4, <1>10
  <2>4. Offering(kind, multi, resources, offered', i, i + 1)
    BY <2>2, <2>3 DEF Offering
  <2> QED BY <1>1, <1>9, <2>1, <2>4 DEF BusInv
<1>11. CASE kind[f] # "block"
  <2>1. main' \in MainRec /\ main'.at = "offer" /\ main'.i = i + 1 /\ Mark(main') = i + 1
    BY <1>1, <1>2, <1>3, <1>11 DEF MainRec, Mark
  <2>2. ASSUME NEW g \in Fs
        PROVE  /\ Found(kind, multi, g) <=> In(offered', g) \/ Later(resources, g, i + 1)
               /\ ~ (In(offered', g) /\ Later(resources, g, i + 1))
               /\ In(offered', g) /\ kind[g] # "block" <=> Sooner(resources, g, i + 1)
    BY <1>5, <1>6, <1>7, <1>8, <1>9, <1>11 DEF Offering
  <2>3. i + 1 \in 1..Len(resources) + 1 /\ ~ (i + 1 > i + 1)
    BY <1>4
  <2>4. Offering(kind, multi, resources, offered', i + 1, i + 1)
    BY <2>2, <2>3 DEF Offering
  <2> QED BY <1>1, <1>9, <2>1, <2>4 DEF BusInv
<1> QED BY <1>10, <1>11

LEMMA TakenKeeps ==
    ASSUME BusInv, D!Taken
    PROVE  BusInv'
<1>1. /\ kind \in [Fs -> D!Kinds] /\ multi \in [1..Slots -> BOOLEAN] /\ main \in MainRec
      /\ resources \in Seq(Fs) /\ Once(resources) /\ offered \in Seq(Fs) /\ Once(offered)
      /\ main.at = "done" /\ Offering(kind, multi, resources, offered, main.i, Mark(main))
      /\ kind' = kind /\ multi' = multi /\ offered' = offered
  BY DEF BusInv, D!Taken, D!At
<1>2. PICK i : i = main.i
  OBVIOUS
<1>3. PICK r : r = resources'
  OBVIOUS
<1>4. r = D!RemoveAt(resources, i) /\ main' = [at |-> "offer", i |-> i, fn |-> 0]
  BY <1>2, <1>3 DEF D!Taken
<1>5. i \in Nat /\ Offering(kind, multi, resources, offered, i, i + 1)
  BY <1>1, <1>2 DEF MainRec, Mark
<1>6. Len(resources) \in Nat /\ i \in 1..Len(resources)
  BY <1>1, <1>5, SeqFacts DEF Offering
<1>7. /\ r \in Seq(Fs) /\ Len(r) = Len(resources) - 1 /\ Once(r)
      /\ \A j \in 1..Len(r) : r[j] = IF j < i THEN resources[j] ELSE resources[j + 1]
  BY <1>1, <1>4, <1>6, RemovedAt
<1>8. main' \in MainRec /\ main'.at = "offer" /\ main'.i = i /\ Mark(main') = i
  BY <1>4, <1>5 DEF MainRec, Mark
<1>9. ASSUME NEW f PROVE (Later(r, f, i) <=> Later(resources, f, i + 1)) /\ (Sooner(r, f, i) <=> Sooner(resources, f, i))
  <2>1. ASSUME Later(r, f, i) PROVE Later(resources, f, i + 1)
    <3>1. PICK j \in 1..Len(r) : j >= i /\ r[j] = f
      BY <2>1 DEF Later
    <3>2. j + 1 \in 1..Len(resources) /\ j + 1 >= i + 1 /\ resources[j + 1] = f
      BY <1>6, <1>7, <3>1
    <3> QED BY <3>2 DEF Later
  <2>2. ASSUME Later(resources, f, i + 1) PROVE Later(r, f, i)
    <3>1. PICK j \in 1..Len(resources) : j >= i + 1 /\ resources[j] = f
      BY <2>2 DEF Later
    <3>2. PICK k : k = j - 1
      OBVIOUS
    <3>3. k \in 1..Len(r) /\ k >= i /\ ~ (k < i) /\ k + 1 = j
      BY <1>6, <1>7, <3>1, <3>2
    <3>4. r[k] = f
      BY <1>7, <3>1, <3>3
    <3> QED BY <3>3, <3>4 DEF Later
  <2>3. ASSUME Sooner(r, f, i) PROVE Sooner(resources, f, i)
    <3>1. PICK j \in 1..Len(r) : j < i /\ r[j] = f
      BY <2>3 DEF Sooner
    <3>2. j \in 1..Len(resources) /\ resources[j] = f
      BY <1>6, <1>7, <3>1
    <3> QED BY <3>1, <3>2 DEF Sooner
  <2>4. ASSUME Sooner(resources, f, i) PROVE Sooner(r, f, i)
    <3>1. PICK j \in 1..Len(resources) : j < i /\ resources[j] = f
      BY <2>4 DEF Sooner
    <3>2. j \in 1..Len(r)
      BY <1>6, <1>7, <3>1
    <3>3. r[j] = f
      BY <1>7, <3>1, <3>2
    <3> QED BY <3>1, <3>2, <3>3 DEF Sooner
  <2> QED BY <2>1, <2>2, <2>3, <2>4
<1>10. i \in 1..Len(r) + 1 /\ ~ (i > i)
  BY <1>6, <1>7
<1>11. Offering(kind, multi, r, offered, i, i)
  BY <1>5, <1>9, <1>10 DEF Offering
<1> QED BY <1>1, <1>3, <1>7, <1>8, <1>11 DEF BusInv

\* The steps between the offer of a block device and the return of its constructor.
Works == \E l \in Work : main.at \in Work /\ D!Goto(l)

LEMMA WorkIs ==
    ASSUME D!Reset \/ D!Features \/ D!Configure \/ D!QueueSetup \/ D!DriverOk \/ D!Read \/ D!Notify \/ D!Wait
           \/ D!Drain \/ D!Constructed \/ D!DeviceTakes \/ D!DeviceReturns
    PROVE  UNCHANGED <<kind, multi, resources, offered>> /\ (Works \/ UNCHANGED main)
<1>1. UNCHANGED <<kind, multi, resources, offered>>
  BY DEF D!Reset, D!Features, D!Configure, D!QueueSetup, D!DriverOk, D!Read, D!Notify, D!Wait,
         D!Drain, D!Constructed, D!DeviceTakes, D!DeviceReturns, D!scan
<1>2. CASE D!Reset \/ D!Features \/ D!Configure \/ D!Notify \/ D!Wait \/ D!Constructed
  <2>1. /\ main.at \in {"reset", "features", "msix", "notify", "wait", "read"}
        /\ \/ D!Goto("features") \/ D!Goto("msix") \/ D!Goto("queue") \/ D!Goto("wait")
           \/ D!Goto("drain") \/ D!Goto("done") \/ D!Goto("threw")
    BY <1>2 DEF D!Reset, D!Features, D!Configure, D!Notify, D!Wait, D!Constructed, D!At
  <2> QED BY <1>1, <2>1 DEF Works, Work
<1>3. CASE D!QueueSetup
  <2>1. main.at = "queue" /\ (D!Goto("ok") \/ D!Goto("noQueue"))
    BY <1>3 DEF D!QueueSetup, D!At
  <2> QED BY <1>1, <2>1 DEF Works, Work
<1>4. CASE D!DriverOk
  <2>1. main.at \in {"ok", "noQueue"} /\ (D!Goto("read") \/ D!Goto("threw"))
    BY <1>4 DEF D!DriverOk, D!At
  <2> QED BY <1>1, <2>1 DEF Works, Work
<1>5. CASE D!Read
  <2>1. main.at = "read" /\ (D!Goto("threw") \/ D!Goto("notify"))
    BY <1>5 DEF D!Read, D!At
  <2> QED BY <1>1, <2>1 DEF Works, Work
<1>6. CASE D!Drain
  <2>1. main.at = "drain" /\ (D!Goto("threw") \/ D!Goto("read") \/ UNCHANGED main)
    BY <1>6 DEF D!Drain, D!At
  <2> QED BY <1>1, <2>1 DEF Works, Work
<1>7. CASE D!DeviceTakes \/ D!DeviceReturns
  BY <1>1, <1>7 DEF D!DeviceTakes, D!DeviceReturns
<1> QED BY <1>1, <1>2, <1>3, <1>4, <1>5, <1>6, <1>7

LEMMA BusStep == BusInv /\ [Next]_vars => BusInv'
<1> SUFFICES ASSUME BusInv, [Next]_vars PROVE BusInv'
  OBVIOUS
<1>1. CASE D!Scan \/ D!Register \/ D!Offer \/ D!Taken
  BY <1>1, ScanKeeps, RegisterKeeps, OfferKeeps, TakenKeeps
<1>2. ASSUME UNCHANGED <<kind, multi, resources, offered>>, Works \/ UNCHANGED main PROVE BusInv'
  <2>1. CASE UNCHANGED main
    BY <1>2, <2>1 DEF BusInv
  <2>2. CASE Works
    <3>1. PICK l \in Work : main.at \in Work /\ main' = [main EXCEPT !.at = l]
      BY <2>2 DEF Works, D!Goto
    <3>2. main \in MainRec
      BY DEF BusInv
    <3>3. main' \in MainRec /\ main'.i = main.i /\ main'.at = l
      BY <3>1, <3>2 DEF MainRec
    <3>4. \A x \in Work : x # "scan" /\ x # "offer"
      BY DEF Work
    <3>5. Mark(main') = Mark(main) /\ main'.at # "scan" /\ main.at # "scan"
      BY <3>1, <3>3, <3>4 DEF Mark
    <3> QED BY <1>2, <3>3, <3>5 DEF BusInv
  <2> QED BY <1>2, <2>1, <2>2
<1>3. CASE D!Next
  <2>1. \/ D!Scan \/ D!Register \/ D!Offer \/ D!Taken
        \/ (UNCHANGED <<kind, multi, resources, offered>> /\ (Works \/ UNCHANGED main))
    BY <1>3, WorkIs, Zenon DEF D!Next
  <2> QED BY <1>1, <1>2, <2>1
<1>4. CASE UNCHANGED dvars
  BY <1>2, <1>4 DEF dvars
<1>5. D!Next \/ UNCHANGED dvars
  BY DEF Next, vars, dvars
<1> QED BY <1>3, <1>4, <1>5

LEMMA BusIsEnough ==
    ASSUME BusInv
    PROVE  D!EveryFunctionOffered
<1> SUFFICES ASSUME D!At("offer"), main.i > Len(resources)
             PROVE  LET found == {f \in D!Functions2 : kind[f] # "absent" /\ (f[2] = 1 => multi[f[1]] /\ kind[<<f[1], 0>>] # "absent")} IN
                    /\ D!ToSet(offered) = found /\ Len(offered) = D!Cardinality(found)
                    /\ D!ToSet(resources) = {f \in found : kind[f] # "block"}
  BY DEF D!EveryFunctionOffered
<1>1. /\ resources \in Seq(Fs) /\ offered \in Seq(Fs) /\ Once(offered) /\ Len(resources) \in Nat
      /\ main.i \in Nat /\ Offering(kind, multi, resources, offered, main.i, main.i)
  BY SeqFacts DEF BusInv, D!At, Mark, MainRec
<1>2. PICK found : found = {f \in Fs : Found(kind, multi, f)}
  OBVIOUS
<1>3. \A f : ~ Later(resources, f, main.i) /\ (Sooner(resources, f, main.i) <=> In(resources, f))
  BY <1>1 DEF Later, Sooner, In
<1>4. /\ \A f : f \in found <=> In(offered, f)
      /\ \A f : f \in found /\ kind[f] # "block" <=> In(resources, f)
  <2>1. \A f : In(offered, f) \/ In(resources, f) => f \in Fs
    BY <1>1, InSeq
  <2> QED BY <1>1, <1>2, <1>3, <2>1 DEF Offering
<1>5. \A s \in Seq(Fs) : \A f : f \in D!ToSet(s) <=> In(s, f)
  BY LenProperties DEF D!ToSet, In
<1>6. D!ToSet(offered) = found /\ D!ToSet(resources) = {f \in found : kind[f] # "block"}
  BY <1>1, <1>4, <1>5
<1>7. Len(offered) = D!Cardinality(found)
  <2>1. Cardinality(found) = Len(offered)
    BY <1>1, <1>4, OnceCardinality
  <2>2. D!Cardinality(found) = Cardinality(found)
    BY Zenon DEF Cardinality, D!Cardinality
  <2> QED BY <2>1, <2>2
<1>8. found = {f \in D!Functions2 : kind[f] # "absent" /\ (f[2] = 1 => multi[f[1]] /\ kind[<<f[1], 0>>] # "absent")}
  BY <1>2 DEF Found, Fs
<1> QED BY <1>6, <1>7, <1>8

LEMMA ModIs ==
    ASSUME NEW a \in Nat, NEW n \in Nat, n > 0
    PROVE  a % n \in 0..n - 1 /\ a % n \in Nat /\ a % n <= a
<1>1. a % n \in 0..n - 1
  OBVIOUS
<1>2. a < n => a % n = a
  OBVIOUS
<1> QED BY <1>1, <1>2

\* The free list of the queue: the descriptors from FirstFree on, and then Nil.
Ds == 0..Size - 1
Free(g, fi, ne) ==
    /\ g \in Seq(Ds \cup {Nil}) /\ Once(g) /\ Len(g) > 0
    /\ g[Len(g)] = Nil /\ fi = g[1]
    /\ \A i \in 1..Len(g) : i < Len(g) => g[i] \in Ds /\ ne[g[i]] = g[i + 1]

\* The three descriptors of a request, which the free list does not have.
Chained(g, h, ne, mo) ==
    /\ h \in Ds /\ ne[h] \in Ds /\ ne[ne[h]] \in Ds
    /\ mo[h] = TRUE /\ mo[ne[h]] = TRUE /\ mo[ne[ne[h]]] = FALSE
    /\ ~ In(g, h) /\ ~ In(g, ne[h]) /\ ~ In(g, ne[ne[h]])

\* No request is under way, or one with the head h: written, notified, at the
\* device, returned.
Quiet == added = 0 /\ taken = avail.idx /\ flight = {} /\ seen = used.idx /\ irq = FALSE
Written(h) ==
    /\ main.at = "notify" /\ added = 1 /\ taken = avail.idx /\ flight = {} /\ seen = used.idx /\ irq = FALSE
    /\ avail.ring[taken % Size] = h
Notified(h) ==
    /\ main.at = "wait" /\ added = 0 /\ avail.idx = (taken + 1) % Wrap /\ flight = {} /\ seen = used.idx /\ irq = FALSE
    /\ avail.ring[taken % Size] = h
AtDevice(h) == main.at = "wait" /\ added = 0 /\ taken = avail.idx /\ flight = {h} /\ seen = used.idx /\ irq = FALSE
Returned(h) ==
    /\ main.at \in {"wait", "drain", "threw"} /\ added = 0 /\ taken = avail.idx /\ flight = {}
    /\ irq = (main.at = "wait")
    /\ used.idx = (seen + 1) % Wrap /\ used.ring[seen % Size] = h
Busy(h) == Written(h) \/ Notified(h) \/ AtDevice(h) \/ Returned(h)
Resting == Quiet /\ main.at \notin {"notify", "wait"}

QueueTypes ==
    /\ desc \in [Ds -> Ds \cup {Nil}] /\ more \in [Ds -> BOOLEAN]
    /\ avail \in [idx : Nat, ring : [0..D!AvailLen - 1 -> Ds]] /\ used \in [idx : Nat, ring : [Ds -> Ds]]
    /\ seen \in Nat /\ taken \in Nat

QueueInv ==
    /\ enabled \in BOOLEAN
    /\ main.at \in {"ok", "read", "notify", "wait", "drain"} => enabled = TRUE
    /\ enabled = FALSE => Resting
    /\ enabled = TRUE =>
          /\ QueueTypes
          /\ \/ Resting /\ \E g : Free(g, first, desc)
             \/ \E g, h : Free(g, first, desc) /\ Chained(g, h, desc, more) /\ Busy(h)

LEMMA FreshIsFree ==
    ASSUME NEW ne, ne = [d \in Ds |-> IF d = Size - 1 THEN Nil ELSE d + 1]
    PROVE  ne \in [Ds -> Ds \cup {Nil}] /\ \E g : Free(g, 0, ne)
<1>1. Size \in Nat /\ Size > 0 /\ Nil \notin Ds
  BY ResourcesAssumption DEF Ds
<1>2. ne \in [Ds -> Ds \cup {Nil}]
  BY <1>1 DEF Ds
<1>3. PICK g : g = [i \in 1..Size + 1 |-> IF i = Size + 1 THEN Nil ELSE i - 1]
  OBVIOUS
<1>4. Size + 1 \in Nat /\ \A i \in 1..Size + 1 : g[i] \in Ds \cup {Nil} /\ g[i] = IF i = Size + 1 THEN Nil ELSE i - 1
  BY <1>1, <1>3 DEF Ds
<1>5. g \in Seq(Ds \cup {Nil}) /\ Len(g) = Size + 1
  <2>1. g \in [1..Size + 1 -> Ds \cup {Nil}]
    BY <1>3, <1>4
  <2>2. g \in Seq(Ds \cup {Nil})
    BY <1>4, <2>1, SeqDef
  <2> QED BY <1>3, <1>4, <2>2, LenProperties
<1>6. Once(g)
  <2>1. ASSUME NEW i \in 1..Size + 1, NEW j \in 1..Size + 1, g[i] = g[j] PROVE i = j
    <3>1. \A k \in 1..Size + 1 : k # Size + 1 => k - 1 \in Ds
      BY <1>1 DEF Ds
    <3>2. (i = Size + 1) <=> (j = Size + 1)
      BY <1>1, <1>4, <2>1, <3>1
    <3>3. CASE i # Size + 1
      <4>1. i - 1 = j - 1
        BY <1>4, <2>1, <3>2, <3>3
      <4> QED BY <4>1
    <3> QED BY <3>2, <3>3
  <2> QED BY <1>5, <2>1 DEF Once
<1>7. ASSUME NEW i \in 1..Len(g), i < Len(g) PROVE g[i] \in Ds /\ ne[g[i]] = g[i + 1]
  <2>1. i \in 1..Size + 1 /\ i # Size + 1 /\ i + 1 \in 1..Size + 1 /\ i - 1 \in Ds
    BY <1>1, <1>5, <1>7 DEF Ds
  <2>2. g[i] = i - 1 /\ g[i + 1] = IF i + 1 = Size + 1 THEN Nil ELSE i + 1 - 1
    BY <1>4, <2>1
  <2>3. ne[i - 1] = IF i - 1 = Size - 1 THEN Nil ELSE i - 1 + 1
    BY <2>1
  <2>4. (i - 1 = Size - 1 <=> i + 1 = Size + 1) /\ i - 1 + 1 = i + 1 - 1
    BY <1>1, <2>1
  <2> QED BY <2>1, <2>2, <2>3, <2>4
<1>8. g[Len(g)] = Nil /\ 0 = g[1] /\ Len(g) > 0
  BY <1>1, <1>4, <1>5
<1> QED BY <1>2, <1>5, <1>6, <1>7, <1>8 DEF Free

LEMMA QueueStart == Init => QueueInv
<1> SUFFICES ASSUME D!Init PROVE QueueInv
  BY DEF Init
<1>1. /\ main = [at |-> "scan", i |-> 1, fn |-> 0] /\ enabled = FALSE /\ added = 0 /\ seen = 0 /\ taken = 0
      /\ avail = [idx |-> 0, ring |-> << >>] /\ used = [idx |-> 0, ring |-> << >>] /\ flight = {} /\ irq = FALSE
  BY DEF D!Init, D!NoQueue
<1>2. main.at = "scan" /\ avail.idx = 0 /\ used.idx = 0
  BY <1>1
<1> QED BY <1>1, <1>2 DEF QueueInv, Resting, Quiet

\* Where no request can be under way.
Calm(l) == l \notin {"notify", "wait", "drain", "threw"}

LEMMA CalmRests ==
    ASSUME QueueInv, Calm(main.at)
    PROVE  Resting /\ (enabled = TRUE => QueueTypes /\ \E g : Free(g, first, desc))
BY DEF QueueInv, Calm, Resting, Busy, Written, Notified, AtDevice, Returned

QueueSame == UNCHANGED <<desc, more, first, added, avail, seen, used, taken, flight, irq>>

LEMMA CalmKeeps ==
    ASSUME QueueInv, Calm(main.at), QueueSame, enabled' = enabled \/ enabled' = FALSE,
           main'.at \notin {"notify", "wait", "drain"}, main'.at \in {"ok", "read"} => enabled' = TRUE
    PROVE  QueueInv'
<1>1. Resting /\ (enabled = TRUE => QueueTypes /\ \E g : Free(g, first, desc))
  BY CalmRests
<1>2. Resting'
  BY <1>1 DEF Resting, Quiet, QueueSame
<1>3. QueueTypes => QueueTypes'
  BY DEF QueueTypes, QueueSame, D!AvailLen
<1>4. enabled' = TRUE => QueueTypes' /\ \E g : Free(g, first', desc')
  BY <1>1, <1>3 DEF QueueSame
<1>5. enabled' \in BOOLEAN
  BY DEF QueueInv
<1> QED BY <1>2, <1>4, <1>5 DEF QueueInv

LEMMA GoneTo ==
    ASSUME main \in MainRec, NEW l, D!Goto(l)
    PROVE  main'.at = l
BY DEF MainRec, D!Goto

LEMMA CalmStepKeeps ==
    ASSUME BusInv, QueueInv, D!Scan \/ D!Register \/ D!Offer \/ D!Taken \/ D!Reset \/ D!Features \/ D!Configure
                             \/ D!DriverOk \/ D!Constructed
    PROVE  QueueInv'
<1>1. main \in MainRec
  BY DEF BusInv
<1>2. QueueSame
  BY DEF D!Scan, D!Register, D!Offer, D!Taken, D!Reset, D!Features, D!Configure, D!DriverOk, D!Constructed,
         D!queue, D!device, QueueSame
<1>3. CASE D!Scan
  <2>1. main.at = "scan" /\ enabled' = enabled
    BY <1>3 DEF D!Scan, D!At
  <2>2. main'.at = "scan"
    BY <1>1, <1>3, <2>1 DEF D!Scan, MainRec
  <2> QED BY <1>2, <2>1, <2>2, CalmKeeps DEF Calm
<1>4. CASE D!Register \/ D!Taken
  <2>1. main.at \in {"scan", "done"} /\ enabled' = enabled /\ main'.at = "offer"
    BY <1>4 DEF D!Register, D!Taken, D!At
  <2> QED BY <1>2, <2>1, CalmKeeps DEF Calm
<1>5. CASE D!Offer
  <2>1. main.at = "offer" /\ enabled' = enabled /\ (D!Goto("reset") \/ main' = [main EXCEPT !.i = @ + 1])
    BY <1>5 DEF D!Offer, D!At
  <2>2. main'.at \in {"offer", "reset"}
    BY <1>1, <2>1, GoneTo DEF MainRec
  <2> QED BY <1>2, <2>1, <2>2, CalmKeeps DEF Calm
<1>6. CASE D!Reset \/ D!Features \/ D!Configure
  <2>1. /\ main.at \in {"reset", "features", "msix"} /\ (enabled' = enabled \/ enabled' = FALSE)
        /\ D!Goto("features") \/ D!Goto("msix") \/ D!Goto("queue") \/ D!Goto("threw")
    BY <1>6 DEF D!Reset, D!Features, D!Configure, D!At
  <2>2. main'.at \in {"features", "msix", "queue", "threw"}
    BY <1>1, <2>1, GoneTo
  <2> QED BY <1>2, <2>1, <2>2, CalmKeeps DEF Calm
<1>7. CASE D!DriverOk
  <2>1. main.at \in {"ok", "noQueue"} /\ enabled' = enabled /\ D!Goto(IF main.at = "ok" THEN "read" ELSE "threw")
    BY <1>7 DEF D!DriverOk, D!At
  <2>2. main'.at = IF main.at = "ok" THEN "read" ELSE "threw"
    BY <1>1, <2>1, GoneTo
  <2>3. main.at = "ok" => enabled = TRUE
    BY DEF QueueInv
  <2> QED BY <1>2, <2>1, <2>2, <2>3, CalmKeeps DEF Calm
<1>8. CASE D!Constructed
  <2>1. main.at = "read" /\ enabled' = enabled /\ D!Goto("done")
    BY <1>8 DEF D!Constructed, D!At
  <2>2. main'.at = "done"
    BY <1>1, <2>1, GoneTo
  <2> QED BY <1>2, <2>1, <2>2, CalmKeeps DEF Calm
<1> QED BY <1>3, <1>4, <1>5, <1>6, <1>7, <1>8

LEMMA QueueSetupKeeps ==
    ASSUME BusInv, QueueInv, D!QueueSetup
    PROVE  QueueInv'
<1>1. main \in MainRec /\ main.at = "queue"
  BY DEF BusInv, D!QueueSetup, D!At
<1>2. CASE D!FreshQueue /\ enabled' = TRUE /\ D!Goto("ok")
  <2>1. main'.at = "ok"
    BY <1>1, <1>2, GoneTo
  <2>2. /\ desc' = [d \in Ds |-> IF d = Size - 1 THEN Nil ELSE d + 1] /\ more' = [d \in Ds |-> FALSE]
        /\ first' = 0 /\ added' = 0 /\ seen' = 0 /\ taken' = 0 /\ flight' = {} /\ irq' = FALSE
        /\ avail' = [idx |-> 0, ring |-> [i \in 0..D!AvailLen - 1 |-> 0]]
        /\ used' = [idx |-> 0, ring |-> [i \in Ds |-> 0]]
    BY <1>2 DEF D!FreshQueue, Ds
  <2>3. 0 \in Ds /\ more' \in [Ds -> BOOLEAN]
    <3>1. Size \in Nat /\ Size > 0
      BY ResourcesAssumption
    <3> QED BY <2>2, <3>1 DEF Ds
  <2>4. /\ avail' \in [idx : Nat, ring : [0..D!AvailLen - 1 -> Ds]] /\ used' \in [idx : Nat, ring : [Ds -> Ds]]
        /\ avail'.idx = 0 /\ used'.idx = 0
    BY <2>2, <2>3
  <2>5. desc' \in [Ds -> Ds \cup {Nil}] /\ \E g : Free(g, first', desc')
    BY <2>2, FreshIsFree
  <2>6. QueueTypes'
    BY <2>2, <2>3, <2>4, <2>5 DEF QueueTypes, D!AvailLen
  <2>7. Resting'
    BY <2>1, <2>2, <2>4 DEF Resting, Quiet
  <2> QED BY <1>2, <2>5, <2>6, <2>7 DEF QueueInv
<1>3. CASE enabled' = FALSE /\ D!Goto("noQueue") /\ UNCHANGED <<D!queue, D!device>>
  <2>1. main'.at = "noQueue" /\ QueueSame
    BY <1>1, <1>3, GoneTo DEF QueueSame, D!queue, D!device
  <2> QED BY <1>1, <1>3, <2>1, CalmKeeps DEF Calm
<1> QED BY <1>2, <1>3 DEF D!QueueSetup

\* A list without its first three descriptors, and with one more in front.
LEMMA FreeCut ==
    ASSUME NEW g, NEW fi, NEW ne, Free(g, fi, ne), NEW a, NEW b, NEW c, a = fi, b = ne[a], c = ne[b],
           a # Nil, b # Nil, c # Nil
    PROVE  /\ a \in Ds /\ b \in Ds /\ c \in Ds /\ a # b /\ b # c /\ a # c
           /\ \E f : Free(f, ne[c], ne) /\ ~ In(f, a) /\ ~ In(f, b) /\ ~ In(f, c)
<1>1. /\ g \in Seq(Ds \cup {Nil}) /\ Once(g) /\ Len(g) \in Nat /\ Len(g) > 0 /\ g[Len(g)] = Nil /\ fi = g[1]
      /\ \A i \in 1..Len(g) : i < Len(g) => g[i] \in Ds /\ ne[g[i]] = g[i + 1]
      /\ \A i \in 1..Len(g) : g[i] \in Ds \cup {Nil}
  BY SeqFacts DEF Free
<1>2. 1 < Len(g) /\ g[1] \in Ds /\ b = g[2]
  <2>1. Len(g) # 1
    BY <1>1
  <2>2. 1 < Len(g) /\ 1 \in 1..Len(g) /\ 1 + 1 = 2
    BY <1>1, <2>1
  <2> QED BY <1>1, <2>2
<1>3. 2 < Len(g) /\ g[2] \in Ds /\ c = g[3]
  <2>1. Len(g) # 2
    BY <1>1, <1>2
  <2>2. 2 < Len(g) /\ 2 \in 1..Len(g) /\ 2 + 1 = 3
    BY <1>1, <1>2, <2>1
  <2> QED BY <1>1, <1>2, <2>2
<1>4. 3 < Len(g) /\ g[3] \in Ds /\ ne[c] = g[4]
  <2>1. Len(g) # 3
    BY <1>1, <1>3
  <2>2. 3 < Len(g) /\ 3 \in 1..Len(g) /\ 3 + 1 = 4
    BY <1>1, <1>3, <2>1
  <2> QED BY <1>1, <1>3, <2>2
<1>5. {1, 2, 3} \subseteq 1..Len(g) /\ a = g[1] /\ b = g[2] /\ c = g[3]
  BY <1>1, <1>2, <1>3, <1>4
<1>6. a # b /\ b # c /\ a # c
  BY <1>1, <1>5 DEF Once
<1>7. PICK f, n : f = SubSeq(g, 4, Len(g)) /\ n = Len(g) - 3
  OBVIOUS
<1>8. f \in Seq(Ds \cup {Nil}) /\ Len(f) = n /\ n \in Nat /\ n > 0 /\ \A i \in 1..n : f[i] = g[i + 3]
  <2>1. \A i \in 4..Len(g) : g[i] \in Ds \cup {Nil}
    BY <1>1, <1>4
  <2>2. /\ f \in Seq(Ds \cup {Nil}) /\ Len(f) = (IF 4 <= Len(g) THEN Len(g) - 4 + 1 ELSE 0)
        /\ \A i \in 1..(Len(g) - 4 + 1) : f[i] = g[4 + i - 1]
    BY <1>1, <1>7, <2>1, SubSeqProperties
  <2>3. 4 <= Len(g) /\ Len(g) - 4 + 1 = n /\ n \in Nat /\ n > 0 /\ \A i \in 1..n : 4 + i - 1 = i + 3
    BY <1>1, <1>4, <1>7
  <2> QED BY <2>2, <2>3
<1>9. \A i \in 1..n : i + 3 \in 1..Len(g) /\ i + 3 \notin {1, 2, 3} /\ (i < n <=> i + 3 < Len(g)) /\ i + 3 + 1 = i + 1 + 3
  BY <1>1, <1>7, <1>8
<1>10. Once(f)
  <2>1. ASSUME NEW i \in 1..n, NEW j \in 1..n, f[i] = f[j] PROVE i = j
    <3>1. i + 3 = j + 3
      <4>1. g[i + 3] = g[j + 3] /\ i + 3 \in 1..Len(g) /\ j + 3 \in 1..Len(g)
        BY <1>8, <1>9, <2>1
      <4> QED BY <1>1, <4>1 DEF Once
    <3> QED BY <1>8, <3>1
  <2> QED BY <1>8, <2>1 DEF Once
<1>11. \A x \in {a, b, c} : ~ In(f, x)
  <2>1. ASSUME NEW i \in 1..n, f[i] \in {a, b, c} PROVE FALSE
    <3>1. g[i + 3] = g[1] \/ g[i + 3] = g[2] \/ g[i + 3] = g[3]
      BY <1>5, <1>8, <2>1
    <3>2. i + 3 \in 1..Len(g) /\ 1 \in 1..Len(g) /\ 2 \in 1..Len(g) /\ 3 \in 1..Len(g)
      BY <1>5, <1>9
    <3>3. i + 3 = 1 \/ i + 3 = 2 \/ i + 3 = 3
      BY <1>1, <3>1, <3>2 DEF Once
    <3> QED BY <1>9, <3>3
  <2> QED BY <1>8, <2>1 DEF In
<1>12. ASSUME NEW i \in 1..n, i < n PROVE f[i] \in Ds /\ ne[f[i]] = f[i + 1]
  <2>1. i + 1 \in 1..n
    BY <1>8, <1>12
  <2>2. f[i] = g[i + 3] /\ f[i + 1] = g[i + 3 + 1]
    BY <1>8, <1>9, <2>1
  <2> QED BY <1>1, <1>9, <1>12, <2>2
<1>13. f[n] = Nil /\ f[1] = g[4]
  <2>1. n \in 1..n /\ 1 \in 1..n /\ n + 3 = Len(g) /\ 1 + 3 = 4
    BY <1>1, <1>7, <1>8
  <2> QED BY <1>1, <1>8, <2>1
<1>14. Free(f, ne[c], ne)
  BY <1>4, <1>8, <1>10, <1>12, <1>13 DEF Free
<1> QED BY <1>2, <1>3, <1>4, <1>5, <1>6, <1>11, <1>14

LEMMA FreePut ==
    ASSUME NEW g, NEW fi, NEW ne, ne \in [Ds -> Ds \cup {Nil}], Free(g, fi, ne), NEW d \in Ds, ~ In(g, d)
    PROVE  \E f : Free(f, d, [ne EXCEPT ![d] = fi])
<1>1. /\ g \in Seq(Ds \cup {Nil}) /\ Once(g) /\ Len(g) \in Nat /\ Len(g) > 0 /\ g[Len(g)] = Nil /\ fi = g[1]
      /\ \A i \in 1..Len(g) : i < Len(g) => g[i] \in Ds /\ ne[g[i]] = g[i + 1]
      /\ \A i \in 1..Len(g) : g[i] # d
  BY SeqFacts DEF Free, In
<1>2. PICK f, n, m : f = <<d>> \o g /\ n = Len(g) + 1 /\ m = [ne EXCEPT ![d] = fi]
  OBVIOUS
<1>3. f \in Seq(Ds \cup {Nil}) /\ Len(f) = n /\ n \in Nat /\ n > 0 /\ \A i \in 1..n : f[i] = IF i = 1 THEN d ELSE g[i - 1]
  <2>1. <<d>> \in Seq(Ds \cup {Nil}) /\ Len(<<d>>) = 1 /\ <<d>>[1] = d
    OBVIOUS
  <2>2. /\ f \in Seq(Ds \cup {Nil}) /\ Len(f) = 1 + Len(g)
        /\ \A i \in 1..1 + Len(g) : f[i] = IF i <= 1 THEN <<d>>[i] ELSE g[i - 1]
    BY <1>1, <1>2, <2>1, ConcatProperties
  <2>3. 1 + Len(g) = n /\ n \in Nat /\ n > 0 /\ \A i \in 1..n : i <= 1 <=> i = 1
    BY <1>1, <1>2
  <2> QED BY <2>1, <2>2, <2>3
<1>4. \A i \in 1..n : i # 1 => i - 1 \in 1..Len(g) /\ (i < n <=> i - 1 < Len(g)) /\ i + 1 - 1 = i - 1 + 1
  BY <1>1, <1>2
<1>5. Once(f)
  <2>1. ASSUME NEW i \in 1..n, NEW j \in 1..n, f[i] = f[j] PROVE i = j
    <3>1. CASE i = 1 \/ j = 1
      BY <1>1, <1>3, <1>4, <2>1, <3>1
    <3>2. CASE i # 1 /\ j # 1
      <4>1. i - 1 = j - 1
        <5>1. g[i - 1] = g[j - 1] /\ i - 1 \in 1..Len(g) /\ j - 1 \in 1..Len(g)
          BY <1>3, <1>4, <2>1, <3>2
        <5> QED BY <1>1, <5>1 DEF Once
      <4> QED BY <1>3, <4>1
    <3> QED BY <3>1, <3>2
  <2> QED BY <1>3, <2>1 DEF Once
<1>6. ASSUME NEW i \in 1..n, i < n PROVE f[i] \in Ds /\ m[f[i]] = f[i + 1]
  <2>1. CASE i = 1
    <3>1. 2 \in 1..n /\ 2 - 1 = 1 /\ i + 1 = 2
      BY <1>3, <1>6, <2>1
    <3>2. f[i] = d /\ f[i + 1] = g[1]
      BY <1>3, <2>1, <3>1
    <3> QED BY <1>1, <1>2, <3>2
  <2>2. CASE i # 1
    <3>1. i + 1 \in 1..n /\ i + 1 # 1
      BY <1>3, <1>6
    <3>2. f[i] = g[i - 1] /\ f[i + 1] = g[i - 1 + 1] /\ i - 1 \in 1..Len(g) /\ i - 1 < Len(g)
      BY <1>3, <1>4, <1>6, <2>2, <3>1
    <3>3. g[i - 1] \in Ds /\ g[i - 1] # d /\ ne[g[i - 1]] = g[i - 1 + 1]
      BY <1>1, <3>2
    <3> QED BY <1>2, <3>2, <3>3
  <2> QED BY <2>1, <2>2
<1>7. f[n] = Nil /\ f[1] = d
  <2>1. n \in 1..n /\ 1 \in 1..n /\ n # 1 /\ n - 1 = Len(g)
    BY <1>1, <1>2
  <2> QED BY <1>1, <1>3, <2>1
<1>8. Free(f, d, m)
  BY <1>3, <1>5, <1>6, <1>7 DEF Free
<1> QED BY <1>2, <1>8

LEMMA ReadKeeps ==
    ASSUME BusInv, QueueInv, D!Read
    PROVE  QueueInv'
<1>1. main \in MainRec /\ main.at = "read" /\ enabled = TRUE /\ enabled' = enabled
  BY DEF BusInv, QueueInv, D!Read, D!At
<1>2. Resting /\ QueueTypes
  BY <1>1, CalmRests DEF Calm
<1>3. PICK g : Free(g, first, desc)
  BY <1>1, CalmRests DEF Calm
<1>4. UNCHANGED <<used, taken, flight, irq>>
  BY DEF D!Read, D!device
<1>5. PICK r, slot : r = D!Request /\ slot = (avail.idx + added) % Size
  OBVIOUS
<1>6. CASE D!Goto("threw") /\ UNCHANGED D!queue
  <2>1. main'.at = "threw" /\ QueueSame
    BY <1>1, <1>4, <1>6, GoneTo DEF QueueSame, D!queue
  <2> QED BY <1>1, <2>1, CalmKeeps DEF Calm
<1>7. CASE /\ ~ (slot >= D!AvailLen \/ Nil \in D!ToSet(r))
           /\ first' = desc[r[3]]
           /\ desc' = [desc EXCEPT ![r[1]] = r[2], ![r[2]] = r[3]]
           /\ more' = [more EXCEPT ![r[1]] = TRUE, ![r[2]] = TRUE, ![r[3]] = FALSE]
           /\ avail' = [avail EXCEPT !.ring[slot] = r[1]]
           /\ added' = added + 1
           /\ D!Goto("notify") /\ seen' = seen
  <2>1. PICK a, b, c : a = r[1] /\ b = r[2] /\ c = r[3]
    OBVIOUS
  <2>2. r = <<a, b, c>> /\ a # Nil /\ b # Nil /\ c # Nil
    <3>1. r = <<r[1], r[2], r[3]>>
      BY <1>5 DEF D!Request
    <3>2. D!ToSet(<<a, b, c>>) = {a, b, c}
      BY DEF D!ToSet
    <3> QED BY <1>7, <2>1, <3>1, <3>2
  <2>3. a = first /\ b = desc[a] /\ c = desc[b]
    BY <1>5, <2>1, <2>2 DEF D!Request, D!GetNewDescriptor
  <2>4. /\ a \in Ds /\ b \in Ds /\ c \in Ds /\ a # b /\ b # c /\ a # c
        /\ \E f : Free(f, desc[c], desc) /\ ~ In(f, a) /\ ~ In(f, b) /\ ~ In(f, c)
    BY <1>3, <2>2, <2>3, FreeCut
  <2>5. PICK f : Free(f, desc[c], desc) /\ ~ In(f, a) /\ ~ In(f, b) /\ ~ In(f, c)
    BY <2>4
  <2>6. desc \in [Ds -> Ds \cup {Nil}] /\ more \in [Ds -> BOOLEAN]
    BY <1>2 DEF QueueTypes
  <2>7. desc' = desc
    <3>1. desc' = [[desc EXCEPT ![a] = b] EXCEPT ![b] = c]
      BY <1>7, <2>1
    <3>2. [desc EXCEPT ![a] = b] = desc
      BY <2>3, <2>4, <2>6
    <3> QED BY <2>3, <2>4, <2>6, <3>1, <3>2
  <2>8. more' \in [Ds -> BOOLEAN] /\ more'[a] = TRUE /\ more'[b] = TRUE /\ more'[c] = FALSE
    <3>1. more' = [[[more EXCEPT ![a] = TRUE] EXCEPT ![b] = TRUE] EXCEPT ![c] = FALSE]
      BY <1>7, <2>1
    <3> QED BY <2>4, <2>6, <3>1
  <2>9. first' = desc[c] /\ seen' = seen /\ added' = added + 1 /\ added = 0 /\ taken = avail.idx /\ flight = {}
        /\ seen = used.idx /\ irq = FALSE
    BY <1>2, <1>7, <2>1 DEF Resting, Quiet
  <2>10. taken \in Nat /\ taken % Size = slot /\ slot \in 0..D!AvailLen - 1
    <3>1. Size \in Nat /\ Size > 0 /\ D!AvailLen \in Int /\ taken \in Nat
      BY <1>2, ResourcesAssumption DEF QueueTypes, D!AvailLen
    <3>2. slot = taken % Size
      BY <1>5, <2>9, <3>1
    <3>3. slot \in 0..Size - 1
      BY <3>1, <3>2, ModIs
    <3> QED BY <1>7, <3>1, <3>2, <3>3
  <2>11. PICK x, ring : avail = [idx |-> x, ring |-> ring] /\ x \in Nat /\ ring \in [0..D!AvailLen - 1 -> Ds]
    BY <1>2 DEF QueueTypes
  <2>12. avail' = [idx |-> x, ring |-> [ring EXCEPT ![slot] = a]]
    BY <1>7, <2>1, <2>11
  <2>13. avail' \in [idx : Nat, ring : [0..D!AvailLen - 1 -> Ds]] /\ avail'.idx = avail.idx /\ avail'.ring[slot] = a
    BY <2>4, <2>10, <2>11, <2>12
  <2>14. QueueTypes'
    BY <1>2, <1>4, <2>6, <2>7, <2>8, <2>9, <2>13 DEF QueueTypes, D!AvailLen
  <2>15. main'.at = "notify"
    BY <1>1, <1>7, GoneTo
  <2>16. Written(a)'
    BY <1>4, <2>9, <2>10, <2>13, <2>15 DEF Written
  <2>17. Free(f, first', desc') /\ Chained(f, a, desc', more')
    BY <2>3, <2>4, <2>5, <2>7, <2>8, <2>9 DEF Chained
  <2> QED BY <1>1, <2>14, <2>15, <2>16, <2>17 DEF QueueInv, Busy
<1> QED BY <1>5, <1>6, <1>7 DEF D!Read

LEMMA NotifyKeeps ==
    ASSUME BusInv, QueueInv, D!Notify
    PROVE  QueueInv'
<1>1. main \in MainRec /\ main.at = "notify" /\ enabled = TRUE /\ enabled' = enabled /\ D!Goto("wait")
  BY DEF BusInv, QueueInv, D!Notify, D!At
<1>2. /\ UNCHANGED <<desc, more, first, seen, used, taken, flight, irq>> /\ added' = 0
      /\ avail' = [avail EXCEPT !.idx = (avail.idx + added) % Wrap]
  BY DEF D!Notify, D!device
<1>3. PICK g, h : Free(g, first, desc) /\ Chained(g, h, desc, more) /\ Busy(h)
  BY <1>1 DEF QueueInv, Resting
<1>4. QueueTypes /\ Written(h)
  BY <1>1, <1>3 DEF QueueInv, Busy, Notified, AtDevice, Returned
<1>5. PICK x, ring : avail = [idx |-> x, ring |-> ring] /\ x \in Nat /\ ring \in [0..D!AvailLen - 1 -> Ds]
  BY <1>4 DEF QueueTypes
<1>6. avail' = [idx |-> (taken + 1) % Wrap, ring |-> ring] /\ taken \in Nat
  BY <1>2, <1>4, <1>5 DEF Written
<1>7. (taken + 1) % Wrap \in Nat
  <2>1. Wrap \in Nat /\ Wrap > 0 /\ taken + 1 \in Nat
    BY <1>6, ResourcesAssumption
  <2> QED BY <2>1, ModIs
<1>8. avail' \in [idx : Nat, ring : [0..D!AvailLen - 1 -> Ds]] /\ avail'.idx = (taken + 1) % Wrap /\ avail'.ring = avail.ring
  BY <1>5, <1>6, <1>7
<1>9. QueueTypes'
  BY <1>2, <1>4, <1>8 DEF QueueTypes, D!AvailLen
<1>10. main'.at = "wait"
  BY <1>1, GoneTo
<1>11. Notified(h)'
  BY <1>2, <1>4, <1>8, <1>10 DEF Written, Notified
<1>12. Free(g, first', desc') /\ Chained(g, h, desc', more')
  BY <1>2, <1>3
<1> QED BY <1>1, <1>9, <1>10, <1>11, <1>12 DEF QueueInv, Busy

LEMMA DeviceTakesKeeps ==
    ASSUME QueueInv, D!DeviceTakes
    PROVE  QueueInv'
<1>1. /\ enabled = TRUE /\ enabled' = enabled /\ taken # avail.idx /\ main' = main
      /\ flight' = flight \cup {avail.ring[taken % Size]} /\ taken' = (taken + 1) % Wrap
      /\ UNCHANGED <<desc, more, first, added, avail, seen, used, irq>>
  BY DEF QueueInv, D!DeviceTakes, D!queue
<1>2. PICK g, h : Free(g, first, desc) /\ Chained(g, h, desc, more) /\ Busy(h)
  BY <1>1 DEF QueueInv, Resting, Quiet
<1>3. QueueTypes /\ Notified(h)
  BY <1>1, <1>2 DEF QueueInv, Busy, Written, AtDevice, Returned
<1>4. AtDevice(h)'
  BY <1>1, <1>3 DEF Notified, AtDevice
<1>5. QueueTypes'
  <2>1. taken' = avail.idx /\ avail.idx \in Nat
    BY <1>1, <1>3 DEF Notified, QueueTypes
  <2> QED BY <1>1, <1>3, <2>1 DEF QueueTypes, D!AvailLen
<1>6. Free(g, first', desc') /\ Chained(g, h, desc', more')
  BY <1>1, <1>2
<1> QED BY <1>1, <1>4, <1>5, <1>6 DEF QueueInv, Busy

LEMMA DeviceReturnsKeeps ==
    ASSUME QueueInv, D!DeviceReturns
    PROVE  QueueInv'
<1>1. PICK h \in flight :
          /\ flight' = flight \ {h}
          /\ used' = [idx |-> (used.idx + 1) % Wrap, ring |-> [used.ring EXCEPT ![used.idx % Size] = h]]
  BY DEF D!DeviceReturns
<1>2. /\ enabled' = enabled /\ main' = main /\ irq' = TRUE
      /\ UNCHANGED <<desc, more, first, added, avail, seen, taken>>
  BY DEF D!DeviceReturns, D!queue
<1>3. enabled = TRUE /\ QueueTypes /\ ~ Quiet
  BY <1>1 DEF QueueInv, Resting, Quiet
<1>4. PICK g, k : Free(g, first, desc) /\ Chained(g, k, desc, more) /\ Busy(k)
  BY <1>3 DEF QueueInv, Resting
<1>5. AtDevice(k) /\ k = h /\ h \in Ds
  BY <1>1, <1>4 DEF Busy, Written, Notified, Returned, AtDevice, Chained
<1>6. used.idx \in Nat /\ used.ring \in [Ds -> Ds] /\ seen = used.idx
  BY <1>3, <1>5 DEF QueueTypes, AtDevice
<1>7. (used.idx + 1) % Wrap \in Nat /\ used.idx % Size \in Ds
  <2>1. Wrap \in Nat /\ Wrap > 0 /\ Size \in Nat /\ Size > 0 /\ used.idx + 1 \in Nat
    BY <1>6, ResourcesAssumption
  <2> QED BY <1>6, <2>1, ModIs DEF Ds
<1>8. /\ used' \in [idx : Nat, ring : [Ds -> Ds]] /\ used'.idx = (seen + 1) % Wrap /\ used'.ring[seen % Size] = h
  BY <1>1, <1>5, <1>6, <1>7
<1>9. Returned(h)'
  BY <1>1, <1>2, <1>5, <1>8 DEF AtDevice, Returned
<1>10. QueueTypes'
  BY <1>2, <1>3, <1>8 DEF QueueTypes, D!AvailLen
<1>11. Free(g, first', desc') /\ Chained(g, h, desc', more')
  BY <1>2, <1>4, <1>5
<1>12. main'.at = "wait"
  BY <1>2, <1>5 DEF AtDevice
<1> QED BY <1>2, <1>3, <1>9, <1>10, <1>11 DEF QueueInv, Busy

LEMMA WaitKeeps ==
    ASSUME BusInv, QueueInv, D!Wait
    PROVE  QueueInv'
<1>1. /\ main \in MainRec /\ main.at = "wait" /\ enabled = TRUE /\ enabled' = enabled /\ D!Goto("drain")
      /\ irq = TRUE /\ irq' = FALSE /\ UNCHANGED <<desc, more, first, added, avail, seen, used, taken, flight>>
  <2>1. irq \in BOOLEAN
    BY DEF QueueInv, Resting, Quiet, Busy, Written, Notified, AtDevice, Returned
  <2> QED BY <2>1 DEF BusInv, QueueInv, D!Wait, D!At, D!queue
<1>2. PICK g, h : Free(g, first, desc) /\ Chained(g, h, desc, more) /\ Busy(h)
  BY <1>1 DEF QueueInv, Resting
<1>3. QueueTypes /\ Returned(h)
  BY <1>1, <1>2 DEF QueueInv, Busy, Written, Notified, AtDevice
<1>4. main'.at = "drain"
  BY <1>1, GoneTo
<1>5. Returned(h)'
  BY <1>1, <1>3, <1>4 DEF Returned
<1>6. QueueTypes'
  BY <1>1, <1>3 DEF QueueTypes, D!AvailLen
<1>7. Free(g, first', desc') /\ Chained(g, h, desc', more')
  BY <1>1, <1>2
<1> QED BY <1>1, <1>4, <1>5, <1>6, <1>7 DEF QueueInv, Busy

LEMMA DrainKeeps ==
    ASSUME BusInv, QueueInv, D!Drain
    PROVE  QueueInv'
<1>1. /\ main \in MainRec /\ main.at = "drain" /\ enabled = TRUE /\ enabled' = enabled /\ QueueTypes
      /\ UNCHANGED <<added, avail, used, taken, flight, irq>>
  BY DEF BusInv, QueueInv, D!Drain, D!At, D!device
<1>2. PICK g : Free(g, first, desc)
  BY <1>1 DEF QueueInv
<1>3. CASE seen = used.idx
  <2>1. D!Goto("read") /\ UNCHANGED <<desc, more, first, seen>>
    BY <1>3 DEF D!Drain
  <2>2. main'.at = "read"
    BY <1>1, <2>1, GoneTo
  <2>3. Quiet
    BY <1>1, <1>3 DEF QueueInv, Resting, Quiet, Busy, Written, Notified, AtDevice, Returned
  <2>4. Resting'
    BY <1>1, <2>1, <2>2, <2>3 DEF Resting, Quiet
  <2>5. QueueTypes' /\ Free(g, first', desc')
    BY <1>1, <1>2, <2>1 DEF QueueTypes, D!AvailLen
  <2> QED BY <1>1, <2>4, <2>5 DEF QueueInv
<1>4. CASE seen # used.idx
  <2>1. PICK f, h : Free(f, first, desc) /\ Chained(f, h, desc, more) /\ Busy(h)
    BY <1>1, <1>4 DEF QueueInv, Resting, Quiet
  <2>2. Returned(h)
    BY <1>1, <2>1 DEF Busy, Written, Notified, AtDevice
  <2>3. CASE seen % Size >= D!UsedLen
    <3>1. D!Goto("threw") /\ UNCHANGED <<desc, more, first, seen>>
      BY <1>4, <2>3 DEF D!Drain
    <3>2. main'.at = "threw"
      BY <1>1, <3>1, GoneTo
    <3>3. Returned(h)'
      BY <1>1, <2>2, <3>1, <3>2 DEF Returned
    <3>4. QueueTypes' /\ Free(f, first', desc') /\ Chained(f, h, desc', more')
      BY <1>1, <2>1, <3>1 DEF QueueTypes, D!AvailLen
    <3> QED BY <1>1, <3>3, <3>4 DEF QueueInv, Busy
  <2>4. CASE ~ (seen % Size >= D!UsedLen)
    <3>1. D!FreeChain(h) /\ main' = main
      <4>1. D!FreeChain(used.ring[seen % Size]) /\ main' = main
        BY <1>4, <2>4 DEF D!Drain
      <4>2. used.ring[seen % Size] = h
        BY <2>2 DEF Returned
      <4> QED BY <4>1, <4>2
    <3>2. PICK d : d = desc[desc[h]]
      OBVIOUS
    <3>3. D!LastOf(h) = d /\ more[h] = TRUE /\ d \in Ds /\ ~ In(f, d)
      <4>1. /\ more[h] = TRUE /\ more[desc[h]] = TRUE /\ more[d] = FALSE /\ d \in Ds /\ ~ In(f, d)
        BY <2>1, <3>2 DEF Chained
      <4>2. D!LastOf(h) = CHOOSE x \in {h, desc[h], d} : ~ more[x]
        BY <3>2 DEF D!LastOf
      <4> QED BY <4>1, <4>2
    <3>4. /\ more' = [more EXCEPT ![d] = TRUE] /\ desc' = [desc EXCEPT ![d] = first] /\ first' = d
          /\ seen' = (seen + 1) % Wrap
      BY <3>1, <3>3 DEF D!FreeChain
    <3>5. desc \in [Ds -> Ds \cup {Nil}] /\ more \in [Ds -> BOOLEAN] /\ first \in Ds \cup {Nil}
      <4>1. f[1] \in Ds \cup {Nil} /\ first = f[1]
        <5>1. f \in Seq(Ds \cup {Nil}) /\ Len(f) > 0 /\ first = f[1]
          BY <2>1 DEF Free
        <5>2. Len(f) \in Nat /\ \A i \in 1..Len(f) : f[i] \in Ds \cup {Nil}
          BY <5>1, SeqFacts
        <5>3. 1 \in 1..Len(f)
          BY <5>1, <5>2
        <5> QED BY <5>1, <5>2, <5>3
      <4> QED BY <1>1, <4>1 DEF QueueTypes
    <3>6. \E e : Free(e, first', desc')
      BY <2>1, <3>3, <3>4, <3>5, FreePut
    <3>7. seen' = used.idx /\ used.idx \in Nat
      BY <1>1, <2>2, <3>4 DEF Returned, QueueTypes
    <3>8. QueueTypes'
      <4>1. desc' \in [Ds -> Ds \cup {Nil}] /\ more' \in [Ds -> BOOLEAN]
        BY <3>3, <3>4, <3>5
      <4> QED BY <1>1, <3>7, <4>1 DEF QueueTypes, D!AvailLen
    <3>9. Resting'
      BY <1>1, <2>2, <3>1, <3>7 DEF Returned, Resting, Quiet
    <3> QED BY <1>1, <3>1, <3>6, <3>8, <3>9 DEF QueueInv
  <2> QED BY <2>3, <2>4
<1> QED BY <1>3, <1>4

LEMMA QueueStep == BusInv /\ QueueInv /\ [Next]_vars => QueueInv'
<1> SUFFICES ASSUME BusInv, QueueInv, [Next]_vars PROVE QueueInv'
  OBVIOUS
<1>1. CASE D!Next
  BY <1>1, CalmStepKeeps, QueueSetupKeeps, ReadKeeps, NotifyKeeps, WaitKeeps, DrainKeeps, DeviceTakesKeeps,
     DeviceReturnsKeeps, Zenon DEF D!Next
<1>2. CASE UNCHANGED dvars
  <2>1. /\ UNCHANGED <<main, enabled>> /\ QueueSame
    BY <1>2 DEF dvars, QueueSame
  <2>2. Resting' <=> Resting
    BY <2>1 DEF Resting, Quiet, QueueSame
  <2>3. QueueTypes' <=> QueueTypes
    BY <2>1 DEF QueueTypes, QueueSame, D!AvailLen
  <2>4. \A h : Busy(h)' <=> Busy(h)
    BY <2>1 DEF Busy, Written, Notified, AtDevice, Returned, QueueSame
  <2>5. desc' = desc /\ more' = more /\ first' = first
    BY <2>1 DEF QueueSame
  <2> QED BY <2>1, <2>2, <2>3, <2>4, <2>5 DEF QueueInv
<1>3. D!Next \/ UNCHANGED dvars
  BY DEF Next, vars, dvars
<1> QED BY <1>1, <1>2, <1>3

\* The walk from FirstFree.
OnwardFree(s) == IF s[Len(s)] = Nil THEN s ELSE Append(s, desc[s[Len(s)]])
WalkFree(f, n) == IF n = 0 THEN <<first>> ELSE OnwardFree(f[n - 1])

LEMMA NextPlace ==
    ASSUME NEW n \in Nat, n # 0, NEW L \in Nat, L > 0, NEW k, k = IF n <= L THEN n ELSE L
    PROVE  /\ n - 1 \in Nat /\ n - 1 + 1 = n /\ k \in 1..L /\ k \in Nat
           /\ k = L => (IF n + 1 <= L THEN n + 1 ELSE L) = k
           /\ k # L => /\ k = n /\ n < L /\ n + 1 <= L /\ n + 1 \in 1..L /\ n + 1 - 1 = n
                       /\ n \in 1..L /\ 1 \in 1..L
OBVIOUS

LEMMA WalkFreePrefix ==
    ASSUME NEW g, Free(g, first, desc), Nil \notin Ds,
           NEW F, F = [n \in Nat |-> SubSeq(g, 1, IF n + 1 <= Len(g) THEN n + 1 ELSE Len(g))],
           NEW n \in Nat
    PROVE  F[n] = WalkFree(F, n)
<1>1. /\ g \in Seq(Ds \cup {Nil}) /\ Len(g) \in Nat /\ Len(g) > 0 /\ g[Len(g)] = Nil /\ first = g[1]
      /\ \A i \in 1..Len(g) : i < Len(g) => g[i] \in Ds /\ desc[g[i]] = g[i + 1]
      /\ \A i \in 1..Len(g) : g[i] \in Ds \cup {Nil}
  BY SeqFacts DEF Free
<1>2. CASE n = 0
  <2>1. 0 + 1 <= Len(g) /\ 0 + 1 = 1 /\ 1 \in 1..Len(g)
    BY <1>1
  <2>2. F[n] = SubSeq(g, 1, 1)
    BY <1>2, <2>1
  <2>3. SubSeq(g, 1, 1) = SubSeq(g, 1, 1 - 1) \o <<g[1]>>
    BY <1>1, <2>1, SubSeqRecursiveSecond
  <2>4. SubSeq(g, 1, 1 - 1) = <<>>
    BY SubSeqEmpty
  <2>5. <<>> \o <<g[1]>> = <<g[1]>>
    BY ConcatEmptySeq
  <2> QED BY <1>1, <1>2, <2>2, <2>3, <2>4, <2>5 DEF WalkFree
<1>3. CASE n # 0
  <2>1. PICK k : k = IF n <= Len(g) THEN n ELSE Len(g)
    OBVIOUS
  <2>2. PICK s : s = SubSeq(g, 1, k)
    OBVIOUS
  <2>3. /\ n - 1 \in Nat /\ n - 1 + 1 = n /\ k \in 1..Len(g) /\ k \in Nat
        /\ k = Len(g) => (IF n + 1 <= Len(g) THEN n + 1 ELSE Len(g)) = k
        /\ k # Len(g) => /\ k = n /\ n < Len(g) /\ n + 1 <= Len(g) /\ n + 1 \in 1..Len(g) /\ n + 1 - 1 = n
                         /\ n \in 1..Len(g) /\ 1 \in 1..Len(g)
    <3>1. PICK L : L = Len(g)
      OBVIOUS
    <3>2. L \in Nat /\ L > 0 /\ k = IF n <= L THEN n ELSE L
      BY <1>1, <2>1, <3>1
    <3>3. /\ n - 1 \in Nat /\ n - 1 + 1 = n /\ k \in 1..L /\ k \in Nat
          /\ k = L => (IF n + 1 <= L THEN n + 1 ELSE L) = k
          /\ k # L => /\ k = n /\ n < L /\ n + 1 <= L /\ n + 1 \in 1..L /\ n + 1 - 1 = n
                      /\ n \in 1..L /\ 1 \in 1..L
      BY <1>3, <3>2, NextPlace
    <3> QED BY <3>1, <3>3
  <2>4. F[n - 1] = s
    <3>1. F[n - 1] = SubSeq(g, 1, IF n - 1 + 1 <= Len(g) THEN n - 1 + 1 ELSE Len(g))
      BY <2>3
    <3> QED BY <2>1, <2>2, <2>3, <3>1
  <2>5. s \in Seq(Ds \cup {Nil}) /\ Len(s) = k /\ s[k] = g[k]
    <3>1. \A i \in 1..k : g[i] \in Ds \cup {Nil}
      BY <1>1, <2>3
    <3>2. /\ s \in Seq(Ds \cup {Nil}) /\ Len(s) = (IF 1 <= k THEN k - 1 + 1 ELSE 0)
          /\ \A i \in 1..(k - 1 + 1) : s[i] = g[1 + i - 1]
      BY <2>2, <2>3, <3>1, SubSeqProperties
    <3>3. k - 1 + 1 = k /\ k \in 1..k /\ 1 + k - 1 = k /\ 1 <= k
      BY <2>3
    <3> QED BY <3>2, <3>3
  <2>6. WalkFree(F, n) = IF g[k] = Nil THEN s ELSE Append(s, desc[g[k]])
    <3>1. WalkFree(F, n) = OnwardFree(F[n - 1])
      BY <1>3 DEF WalkFree
    <3>2. WalkFree(F, n) = OnwardFree(s)
      BY <2>4, <3>1
    <3>3. s[Len(s)] = g[k]
      BY <2>5
    <3> QED BY <3>2, <3>3 DEF OnwardFree
  <2>7. CASE k = Len(g)
    <3>1. (IF n + 1 <= Len(g) THEN n + 1 ELSE Len(g)) = k
      BY <2>3, <2>7
    <3>2. F[n] = s
      BY <2>2, <3>1
    <3> QED BY <1>1, <2>6, <2>7, <3>2
  <2>8. CASE k # Len(g)
    <3>1. PICK j : j = n + 1
      OBVIOUS
    <3>2. /\ (IF n + 1 <= Len(g) THEN n + 1 ELSE Len(g)) = j /\ j - 1 = k /\ k + 1 = j /\ k < Len(g)
          /\ 1 \in 1..Len(g) /\ j \in 1..Len(g)
      BY <2>3, <2>8, <3>1
    <3>3. F[n] = SubSeq(g, 1, j)
      BY <3>2
    <3>4. SubSeq(g, 1, j) = SubSeq(g, 1, j - 1) \o <<g[j]>>
      BY <1>1, <3>2, SubSeqRecursiveSecond
    <3>5. g[k] # Nil /\ desc[g[k]] = g[j] /\ g[j] \in Ds \cup {Nil}
      BY <1>1, <2>3, <3>2
    <3>6. Append(s, g[j]) = s \o <<g[j]>>
      BY <2>5, <3>5, AppendIsConcat
    <3>7. F[n] = s \o <<g[j]>>
      BY <2>2, <3>2, <3>3, <3>4
    <3> QED BY <2>6, <3>5, <3>6, <3>7
  <2> QED BY <2>7, <2>8
<1> QED BY <1>2, <1>3

LEMMA FreeListIs ==
    ASSUME NEW g, Free(g, first, desc), Nil \notin Ds, NEW n \in Nat
    PROVE  D!FreeList[n] = SubSeq(g, 1, IF n + 1 <= Len(g) THEN n + 1 ELSE Len(g))
<1>1. PICK F : F = [k \in Nat |-> SubSeq(g, 1, IF k + 1 <= Len(g) THEN k + 1 ELSE Len(g))]
  OBVIOUS
<1>2. \A k \in Nat : F[k] = WalkFree(F, k)
  BY <1>1, WalkFreePrefix
<1>3. F = [k \in Nat |-> WalkFree(F, k)]
  BY <1>1, <1>2
<1>4. D!FreeList = [k \in Nat |-> WalkFree(D!FreeList, k)]
  BY <1>3 DEF D!FreeList, WalkFree, OnwardFree
<1>5. PICK f : f = D!FreeList
  OBVIOUS
<1>6. \A k \in Nat : f[k] = WalkFree(f, k)
  BY <1>4, <1>5
<1>7. ASSUME f[n] # F[n] PROVE FALSE
  <2>1. PICK S : S = {k \in Nat : f[k] # F[k]}
    OBVIOUS
  <2>2. S \in SUBSET Nat /\ S # {}
    BY <1>7, <2>1
  <2>3. PICK m \in S : \A k \in S : m <= k
    BY <2>2, Least
  <2>4. m \in Nat /\ f[m] # F[m] /\ f[m] = WalkFree(f, m) /\ F[m] = WalkFree(F, m)
    BY <1>2, <1>6, <2>1
  <2>5. m # 0
    BY <2>4 DEF WalkFree
  <2>6. m - 1 \in Nat /\ ~ (m <= m - 1)
    BY <2>4, <2>5
  <2>7. f[m - 1] = F[m - 1]
    BY <2>1, <2>3, <2>6
  <2> QED BY <2>4, <2>5, <2>7 DEF WalkFree
<1> QED BY <1>1, <1>5, <1>7

LEMMA QueueIsEnough ==
    ASSUME QueueInv
    PROVE  D!DescriptorsOwnedOnce
<1> SUFFICES ASSUME enabled
             PROVE  LET free == D!FreeList[Size] IN
                    /\ \A i, j \in 1..Len(free) : free[i] = free[j] => i = j
                    /\ \A h \in D!Outstanding : D!ChainOf(h) \cap D!ToSet(free) = {}
                    /\ \A h, k \in D!Outstanding : h # k => D!ChainOf(h) \cap D!ChainOf(k) = {}
  BY DEF D!DescriptorsOwnedOnce
<1>1. enabled = TRUE /\ QueueTypes /\ Size \in Nat /\ Size > 0 /\ Wrap \in Nat /\ Wrap > 0 /\ Nil \notin Ds
  BY ResourcesAssumption DEF QueueInv, Ds
<1>2. PICK free : free = D!FreeList[Size]
  OBVIOUS
<1>3. ASSUME NEW g, Free(g, first, desc) PROVE free \in Seq(Ds \cup {Nil}) /\ Once(free) /\ \A x : In(free, x) => In(g, x)
  <2>1. g \in Seq(Ds \cup {Nil}) /\ Once(g) /\ Len(g) \in Nat
    BY <1>3, SeqFacts DEF Free
  <2>2. PICK n : n = IF Size + 1 <= Len(g) THEN Size + 1 ELSE Len(g)
    OBVIOUS
  <2>3. n \in 0..Len(g) /\ free = SubSeq(g, 1, n)
    <3>1. n \in 0..Len(g)
      BY <1>1, <2>1, <2>2
    <3>2. D!FreeList[Size] = SubSeq(g, 1, IF Size + 1 <= Len(g) THEN Size + 1 ELSE Len(g))
      BY <1>1, <1>3, FreeListIs
    <3> QED BY <1>2, <2>2, <3>1, <3>2
  <2> QED BY <2>1, <2>3, CutInTwo
<1>4. \A x : free \in Seq(Ds \cup {Nil}) => (x \in D!ToSet(free) <=> In(free, x))
  BY LenProperties DEF D!ToSet, In
<1>5. /\ avail.idx \in Nat /\ used.idx \in Nat /\ taken \in Nat /\ seen \in Nat
  BY <1>1 DEF QueueTypes
<1>6. ASSUME NEW a \in Nat, NEW b \in Nat, b = a \/ b = (a + 1) % Wrap, NEW i \in a..b - 1
      PROVE  i = a /\ b # a
  <2>1. (a + 1) % Wrap <= a + 1 /\ (a + 1) % Wrap \in Nat
    <3>1. a + 1 \in Nat
      BY <1>6
    <3> QED BY <1>1, <3>1, ModIs
  <2> QED BY <1>6, <2>1
<1>7. CASE Quiet
  <2>1. D!Outstanding = {}
    <3>1. ASSUME NEW h \in D!Outstanding PROVE FALSE
      <4>1. (\E i \in taken..avail.idx - 1 : TRUE) \/ (\E i \in seen..used.idx - 1 : TRUE)
        BY <1>7, <3>1 DEF D!Outstanding, Quiet
      <4> QED BY <1>5, <1>6, <1>7, <4>1 DEF Quiet
    <3> QED BY <3>1
  <2>2. PICK g : Free(g, first, desc)
    BY <1>1 DEF QueueInv
  <2>3. \A i, j \in 1..Len(free) : free[i] = free[j] => i = j
    BY <1>3, <2>2 DEF Once
  <2> QED BY <1>2, <2>1, <2>3
<1>8. CASE ~ Quiet
  <2>1. PICK g, h : Free(g, first, desc) /\ Chained(g, h, desc, more) /\ Busy(h)
    BY <1>1, <1>8 DEF QueueInv, Resting
  <2>2. ASSUME NEW x \in D!Outstanding PROVE x = h
    <3>1. \/ \E i \in taken..avail.idx - 1 : x = avail.ring[i % Size]
          \/ x \in flight
          \/ \E i \in seen..used.idx - 1 : x = used.ring[i % Size]
      BY <2>2 DEF D!Outstanding
    <3>2. /\ avail.idx = taken \/ avail.idx = (taken + 1) % Wrap
          /\ used.idx = seen \/ used.idx = (seen + 1) % Wrap
          /\ avail.idx # taken => avail.ring[taken % Size] = h
          /\ used.idx # seen => used.ring[seen % Size] = h
          /\ flight \subseteq {h}
      BY <2>1 DEF Busy, Written, Notified, AtDevice, Returned
    <3>3. CASE \E i \in taken..avail.idx - 1 : x = avail.ring[i % Size]
      BY <1>5, <1>6, <3>2, <3>3
    <3>4. CASE \E i \in seen..used.idx - 1 : x = used.ring[i % Size]
      BY <1>5, <1>6, <3>2, <3>4
    <3> QED BY <3>1, <3>2, <3>3, <3>4
  <2>3. D!ChainOf(h) = {h, desc[h], desc[desc[h]]}
    BY <2>1 DEF D!ChainOf, Chained
  <2>4. D!ChainOf(h) \cap D!ToSet(free) = {}
    <3>1. ASSUME NEW x \in D!ToSet(free) PROVE In(g, x)
      BY <1>3, <1>4, <2>1, <3>1
    <3> QED BY <2>1, <2>3, <3>1 DEF Chained
  <2>5. \A i, j \in 1..Len(free) : free[i] = free[j] => i = j
    BY <1>3, <2>1 DEF Once
  <2> QED BY <1>2, <2>2, <2>4, <2>5
<1> QED BY <1>7, <1>8

\* Whatever functions the bus has and however long the queue is, the driver is
\* offered every function that was found, once, and no descriptor is on the free
\* list and in a request, although FreeChain gives back only one of the three
\* (Pci.cs, ResourceManager.cs, VirtioDevice.cs).
THEOREM DriversAlwaysSound == Spec => []DriversSound
<1>1. BusInv /\ QueueInv => DriversSound
  BY BusIsEnough, QueueIsEnough DEF DriversSound
<1> QED BY <1>1, BusStart, BusStep, QueueStart, QueueStep, PTL DEF Spec
=============================================================================
