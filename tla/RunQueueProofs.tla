--------------------------- MODULE RunQueueProofs ---------------------------
(***************************************************************************)
(* The safety of the run queues, for every finite set of CPUs and threads, *)
(* every even ring length, every starting value of the counters and every  *)
(* number of calls that does not bring a counter round to its own value.   *)
(* First the counters (CountersInv): measured from where they started,     *)
(* head and tail stand at most a ring apart, and what a CPU has read of a  *)
(* victim's head is a lower bound of it, so that a compare-and-swap that   *)
(* succeeds has read the head of this moment.  Then the threads            *)
(* (PlacesInv): which hands of a CPU are full at which step, that what a   *)
(* CPU has copied beyond its tail is what the victim's ring holds as long  *)
(* as the head has not moved, and that every thread has one holder.        *)
(***************************************************************************)
EXTENDS RunQueue, FiniteSetTheorems, SequenceTheorems, TLAPS

Words == 0 .. Width - 1

\* How far a counter is from where it started.
U(x) == Minus(x, Start)
H(c) == U(head[c])
T(c) == U(tail[c])

PutPcs == {"put", "put_write", "put_publish", "put_slow", "put_global"}
GrabPcs == {"grab", "grab_tail", "grab_next", "grab_next_cas", "grab_copy", "grab_cas"}
ThiefPcs == GrabPcs \cup {"stolen", "steal_publish"}
EmptyPcs == ThiefPcs \cup {"global", "idle", "steal"}

RingInv == \A c \in Cpus : H(c) <= T(c) /\ T(c) <= H(c) + RUN_QUEUE_LEN

\* How many threads c may still put in its ring before its next call.
AfterPut(l) == CASE l.return = "run" -> 0 [] l.return = "global_rest" -> Len(l.batch) [] OTHER -> Half
PendingAt(x, l) ==
    CASE x = "run" -> 0
      [] x \in PutPcs -> 1 + AfterPut(l)
      [] x = "global_rest" -> Len(l.batch)
      [] x \in {"stolen", "steal_publish"} -> l.n
      [] OTHER -> Half
Pending(c) == PendingAt(pc[c], loc[c])

ReachInv == \A c \in Cpus : T(c) + Pending(c) + Cardinality(waiting) <= Reach(ops)

PutInv(c) ==
    /\ pc[c] \in PutPcs => loc[c].return \in {"run", "find", "steal_timers", "global_rest"}
    /\ pc[c] \in PutPcs /\ loc[c].return = "global_rest" => T(c) + Len(loc[c].batch) + 1 < H(c) + RUN_QUEUE_LEN
    /\ pc[c] \in {"put_slow", "put_global"} => loc[c].return # "global_rest"
    /\ pc[c] \in {"put_write", "put_publish", "put_slow"} => loc[c].t = tail[c]
    /\ pc[c] \in {"put_write", "put_publish"} => T(c) < H(c) + RUN_QUEUE_LEN
    /\ pc[c] = "global_rest" => loc[c].batch = << >> \/ T(c) + Len(loc[c].batch) < H(c) + RUN_QUEUE_LEN

GetInv(c) ==
    /\ pc[c] \in {"get", "get_cas"} => loc[c].return \in {"global", "steal"}
    /\ pc[c] = "get_cas" => U(loc[c].h) < T(c)

ThiefInv(c) ==
    /\ pc[c] \in EmptyPcs => tail[c] = head[c]
    /\ pc[c] \in ThiefPcs => loc[c].t = tail[c]
    /\ pc[c] \in GrabPcs => loc[c].victim \in Cpus \ {c}
    /\ pc[c] \in {"grab_tail", "grab_copy", "grab_cas"} => U(loc[c].h) <= H(loc[c].victim)
    /\ pc[c] \in {"grab_copy", "grab_cas"} => U(loc[c].h) + loc[c].n <= T(loc[c].victim)
    /\ pc[c] \in {"grab_copy", "grab_cas", "stolen"} => loc[c].n \in 1 .. Half
    /\ pc[c] = "steal_publish" => loc[c].n \in 1 .. Half - 1

AskInv(c) ==
    LET l == loc[c] IN
    /\ pc[c] \in Asking => l.victim \in Cpus
    /\ pc[c] \in {"empty_tail", "empty_next"} => U(l.h) <= H(l.victim)
    /\ pc[c] \in {"empty_next", "empty_check"} => U(l.t) <= T(l.victim)
    /\ pc[c] = "empty_check" /\ SaysEmpty(c) => wasEmpty[c]

Locals == [thread : ThreadOrNone, found : ThreadOrNone, batch : Seq(ThreadOrNone),
           h : Words, t : Words, n : Nat, i : Nat, next : ThreadOrNone, victim : Cpus \cup {None},
           steal_next : BOOLEAN, ran : BOOLEAN, return : Labels]

QueuesTyped ==
    /\ queue \in [Cpus -> [0 .. RUN_QUEUE_LEN - 1 -> ThreadOrNone]]
    /\ next \in [Cpus -> ThreadOrNone]
    /\ global \in Seq(ThreadOrNone)
    /\ lock \in Cpus \cup {None}
    /\ current \in [Cpus -> ThreadOrNone]

\* The types without the fact that no queue has an empty place.
Typed ==
    /\ head \in [Cpus -> Words] /\ tail \in [Cpus -> Words]
    /\ QueuesTyped
    /\ waiting \subseteq ThreadOrNone
    /\ pc \in [Cpus -> Labels]
    /\ loc \in [Cpus -> Locals]
    /\ ops \in 0 .. MaxOps
    /\ wasEmpty \in [Cpus -> BOOLEAN]

LocalInv(c) == PutInv(c) /\ GetInv(c) /\ ThiefInv(c) /\ AskInv(c)

CountersInv == Typed /\ RingInv /\ ReachInv /\ \A c \in Cpus : LocalInv(c)

\* What a step of c does to the counters, and to the other CPUs.
Moves(c) ==
    /\ \A v \in Cpus : H(v) <= H(v)' /\ T(v) <= T(v)'
    /\ \A d \in Cpus \ {c} : pc'[d] = pc[d] /\ loc'[d] = loc[d] /\ tail'[d] = tail[d]

\* What it does to the bound of its own counter, and of the others.
Affords(c) ==
    /\ T(c)' + Pending(c)' + Cardinality(waiting') <= Reach(ops')
    /\ Cardinality(waiting') + Reach(ops) <= Cardinality(waiting) + Reach(ops')

StepGoal(c) == Typed' /\ RingInv' /\ Moves(c) /\ Affords(c) /\ LocalInv(c)' 

LEMMA Params ==
    /\ Half \in Nat /\ Half >= 1 /\ RUN_QUEUE_LEN = 2 * Half
    /\ Width \in Nat /\ Width > 2 * RUN_QUEUE_LEN /\ Start \in Words
    /\ MaxOps \in Nat /\ IsFiniteSet(Threads) /\ Cardinality(Threads) \in Nat
BY RunQueueAssumption, FS_CardinalityType DEF Half, Words

LEMMA MinusValue ==
    ASSUME NEW x \in Words, NEW y \in Words
    PROVE  /\ Minus(x, y) = IF x >= y THEN x - y ELSE x - y + Width
           /\ Minus(x, y) \in Words
BY Params DEF Minus, Words

LEMMA PlusValue ==
    ASSUME NEW x \in Words, NEW n \in Words
    PROVE  /\ Plus(x, n) = IF x + n < Width THEN x + n ELSE x + n - Width
           /\ Plus(x, n) \in Words
BY Params DEF Plus, Words

LEMMA Distances ==
    ASSUME NEW x \in Words
    PROVE  /\ U(x) \in Words
           /\ U(Start) = 0
           /\ \A y \in Words : /\ U(x) = U(y) => x = y
                               /\ U(y) <= U(x) => Minus(x, y) = U(x) - U(y)
                               /\ Minus(x, y) \in Words
           /\ \A n \in Nat : U(x) + n < Width => Plus(x, n) \in Words /\ U(Plus(x, n)) = U(x) + n
<1>1. Start \in Words /\ Width \in Nat /\ Words = 0 .. Width - 1
  BY Params DEF Words
<1>2. U(x) \in Words /\ U(x) = IF x >= Start THEN x - Start ELSE x - Start + Width
  BY <1>1, MinusValue DEF U
<1>3. U(Start) = 0
  BY <1>1, MinusValue DEF U
<1>4. ASSUME NEW y \in Words
      PROVE  (U(x) = U(y) => x = y) /\ (U(y) <= U(x) => Minus(x, y) = U(x) - U(y)) /\ Minus(x, y) \in Words
  <2>1. U(y) = IF y >= Start THEN y - Start ELSE y - Start + Width
    BY <1>1, MinusValue DEF U
  <2>2. Minus(x, y) \in Words /\ Minus(x, y) = IF x >= y THEN x - y ELSE x - y + Width
    BY MinusValue
  <2> QED BY <1>1, <1>2, <2>1, <2>2
<1>5. ASSUME NEW n \in Nat, U(x) + n < Width PROVE Plus(x, n) \in Words /\ U(Plus(x, n)) = U(x) + n
  <2>1. n \in Words
    BY <1>1, <1>2, <1>5
  <2>2. Plus(x, n) \in Words /\ Plus(x, n) = IF x + n < Width THEN x + n ELSE x + n - Width
    BY <2>1, PlusValue
  <2>3. U(Plus(x, n)) = IF Plus(x, n) >= Start THEN Plus(x, n) - Start ELSE Plus(x, n) - Start + Width
    BY <1>1, <2>2, MinusValue DEF U
  <2> QED BY <1>1, <1>2, <1>5, <2>1, <2>2, <2>3
<1> QED BY <1>2, <1>3, <1>4, <1>5

LEMMA DistanceTyped ==
    ASSUME NEW x \in Words
    PROVE  U(x) \in Nat /\ U(x) < Width
<1>1. U(x) \in Words
  BY Distances
<1> QED BY <1>1, Params DEF Words

LEMMA ReachValue ==
    ASSUME NEW n \in 0 .. MaxOps
    PROVE  /\ Reach(n) \in Nat /\ Reach(n) < Width
           /\ n + 1 <= MaxOps => Reach(n + 1) = Reach(n) + RUN_QUEUE_LEN /\ Reach(n + 1) < Width
<1>1. RUN_QUEUE_LEN \in Nat /\ Reach(MaxOps) < Width /\ MaxOps \in Nat /\ Width \in Nat
  BY RunQueueAssumption
<1>2. ASSUME NEW k \in Nat PROVE RUN_QUEUE_LEN * (k + 1) \in Nat /\ RUN_QUEUE_LEN * (k + 2) = RUN_QUEUE_LEN * (k + 1) + RUN_QUEUE_LEN
  BY <1>1
<1>3. ASSUME NEW k \in Nat, k <= MaxOps PROVE Reach(k) \in Nat /\ Reach(k) <= Reach(MaxOps)
  <2>1. RUN_QUEUE_LEN * (k + 1) \in Nat /\ RUN_QUEUE_LEN * (MaxOps + 1) \in Nat
    BY <1>1, <1>2
  <2>2. RUN_QUEUE_LEN * (k + 1) <= RUN_QUEUE_LEN * (MaxOps + 1)
    <3>1. RUN_QUEUE_LEN * (MaxOps - k) \in Nat
      BY <1>1, <1>3
    <3>2. RUN_QUEUE_LEN * (MaxOps + 1) = RUN_QUEUE_LEN * (k + 1) + RUN_QUEUE_LEN * (MaxOps - k)
      BY <1>1, <1>3
    <3> QED BY <2>1, <3>1, <3>2
  <2> QED BY <2>1, <2>2, Params DEF Reach
<1>4. Reach(n) \in Nat /\ Reach(n) < Width
  BY <1>1, <1>3
<1>5. ASSUME n + 1 <= MaxOps PROVE Reach(n + 1) = Reach(n) + RUN_QUEUE_LEN /\ Reach(n + 1) < Width
  <2>1. Reach(n + 1) < Width
    BY <1>1, <1>3, <1>5
  <2>2. Reach(n + 1) = Reach(n) + RUN_QUEUE_LEN
    BY <1>2, Params DEF Reach
  <2> QED BY <2>1, <2>2
<1> QED BY <1>4, <1>5

LEMMA WaitingCount ==
    ASSUME Typed
    PROVE  /\ IsFiniteSet(waiting) /\ Cardinality(waiting) \in Nat
           /\ \A t \in waiting : Cardinality(waiting \ {t}) = Cardinality(waiting) - 1
           /\ \A t : Cardinality(waiting \cup {t}) <= Cardinality(waiting) + 1
           /\ \A t : Cardinality(waiting \cup {t}) \in Nat
<1>1. IsFiniteSet(ThreadOrNone)
  BY Params, FS_AddElement DEF ThreadOrNone
<1>2. IsFiniteSet(waiting)
  BY <1>1, FS_Subset DEF Typed
<1>3. Cardinality(waiting) \in Nat
  BY <1>2, FS_CardinalityType
<1>4. ASSUME NEW t \in waiting PROVE Cardinality(waiting \ {t}) = Cardinality(waiting) - 1
  BY <1>2, FS_RemoveElement
<1>5. ASSUME NEW t PROVE Cardinality(waiting \cup {t}) <= Cardinality(waiting) + 1 /\ Cardinality(waiting \cup {t}) \in Nat
  <2>1. CASE t \in waiting
    <3>1. waiting \cup {t} = waiting
      BY <2>1
    <3> QED BY <3>1, <1>3
  <2>2. CASE t \notin waiting
    BY <2>2, <1>2, <1>3, FS_AddElement
  <2> QED BY <2>1, <2>2
<1> QED BY <1>2, <1>3, <1>4, <1>5

\* A ring stays empty, and what a CPU knows of a counter stays true, while
\* another one takes a step.
LEMMA OthersKeep ==
    ASSUME CountersInv, NEW c \in Cpus, NEW d \in Cpus \ {c}, Typed', RingInv', Moves(c), Observe
    PROVE  LocalInv(d)'
<1>0. PICK l : l = loc[d]
  OBVIOUS
<1>1. l = loc[d] /\ l \in Locals /\ pc'[d] = pc[d] /\ loc'[d] = l /\ tail'[d] = tail[d]
  BY <1>0 DEF Moves, CountersInv, Typed
<1>2. \A v \in Cpus : /\ H(v) \in Nat /\ T(v) \in Nat /\ H(v)' \in Nat /\ T(v)' \in Nat
                      /\ H(v) <= T(v) /\ H(v)' <= T(v)' /\ H(v) <= H(v)' /\ T(v) <= T(v)'
  BY Distances DEF CountersInv, Typed, RingInv, Moves, H, T, Words
<1>3. l.h \in Words /\ l.t \in Words /\ U(l.h) \in Nat /\ U(l.t) \in Nat /\ Len(l.batch) \in Nat /\ l.n \in Nat
  <2>1. l.h \in Words /\ l.t \in Words /\ Len(l.batch) \in Nat /\ l.n \in Nat
    BY <1>1 DEF Locals
  <2>2. U(l.h) \in Words /\ U(l.t) \in Words
    BY <2>1, Distances
  <2> QED BY <2>1, <2>2, Params DEF Words
<1>4. T(d)' = T(d)
  BY <1>1 DEF T
<1>5. LocalInv(d) /\ d \in Cpus
  BY DEF CountersInv
<1>6. PutInv(d)'
  <2>1. PutInv(d) /\ RUN_QUEUE_LEN \in Nat
    BY <1>5, Params DEF LocalInv
  <2>2. H(d) \in Nat /\ T(d) \in Nat /\ H(d)' \in Nat /\ H(d) <= H(d)'
    BY <1>2
  <2>3. /\ pc[d] \in PutPcs /\ l.return = "global_rest" => T(d)' + Len(l.batch) + 1 < H(d)' + RUN_QUEUE_LEN
        /\ pc[d] \in {"put_write", "put_publish"} => T(d)' < H(d)' + RUN_QUEUE_LEN
        /\ pc[d] = "global_rest" => l.batch = << >> \/ T(d)' + Len(l.batch) < H(d)' + RUN_QUEUE_LEN
    BY <1>1, <1>3, <1>4, <2>1, <2>2, SMTT(30) DEF PutInv
  <2> QED BY <1>1, <2>1, <2>3 DEF PutInv
<1>7. GetInv(d)'
  BY <1>1, <1>2, <1>3, <1>4, <1>5 DEF LocalInv, GetInv
<1>8. tail[d] = head[d] => tail'[d] = head'[d]
  <2>1. tail[d] = head[d] => H(d)' = T(d)'
    BY <1>2, <1>4, <1>5 DEF H, T
  <2> QED BY <2>1, <1>5, Distances DEF H, T, Typed
<1>9. ThiefInv(d)'
  <2>1. ThiefInv(d)
    BY <1>5 DEF LocalInv
  <2>2. pc[d] \in GrabPcs => l.victim \in Cpus \ {d}
    BY <1>1, <2>1 DEF ThiefInv
  <2>3. pc[d] \in {"grab_tail", "grab_copy", "grab_cas"} => U(l.h) <= H(l.victim)'
    BY <1>1, <1>2, <1>3, <2>1, <2>2, SMTT(30) DEF ThiefInv, GrabPcs
  <2>4. pc[d] \in {"grab_copy", "grab_cas"} => U(l.h) + l.n <= T(l.victim)'
    BY <1>1, <1>2, <1>3, <2>1, <2>2, SMTT(30) DEF ThiefInv, GrabPcs
  <2> QED BY <1>1, <1>8, <2>1, <2>2, <2>3, <2>4 DEF ThiefInv
<1>10. AskInv(d)'
  <2>1. pc[d] \in Asking => l.victim \in Cpus
    BY <1>1, <1>5 DEF LocalInv, AskInv
  <2>2. pc[d] \in {"empty_tail", "empty_next"} => U(l.h) <= H(l.victim)'
    BY <2>1, <1>1, <1>2, <1>3, <1>5, SMTT(30) DEF LocalInv, AskInv, Asking
  <2>3. pc[d] \in {"empty_next", "empty_check"} => U(l.t) <= T(l.victim)'
    BY <2>1, <1>1, <1>2, <1>3, <1>5, SMTT(30) DEF LocalInv, AskInv, Asking
  <2>4. ASSUME pc[d] = "empty_check", SaysEmpty(d)' PROVE wasEmpty'[d]
    <3>1. l.victim \in Cpus /\ U(l.t) <= T(l.victim)
      BY <2>1, <2>4, <1>1, <1>5 DEF LocalInv, AskInv, Asking
    <3>2. T(l.victim)' = U(l.t)
      BY <1>1, <2>4 DEF SaysEmpty, TailUnchanged, T
    <3>3. T(l.victim) = U(l.t)
      BY <1>2, <1>3, <3>1, <3>2
    <3>4. tail[l.victim] = l.t
      BY <3>1, <3>3, <1>3, Distances DEF T, CountersInv, Typed
    <3>5. SaysEmpty(d)
      BY <1>1, <2>4, <3>4 DEF SaysEmpty, TailUnchanged
    <3>6. wasEmpty[d]
      BY <3>5, <2>4, <1>5 DEF LocalInv, AskInv
    <3> QED BY <3>6, <2>4, <1>1, <1>5 DEF Observe, Asking
  <2> QED BY <1>1, <2>1, <2>2, <2>3, <2>4 DEF AskInv
<1> QED BY <1>6, <1>7, <1>9, <1>10 DEF LocalInv

\* The numbers behind a CPU's state.
LEMMA Numbers ==
    ASSUME CountersInv, NEW c \in Cpus
    PROVE  /\ head[c] \in Words /\ tail[c] \in Words /\ pc[c] \in Labels
           /\ H(c) \in Nat /\ T(c) \in Nat /\ H(c) <= T(c) /\ T(c) <= H(c) + RUN_QUEUE_LEN
           /\ T(c) + Pending(c) + Cardinality(waiting) <= Reach(ops)
           /\ Cardinality(waiting) \in Nat /\ ops \in Nat
           /\ Reach(ops) \in Nat /\ Reach(ops) < Width
           /\ LocalInv(c)
<1>1. head[c] \in Words /\ tail[c] \in Words /\ pc[c] \in Labels /\ ops \in 0 .. MaxOps
  BY DEF CountersInv, Typed
<1>2. H(c) \in Nat /\ T(c) \in Nat
  BY <1>1, DistanceTyped DEF H, T
<1> QED BY <1>1, <1>2, ReachValue, WaitingCount DEF CountersInv, RingInv, ReachInv

LEMMA LocalsTyped ==
    ASSUME CountersInv, NEW c \in Cpus
    PROVE  /\ loc[c] \in Locals
           /\ loc[c].thread \in ThreadOrNone /\ loc[c].found \in ThreadOrNone /\ loc[c].batch \in Seq(ThreadOrNone)
           /\ Len(loc[c].batch) \in Nat /\ loc[c].h \in Words /\ loc[c].t \in Words
           /\ loc[c].n \in Nat /\ loc[c].i \in Nat /\ loc[c].next \in ThreadOrNone
           /\ loc[c].victim \in Cpus \cup {None} /\ loc[c].steal_next \in BOOLEAN /\ loc[c].ran \in BOOLEAN
           /\ loc[c].return \in Labels
           /\ U(loc[c].h) \in Nat /\ U(loc[c].t) \in Nat
<1>1. loc[c] \in Locals
  BY DEF CountersInv, Typed
<1>2. loc[c].h \in Words /\ loc[c].t \in Words
  BY <1>1 DEF Locals
<1>3. U(loc[c].h) \in Nat /\ U(loc[c].t) \in Nat
  BY <1>2, DistanceTyped
<1> QED BY <1>1, <1>2, <1>3 DEF Locals

LEMMA NoLocalsTyped == NoLocals \in Locals
BY Params DEF NoLocals, Locals, Words, ThreadOrNone, Labels

LEMMA FreshTyped ==
    ASSUME CountersInv, NEW c \in Cpus
    PROVE  Fresh(c) \in Locals
BY LocalsTyped, NoLocalsTyped DEF Fresh, Locals

LEMMA PendingTyped ==
    ASSUME NEW x, NEW l \in Locals
    PROVE  PendingAt(x, l) \in Nat
<1>1. Len(l.batch) \in Nat /\ l.n \in Nat /\ Half \in Nat
  BY Params DEF Locals
<1>2. AfterPut(l) \in Nat
  BY <1>1 DEF AfterPut
<1> QED BY <1>1, <1>2 DEF PendingAt

LEMMA PendingValue ==
    ASSUME NEW x \in Labels, NEW l \in Locals
    PROVE  /\ x = "run" => PendingAt(x, l) = 0
           /\ x \in PutPcs => PendingAt(x, l) = 1 + AfterPut(l)
           /\ x = "global_rest" => PendingAt(x, l) = Len(l.batch)
           /\ x \in {"stolen", "steal_publish"} => PendingAt(x, l) = l.n
           /\ x \notin PutPcs \cup {"run", "global_rest", "stolen", "steal_publish"} => PendingAt(x, l) = Half
BY DEF PendingAt, PutPcs

\* A step of c, in terms of where it goes and with which locals.
LEMMA StepTypes ==
    ASSUME CountersInv, NEW c \in Cpus, NEW x \in Labels, NEW m \in Locals,
           pc' = [pc EXCEPT ![c] = x], loc' = [loc EXCEPT ![c] = m],
           head' \in [Cpus -> Words], tail' \in [Cpus -> Words], QueuesTyped',
           waiting' \subseteq ThreadOrNone, ops' \in 0 .. MaxOps, Observe
    PROVE  /\ Typed'
           /\ pc'[c] = x /\ loc'[c] = m
           /\ \A d \in Cpus \ {c} : pc'[d] = pc[d] /\ loc'[d] = loc[d]
BY DEF CountersInv, Typed, Observe

\* A step that moves no counter.
LEMMA QuietStep ==
    ASSUME CountersInv, NEW c \in Cpus, NEW x \in Labels, NEW m \in Locals,
           pc' = [pc EXCEPT ![c] = x], loc' = [loc EXCEPT ![c] = m],
           UNCHANGED <<head, tail, waiting, ops>>, QueuesTyped', Observe,
           PendingAt(x, m) <= Pending(c),
           LocalInv(c)'
    PROVE  StepGoal(c)
<1>1. /\ Typed' /\ pc'[c] = x /\ loc'[c] = m
      /\ \A d \in Cpus \ {c} : pc'[d] = pc[d] /\ loc'[d] = loc[d]
  BY StepTypes DEF CountersInv, Typed
<1>2. \A v \in Cpus : H(v)' = H(v) /\ T(v)' = T(v) /\ H(v) \in Nat /\ T(v) \in Nat
  BY Numbers DEF H, T
<1>3. RingInv'
  BY <1>2 DEF RingInv, CountersInv
<1>4. Moves(c)
  BY <1>1, <1>2 DEF Moves
<1>5. Affords(c)
  <2>1. Pending(c)' = PendingAt(x, m)
    BY <1>1 DEF Pending
  <2>2. PendingAt(x, m) \in Nat /\ Pending(c) \in Nat
    BY PendingTyped, LocalsTyped DEF Pending
  <2>3. T(c) + Pending(c) + Cardinality(waiting) <= Reach(ops) /\ Cardinality(waiting) \in Nat /\ Reach(ops) \in Nat
    BY Numbers
  <2> QED BY <1>2, <2>1, <2>2, <2>3 DEF Affords
<1> QED BY <1>1, <1>3, <1>4, <1>5 DEF StepGoal

LEMMA SlotTyped ==
    ASSUME NEW x \in Nat
    PROVE  Slot(x) \in 0 .. RUN_QUEUE_LEN - 1
BY Params DEF Slot

LEMMA EntryTyped ==
    ASSUME CountersInv, NEW c \in Cpus, NEW i \in Nat
    PROVE  queue[c][Slot(i)] \in ThreadOrNone
<1>1. queue \in [Cpus -> [0 .. RUN_QUEUE_LEN - 1 -> ThreadOrNone]]
  BY DEF CountersInv, Typed, QueuesTyped
<1> QED BY <1>1, SlotTyped

LEMMA WordNat ==
    ASSUME NEW x \in Words
    PROVE  x \in Nat
BY Params DEF Words

\* global_run_queue_get takes a thread, and no more than half a ring.
LEMMA TakeValue ==
    ASSUME CountersInv, global # << >>, NEW max \in {0, 1}
    PROVE  /\ Take(max) \in 1 .. Half /\ Take(max) <= Len(global)
           /\ max = 1 => Take(max) = 1
<1>1. Len(global) \in Nat /\ Len(global) >= 1
  BY DEF CountersInv, Typed, QueuesTyped
<1>2. Cardinality(Cpus) \in Nat /\ Cardinality(Cpus) >= 1
  <2>1. IsFiniteSet(Cpus) /\ Cpus # {}
    BY RunQueueAssumption
  <2>2. Cardinality(Cpus) \in Nat /\ Cardinality(Cpus) # 0
    BY <2>1, FS_CardinalityType, FS_EmptySet
  <2> QED BY <2>2
<1>3. PICK a : a = (Len(global) \div Cardinality(Cpus)) + 1
  OBVIOUS
<1>4. a \in Nat /\ a >= 1
  BY <1>1, <1>2, <1>3
<1>5. Half \in Nat /\ Half >= 1
  BY Params
<1> DEFINE S == {a, Len(global), Half} \cup IF max > 0 THEN {max} ELSE {}
<1>6. Take(max) = Min(S)
  BY <1>3 DEF Take
<1>7. \E x \in S : \A y \in S : x <= y
  <2>1. CASE max = 1
    BY <2>1, <1>1, <1>4, <1>5
  <2>2. CASE max = 0
    <3>1. S = {a, Len(global), Half}
      BY <2>2
    <3> QED BY <3>1, <1>1, <1>4, <1>5
  <2> QED BY <2>1, <2>2
<1>8. Min(S) \in S /\ \A y \in S : Min(S) <= y
  BY <1>7 DEF Min
<1>9. \A y \in S : y \in Nat /\ y >= 1
  BY <1>1, <1>4, <1>5
<1>10. Len(global) \in S /\ Half \in S /\ (max = 1 => 1 \in S)
  OBVIOUS
<1> HIDE DEF S
<1>11. Min(S) \in Nat /\ Min(S) >= 1 /\ Min(S) <= Half /\ Min(S) <= Len(global) /\ (max = 1 => Min(S) <= 1)
  BY <1>8, <1>9, <1>10
<1> QED BY <1>5, <1>6, <1>11

LEMMA SameCounters ==
    ASSUME CountersInv, NEW c \in Cpus, UNCHANGED <<head, tail>>
    PROVE  \A v \in Cpus : H(v)' = H(v) /\ T(v)' = T(v) /\ H(v) \in Nat /\ T(v) \in Nat
BY Numbers DEF H, T

LEMMA PutLoadStep ==
    ASSUME CountersInv, NEW c \in Cpus, PutLoad(c), Observe
    PROVE  StepGoal(c)
<1> DEFINE m == [loc[c] EXCEPT !.h = head[c], !.t = tail[c]]
           x == IF HasRoom(head[c], tail[c]) THEN "put_write" ELSE "put_slow"
<1>1. pc' = [pc EXCEPT ![c] = x] /\ loc' = [loc EXCEPT ![c] = m] /\ pc[c] = "put"
  BY DEF PutLoad, Goto, Set
<1>2. m \in Locals /\ x \in Labels /\ m.return = loc[c].return /\ m.batch = loc[c].batch /\ m.t = tail[c]
  BY LocalsTyped, Numbers DEF Locals, Labels
<1>3. UNCHANGED <<head, tail, waiting, ops>> /\ QueuesTyped'
  BY DEF PutLoad, rings, CountersInv, Typed, QueuesTyped
<1>4. pc'[c] = x /\ loc'[c] = m
  BY <1>1, <1>2, <1>3, StepTypes DEF CountersInv, Typed
<1>5. \/ x = "put_write" /\ T(c) < H(c) + RUN_QUEUE_LEN
      \/ x = "put_slow" /\ T(c) >= H(c) + RUN_QUEUE_LEN
  BY Numbers, Distances, Params DEF HasRoom, H, T
<1> HIDE DEF x, m
<1>6. LocalInv(c)'
  <2>1. PutInv(c)'
    <3>1. H(c)' = H(c) /\ T(c)' = T(c)
      BY <1>3, SameCounters
    <3>2. PutInv(c) /\ H(c) \in Nat /\ T(c) \in Nat /\ Len(loc[c].batch) \in Nat
      BY Numbers, LocalsTyped DEF LocalInv
    <3>3. m.return = "global_rest" => x = "put_write" /\ T(c) + Len(m.batch) + 1 < H(c) + RUN_QUEUE_LEN
      BY <1>1, <1>2, <1>5, <3>2, Params DEF PutInv, PutPcs
    <3> QED BY <1>1, <1>2, <1>3, <1>4, <1>5, <3>1, <3>2, <3>3 DEF PutInv, PutPcs
  <2> QED BY <1>4, <1>5, <2>1 DEF LocalInv, GetInv, ThiefInv, AskInv, EmptyPcs, ThiefPcs, GrabPcs, Asking
<1>7. PendingAt(x, m) <= Pending(c)
  <2>1. AfterPut(m) = AfterPut(loc[c])
    BY <1>2 DEF AfterPut
  <2>2. x \in PutPcs /\ "put" \in PutPcs /\ "put" \in Labels
    BY <1>5 DEF PutPcs, Labels
  <2> QED BY <1>1, <1>2, <2>1, <2>2, PendingTyped, PendingValue, LocalsTyped DEF Pending
<1> QED BY <1>1, <1>2, <1>3, <1>6, <1>7, QuietStep
LEMMA PutWriteStep ==
    ASSUME CountersInv, NEW c \in Cpus, PutWrite(c), Observe
    PROVE  StepGoal(c)
<1>0. pc[c] \in {"put_write"} /\ LocalInv(c)
  BY Numbers DEF PutWrite
<1> DEFINE m == loc[c]
<1>1. pc' = [pc EXCEPT ![c] = "put_publish"] /\ loc' = [loc EXCEPT ![c] = m] /\ UNCHANGED <<head, tail, waiting, ops>>
  BY <1>0, LocalsTyped DEF PutWrite, Goto, Set, Forget, Execute, rings, CountersInv, Typed
<1>2. QueuesTyped'
  <2>1. Slot(loc[c].t) \in 0 .. RUN_QUEUE_LEN - 1
    BY LocalsTyped, WordNat, SlotTyped
  <2> QED BY <2>1, LocalsTyped DEF PutWrite, CountersInv, Typed, QueuesTyped
<1>3. m \in Locals /\ "put_publish" \in Labels /\ m = loc[c]
  BY <1>0, LocalsTyped, NoLocalsTyped, FreshTyped, Numbers DEF Locals, Labels, Asking
<1> HIDE DEF m
<1>4. pc'[c] = "put_publish" /\ loc'[c] = m
  BY <1>1, <1>2, <1>3, StepTypes DEF CountersInv, Typed
<1>5. LocalInv(c)'
  BY <1>1, <1>3, <1>4, <1>0, SameCounters DEF LocalInv, PutInv, GetInv, ThiefInv, AskInv, PutPcs, EmptyPcs, ThiefPcs, GrabPcs, Asking
<1>6. PendingAt("put_publish", m) <= Pending(c)
  BY <1>0, <1>3, Params, LocalsTyped, PendingTyped, PendingValue DEF Pending, PutPcs, Labels, Asking
<1> QED BY <1>1, <1>2, <1>3, <1>5, <1>6, QuietStep

LEMMA GrabHeadStep ==
    ASSUME CountersInv, NEW c \in Cpus, GrabHead(c), Observe
    PROVE  StepGoal(c)
<1>0. pc[c] \in {"grab"} /\ LocalInv(c)
  BY Numbers DEF GrabHead
<1>7. loc[c].victim \in Cpus
  BY <1>0 DEF LocalInv, ThiefInv, GrabPcs
<1> DEFINE m == [loc[c] EXCEPT !.h = head[loc[c].victim]]
<1>1. pc' = [pc EXCEPT ![c] = "grab_tail"] /\ loc' = [loc EXCEPT ![c] = m] /\ UNCHANGED <<head, tail, waiting, ops>>
  BY <1>0, LocalsTyped DEF GrabHead, Goto, Set, Forget, Execute, rings, CountersInv, Typed
<1>2. QueuesTyped'
  BY <1>0, LocalsTyped DEF GrabHead, Execute, rings, CountersInv, Typed, QueuesTyped
<1>3. m \in Locals /\ "grab_tail" \in Labels /\ m.victim = loc[c].victim /\ m.t = loc[c].t /\ m.h = head[loc[c].victim]
  BY <1>0, LocalsTyped, <1>7, Numbers, SMTT(30) DEF Locals, Labels, Asking
<1> HIDE DEF m
<1>4. pc'[c] = "grab_tail" /\ loc'[c] = m
  BY <1>1, <1>2, <1>3, StepTypes DEF CountersInv, Typed
<1>5. LocalInv(c)'
  BY <1>1, <1>3, <1>4, <1>0, <1>7, Numbers, SameCounters DEF LocalInv, PutInv, GetInv, ThiefInv, AskInv, PutPcs, EmptyPcs, ThiefPcs, GrabPcs, Asking, H
<1>6. PendingAt("grab_tail", m) <= Pending(c)
  BY <1>0, <1>3, Params, LocalsTyped, PendingTyped, PendingValue DEF Pending, PutPcs, Labels, Asking
<1> QED BY <1>1, <1>2, <1>3, <1>5, <1>6, QuietStep

LEMMA StealStep ==
    ASSUME CountersInv, NEW c \in Cpus, NEW v \in Cpus, NEW s \in BOOLEAN, Steal(c, v, s), Observe
    PROVE  StepGoal(c)
<1>0. pc[c] \in {"steal"} /\ LocalInv(c)
  BY Numbers DEF Steal
<1> DEFINE m == [Fresh(c) EXCEPT !.t = tail[c], !.victim = v, !.steal_next = s]
<1>1. pc' = [pc EXCEPT ![c] = "grab"] /\ loc' = [loc EXCEPT ![c] = m] /\ UNCHANGED <<head, tail, waiting, ops>>
  BY <1>0, LocalsTyped DEF Steal, Goto, Set, Forget, Execute, rings, CountersInv, Typed
<1>2. QueuesTyped'
  BY <1>0, LocalsTyped DEF Steal, Execute, rings, CountersInv, Typed, QueuesTyped
<1>3. m \in Locals /\ "grab" \in Labels /\ m.victim = v /\ v # c /\ m.t = tail[c]
  BY <1>0, LocalsTyped, NoLocalsTyped, FreshTyped, Numbers DEF Steal, Locals, Labels, Asking
<1> HIDE DEF m
<1>4. pc'[c] = "grab" /\ loc'[c] = m
  BY <1>1, <1>2, <1>3, StepTypes DEF CountersInv, Typed
<1>5. LocalInv(c)'
  BY <1>1, <1>3, <1>4, <1>0, SameCounters DEF LocalInv, PutInv, GetInv, ThiefInv, AskInv, PutPcs, EmptyPcs, ThiefPcs, GrabPcs, Asking
<1>6. PendingAt("grab", m) <= Pending(c)
  BY <1>0, <1>3, Params, LocalsTyped, PendingTyped, PendingValue DEF Pending, PutPcs, Labels, Asking
<1> QED BY <1>1, <1>2, <1>3, <1>5, <1>6, QuietStep

LEMMA StealFailStep ==
    ASSUME CountersInv, NEW c \in Cpus, StealFail(c), Observe
    PROVE  StepGoal(c)
<1>0. pc[c] \in {"steal"} /\ LocalInv(c)
  BY Numbers DEF StealFail
<1> DEFINE m == NoLocals
<1>1. pc' = [pc EXCEPT ![c] = (IF loc[c].ran THEN "find" ELSE "idle")] /\ loc' = [loc EXCEPT ![c] = m] /\ UNCHANGED <<head, tail, waiting, ops>>
  BY <1>0, LocalsTyped DEF StealFail, Goto, Set, Forget, Execute, rings, CountersInv, Typed
<1>2. QueuesTyped'
  BY <1>0, LocalsTyped DEF StealFail, Execute, rings, CountersInv, Typed, QueuesTyped
<1>3. m \in Locals /\ (IF loc[c].ran THEN "find" ELSE "idle") \in Labels
  BY <1>0, LocalsTyped, NoLocalsTyped, FreshTyped, Numbers DEF Locals, Labels, Asking
<1> HIDE DEF m
<1>4. pc'[c] = (IF loc[c].ran THEN "find" ELSE "idle") /\ loc'[c] = m
  BY <1>1, <1>2, <1>3, StepTypes DEF CountersInv, Typed
<1>5. LocalInv(c)'
  BY <1>1, <1>3, <1>4, <1>0 DEF LocalInv, PutInv, GetInv, ThiefInv, AskInv, PutPcs, EmptyPcs, ThiefPcs, GrabPcs, Asking
<1>6. PendingAt((IF loc[c].ran THEN "find" ELSE "idle"), m) <= Pending(c)
  BY <1>0, <1>3, Params, LocalsTyped, PendingTyped, PendingValue DEF Pending, PutPcs, Labels, Asking
<1> QED BY <1>1, <1>2, <1>3, <1>5, <1>6, QuietStep

LEMMA EmptyCallStep ==
    ASSUME CountersInv, NEW c \in Cpus, NEW v \in Cpus, EmptyCall(c, v), Observe
    PROVE  StepGoal(c)
<1>0. pc[c] \in {"look"} /\ LocalInv(c)
  BY Numbers DEF EmptyCall
<1> DEFINE m == [NoLocals EXCEPT !.victim = v]
<1>1. pc' = [pc EXCEPT ![c] = "empty_head"] /\ loc' = [loc EXCEPT ![c] = m] /\ UNCHANGED <<head, tail, waiting, ops>>
  BY <1>0, LocalsTyped DEF EmptyCall, Goto, Set, Forget, Execute, rings, CountersInv, Typed
<1>2. QueuesTyped'
  BY <1>0, LocalsTyped DEF EmptyCall, Execute, rings, CountersInv, Typed, QueuesTyped
<1>3. m \in Locals /\ "empty_head" \in Labels /\ m.victim = v
  BY <1>0, LocalsTyped, NoLocalsTyped, FreshTyped, Numbers DEF Locals, Labels, Asking
<1> HIDE DEF m
<1>4. pc'[c] = "empty_head" /\ loc'[c] = m
  BY <1>1, <1>2, <1>3, StepTypes DEF CountersInv, Typed
<1>5. LocalInv(c)'
  BY <1>1, <1>3, <1>4, <1>0 DEF LocalInv, PutInv, GetInv, ThiefInv, AskInv, PutPcs, EmptyPcs, ThiefPcs, GrabPcs, Asking
<1>6. PendingAt("empty_head", m) <= Pending(c)
  BY <1>0, <1>3, Params, LocalsTyped, PendingTyped, PendingValue DEF Pending, PutPcs, Labels, Asking
<1> QED BY <1>1, <1>2, <1>3, <1>5, <1>6, QuietStep

LEMMA EmptyHeadStep ==
    ASSUME CountersInv, NEW c \in Cpus, EmptyHead(c), Observe
    PROVE  StepGoal(c)
<1>0. pc[c] \in {"empty_head"} /\ LocalInv(c)
  BY Numbers DEF EmptyHead
<1>7. loc[c].victim \in Cpus
  BY <1>0 DEF LocalInv, AskInv, Asking
<1> DEFINE m == [loc[c] EXCEPT !.h = head[loc[c].victim]]
<1>1. pc' = [pc EXCEPT ![c] = "empty_tail"] /\ loc' = [loc EXCEPT ![c] = m] /\ UNCHANGED <<head, tail, waiting, ops>>
  BY <1>0, LocalsTyped DEF EmptyHead, Goto, Set, Forget, Execute, rings, CountersInv, Typed
<1>2. QueuesTyped'
  BY <1>0, LocalsTyped DEF EmptyHead, Execute, rings, CountersInv, Typed, QueuesTyped
<1>3. m \in Locals /\ "empty_tail" \in Labels /\ m.victim = loc[c].victim /\ m.h = head[loc[c].victim]
  BY <1>0, LocalsTyped, <1>7, Numbers, SMTT(30) DEF Locals, Labels, Asking
<1> HIDE DEF m
<1>4. pc'[c] = "empty_tail" /\ loc'[c] = m
  BY <1>1, <1>2, <1>3, StepTypes DEF CountersInv, Typed
<1>5. LocalInv(c)'
  BY <1>1, <1>3, <1>4, <1>0, <1>7, Numbers, SameCounters DEF LocalInv, PutInv, GetInv, ThiefInv, AskInv, PutPcs, EmptyPcs, ThiefPcs, GrabPcs, Asking, H
<1>6. PendingAt("empty_tail", m) <= Pending(c)
  BY <1>0, <1>3, Params, LocalsTyped, PendingTyped, PendingValue DEF Pending, PutPcs, Labels, Asking
<1> QED BY <1>1, <1>2, <1>3, <1>5, <1>6, QuietStep

LEMMA EmptyTailStep ==
    ASSUME CountersInv, NEW c \in Cpus, EmptyTail(c), Observe
    PROVE  StepGoal(c)
<1>0. pc[c] \in {"empty_tail"} /\ LocalInv(c)
  BY Numbers DEF EmptyTail
<1>7. loc[c].victim \in Cpus
  BY <1>0 DEF LocalInv, AskInv, Asking
<1> DEFINE m == [loc[c] EXCEPT !.t = tail[loc[c].victim]]
<1>1. pc' = [pc EXCEPT ![c] = "empty_next"] /\ loc' = [loc EXCEPT ![c] = m] /\ UNCHANGED <<head, tail, waiting, ops>>
  BY <1>0, LocalsTyped DEF EmptyTail, Goto, Set, Forget, Execute, rings, CountersInv, Typed
<1>2. QueuesTyped'
  BY <1>0, LocalsTyped DEF EmptyTail, Execute, rings, CountersInv, Typed, QueuesTyped
<1>3. m \in Locals /\ "empty_next" \in Labels /\ m.victim = loc[c].victim /\ m.h = loc[c].h /\ m.t = tail[loc[c].victim]
  BY <1>0, LocalsTyped, <1>7, Numbers, ZenonT(40) DEF Locals, Labels, Asking
<1> HIDE DEF m
<1>4. pc'[c] = "empty_next" /\ loc'[c] = m
  BY <1>1, <1>2, <1>3, StepTypes DEF CountersInv, Typed
<1>5. LocalInv(c)'
  BY <1>1, <1>3, <1>4, <1>0, <1>7, Numbers, SameCounters DEF LocalInv, PutInv, GetInv, ThiefInv, AskInv, PutPcs, EmptyPcs, ThiefPcs, GrabPcs, Asking, H, T
<1>6. PendingAt("empty_next", m) <= Pending(c)
  BY <1>0, <1>3, Params, LocalsTyped, PendingTyped, PendingValue DEF Pending, PutPcs, Labels, Asking
<1> QED BY <1>1, <1>2, <1>3, <1>5, <1>6, QuietStep

LEMMA HaltStep ==
    ASSUME CountersInv, NEW c \in Cpus, Halt(c), Observe
    PROVE  StepGoal(c)
<1>0. pc[c] \in {"look"} /\ LocalInv(c)
  BY Numbers DEF Halt
<1> DEFINE m == loc[c]
<1>1. pc' = [pc EXCEPT ![c] = "find"] /\ loc' = [loc EXCEPT ![c] = m] /\ UNCHANGED <<head, tail, waiting, ops>>
  BY <1>0, LocalsTyped DEF Halt, Goto, Set, Forget, Execute, rings, CountersInv, Typed
<1>2. QueuesTyped'
  BY <1>0, LocalsTyped DEF Halt, Execute, rings, CountersInv, Typed, QueuesTyped
<1>3. m \in Locals /\ "find" \in Labels
  BY <1>0, LocalsTyped, NoLocalsTyped, FreshTyped, Numbers DEF Locals, Labels, Asking
<1> HIDE DEF m
<1>4. pc'[c] = "find" /\ loc'[c] = m
  BY <1>1, <1>2, <1>3, StepTypes DEF CountersInv, Typed
<1>5. LocalInv(c)'
  BY <1>1, <1>3, <1>4, <1>0 DEF LocalInv, PutInv, GetInv, ThiefInv, AskInv, PutPcs, EmptyPcs, ThiefPcs, GrabPcs, Asking
<1>6. PendingAt("find", m) <= Pending(c)
  BY <1>0, <1>3, Params, LocalsTyped, PendingTyped, PendingValue DEF Pending, PutPcs, Labels, Asking
<1> QED BY <1>1, <1>2, <1>3, <1>5, <1>6, QuietStep

LEMMA EmptyNextStep ==
    ASSUME CountersInv, NEW c \in Cpus, EmptyNext(c), Observe
    PROVE  StepGoal(c)
<1>0. pc[c] \in {"empty_next"} /\ LocalInv(c)
  BY Numbers DEF EmptyNext
<1>7. loc[c].victim \in Cpus
  BY <1>0 DEF LocalInv, AskInv, Asking
<1> DEFINE m == [loc[c] EXCEPT !.next = next[loc[c].victim]]
<1>1. pc' = [pc EXCEPT ![c] = "empty_check"] /\ loc' = [loc EXCEPT ![c] = m] /\ UNCHANGED <<head, tail, waiting, ops>>
  BY <1>0, LocalsTyped DEF EmptyNext, Goto, Set, Forget, Execute, rings, CountersInv, Typed
<1>2. QueuesTyped'
  BY <1>0, LocalsTyped DEF EmptyNext, Execute, rings, CountersInv, Typed, QueuesTyped
<1>3. m \in Locals /\ "empty_check" \in Labels /\ m.victim = loc[c].victim /\ m.h = loc[c].h /\ m.t = loc[c].t /\ m.next = next[loc[c].victim]
  BY <1>0, LocalsTyped, <1>7, ZenonT(40) DEF Locals, Labels, Asking, CountersInv, Typed, QueuesTyped
<1> HIDE DEF m
<1>4. pc'[c] = "empty_check" /\ loc'[c] = m
  BY <1>1, <1>2, <1>3, StepTypes DEF CountersInv, Typed
<1>5. LocalInv(c)'
  <2>1. m.victim \in Cpus /\ U(m.h) <= H(m.victim) /\ U(m.t) <= T(m.victim) /\ UNCHANGED next
    BY <1>0, <1>3, <1>7 DEF LocalInv, AskInv, EmptyNext, rings
  <2>2. PICK w : w = m.victim
    OBVIOUS
  <2>3. w \in Cpus /\ H(w)' = H(w) /\ T(w)' = T(w) /\ H(w) \in Nat /\ T(w) \in Nat /\ H(w) <= T(w)
    BY <1>1, <2>1, <2>2, SameCounters, Numbers
  <2>4. SaysEmpty(c)' => wasEmpty'[c]
    <3>1. SUFFICES ASSUME SaysEmpty(c)' PROVE wasEmpty'[c]
      OBVIOUS
    <3>2. m.t = tail'[w] /\ m.h = m.t /\ m.next = None
      BY <1>4, <2>2, <3>1 DEF SaysEmpty, TailUnchanged
    <3>3. U(m.t) = T(w) /\ U(m.h) = T(w)
      BY <1>1, <3>2 DEF T
    <3>4. H(w) = T(w)
      BY <2>1, <2>2, <2>3, <3>3
    <3>5. tail[w] = head[w]
      BY <2>3, <3>4, Numbers, Distances DEF H, T
    <3>6. ReallyEmpty(loc[c].victim)'
      BY <1>1, <1>3, <1>4, <2>1, <2>2, <3>2, <3>5 DEF ReallyEmpty
    <3> QED BY <1>4, <3>6 DEF Observe, Asking
  <2>5. AskInv(c)'
    BY <1>4, <2>1, <2>2, <2>3, <2>4 DEF AskInv, Asking
  <2> QED BY <1>4, <2>5 DEF LocalInv, PutInv, GetInv, ThiefInv, PutPcs, EmptyPcs, ThiefPcs, GrabPcs
<1>6. PendingAt("empty_check", m) <= Pending(c)
  BY <1>0, <1>3, Params, LocalsTyped, PendingTyped, PendingValue DEF Pending, PutPcs, Labels, Asking
<1> QED BY <1>1, <1>2, <1>3, <1>5, <1>6, QuietStep

LEMMA EmptyCheckStep ==
    ASSUME CountersInv, NEW c \in Cpus, EmptyCheck(c), Observe
    PROVE  StepGoal(c)
<1>0. pc[c] \in {"empty_check"} /\ LocalInv(c)
  BY Numbers DEF EmptyCheck
<1>7. loc[c].victim \in Cpus
  BY <1>0 DEF LocalInv, AskInv, Asking
<1>1. CASE ~TailUnchanged(c)
  <2> DEFINE m == loc[c]
  <2>1. pc' = [pc EXCEPT ![c] = "empty_head"] /\ loc' = [loc EXCEPT ![c] = m] /\ UNCHANGED <<head, tail, waiting, ops>>
    BY <1>0, <1>1, LocalsTyped DEF EmptyCheck, Goto, Set, Forget, Execute, rings, CountersInv, Typed
  <2>2. QueuesTyped'
    BY <1>0, <1>1, LocalsTyped DEF EmptyCheck, Execute, rings, CountersInv, Typed, QueuesTyped
  <2>3. m \in Locals /\ "empty_head" \in Labels /\ m = loc[c]
    BY <1>0, <1>1, LocalsTyped, NoLocalsTyped, FreshTyped, Numbers DEF Locals, Labels, Asking
  <2> HIDE DEF m
  <2>4. pc'[c] = "empty_head" /\ loc'[c] = m
    BY <2>1, <2>2, <2>3, StepTypes DEF CountersInv, Typed
  <2>5. LocalInv(c)'
    BY <2>1, <2>3, <2>4, <1>0, <1>7 DEF LocalInv, PutInv, GetInv, ThiefInv, AskInv, PutPcs, EmptyPcs, ThiefPcs, GrabPcs, Asking
  <2>6. PendingAt("empty_head", m) <= Pending(c)
    BY <1>0, <1>1, <2>3, Params, LocalsTyped, PendingTyped, PendingValue DEF Pending, PutPcs, Labels, Asking
  <2> QED BY <2>1, <2>2, <2>3, <2>5, <2>6, QuietStep
<1>2. CASE TailUnchanged(c)
  <2> DEFINE m == NoLocals
  <2>1. pc' = [pc EXCEPT ![c] = (IF SaysEmpty(c) THEN "look" ELSE "find")] /\ loc' = [loc EXCEPT ![c] = m] /\ UNCHANGED <<head, tail, waiting, ops>>
    BY <1>0, <1>2, LocalsTyped DEF EmptyCheck, Goto, Set, Forget, Execute, rings, CountersInv, Typed
  <2>2. QueuesTyped'
    BY <1>0, <1>2, LocalsTyped DEF EmptyCheck, Execute, rings, CountersInv, Typed, QueuesTyped
  <2>3. m \in Locals /\ (IF SaysEmpty(c) THEN "look" ELSE "find") \in Labels
    BY <1>0, <1>2, LocalsTyped, NoLocalsTyped, FreshTyped, Numbers DEF Locals, Labels, Asking
  <2> HIDE DEF m
  <2>4. pc'[c] = (IF SaysEmpty(c) THEN "look" ELSE "find") /\ loc'[c] = m
    BY <2>1, <2>2, <2>3, StepTypes DEF CountersInv, Typed
  <2>5. LocalInv(c)'
    BY <2>1, <2>3, <2>4, <1>0 DEF LocalInv, PutInv, GetInv, ThiefInv, AskInv, PutPcs, EmptyPcs, ThiefPcs, GrabPcs, Asking
  <2>6. PendingAt((IF SaysEmpty(c) THEN "look" ELSE "find"), m) <= Pending(c)
    BY <1>0, <1>2, <2>3, Params, LocalsTyped, PendingTyped, PendingValue DEF Pending, PutPcs, Labels, Asking
  <2> QED BY <2>1, <2>2, <2>3, <2>5, <2>6, QuietStep
<1> QED BY <1>0, <1>1, <1>2 DEF EmptyCheck

LEMMA GrabTailStep ==
    ASSUME CountersInv, NEW c \in Cpus, GrabTail(c), Observe
    PROVE  StepGoal(c)
<1>0. pc[c] \in {"grab_tail"} /\ LocalInv(c)
  BY Numbers DEF GrabTail
<1>7. loc[c].victim \in Cpus
  BY <1>0 DEF LocalInv, ThiefInv, GrabPcs
<1> DEFINE w == loc[c].victim
           n == Share(loc[c].h, tail[w])
<1>8. n \in Nat /\ U(loc[c].h) + n <= T(w)
  <2>1. w \in Cpus /\ U(loc[c].h) <= H(w)
    BY <1>0, <1>7 DEF LocalInv, ThiefInv
  <2>2. loc[c].h \in Words /\ tail[w] \in Words /\ U(loc[c].h) \in Nat /\ H(w) \in Nat /\ T(w) \in Nat /\ H(w) <= T(w)
    BY <2>1, LocalsTyped, Numbers
  <2>3. Minus(tail[w], loc[c].h) = T(w) - U(loc[c].h)
    BY <2>1, <2>2, Distances DEF T
  <2> QED BY <2>1, <2>2, <2>3 DEF Share
<1>1. CASE n = 0 /\ ~loc[c].steal_next
  <2> DEFINE m == Fresh(c)
  <2>1. pc' = [pc EXCEPT ![c] = "steal"] /\ loc' = [loc EXCEPT ![c] = m] /\ UNCHANGED <<head, tail, waiting, ops>>
    BY <1>0, <1>1, <1>8, Params, LocalsTyped DEF GrabTail, Goto, Set, Forget, Execute, rings, CountersInv, Typed
  <2>2. QueuesTyped'
    BY <1>0, <1>1, <1>8, Params, LocalsTyped DEF GrabTail, Execute, rings, CountersInv, Typed, QueuesTyped
  <2>3. m \in Locals /\ "steal" \in Labels
    BY <1>0, <1>1, <1>8, Params, LocalsTyped, NoLocalsTyped, FreshTyped, Numbers DEF Locals, Labels, Asking
  <2> HIDE DEF m
  <2>4. pc'[c] = "steal" /\ loc'[c] = m
    BY <2>1, <2>2, <2>3, StepTypes DEF CountersInv, Typed
  <2>5. LocalInv(c)'
    BY <2>1, <2>3, <2>4, <1>0 DEF LocalInv, PutInv, GetInv, ThiefInv, AskInv, PutPcs, EmptyPcs, ThiefPcs, GrabPcs, Asking
  <2>6. PendingAt("steal", m) <= Pending(c)
    BY <1>0, <1>1, <1>8, Params, <2>3, Params, LocalsTyped, PendingTyped, PendingValue DEF Pending, PutPcs, Labels, Asking
  <2> QED BY <2>1, <2>2, <2>3, <2>5, <2>6, QuietStep
<1>2. CASE n = 0 /\ loc[c].steal_next
  <2> DEFINE m == loc[c]
  <2>1. pc' = [pc EXCEPT ![c] = "grab_next"] /\ loc' = [loc EXCEPT ![c] = m] /\ UNCHANGED <<head, tail, waiting, ops>>
    BY <1>0, <1>2, <1>8, Params, LocalsTyped DEF GrabTail, Goto, Set, Forget, Execute, rings, CountersInv, Typed
  <2>2. QueuesTyped'
    BY <1>0, <1>2, <1>8, Params, LocalsTyped DEF GrabTail, Execute, rings, CountersInv, Typed, QueuesTyped
  <2>3. m \in Locals /\ "grab_next" \in Labels /\ m = loc[c]
    BY <1>0, <1>2, <1>8, Params, LocalsTyped, NoLocalsTyped, FreshTyped, Numbers DEF Locals, Labels, Asking
  <2> HIDE DEF m
  <2>4. pc'[c] = "grab_next" /\ loc'[c] = m
    BY <2>1, <2>2, <2>3, StepTypes DEF CountersInv, Typed
  <2>5. LocalInv(c)'
    BY <2>1, <2>3, <2>4, <1>0 DEF LocalInv, PutInv, GetInv, ThiefInv, AskInv, PutPcs, EmptyPcs, ThiefPcs, GrabPcs, Asking
  <2>6. PendingAt("grab_next", m) <= Pending(c)
    BY <1>0, <1>2, <1>8, Params, <2>3, Params, LocalsTyped, PendingTyped, PendingValue DEF Pending, PutPcs, Labels, Asking
  <2> QED BY <2>1, <2>2, <2>3, <2>5, <2>6, QuietStep
<1>3. CASE n > Half
  <2> DEFINE m == loc[c]
  <2>1. pc' = [pc EXCEPT ![c] = "grab"] /\ loc' = [loc EXCEPT ![c] = m] /\ UNCHANGED <<head, tail, waiting, ops>>
    BY <1>0, <1>3, <1>8, Params, LocalsTyped DEF GrabTail, Goto, Set, Forget, Execute, rings, CountersInv, Typed
  <2>2. QueuesTyped'
    BY <1>0, <1>3, <1>8, Params, LocalsTyped DEF GrabTail, Execute, rings, CountersInv, Typed, QueuesTyped
  <2>3. m \in Locals /\ "grab" \in Labels /\ m = loc[c]
    BY <1>0, <1>3, <1>8, Params, LocalsTyped, NoLocalsTyped, FreshTyped, Numbers DEF Locals, Labels, Asking
  <2> HIDE DEF m
  <2>4. pc'[c] = "grab" /\ loc'[c] = m
    BY <2>1, <2>2, <2>3, StepTypes DEF CountersInv, Typed
  <2>5. LocalInv(c)'
    BY <2>1, <2>3, <2>4, <1>0 DEF LocalInv, PutInv, GetInv, ThiefInv, AskInv, PutPcs, EmptyPcs, ThiefPcs, GrabPcs, Asking
  <2>6. PendingAt("grab", m) <= Pending(c)
    BY <1>0, <1>3, <1>8, Params, <2>3, Params, LocalsTyped, PendingTyped, PendingValue DEF Pending, PutPcs, Labels, Asking
  <2> QED BY <2>1, <2>2, <2>3, <2>5, <2>6, QuietStep
<1>4. CASE n \in 1 .. Half
  <2> DEFINE m == [loc[c] EXCEPT !.n = n, !.i = 0]
  <2>1. pc' = [pc EXCEPT ![c] = "grab_copy"] /\ loc' = [loc EXCEPT ![c] = m] /\ UNCHANGED <<head, tail, waiting, ops>>
    BY <1>0, <1>4, <1>8, Params, LocalsTyped DEF GrabTail, Goto, Set, Forget, Execute, rings, CountersInv, Typed
  <2>2. QueuesTyped'
    BY <1>0, <1>4, <1>8, Params, LocalsTyped DEF GrabTail, Execute, rings, CountersInv, Typed, QueuesTyped
  <2>3. m \in Locals /\ "grab_copy" \in Labels /\ m.n = n /\ m.h = loc[c].h /\ m.t = loc[c].t /\ m.victim = loc[c].victim
    BY <1>0, <1>4, <1>8, Params, <1>8, LocalsTyped DEF Locals, Labels, Asking
  <2> HIDE DEF m
  <2>4. pc'[c] = "grab_copy" /\ loc'[c] = m
    BY <2>1, <2>2, <2>3, StepTypes DEF CountersInv, Typed
  <2>5. LocalInv(c)'
    BY <2>1, <2>3, <2>4, <1>0, <1>4, <1>7, <1>8, SameCounters DEF LocalInv, PutInv, GetInv, ThiefInv, AskInv, PutPcs, EmptyPcs, ThiefPcs, GrabPcs, Asking
  <2>6. PendingAt("grab_copy", m) <= Pending(c)
    BY <1>0, <1>4, <1>8, Params, <2>3, Params, LocalsTyped, PendingTyped, PendingValue DEF Pending, PutPcs, Labels, Asking
  <2> QED BY <2>1, <2>2, <2>3, <2>5, <2>6, QuietStep
<1>5. n = 0 \/ n > Half \/ n \in 1 .. Half
  BY <1>8, Params
<1> QED BY <1>5, <1>0, <1>1, <1>2, <1>3, <1>4, <1>8 DEF GrabTail

LEMMA GrabNextStep ==
    ASSUME CountersInv, NEW c \in Cpus, GrabNext(c), Observe
    PROVE  StepGoal(c)
<1>0. pc[c] \in {"grab_next"} /\ LocalInv(c)
  BY Numbers DEF GrabNext
<1>7. loc[c].victim \in Cpus
  BY <1>0 DEF LocalInv, ThiefInv, GrabPcs
<1>1. CASE next[loc[c].victim] = None
  <2> DEFINE m == Fresh(c)
  <2>1. pc' = [pc EXCEPT ![c] = "steal"] /\ loc' = [loc EXCEPT ![c] = m] /\ UNCHANGED <<head, tail, waiting, ops>>
    BY <1>0, <1>1, LocalsTyped DEF GrabNext, Goto, Set, Forget, Execute, rings, CountersInv, Typed
  <2>2. QueuesTyped'
    BY <1>0, <1>1, LocalsTyped DEF GrabNext, Execute, rings, CountersInv, Typed, QueuesTyped
  <2>3. m \in Locals /\ "steal" \in Labels
    BY <1>0, <1>1, LocalsTyped, NoLocalsTyped, FreshTyped, Numbers DEF Locals, Labels, Asking
  <2> HIDE DEF m
  <2>4. pc'[c] = "steal" /\ loc'[c] = m
    BY <2>1, <2>2, <2>3, StepTypes DEF CountersInv, Typed
  <2>5. LocalInv(c)'
    BY <2>1, <2>3, <2>4, <1>0 DEF LocalInv, PutInv, GetInv, ThiefInv, AskInv, PutPcs, EmptyPcs, ThiefPcs, GrabPcs, Asking
  <2>6. PendingAt("steal", m) <= Pending(c)
    BY <1>0, <1>1, <2>3, Params, LocalsTyped, PendingTyped, PendingValue DEF Pending, PutPcs, Labels, Asking
  <2> QED BY <2>1, <2>2, <2>3, <2>5, <2>6, QuietStep
<1>2. CASE next[loc[c].victim] # None
  <2> DEFINE m == [loc[c] EXCEPT !.next = next[loc[c].victim]]
  <2>1. pc' = [pc EXCEPT ![c] = "grab_next_cas"] /\ loc' = [loc EXCEPT ![c] = m] /\ UNCHANGED <<head, tail, waiting, ops>>
    BY <1>0, <1>2, LocalsTyped DEF GrabNext, Goto, Set, Forget, Execute, rings, CountersInv, Typed
  <2>2. QueuesTyped'
    BY <1>0, <1>2, LocalsTyped DEF GrabNext, Execute, rings, CountersInv, Typed, QueuesTyped
  <2>3. m \in Locals /\ "grab_next_cas" \in Labels /\ m.t = loc[c].t /\ m.victim = loc[c].victim
    BY <1>0, <1>2, LocalsTyped, <1>7, ZenonT(40) DEF Locals, Labels, Asking, CountersInv, Typed, QueuesTyped
  <2> HIDE DEF m
  <2>4. pc'[c] = "grab_next_cas" /\ loc'[c] = m
    BY <2>1, <2>2, <2>3, StepTypes DEF CountersInv, Typed
  <2>5. LocalInv(c)'
    BY <2>1, <2>3, <2>4, <1>0 DEF LocalInv, PutInv, GetInv, ThiefInv, AskInv, PutPcs, EmptyPcs, ThiefPcs, GrabPcs, Asking
  <2>6. PendingAt("grab_next_cas", m) <= Pending(c)
    BY <1>0, <1>2, <2>3, Params, LocalsTyped, PendingTyped, PendingValue DEF Pending, PutPcs, Labels, Asking
  <2> QED BY <2>1, <2>2, <2>3, <2>5, <2>6, QuietStep
<1> QED BY <1>0, <1>1, <1>2 DEF GrabNext

LEMMA GrabNextCasStep ==
    ASSUME CountersInv, NEW c \in Cpus, GrabNextCas(c), Observe
    PROVE  StepGoal(c)
<1>0. pc[c] \in {"grab_next_cas"} /\ LocalInv(c)
  BY Numbers DEF GrabNextCas
<1>7. loc[c].victim \in Cpus
  BY <1>0 DEF LocalInv, ThiefInv, GrabPcs
<1>1. CASE next[loc[c].victim] = loc[c].next
  <2> DEFINE m == [loc[c] EXCEPT !.n = 1]
  <2>1. pc' = [pc EXCEPT ![c] = "stolen"] /\ loc' = [loc EXCEPT ![c] = m] /\ UNCHANGED <<head, tail, waiting, ops>>
    BY <1>0, <1>1, LocalsTyped DEF GrabNextCas, Goto, Set, Forget, Execute, rings, CountersInv, Typed
  <2>2. QueuesTyped'
    <3>1. Slot(loc[c].t) \in 0 .. RUN_QUEUE_LEN - 1
      BY LocalsTyped, WordNat, SlotTyped
    <3>2. None \in ThreadOrNone
      BY DEF ThreadOrNone
    <3>3. queue' \in [Cpus -> [0 .. RUN_QUEUE_LEN - 1 -> ThreadOrNone]]
      <4>1. queue' = [queue EXCEPT ![c][Slot(loc[c].t)] = loc[c].next]
        BY <1>1 DEF GrabNextCas
      <4>2. queue \in [Cpus -> [0 .. RUN_QUEUE_LEN - 1 -> ThreadOrNone]] /\ loc[c].next \in ThreadOrNone
        BY LocalsTyped DEF CountersInv, Typed, QueuesTyped
      <4> QED BY <3>1, <4>1, <4>2
    <3>4. next' \in [Cpus -> ThreadOrNone] /\ UNCHANGED <<global, lock, current>>
      BY <1>1, <3>2 DEF GrabNextCas, CountersInv, Typed, QueuesTyped
    <3> QED BY <3>3, <3>4 DEF CountersInv, Typed, QueuesTyped
  <2>3. m \in Locals /\ "stolen" \in Labels /\ m.t = loc[c].t /\ m.n = 1
    BY <1>0, <1>1, LocalsTyped, NoLocalsTyped, FreshTyped, Numbers DEF Locals, Labels, Asking
  <2> HIDE DEF m
  <2>4. pc'[c] = "stolen" /\ loc'[c] = m
    BY <2>1, <2>2, <2>3, StepTypes DEF CountersInv, Typed
  <2>5. LocalInv(c)'
    BY <2>1, <2>3, <2>4, <1>0, Params DEF LocalInv, PutInv, GetInv, ThiefInv, AskInv, PutPcs, EmptyPcs, ThiefPcs, GrabPcs, Asking
  <2>6. PendingAt("stolen", m) <= Pending(c)
    BY <1>0, <1>1, <2>3, Params, LocalsTyped, PendingTyped, PendingValue DEF Pending, PutPcs, Labels, Asking
  <2> QED BY <2>1, <2>2, <2>3, <2>5, <2>6, QuietStep
<1>2. CASE next[loc[c].victim] # loc[c].next
  <2> DEFINE m == loc[c]
  <2>1. pc' = [pc EXCEPT ![c] = "grab"] /\ loc' = [loc EXCEPT ![c] = m] /\ UNCHANGED <<head, tail, waiting, ops>>
    BY <1>0, <1>2, LocalsTyped DEF GrabNextCas, Goto, Set, Forget, Execute, rings, CountersInv, Typed
  <2>2. QueuesTyped'
    BY <1>0, <1>2, LocalsTyped DEF GrabNextCas, Execute, rings, CountersInv, Typed, QueuesTyped
  <2>3. m \in Locals /\ "grab" \in Labels /\ m = loc[c]
    BY <1>0, <1>2, LocalsTyped, NoLocalsTyped, FreshTyped, Numbers DEF Locals, Labels, Asking
  <2> HIDE DEF m
  <2>4. pc'[c] = "grab" /\ loc'[c] = m
    BY <2>1, <2>2, <2>3, StepTypes DEF CountersInv, Typed
  <2>5. LocalInv(c)'
    BY <2>1, <2>3, <2>4, <1>0 DEF LocalInv, PutInv, GetInv, ThiefInv, AskInv, PutPcs, EmptyPcs, ThiefPcs, GrabPcs, Asking
  <2>6. PendingAt("grab", m) <= Pending(c)
    BY <1>0, <1>2, <2>3, Params, LocalsTyped, PendingTyped, PendingValue DEF Pending, PutPcs, Labels, Asking
  <2> QED BY <2>1, <2>2, <2>3, <2>5, <2>6, QuietStep
<1> QED BY <1>0, <1>1, <1>2 DEF GrabNextCas

LEMMA GrabCopyStep ==
    ASSUME CountersInv, NEW c \in Cpus, GrabCopy(c), Observe
    PROVE  StepGoal(c)
<1>0. pc[c] \in {"grab_copy"} /\ LocalInv(c)
  BY Numbers DEF GrabCopy
<1>7. loc[c].victim \in Cpus
  BY <1>0 DEF LocalInv, ThiefInv, GrabPcs
<1>8. loc[c].i + 1 \in Nat
  BY LocalsTyped
<1> DEFINE m == [loc[c] EXCEPT !.i = @ + 1]
<1>1. pc' = [pc EXCEPT ![c] = (IF loc[c].i + 1 = loc[c].n THEN "grab_cas" ELSE "grab_copy")] /\ loc' = [loc EXCEPT ![c] = m] /\ UNCHANGED <<head, tail, waiting, ops>>
  BY <1>0, LocalsTyped DEF GrabCopy, Goto, Set, Forget, Execute, rings, CountersInv, Typed
<1>2. QueuesTyped'
  <2>1. Slot(loc[c].t + loc[c].i) \in 0 .. RUN_QUEUE_LEN - 1 /\ Slot(loc[c].h + loc[c].i) \in 0 .. RUN_QUEUE_LEN - 1
    <3>1. loc[c].t + loc[c].i \in Nat /\ loc[c].h + loc[c].i \in Nat
      BY LocalsTyped, WordNat, SMTT(30)
    <3> QED BY <3>1, SlotTyped
  <2> QED BY <2>1, <1>7, LocalsTyped DEF GrabCopy, CountersInv, Typed, QueuesTyped
<1>3. m \in Locals /\ (IF loc[c].i + 1 = loc[c].n THEN "grab_cas" ELSE "grab_copy") \in Labels /\ m.t = loc[c].t /\ m.n = loc[c].n /\ m.h = loc[c].h /\ m.victim = loc[c].victim
  BY <1>0, LocalsTyped, <1>8 DEF Locals, Labels, Asking
<1> HIDE DEF m
<1>4. pc'[c] = (IF loc[c].i + 1 = loc[c].n THEN "grab_cas" ELSE "grab_copy") /\ loc'[c] = m
  BY <1>1, <1>2, <1>3, StepTypes DEF CountersInv, Typed
<1>5. LocalInv(c)'
  BY <1>1, <1>3, <1>4, <1>0, <1>7, SameCounters DEF LocalInv, PutInv, GetInv, ThiefInv, AskInv, PutPcs, EmptyPcs, ThiefPcs, GrabPcs, Asking
<1>6. PendingAt((IF loc[c].i + 1 = loc[c].n THEN "grab_cas" ELSE "grab_copy"), m) <= Pending(c)
  BY <1>0, <1>3, Params, LocalsTyped, PendingTyped, PendingValue DEF Pending, PutPcs, Labels, Asking
<1> QED BY <1>1, <1>2, <1>3, <1>5, <1>6, QuietStep

LEMMA StolenStep ==
    ASSUME CountersInv, NEW c \in Cpus, Stolen(c), Observe
    PROVE  StepGoal(c)
<1>0. pc[c] \in {"stolen"} /\ LocalInv(c)
  BY Numbers DEF Stolen
<1>8. loc[c].n \in 1 .. Half /\ queue[c][Slot(loc[c].t + (loc[c].n - 1))] \in ThreadOrNone
  <2>1. loc[c].n \in 1 .. Half
    BY <1>0 DEF LocalInv, ThiefInv
  <2>2. loc[c].t + (loc[c].n - 1) \in Nat
    BY <2>1, LocalsTyped, WordNat, Params
  <2> QED BY <2>1, <2>2, EntryTyped
<1>9. loc[c].n - 1 \in Nat
  BY <1>8, LocalsTyped, Params
<1>1. CASE loc[c].n - 1 = 0
  <2> DEFINE m == NoLocals
  <2>1. pc' = [pc EXCEPT ![c] = "run"] /\ loc' = [loc EXCEPT ![c] = m] /\ UNCHANGED <<head, tail, waiting, ops>>
    BY <1>0, <1>1, <1>8, LocalsTyped DEF Stolen, Goto, Set, Forget, Execute, rings, CountersInv, Typed
  <2>2. QueuesTyped'
    BY <1>0, <1>1, <1>8, LocalsTyped DEF Stolen, Execute, rings, CountersInv, Typed, QueuesTyped
  <2>3. m \in Locals /\ "run" \in Labels
    BY <1>0, <1>1, <1>8, LocalsTyped, NoLocalsTyped, FreshTyped, Numbers DEF Locals, Labels, Asking
  <2> HIDE DEF m
  <2>4. pc'[c] = "run" /\ loc'[c] = m
    BY <2>1, <2>2, <2>3, StepTypes DEF CountersInv, Typed
  <2>5. LocalInv(c)'
    BY <2>1, <2>3, <2>4, <1>0 DEF LocalInv, PutInv, GetInv, ThiefInv, AskInv, PutPcs, EmptyPcs, ThiefPcs, GrabPcs, Asking
  <2>6. PendingAt("run", m) <= Pending(c)
    BY <1>0, <1>1, <1>8, <2>3, Params, LocalsTyped, PendingTyped, PendingValue DEF Pending, PutPcs, Labels, Asking
  <2> QED BY <2>1, <2>2, <2>3, <2>5, <2>6, QuietStep
<1>2. CASE loc[c].n - 1 # 0
  <2> DEFINE m == [loc[c] EXCEPT !.n = loc[c].n - 1, !.found = queue[c][Slot(loc[c].t + (loc[c].n - 1))]]
  <2>1. pc' = [pc EXCEPT ![c] = "steal_publish"] /\ loc' = [loc EXCEPT ![c] = m] /\ UNCHANGED <<head, tail, waiting, ops>>
    BY <1>0, <1>2, <1>8, LocalsTyped DEF Stolen, Goto, Set, Forget, Execute, rings, CountersInv, Typed
  <2>2. QueuesTyped'
    BY <1>0, <1>2, <1>8, LocalsTyped DEF Stolen, Execute, rings, CountersInv, Typed, QueuesTyped
  <2>3. m \in Locals /\ "steal_publish" \in Labels /\ m.t = loc[c].t /\ m.n = loc[c].n - 1
    BY <1>0, <1>2, <1>8, LocalsTyped, <1>9 DEF Locals, Labels, Asking
  <2> HIDE DEF m
  <2>4. pc'[c] = "steal_publish" /\ loc'[c] = m
    BY <2>1, <2>2, <2>3, StepTypes DEF CountersInv, Typed
  <2>5. LocalInv(c)'
    BY <2>1, <2>3, <2>4, <1>0, <1>2, <1>8, Params DEF LocalInv, PutInv, GetInv, ThiefInv, AskInv, PutPcs, EmptyPcs, ThiefPcs, GrabPcs, Asking
  <2>6. PendingAt("steal_publish", m) <= Pending(c)
    <3>1. PendingAt("steal_publish", m) = m.n
      BY <2>3, PendingValue
    <3>2. Pending(c) = loc[c].n
      BY <1>0, LocalsTyped, PendingValue DEF Pending, Labels
    <3> QED BY <2>3, <3>1, <3>2, LocalsTyped
  <2> QED BY <2>1, <2>2, <2>3, <2>5, <2>6, QuietStep
<1> QED BY <1>0, <1>1, <1>2, <1>8 DEF Stolen

LEMMA GetNextStep ==
    ASSUME CountersInv, NEW c \in Cpus, GetNext(c), Observe
    PROVE  StepGoal(c)
<1>0. pc[c] \in {"find", "steal_timers"} /\ LocalInv(c)
  BY Numbers DEF GetNext
<1>1. CASE next[c] # None
  <2> DEFINE m == NoLocals
  <2>1. pc' = [pc EXCEPT ![c] = "run"] /\ loc' = [loc EXCEPT ![c] = m] /\ UNCHANGED <<head, tail, waiting, ops>>
    BY <1>0, <1>1, LocalsTyped DEF GetNext, Goto, Set, Forget, Execute, rings, CountersInv, Typed
  <2>2. QueuesTyped'
    <3>1. None \in ThreadOrNone
      BY DEF ThreadOrNone
    <3> QED BY <1>1, <3>1 DEF GetNext, Execute, CountersInv, Typed, QueuesTyped
  <2>3. m \in Locals /\ "run" \in Labels
    BY <1>0, <1>1, LocalsTyped, NoLocalsTyped, FreshTyped, Numbers DEF Locals, Labels, Asking
  <2> HIDE DEF m
  <2>4. pc'[c] = "run" /\ loc'[c] = m
    BY <2>1, <2>2, <2>3, StepTypes DEF CountersInv, Typed
  <2>5. LocalInv(c)'
    BY <2>1, <2>3, <2>4 DEF LocalInv, PutInv, GetInv, ThiefInv, AskInv, PutPcs, EmptyPcs, ThiefPcs, GrabPcs, Asking
  <2>6. PendingAt("run", m) <= Pending(c)
    BY <1>0, <1>1, <2>3, Params, LocalsTyped, PendingTyped, PendingValue DEF Pending, PutPcs, Labels, Asking
  <2> QED BY <2>1, <2>2, <2>3, <2>5, <2>6, QuietStep
<1>2. CASE next[c] = None /\ pc[c] = "find"
  <2> DEFINE m == [NoLocals EXCEPT !.return = "global", !.ran = FALSE]
  <2>1. pc' = [pc EXCEPT ![c] = "get"] /\ loc' = [loc EXCEPT ![c] = m] /\ UNCHANGED <<head, tail, waiting, ops>>
    BY <1>0, <1>2, LocalsTyped DEF GetNext, Goto, Set, Forget, Execute, rings, CountersInv, Typed
  <2>2. QueuesTyped'
    BY <1>0, <1>2, LocalsTyped DEF GetNext, Execute, rings, CountersInv, Typed, QueuesTyped
  <2>3. m \in Locals /\ "get" \in Labels /\ m.return = "global"
    BY <1>0, <1>2, LocalsTyped, NoLocalsTyped, FreshTyped, Numbers DEF Locals, Labels, Asking
  <2> HIDE DEF m
  <2>4. pc'[c] = "get" /\ loc'[c] = m
    BY <2>1, <2>2, <2>3, StepTypes DEF CountersInv, Typed
  <2>5. LocalInv(c)'
    BY <2>1, <2>3, <2>4 DEF LocalInv, PutInv, GetInv, ThiefInv, AskInv, PutPcs, EmptyPcs, ThiefPcs, GrabPcs, Asking
  <2>6. PendingAt("get", m) <= Pending(c)
    BY <1>0, <1>2, <2>3, Params, LocalsTyped, PendingTyped, PendingValue DEF Pending, PutPcs, Labels, Asking
  <2> QED BY <2>1, <2>2, <2>3, <2>5, <2>6, QuietStep
<1>3. CASE next[c] = None /\ pc[c] = "steal_timers"
  <2> DEFINE m == [NoLocals EXCEPT !.return = "steal", !.ran = TRUE]
  <2>1. pc' = [pc EXCEPT ![c] = "get"] /\ loc' = [loc EXCEPT ![c] = m] /\ UNCHANGED <<head, tail, waiting, ops>>
    BY <1>0, <1>3, LocalsTyped DEF GetNext, Goto, Set, Forget, Execute, rings, CountersInv, Typed
  <2>2. QueuesTyped'
    BY <1>0, <1>3, LocalsTyped DEF GetNext, Execute, rings, CountersInv, Typed, QueuesTyped
  <2>3. m \in Locals /\ "get" \in Labels /\ m.return = "steal"
    BY <1>0, <1>3, LocalsTyped, NoLocalsTyped, FreshTyped, Numbers DEF Locals, Labels, Asking
  <2> HIDE DEF m
  <2>4. pc'[c] = "get" /\ loc'[c] = m
    BY <2>1, <2>2, <2>3, StepTypes DEF CountersInv, Typed
  <2>5. LocalInv(c)'
    BY <2>1, <2>3, <2>4 DEF LocalInv, PutInv, GetInv, ThiefInv, AskInv, PutPcs, EmptyPcs, ThiefPcs, GrabPcs, Asking
  <2>6. PendingAt("get", m) <= Pending(c)
    BY <1>0, <1>3, <2>3, Params, LocalsTyped, PendingTyped, PendingValue DEF Pending, PutPcs, Labels, Asking
  <2> QED BY <2>1, <2>2, <2>3, <2>5, <2>6, QuietStep
<1> QED BY <1>0, <1>1, <1>2, <1>3 DEF GetNext

LEMMA GetLoadStep ==
    ASSUME CountersInv, NEW c \in Cpus, GetLoad(c), Observe
    PROVE  StepGoal(c)
<1>0. pc[c] \in {"get"} /\ LocalInv(c)
  BY Numbers DEF GetLoad
<1>7. loc[c].return \in {"global", "steal"}
  BY <1>0 DEF LocalInv, GetInv
<1>1. CASE tail[c] = head[c]
  <2> DEFINE m == Fresh(c)
  <2>1. pc' = [pc EXCEPT ![c] = loc[c].return] /\ loc' = [loc EXCEPT ![c] = m] /\ UNCHANGED <<head, tail, waiting, ops>>
    BY <1>0, <1>1, LocalsTyped DEF GetLoad, Goto, Set, Forget, Execute, rings, CountersInv, Typed
  <2>2. QueuesTyped'
    BY <1>0, <1>1, LocalsTyped DEF GetLoad, Execute, rings, CountersInv, Typed, QueuesTyped
  <2>3. m \in Locals /\ loc[c].return \in Labels
    BY <1>0, <1>1, LocalsTyped, NoLocalsTyped, FreshTyped, Numbers DEF Locals, Labels, Asking
  <2> HIDE DEF m
  <2>4. pc'[c] = loc[c].return /\ loc'[c] = m
    BY <2>1, <2>2, <2>3, StepTypes DEF CountersInv, Typed
  <2>5. LocalInv(c)'
    BY <2>1, <2>3, <2>4, <1>1, <1>7 DEF LocalInv, PutInv, GetInv, ThiefInv, AskInv, PutPcs, EmptyPcs, ThiefPcs, GrabPcs, Asking
  <2>6. PendingAt(loc[c].return, m) <= Pending(c)
    BY <1>0, <1>7, <2>3, Params, LocalsTyped, PendingTyped, PendingValue DEF Pending, PutPcs, Labels, Asking
  <2> QED BY <2>1, <2>2, <2>3, <2>5, <2>6, QuietStep
<1>2. CASE tail[c] # head[c]
  <2> DEFINE m == [loc[c] EXCEPT !.h = head[c]]
  <2>1. pc' = [pc EXCEPT ![c] = "get_cas"] /\ loc' = [loc EXCEPT ![c] = m] /\ UNCHANGED <<head, tail, waiting, ops>>
    BY <1>0, <1>2, LocalsTyped DEF GetLoad, Goto, Set, Forget, Execute, rings, CountersInv, Typed
  <2>2. QueuesTyped'
    BY <1>0, <1>2, LocalsTyped DEF GetLoad, Execute, rings, CountersInv, Typed, QueuesTyped
  <2>3. m \in Locals /\ "get_cas" \in Labels /\ m.return = loc[c].return /\ m.h = head[c]
    BY <1>0, <1>2, LocalsTyped, Numbers, SMTT(30) DEF Locals, Labels, Asking
  <2> HIDE DEF m
  <2>4. pc'[c] = "get_cas" /\ loc'[c] = m
    BY <2>1, <2>2, <2>3, StepTypes DEF CountersInv, Typed
  <2>5. LocalInv(c)'
    <3>1. H(c) # T(c) /\ H(c) \in Nat /\ T(c) \in Nat /\ H(c) <= T(c)
      BY <1>2, Numbers, Distances DEF H, T
    <3>2. U(m.h) < T(c)'
      BY <2>1, <2>3, <3>1, SameCounters DEF H
    <3> QED BY <1>7, <2>3, <2>4, <3>2 DEF LocalInv, PutInv, GetInv, ThiefInv, AskInv, PutPcs, EmptyPcs, ThiefPcs, GrabPcs, Asking
  <2>6. PendingAt("get_cas", m) <= Pending(c)
    BY <1>0, <1>2, <2>3, Params, LocalsTyped, PendingTyped, PendingValue DEF Pending, PutPcs, Labels, Asking
  <2> QED BY <2>1, <2>2, <2>3, <2>5, <2>6, QuietStep
<1> QED BY <1>0, <1>1, <1>2 DEF GetLoad

LEMMA GetCasFails ==
    ASSUME CountersInv, NEW c \in Cpus, head[c] # loc[c].h, GetCas(c), Observe
    PROVE  StepGoal(c)
<1>0. pc[c] \in {"get_cas"} /\ LocalInv(c)
  BY Numbers DEF GetCas
<1> DEFINE m == loc[c]
<1>1. pc' = [pc EXCEPT ![c] = "get"] /\ loc' = [loc EXCEPT ![c] = m] /\ UNCHANGED <<head, tail, waiting, ops>>
  BY <1>0, LocalsTyped DEF GetCas, Goto, Set, Forget, Execute, rings, CountersInv, Typed
<1>2. QueuesTyped'
  BY <1>0, LocalsTyped DEF GetCas, Execute, rings, CountersInv, Typed, QueuesTyped
<1>3. m \in Locals /\ "get" \in Labels /\ m = loc[c]
  BY <1>0, LocalsTyped, NoLocalsTyped, FreshTyped, Numbers DEF Locals, Labels, Asking
<1> HIDE DEF m
<1>4. pc'[c] = "get" /\ loc'[c] = m
  BY <1>1, <1>2, <1>3, StepTypes DEF CountersInv, Typed
<1>5. LocalInv(c)'
  BY <1>1, <1>3, <1>4, <1>0 DEF LocalInv, PutInv, GetInv, ThiefInv, AskInv, PutPcs, EmptyPcs, ThiefPcs, GrabPcs, Asking
<1>6. PendingAt("get", m) <= Pending(c)
  BY <1>0, <1>3, Params, LocalsTyped, PendingTyped, PendingValue DEF Pending, PutPcs, Labels, Asking
<1> QED BY <1>1, <1>2, <1>3, <1>5, <1>6, QuietStep

LEMMA GrabCasFails ==
    ASSUME CountersInv, NEW c \in Cpus, head[loc[c].victim] # loc[c].h, GrabCas(c), Observe
    PROVE  StepGoal(c)
<1>0. pc[c] \in {"grab_cas"} /\ LocalInv(c)
  BY Numbers DEF GrabCas
<1> DEFINE m == loc[c]
<1>1. pc' = [pc EXCEPT ![c] = "grab"] /\ loc' = [loc EXCEPT ![c] = m] /\ UNCHANGED <<head, tail, waiting, ops>>
  BY <1>0, LocalsTyped DEF GrabCas, Goto, Set, Forget, Execute, rings, CountersInv, Typed
<1>2. QueuesTyped'
  BY <1>0, LocalsTyped DEF GrabCas, Execute, rings, CountersInv, Typed, QueuesTyped
<1>3. m \in Locals /\ "grab" \in Labels /\ m = loc[c]
  BY <1>0, LocalsTyped, NoLocalsTyped, FreshTyped, Numbers DEF Locals, Labels, Asking
<1> HIDE DEF m
<1>4. pc'[c] = "grab" /\ loc'[c] = m
  BY <1>1, <1>2, <1>3, StepTypes DEF CountersInv, Typed
<1>5. LocalInv(c)'
  BY <1>1, <1>3, <1>4, <1>0 DEF LocalInv, PutInv, GetInv, ThiefInv, AskInv, PutPcs, EmptyPcs, ThiefPcs, GrabPcs, Asking
<1>6. PendingAt("grab", m) <= Pending(c)
  BY <1>0, <1>3, Params, LocalsTyped, PendingTyped, PendingValue DEF Pending, PutPcs, Labels, Asking
<1> QED BY <1>1, <1>2, <1>3, <1>5, <1>6, QuietStep

LEMMA PutSlowFails ==
    ASSUME CountersInv, NEW c \in Cpus, head[c] # loc[c].h, PutSlow(c), Observe
    PROVE  StepGoal(c)
<1>0. pc[c] \in {"put_slow"} /\ LocalInv(c)
  BY Numbers DEF PutSlow
<1> DEFINE m == loc[c]
<1>1. pc' = [pc EXCEPT ![c] = "put"] /\ loc' = [loc EXCEPT ![c] = m] /\ UNCHANGED <<head, tail, waiting, ops>>
  BY <1>0, LocalsTyped DEF PutSlow, Goto, Set, Forget, Execute, rings, CountersInv, Typed
<1>2. QueuesTyped'
  BY <1>0, LocalsTyped DEF PutSlow, Execute, rings, CountersInv, Typed, QueuesTyped
<1>3. m \in Locals /\ "put" \in Labels /\ m = loc[c]
  BY <1>0, LocalsTyped, NoLocalsTyped, FreshTyped, Numbers DEF Locals, Labels, Asking
<1> HIDE DEF m
<1>4. pc'[c] = "put" /\ loc'[c] = m
  BY <1>1, <1>2, <1>3, StepTypes DEF CountersInv, Typed
<1>5. LocalInv(c)'
  BY <1>1, <1>3, <1>4, <1>0 DEF LocalInv, PutInv, GetInv, ThiefInv, AskInv, PutPcs, EmptyPcs, ThiefPcs, GrabPcs, Asking
<1>6. PendingAt("put", m) <= Pending(c)
  BY <1>0, <1>3, Params, LocalsTyped, PendingTyped, PendingValue DEF Pending, PutPcs, Labels, Asking
<1> QED BY <1>1, <1>2, <1>3, <1>5, <1>6, QuietStep

LEMMA GlobalTickStep ==
    ASSUME CountersInv, NEW c \in Cpus, GlobalTick(c), Observe
    PROVE  StepGoal(c)
<1>0. pc[c] \in {"find"} /\ LocalInv(c)
  BY Numbers DEF GlobalTick
<1>7. global # << >> /\ Take(1) \in 1 .. Half /\ Take(1) <= Len(global) /\ (1 = 1 => Take(1) = 1)
  BY TakeValue DEF GlobalTick
<1>8. /\ global[1] \in ThreadOrNone /\ SubSeq(global, 2, Take(1)) \in Seq(ThreadOrNone)
      /\ Len(SubSeq(global, 2, Take(1))) = Take(1) - 1
      /\ Remaining(Take(1)) \in Seq(ThreadOrNone)
  <2>1. global \in Seq(ThreadOrNone) /\ Len(global) \in Nat
    BY DEF CountersInv, Typed, QueuesTyped
  <2> QED BY <1>7, <2>1, Params DEF Remaining
<1> DEFINE m == [NoLocals EXCEPT !.found = global[1], !.batch = SubSeq(global, 2, Take(1))]
<1>1. pc' = [pc EXCEPT ![c] = "global_rest"] /\ loc' = [loc EXCEPT ![c] = m] /\ UNCHANGED <<head, tail, waiting, ops>>
  BY <1>0, LocalsTyped DEF GlobalTick, Goto, Set, Forget, Execute, rings, GlobalTake, CountersInv, Typed
<1>2. QueuesTyped'
  BY <1>8 DEF GlobalTick, GlobalTake, CountersInv, Typed, QueuesTyped, rings
<1>3. m \in Locals /\ "global_rest" \in Labels /\ m.batch = SubSeq(global, 2, Take(1))
  BY <1>0, NoLocalsTyped, <1>7, <1>8 DEF Locals, Labels, Asking
<1> HIDE DEF m
<1>4. pc'[c] = "global_rest" /\ loc'[c] = m
  BY <1>1, <1>2, <1>3, StepTypes DEF CountersInv, Typed
<1>5. LocalInv(c)'
  <2>1. m.batch = << >>
    BY <1>3, <1>7, <1>8
  <2> QED BY <1>4, <2>1 DEF LocalInv, PutInv, GetInv, ThiefInv, AskInv, PutPcs, EmptyPcs, ThiefPcs, GrabPcs, Asking
<1>6. PendingAt("global_rest", m) <= Pending(c)
  BY <1>0, <1>3, <1>7, <1>8, Params, LocalsTyped, PendingTyped, PendingValue, SMTT(30) DEF Pending, PutPcs, Labels
<1> QED BY <1>1, <1>2, <1>3, <1>5, <1>6, QuietStep

LEMMA GlobalGetStep ==
    ASSUME CountersInv, NEW c \in Cpus, GlobalGet(c), Observe
    PROVE  StepGoal(c)
<1>0. pc[c] \in {"global", "idle"} /\ LocalInv(c)
  BY Numbers DEF GlobalGet
<1>1. CASE global # << >>
  <2>7. global # << >> /\ Take(0) \in 1 .. Half /\ Take(0) <= Len(global) /\ (0 = 1 => Take(0) = 1)
    BY <1>1, TakeValue DEF GlobalGet
  <2>8. /\ global[1] \in ThreadOrNone /\ SubSeq(global, 2, Take(0)) \in Seq(ThreadOrNone)
        /\ Len(SubSeq(global, 2, Take(0))) = Take(0) - 1
        /\ Remaining(Take(0)) \in Seq(ThreadOrNone)
    <3>1. global \in Seq(ThreadOrNone) /\ Len(global) \in Nat
      BY DEF CountersInv, Typed, QueuesTyped
    <3> QED BY <2>7, <3>1, Params DEF Remaining
  <2> DEFINE m == [NoLocals EXCEPT !.found = global[1], !.batch = SubSeq(global, 2, Take(0))]
  <2>1. pc' = [pc EXCEPT ![c] = "global_rest"] /\ loc' = [loc EXCEPT ![c] = m] /\ UNCHANGED <<head, tail, waiting, ops>>
    BY <1>0, <1>1, LocalsTyped DEF GlobalGet, Goto, Set, Forget, Execute, rings, GlobalTake, CountersInv, Typed
  <2>2. QueuesTyped'
    BY <1>1, <2>8 DEF GlobalGet, GlobalTake, CountersInv, Typed, QueuesTyped, rings
  <2>3. m \in Locals /\ "global_rest" \in Labels /\ m.batch = SubSeq(global, 2, Take(0))
    BY <1>0, <1>1, NoLocalsTyped, <2>7, <2>8 DEF Locals, Labels, Asking
  <2> HIDE DEF m
  <2>4. pc'[c] = "global_rest" /\ loc'[c] = m
    BY <2>1, <2>2, <2>3, StepTypes DEF CountersInv, Typed
  <2>5. LocalInv(c)'
    <3>1. tail[c] = head[c] /\ Len(m.batch) \in Nat /\ Len(m.batch) < Half
      BY <1>0, <2>3, <2>7, <2>8, Params DEF LocalInv, ThiefInv, EmptyPcs
    <3>2. T(c)' = H(c)' /\ T(c)' \in Nat
      BY <2>1, <3>1, SameCounters DEF H, T
    <3>3. T(c)' + Len(m.batch) < H(c)' + RUN_QUEUE_LEN
      BY <3>1, <3>2, Params
    <3> QED BY <2>4, <3>3 DEF LocalInv, PutInv, GetInv, ThiefInv, AskInv, PutPcs, EmptyPcs, ThiefPcs, GrabPcs, Asking
  <2>6. PendingAt("global_rest", m) <= Pending(c)
    <3>1. PendingAt("global_rest", m) = Len(m.batch)
      BY <2>3, PendingValue
    <3>2. Pending(c) = Half
      BY <1>0, LocalsTyped, PendingValue DEF Pending, PutPcs, Labels
    <3> QED BY <2>3, <2>7, <2>8, <3>1, <3>2, Params
  <2> QED BY <2>1, <2>2, <2>3, <2>5, <2>6, QuietStep
<1>2. CASE global = << >>
  <2> DEFINE m == loc[c]
  <2>1. pc' = [pc EXCEPT ![c] = (IF pc[c] = "global" THEN "steal" ELSE "look")] /\ loc' = [loc EXCEPT ![c] = m] /\ UNCHANGED <<head, tail, waiting, ops>>
    BY <1>0, <1>2, LocalsTyped DEF GlobalGet, Goto, Set, Forget, Execute, rings, CountersInv, Typed
  <2>2. QueuesTyped'
    BY <1>0, <1>2, LocalsTyped DEF GlobalGet, Execute, rings, CountersInv, Typed, QueuesTyped
  <2>3. m \in Locals /\ (IF pc[c] = "global" THEN "steal" ELSE "look") \in Labels
    BY <1>0, <1>2, LocalsTyped, NoLocalsTyped, FreshTyped, Numbers DEF Locals, Labels, Asking
  <2> HIDE DEF m
  <2>4. pc'[c] = (IF pc[c] = "global" THEN "steal" ELSE "look") /\ loc'[c] = m
    BY <2>1, <2>2, <2>3, StepTypes DEF CountersInv, Typed
  <2>5. LocalInv(c)'
    BY <2>1, <2>3, <2>4, <1>0 DEF LocalInv, PutInv, GetInv, ThiefInv, AskInv, PutPcs, EmptyPcs, ThiefPcs, GrabPcs, Asking
  <2>6. PendingAt((IF pc[c] = "global" THEN "steal" ELSE "look"), m) <= Pending(c)
    BY <1>0, <1>2, <2>3, Params, LocalsTyped, PendingTyped, PendingValue DEF Pending, PutPcs, Labels, Asking
  <2> QED BY <2>1, <2>2, <2>3, <2>5, <2>6, QuietStep
<1> QED BY <1>0, <1>1, <1>2 DEF GlobalGet

LEMMA GlobalRestStep ==
    ASSUME CountersInv, NEW c \in Cpus, GlobalRest(c), Observe
    PROVE  StepGoal(c)
<1>0. pc[c] \in {"global_rest"} /\ LocalInv(c)
  BY Numbers DEF GlobalRest
<1>1. CASE loc[c].batch = << >>
  <2> DEFINE m == NoLocals
  <2>1. pc' = [pc EXCEPT ![c] = "run"] /\ loc' = [loc EXCEPT ![c] = m] /\ UNCHANGED <<head, tail, waiting, ops>>
    BY <1>0, <1>1, LocalsTyped DEF GlobalRest, Goto, Set, Forget, Execute, rings, CountersInv, Typed
  <2>2. QueuesTyped'
    BY <1>1, LocalsTyped DEF GlobalRest, Execute, rings, CountersInv, Typed, QueuesTyped
  <2>3. m \in Locals /\ "run" \in Labels
    BY <1>0, <1>1, LocalsTyped, NoLocalsTyped, FreshTyped, Numbers DEF Locals, Labels, Asking
  <2> HIDE DEF m
  <2>4. pc'[c] = "run" /\ loc'[c] = m
    BY <2>1, <2>2, <2>3, StepTypes DEF CountersInv, Typed
  <2>5. LocalInv(c)'
    BY <2>1, <2>3, <2>4 DEF LocalInv, PutInv, GetInv, ThiefInv, AskInv, PutPcs, EmptyPcs, ThiefPcs, GrabPcs, Asking
  <2>6. PendingAt("run", m) <= Pending(c)
    BY <1>0, <1>1, <2>3, Params, LocalsTyped, PendingTyped, PendingValue DEF Pending, PutPcs, Labels, Asking
  <2> QED BY <2>1, <2>2, <2>3, <2>5, <2>6, QuietStep
<1>2. CASE loc[c].batch # << >>
  <2>7. /\ Head(loc[c].batch) \in ThreadOrNone /\ Tail(loc[c].batch) \in Seq(ThreadOrNone)
        /\ Len(Tail(loc[c].batch)) = Len(loc[c].batch) - 1
    BY <1>2, LocalsTyped
  <2> DEFINE m == [loc[c] EXCEPT !.thread = Head(loc[c].batch), !.batch = Tail(loc[c].batch), !.return = "global_rest"]
  <2>1. pc' = [pc EXCEPT ![c] = "put"] /\ loc' = [loc EXCEPT ![c] = m] /\ UNCHANGED <<head, tail, waiting, ops>>
    BY <1>0, <1>2, <2>7, LocalsTyped DEF GlobalRest, Goto, Set, Forget, Execute, rings, CountersInv, Typed
  <2>2. QueuesTyped'
    BY <1>0, <1>2, <2>7, LocalsTyped DEF GlobalRest, Execute, rings, CountersInv, Typed, QueuesTyped
  <2>3. m \in Locals /\ "put" \in Labels /\ m.batch = Tail(loc[c].batch) /\ m.return = "global_rest"
    BY <1>0, <1>2, <2>7, LocalsTyped, <2>7 DEF Locals, Labels, Asking
  <2> HIDE DEF m
  <2>4. pc'[c] = "put" /\ loc'[c] = m
    BY <2>1, <2>2, <2>3, StepTypes DEF CountersInv, Typed
  <2>5. LocalInv(c)'
    <3>1. T(c)' + Len(m.batch) + 1 < H(c)' + RUN_QUEUE_LEN
      BY <1>0, <1>2, <2>1, <2>3, <2>7, LocalsTyped, SameCounters, Params DEF LocalInv, PutInv
    <3> QED BY <2>3, <2>4, <3>1 DEF LocalInv, PutInv, GetInv, ThiefInv, AskInv, PutPcs, EmptyPcs, ThiefPcs, GrabPcs, Asking
  <2>6. PendingAt("put", m) <= Pending(c)
    <3>1. PendingAt("put", m) = 1 + AfterPut(m) /\ AfterPut(m) = Len(m.batch)
      BY <2>3, PendingValue DEF PutPcs, AfterPut
    <3>2. Pending(c) = Len(loc[c].batch)
      BY <1>0, LocalsTyped, PendingValue DEF Pending, Labels
    <3> QED BY <2>3, <2>7, <3>1, <3>2, LocalsTyped
  <2> QED BY <2>1, <2>2, <2>3, <2>5, <2>6, QuietStep
<1> QED BY <1>0, <1>1, <1>2 DEF GlobalRest

LEMMA PutGlobalStep ==
    ASSUME CountersInv, NEW c \in Cpus, PutGlobal(c), Observe
    PROVE  StepGoal(c)
<1>0. pc[c] \in {"put_global"} /\ LocalInv(c)
  BY Numbers DEF PutGlobal
<1>7. loc[c].return \in {"run", "find", "steal_timers"}
  BY <1>0 DEF LocalInv, PutInv, PutPcs
<1>8. (IF lock = c THEN loc[c].batch ELSE << >>) \in Seq(ThreadOrNone)
  BY LocalsTyped
<1> DEFINE m == [Fresh(c) EXCEPT !.found = loc[c].found, !.batch = IF lock = c THEN loc[c].batch ELSE << >>]
<1>1. pc' = [pc EXCEPT ![c] = loc[c].return] /\ loc' = [loc EXCEPT ![c] = m] /\ UNCHANGED <<head, tail, waiting, ops>>
  BY <1>0, LocalsTyped DEF PutGlobal, Goto, Set, Forget, Execute, rings, PutReturn, CountersInv, Typed
<1>2. QueuesTyped'
  <2>1. global' = global \o loc[c].batch
    BY DEF PutGlobal, PushBackAll
  <2>2. global \in Seq(ThreadOrNone) /\ loc[c].batch \in Seq(ThreadOrNone)
    BY LocalsTyped DEF CountersInv, Typed, QueuesTyped
  <2>3. global' \in Seq(ThreadOrNone)
    BY <2>1, <2>2
  <2> QED BY <2>3 DEF PutGlobal, rings, CountersInv, Typed, QueuesTyped
<1>3. m \in Locals /\ loc[c].return \in Labels
  BY <1>0, LocalsTyped, FreshTyped, <1>8, ZenonT(40) DEF Locals, Labels, Asking
<1> HIDE DEF m
<1>4. pc'[c] = loc[c].return /\ loc'[c] = m
  BY <1>1, <1>2, <1>3, StepTypes DEF CountersInv, Typed
<1>5. LocalInv(c)'
  BY <1>4, <1>7 DEF LocalInv, PutInv, GetInv, ThiefInv, AskInv, PutPcs, EmptyPcs, ThiefPcs, GrabPcs, Asking
<1>6. PendingAt(loc[c].return, m) <= Pending(c)
  <2>1. Pending(c) = 1 + AfterPut(loc[c])
    BY <1>0, LocalsTyped, PendingValue DEF Pending, Labels, PutPcs
  <2>2. PendingAt(loc[c].return, m) = AfterPut(loc[c]) /\ AfterPut(loc[c]) \in Nat
    BY <1>3, <1>7, Params, PendingValue DEF AfterPut, PutPcs
  <2> QED BY <2>1, <2>2
<1> QED BY <1>1, <1>2, <1>3, <1>5, <1>6, QuietStep

LEMMA PutPublishStep ==
    ASSUME CountersInv, NEW c \in Cpus, PutPublish(c), Observe
    PROVE  StepGoal(c)
<1>0. pc[c] = "put_publish" /\ LocalInv(c)
  BY Numbers DEF PutPublish
<1> DEFINE m == [Fresh(c) EXCEPT !.found = loc[c].found, !.batch = IF lock = c THEN loc[c].batch ELSE << >>]
           x == loc[c].return
<1>1. pc' = [pc EXCEPT ![c] = x] /\ loc' = [loc EXCEPT ![c] = m] /\ UNCHANGED <<head, waiting, ops>>
  BY DEF PutPublish, PutReturn, Goto, Set
<1>2. QueuesTyped'
  BY DEF PutPublish, CountersInv, Typed, QueuesTyped
<1>3. x \in {"run", "find", "steal_timers", "global_rest"} /\ x \in Labels
  BY <1>0, LocalsTyped DEF LocalInv, PutInv, PutPcs
<1>4. m \in Locals /\ (m.batch = loc[c].batch \/ m.batch = << >>)
  <2>1. (IF lock = c THEN loc[c].batch ELSE << >>) \in Seq(ThreadOrNone)
    BY LocalsTyped
  <2> QED BY <2>1, LocalsTyped, FreshTyped DEF Locals
<1>5. loc[c].t = tail[c] /\ T(c) < H(c) + RUN_QUEUE_LEN
  BY <1>0 DEF LocalInv, PutInv
<1>6. Pending(c) = 1 + AfterPut(loc[c]) /\ AfterPut(loc[c]) \in Nat /\ PendingAt(x, m) <= AfterPut(loc[c]) /\ PendingAt(x, m) \in Nat
  <2>1. Pending(c) = 1 + AfterPut(loc[c])
    BY <1>0, LocalsTyped, PendingValue DEF Pending, Labels, PutPcs
  <2>2. CASE x = "global_rest"
    <3>1. AfterPut(loc[c]) = Len(loc[c].batch) /\ PendingAt(x, m) = Len(m.batch)
      BY <1>3, <1>4, <2>2, PendingValue DEF AfterPut
    <3>2. Len(m.batch) \in Nat /\ Len(m.batch) <= Len(loc[c].batch)
      BY <1>4, LocalsTyped DEF Locals
    <3> QED BY <2>1, <3>1, <3>2, LocalsTyped
  <2>3. CASE x # "global_rest"
    <3>1. AfterPut(loc[c]) = PendingAt(x, m)
      BY <1>3, <1>4, <2>3, PendingValue DEF AfterPut, PutPcs
    <3> QED BY <2>1, <3>1, <1>4, PendingTyped
  <2> QED BY <2>2, <2>3
<1>7. tail' = [tail EXCEPT ![c] = Plus(tail[c], 1)] /\ Plus(tail[c], 1) \in Words /\ U(Plus(tail[c], 1)) = T(c) + 1
  <2>1. T(c) + 1 < Width
    BY <1>6, Numbers, Params
  <2> QED BY <1>5, <2>1, Numbers, Distances DEF PutPublish, T
<1>8. T(c)' = T(c) + 1 /\ (\A v \in Cpus \ {c} : T(v)' = T(v) /\ tail'[v] = tail[v]) /\ (\A v \in Cpus : H(v)' = H(v))
  BY <1>1, <1>7 DEF T, H, CountersInv, Typed
<1> HIDE DEF m, x
<1>9. Typed' /\ pc'[c] = x /\ loc'[c] = m /\ \A d \in Cpus \ {c} : pc'[d] = pc[d] /\ loc'[d] = loc[d]
  <2>1. tail' \in [Cpus -> Words] /\ head' \in [Cpus -> Words] /\ waiting' \subseteq ThreadOrNone /\ ops' \in 0 .. MaxOps
    BY <1>1, <1>7 DEF CountersInv, Typed
  <2> QED BY <1>1, <1>2, <1>3, <1>4, <2>1, StepTypes
<1>10. RingInv'
  BY <1>5, <1>8, Numbers, Params DEF RingInv
<1>11. Moves(c)
  BY <1>8, <1>9, Numbers DEF Moves
<1>12. Affords(c)
  BY <1>1, <1>6, <1>8, <1>9, Numbers DEF Affords, Pending
<1>13. LocalInv(c)'
  <2>1. x = "global_rest" => m.batch = << >> \/ T(c)' + Len(m.batch) < H(c)' + RUN_QUEUE_LEN
    <3>1. x = "global_rest" => T(c) + Len(loc[c].batch) + 1 < H(c) + RUN_QUEUE_LEN
      BY <1>0 DEF LocalInv, PutInv, PutPcs, x
    <3> QED BY <1>4, <1>8, <3>1, LocalsTyped, Numbers, Params, SMTT(30)
  <2> QED BY <1>3, <1>9, <2>1 DEF LocalInv, PutInv, GetInv, ThiefInv, AskInv, PutPcs, EmptyPcs, ThiefPcs, GrabPcs, Asking
<1> QED BY <1>9, <1>10, <1>11, <1>12, <1>13 DEF StepGoal

LEMMA StealPublishStep ==
    ASSUME CountersInv, NEW c \in Cpus, StealPublish(c), Observe
    PROVE  StepGoal(c)
<1>0. pc[c] = "steal_publish" /\ LocalInv(c)
  BY Numbers DEF StealPublish
<1> DEFINE k == loc[c].n
<1>1. pc' = [pc EXCEPT ![c] = "run"] /\ loc' = [loc EXCEPT ![c] = NoLocals] /\ UNCHANGED <<head, waiting, ops>>
  BY DEF StealPublish, Execute, Goto, Forget
<1>2. QueuesTyped'
  BY LocalsTyped DEF StealPublish, Execute, CountersInv, Typed, QueuesTyped
<1>3. tail[c] = head[c] /\ loc[c].t = tail[c] /\ k \in 1 .. Half - 1 /\ k \in Nat
  BY <1>0, LocalsTyped DEF LocalInv, ThiefInv, EmptyPcs, ThiefPcs
<1>4. Pending(c) = k
  BY <1>0, LocalsTyped, PendingValue DEF Pending, Labels
<1>5. PendingAt("run", NoLocals) = 0 /\ "run" \in Labels
  BY NoLocalsTyped, PendingValue DEF Labels
<1>6. T(c) = H(c)
  BY <1>3 DEF T, H
<1> HIDE DEF k
<1>7. tail' = [tail EXCEPT ![c] = Plus(tail[c], k)] /\ Plus(tail[c], k) \in Words /\ U(Plus(tail[c], k)) = T(c) + k
  <2>1. T(c) + k < Width
    BY <1>3, <1>4, Numbers, Params
  <2> QED BY <1>3, <2>1, Numbers, Distances DEF StealPublish, T, k
<1>8. T(c)' = T(c) + k /\ (\A v \in Cpus \ {c} : T(v)' = T(v) /\ tail'[v] = tail[v]) /\ (\A v \in Cpus : H(v)' = H(v))
  BY <1>1, <1>7 DEF T, H, CountersInv, Typed
<1>9. Typed' /\ pc'[c] = "run" /\ loc'[c] = NoLocals /\ \A d \in Cpus \ {c} : pc'[d] = pc[d] /\ loc'[d] = loc[d]
  <2>1. tail' \in [Cpus -> Words] /\ head' \in [Cpus -> Words] /\ waiting' \subseteq ThreadOrNone /\ ops' \in 0 .. MaxOps
    BY <1>1, <1>7 DEF CountersInv, Typed
  <2> QED BY <1>1, <1>2, <1>5, <2>1, NoLocalsTyped, StepTypes
<1>10. RingInv'
  BY <1>3, <1>6, <1>8, Numbers, Params DEF RingInv
<1>11. Moves(c)
  BY <1>3, <1>8, <1>9, Numbers DEF Moves
<1>12. Affords(c)
  BY <1>1, <1>3, <1>4, <1>5, <1>8, <1>9, Numbers DEF Affords, Pending
<1>13. LocalInv(c)'
  BY <1>9 DEF LocalInv, PutInv, GetInv, ThiefInv, AskInv, PutPcs, EmptyPcs, ThiefPcs, GrabPcs, Asking
<1> QED BY <1>9, <1>10, <1>11, <1>12, <1>13 DEF StepGoal

\* A step that moves one head, and no further than the tail.
LEMMA HeadStep ==
    ASSUME CountersInv, NEW c \in Cpus, NEW w \in Cpus, NEW k \in Nat, H(w) + k <= T(w),
           head' = [head EXCEPT ![w] = Plus(head[w], k)], UNCHANGED <<tail, waiting, ops>>,
           NEW x \in Labels, NEW m \in Locals,
           pc' = [pc EXCEPT ![c] = x], loc' = [loc EXCEPT ![c] = m],
           QueuesTyped', Observe, PendingAt(x, m) <= Pending(c)
    PROVE  /\ Typed' /\ RingInv' /\ Moves(c) /\ Affords(c)
           /\ pc'[c] = x /\ loc'[c] = m /\ H(w)' = H(w) + k
           /\ \A v \in Cpus : T(v)' = T(v)
<1>1. Plus(head[w], k) \in Words /\ U(Plus(head[w], k)) = H(w) + k
  <2>1. H(w) + k < Width
    <3>1. T(w) < Width
      BY Numbers, DistanceTyped DEF T
    <3> QED BY <3>1, Numbers, Params
  <2> QED BY <2>1, Numbers, Distances DEF H
<1>2. H(w)' = H(w) + k /\ (\A v \in Cpus \ {w} : H(v)' = H(v)) /\ (\A v \in Cpus : T(v)' = T(v))
  BY <1>1 DEF T, H, CountersInv, Typed
<1>3. /\ Typed' /\ pc'[c] = x /\ loc'[c] = m
      /\ \A d \in Cpus \ {c} : pc'[d] = pc[d] /\ loc'[d] = loc[d]
  <2>1. tail' \in [Cpus -> Words] /\ head' \in [Cpus -> Words] /\ waiting' \subseteq ThreadOrNone /\ ops' \in 0 .. MaxOps
    BY <1>1 DEF CountersInv, Typed
  <2> QED BY <2>1, StepTypes, ZenonT(40)
<1>4. \A v \in Cpus : H(v) \in Nat /\ T(v) \in Nat /\ H(v) <= T(v) /\ T(v) <= H(v) + RUN_QUEUE_LEN
  BY Numbers
<1>5. RingInv'
  BY <1>2, <1>4, Params DEF RingInv
<1>6. Moves(c)
  <2>1. \A v \in Cpus : H(v) <= H(v)' /\ T(v) <= T(v)'
    BY <1>2, <1>4
  <2> QED BY <1>3, <2>1 DEF Moves
<1>7. Affords(c)
  <2>1. Pending(c)' = PendingAt(x, m) /\ PendingAt(x, m) \in Nat /\ Pending(c) \in Nat
    BY <1>3, PendingTyped, LocalsTyped DEF Pending
  <2>2. T(c) + Pending(c) + Cardinality(waiting) <= Reach(ops) /\ Cardinality(waiting) \in Nat /\ Reach(ops) \in Nat
    BY Numbers
  <2> QED BY <1>2, <1>4, <2>1, <2>2 DEF Affords
<1> QED BY <1>2, <1>3, <1>5, <1>6, <1>7

LEMMA GetCasTakes ==
    ASSUME CountersInv, NEW c \in Cpus, head[c] = loc[c].h, GetCas(c), Observe
    PROVE  StepGoal(c)
<1>0. pc[c] = "get_cas" /\ LocalInv(c)
  BY Numbers DEF GetCas
<1>1. /\ pc' = [pc EXCEPT ![c] = "run"] /\ loc' = [loc EXCEPT ![c] = NoLocals] /\ UNCHANGED <<tail, waiting, ops>>
      /\ head' = [head EXCEPT ![c] = Plus(head[c], 1)]
  BY DEF GetCas, Execute, Goto, Forget
<1>2. QueuesTyped'
  <2>1. queue[c][Slot(loc[c].h)] \in ThreadOrNone
    BY LocalsTyped, WordNat, EntryTyped
  <2> QED BY <2>1 DEF GetCas, Execute, CountersInv, Typed, QueuesTyped
<1>3. H(c) + 1 <= T(c)
  BY <1>0, Numbers DEF LocalInv, GetInv, H
<1>4. PendingAt("run", NoLocals) <= Pending(c) /\ "run" \in Labels
  <2>1. Pending(c) \in Nat
    BY LocalsTyped, PendingTyped DEF Pending
  <2>2. "run" \in Labels
    BY DEF Labels
  <2>3. PendingAt("run", NoLocals) = 0
    BY <2>2, NoLocalsTyped, PendingValue
  <2> QED BY <2>1, <2>2, <2>3
<1>5. Typed' /\ RingInv' /\ Moves(c) /\ Affords(c) /\ pc'[c] = "run"
  BY <1>1, <1>2, <1>3, <1>4, NoLocalsTyped, HeadStep
<1>6. LocalInv(c)'
  BY <1>5 DEF LocalInv, PutInv, GetInv, ThiefInv, AskInv, PutPcs, EmptyPcs, ThiefPcs, GrabPcs, Asking
<1> QED BY <1>5, <1>6 DEF StepGoal

LEMMA GrabCasTakes ==
    ASSUME CountersInv, NEW c \in Cpus, head[loc[c].victim] = loc[c].h, GrabCas(c), Observe
    PROVE  StepGoal(c)
<1>0. pc[c] = "grab_cas" /\ LocalInv(c)
  BY Numbers DEF GrabCas
<1>7. PICK w : w = loc[c].victim
  OBVIOUS
<1>8. PICK k : k = loc[c].n
  OBVIOUS
<1>1. /\ pc' = [pc EXCEPT ![c] = "stolen"] /\ loc' = [loc EXCEPT ![c] = loc[c]] /\ UNCHANGED <<tail, waiting, ops>>
      /\ head' = [head EXCEPT ![w] = Plus(head[w], k)]
  BY <1>7, <1>8 DEF GrabCas, Goto, CountersInv, Typed
<1>2. QueuesTyped'
  BY DEF GrabCas, CountersInv, Typed, QueuesTyped
<1>3. w \in Cpus \ {c} /\ k \in 1 .. Half /\ k \in Nat /\ H(w) + k <= T(w)
  BY <1>0, <1>7, <1>8, LocalsTyped DEF LocalInv, ThiefInv, H, GrabPcs
<1>4. PendingAt("stolen", loc[c]) <= Pending(c) /\ "stolen" \in Labels
  <2>1. PendingAt("stolen", loc[c]) = k /\ Pending(c) = Half
    BY <1>0, <1>8, LocalsTyped, PendingValue DEF Labels, Pending, PutPcs
  <2> QED BY <1>3, <2>1, Params DEF Labels
<1>5. Typed' /\ RingInv' /\ Moves(c) /\ Affords(c) /\ pc'[c] = "stolen" /\ loc'[c] = loc[c]
  BY <1>1, <1>2, <1>3, <1>4, LocalsTyped, HeadStep, ZenonT(40)
<1>6. LocalInv(c)'
  <2>1. head'[c] = head[c] /\ tail'[c] = tail[c]
    BY <1>1, <1>3 DEF CountersInv, Typed
  <2> QED BY <1>0, <1>5, <2>1 DEF LocalInv, PutInv, GetInv, ThiefInv, AskInv, PutPcs, EmptyPcs, ThiefPcs, GrabPcs, Asking
<1> QED BY <1>5, <1>6 DEF StepGoal

LEMMA PutSlowTakes ==
    ASSUME CountersInv, NEW c \in Cpus, head[c] = loc[c].h, PutSlow(c), Observe
    PROVE  StepGoal(c)
<1>0. pc[c] = "put_slow" /\ LocalInv(c)
  BY Numbers DEF PutSlow
<1>7. PICK k : k = Len(HalfOf(c))
  OBVIOUS
<1> DEFINE m == [loc[c] EXCEPT !.batch = Append(HalfOf(c), loc[c].thread), !.thread = None]
<1>1. /\ pc' = [pc EXCEPT ![c] = "put_global"] /\ loc' = [loc EXCEPT ![c] = m] /\ UNCHANGED <<tail, waiting, ops>>
      /\ head' = [head EXCEPT ![c] = Plus(head[c], k)]
  BY <1>7 DEF PutSlow, Goto, Set
<1>2. QueuesTyped'
  BY DEF PutSlow, CountersInv, Typed, QueuesTyped
<1>3. k \in Nat /\ H(c) + k <= T(c) /\ HalfOf(c) \in Seq(ThreadOrNone)
  <2>1. loc[c].t = tail[c]
    BY <1>0 DEF LocalInv, PutInv
  <2>2. Minus(loc[c].t, loc[c].h) = T(c) - H(c) /\ H(c) \in Nat /\ T(c) \in Nat /\ H(c) <= T(c)
    BY <2>1, Numbers, Distances DEF H, T
  <2>3. PICK j : j = Minus(loc[c].t, loc[c].h) \div 2
    OBVIOUS
  <2>4. j \in Nat /\ H(c) + j <= T(c)
    BY <2>2, <2>3
  <2>5. \A i \in 1 .. j : queue[c][Slot(loc[c].h + i - 1)] \in ThreadOrNone
    <3>1. SUFFICES ASSUME NEW i \in 1 .. j PROVE queue[c][Slot(loc[c].h + i - 1)] \in ThreadOrNone
      OBVIOUS
    <3>2. loc[c].h + i - 1 \in Nat
      BY <2>4, LocalsTyped, WordNat
    <3> QED BY <3>2, EntryTyped
  <2>6. HalfOf(c) = [i \in 1 .. j |-> queue[c][Slot(loc[c].h + i - 1)]]
    BY <2>3 DEF HalfOf
  <2>7. HalfOf(c) \in Seq(ThreadOrNone) /\ Len(HalfOf(c)) = j
    BY <2>4, <2>5, <2>6
  <2> QED BY <1>7, <2>4, <2>7
<1>4. m \in Locals /\ m.return = loc[c].return /\ "put_global" \in Labels
  <2>1. Append(HalfOf(c), loc[c].thread) \in Seq(ThreadOrNone) /\ None \in ThreadOrNone
    BY <1>3, LocalsTyped DEF ThreadOrNone
  <2> QED BY <2>1, LocalsTyped DEF Locals, Labels
<1> HIDE DEF m
<1>8. loc[c].return \in {"run", "find", "steal_timers"}
  BY <1>0 DEF LocalInv, PutInv, PutPcs
<1>9. PendingAt("put_global", m) <= Pending(c)
  <2>1. PendingAt("put_global", m) = 1 + AfterPut(m) /\ Pending(c) = 1 + AfterPut(loc[c])
    BY <1>0, <1>4, LocalsTyped, PendingValue DEF Labels, Pending, PutPcs
  <2>2. AfterPut(m) = AfterPut(loc[c]) /\ AfterPut(m) \in Nat
    BY <1>4, <1>8, Params DEF AfterPut
  <2> QED BY <2>1, <2>2
<1>5. Typed' /\ RingInv' /\ Moves(c) /\ Affords(c) /\ pc'[c] = "put_global" /\ loc'[c] = m
  BY <1>1, <1>2, <1>3, <1>4, <1>9, HeadStep
<1>6. LocalInv(c)'
  BY <1>4, <1>5, <1>8 DEF LocalInv, PutInv, GetInv, ThiefInv, AskInv, PutPcs, EmptyPcs, ThiefPcs, GrabPcs, Asking
<1> QED BY <1>5, <1>6 DEF StepGoal

\* A call, or a timer: the counters stand, threads stop or begin to wait.
LEMMA CallStep ==
    ASSUME CountersInv, NEW c \in Cpus, NEW x \in Labels, NEW m \in Locals,
           pc' = [pc EXCEPT ![c] = x], loc' = [loc EXCEPT ![c] = m],
           UNCHANGED <<head, tail>>, waiting' \subseteq ThreadOrNone, ops' \in 0 .. MaxOps, QueuesTyped', Observe,
           Cardinality(waiting') \in Nat,
           Cardinality(waiting') + Reach(ops) <= Cardinality(waiting) + Reach(ops'),
           PendingAt(x, m) + Cardinality(waiting') + Reach(ops) <= Pending(c) + Cardinality(waiting) + Reach(ops')
    PROVE  /\ Typed' /\ RingInv' /\ Moves(c) /\ Affords(c)
           /\ pc'[c] = x /\ loc'[c] = m
<1>1. /\ Typed' /\ pc'[c] = x /\ loc'[c] = m
      /\ \A d \in Cpus \ {c} : pc'[d] = pc[d] /\ loc'[d] = loc[d]
  BY StepTypes DEF CountersInv, Typed
<1>2. \A v \in Cpus : H(v)' = H(v) /\ T(v)' = T(v) /\ H(v) \in Nat /\ T(v) \in Nat
  BY SameCounters
<1>3. RingInv'
  BY <1>2 DEF RingInv, CountersInv
<1>4. Moves(c)
  BY <1>1, <1>2 DEF Moves
<1>5. Affords(c)
  <2>1. Pending(c)' = PendingAt(x, m) /\ PendingAt(x, m) \in Nat /\ Pending(c) \in Nat /\ Reach(ops') \in Nat
    BY <1>1, PendingTyped, LocalsTyped, ReachValue DEF Pending
  <2>2. T(c) + Pending(c) + Cardinality(waiting) <= Reach(ops) /\ Cardinality(waiting) \in Nat /\ Reach(ops) \in Nat
    BY Numbers
  <2> QED BY <1>2, <2>1, <2>2 DEF Affords
<1> QED BY <1>1, <1>3, <1>4, <1>5

\* One more call.
LEMMA CountedReach ==
    ASSUME CountersInv, Counted
    PROVE  ops' \in 0 .. MaxOps /\ Reach(ops') = Reach(ops) + 2 * Half /\ Reach(ops) \in Nat
<1>1. ops \in 0 .. MaxOps /\ ops' = ops + 1 /\ ops + 1 <= MaxOps /\ MaxOps \in Nat
  BY Params DEF CountersInv, Typed, Counted
<1> QED BY <1>1, ReachValue, Params

LEMMA YieldStep ==
    ASSUME CountersInv, NEW c \in Cpus, Yield(c), Observe
    PROVE  StepGoal(c)
<1>0. pc[c] = "run" /\ Counted
  BY DEF Yield
<1> DEFINE m == [NoLocals EXCEPT !.thread = current[c], !.return = "find"]
<1>1. pc' = [pc EXCEPT ![c] = "put"] /\ loc' = [loc EXCEPT ![c] = m] /\ UNCHANGED <<head, tail, waiting>>
  BY DEF Yield, Goto, Set, rings
<1>2. QueuesTyped' /\ waiting' \subseteq ThreadOrNone
  BY DEF Yield, rings, CountersInv, Typed, QueuesTyped, ThreadOrNone
<1>3. m \in Locals /\ m.return = "find" /\ "put" \in Labels
  <2>1. current[c] \in ThreadOrNone
    BY DEF CountersInv, Typed, QueuesTyped
  <2> QED BY <2>1, NoLocalsTyped DEF Locals, Labels
<1> HIDE DEF m
<1>4. PendingAt("put", m) = 1 + Half /\ Pending(c) \in Nat
  BY <1>3, LocalsTyped, PendingTyped, PendingValue DEF PutPcs, AfterPut, Pending
<1>5. /\ ops' \in 0 .. MaxOps /\ Cardinality(waiting') \in Nat
      /\ Cardinality(waiting') + Reach(ops) <= Cardinality(waiting) + Reach(ops')
      /\ PendingAt("put", m) + Cardinality(waiting') + Reach(ops) <= Pending(c) + Cardinality(waiting) + Reach(ops')
  BY <1>0, <1>1, <1>4, CountedReach, WaitingCount, Params DEF CountersInv
<1>6. Typed' /\ RingInv' /\ Moves(c) /\ Affords(c) /\ pc'[c] = "put" /\ loc'[c] = m
  BY <1>1, <1>2, <1>3, <1>5, CallStep
<1>7. LocalInv(c)'
  BY <1>3, <1>6 DEF LocalInv, PutInv, GetInv, ThiefInv, AskInv, PutPcs, EmptyPcs, ThiefPcs, GrabPcs, Asking
<1> QED BY <1>6, <1>7 DEF StepGoal

LEMMA ParkStep ==
    ASSUME CountersInv, NEW c \in Cpus, Park(c), Observe
    PROVE  StepGoal(c)
<1>0. pc[c] = "run" /\ Counted
  BY DEF Park
<1>1. pc' = [pc EXCEPT ![c] = "find"] /\ loc' = [loc EXCEPT ![c] = loc[c]] /\ UNCHANGED <<head, tail>> /\ waiting' = waiting \cup {current[c]}
  BY DEF Park, Goto, rings, CountersInv, Typed
<1>2. QueuesTyped' /\ waiting' \subseteq ThreadOrNone
  BY DEF Park, rings, CountersInv, Typed, QueuesTyped, ThreadOrNone
<1>3. "find" \in Labels
  BY DEF Labels
<1>4. PendingAt("find", loc[c]) = Half /\ Pending(c) \in Nat
  BY <1>3, LocalsTyped, PendingTyped, PendingValue DEF PutPcs, Pending
<1>5. /\ ops' \in 0 .. MaxOps /\ Cardinality(waiting') \in Nat
      /\ Cardinality(waiting') + Reach(ops) <= Cardinality(waiting) + Reach(ops')
      /\ PendingAt("find", loc[c]) + Cardinality(waiting') + Reach(ops) <= Pending(c) + Cardinality(waiting) + Reach(ops')
  <2>1. Cardinality(waiting') <= Cardinality(waiting) + 1 /\ Cardinality(waiting') \in Nat /\ Cardinality(waiting) \in Nat
    BY <1>1, WaitingCount DEF CountersInv
  <2> QED BY <1>0, <1>4, <2>1, CountedReach, Params
<1>6. Typed' /\ RingInv' /\ Moves(c) /\ Affords(c) /\ pc'[c] = "find" /\ loc'[c] = loc[c]
  BY <1>1, <1>2, <1>3, <1>5, LocalsTyped, CallStep
<1>7. LocalInv(c)'
  BY <1>6 DEF LocalInv, PutInv, GetInv, ThiefInv, AskInv, PutPcs, EmptyPcs, ThiefPcs, GrabPcs, Asking
<1> QED BY <1>6, <1>7 DEF StepGoal

LEMMA DropStep ==
    ASSUME CountersInv, NEW c \in Cpus, Drop(c), Observe
    PROVE  StepGoal(c)
<1>0. pc[c] = "run" /\ Counted
  BY DEF Drop
<1>1. pc' = [pc EXCEPT ![c] = "find"] /\ loc' = [loc EXCEPT ![c] = loc[c]] /\ UNCHANGED <<head, tail>> /\ UNCHANGED waiting
  BY DEF Drop, Goto, rings, CountersInv, Typed
<1>2. QueuesTyped' /\ waiting' \subseteq ThreadOrNone
  BY DEF Drop, rings, CountersInv, Typed, QueuesTyped, ThreadOrNone
<1>3. "find" \in Labels
  BY DEF Labels
<1>4. PendingAt("find", loc[c]) = Half /\ Pending(c) \in Nat
  BY <1>3, LocalsTyped, PendingTyped, PendingValue DEF PutPcs, Pending
<1>5. /\ ops' \in 0 .. MaxOps /\ Cardinality(waiting') \in Nat
      /\ Cardinality(waiting') + Reach(ops) <= Cardinality(waiting) + Reach(ops')
      /\ PendingAt("find", loc[c]) + Cardinality(waiting') + Reach(ops) <= Pending(c) + Cardinality(waiting) + Reach(ops')
  <2>1. Cardinality(waiting') <= Cardinality(waiting) + 1 /\ Cardinality(waiting') \in Nat /\ Cardinality(waiting) \in Nat
    BY <1>1, WaitingCount DEF CountersInv
  <2> QED BY <1>0, <1>4, <2>1, CountedReach, Params
<1>6. Typed' /\ RingInv' /\ Moves(c) /\ Affords(c) /\ pc'[c] = "find" /\ loc'[c] = loc[c]
  BY <1>1, <1>2, <1>3, <1>5, LocalsTyped, CallStep
<1>7. LocalInv(c)'
  BY <1>6 DEF LocalInv, PutInv, GetInv, ThiefInv, AskInv, PutPcs, EmptyPcs, ThiefPcs, GrabPcs, Asking
<1> QED BY <1>6, <1>7 DEF StepGoal

\* Where run_queue_put goes with next = true.
LEMMA PutNextStep ==
    ASSUME CountersInv, NEW c \in Cpus, NEW t \in waiting, NEW r \in {"run", "find", "steal_timers"},
           PutNext(c, t, r), UNCHANGED <<head, tail, queue, global, lock, current>>,
           waiting' = waiting \ {t}, ops' \in 0 .. MaxOps, Observe,
           PendingAt(r, loc[c]) + Reach(ops) <= Pending(c) + Reach(ops'), Reach(ops) <= Reach(ops')
    PROVE  StepGoal(c)
<1>1. QueuesTyped' /\ waiting' \subseteq ThreadOrNone /\ t \in ThreadOrNone /\ next[c] \in ThreadOrNone
  BY DEF PutNext, CountersInv, Typed, QueuesTyped
<1>2. Cardinality(waiting') = Cardinality(waiting) - 1 /\ Cardinality(waiting) \in Nat /\ Cardinality(waiting') \in Nat
  <2>1. Cardinality(waiting') = Cardinality(waiting) - 1 /\ Cardinality(waiting) \in Nat
    BY WaitingCount DEF CountersInv
  <2>2. IsFiniteSet(waiting \ {t})
    BY WaitingCount, FS_Subset DEF CountersInv
  <2> QED BY <2>1, <2>2, FS_CardinalityType
<1>3. Reach(ops) \in Nat /\ Reach(ops') \in Nat /\ Pending(c) \in Nat /\ PendingAt(r, loc[c]) \in Nat
  BY Numbers, ReachValue, LocalsTyped, PendingTyped DEF Pending
<1>4. CASE next[c] = None
  <2>1. pc' = [pc EXCEPT ![c] = r] /\ loc' = [loc EXCEPT ![c] = loc[c]]
    BY <1>4 DEF PutNext, Goto, CountersInv, Typed
  <2>2. r \in Labels
    BY DEF Labels
  <2>3. /\ Cardinality(waiting') + Reach(ops) <= Cardinality(waiting) + Reach(ops')
        /\ PendingAt(r, loc[c]) + Cardinality(waiting') + Reach(ops) <= Pending(c) + Cardinality(waiting) + Reach(ops')
    BY <1>2, <1>3
  <2>4. Typed' /\ RingInv' /\ Moves(c) /\ Affords(c) /\ pc'[c] = r
    BY <1>1, <1>2, <2>1, <2>2, <2>3, LocalsTyped, CallStep
  <2>5. LocalInv(c)'
    BY <2>4 DEF LocalInv, PutInv, GetInv, ThiefInv, AskInv, PutPcs, EmptyPcs, ThiefPcs, GrabPcs, Asking
  <2> QED BY <2>4, <2>5 DEF StepGoal
<1>5. CASE next[c] # None
  <2> DEFINE m == [loc[c] EXCEPT !.thread = next[c], !.return = r]
  <2>1. pc' = [pc EXCEPT ![c] = "put"] /\ loc' = [loc EXCEPT ![c] = m]
    BY <1>5 DEF PutNext, Goto, Set
  <2>2. m \in Locals /\ m.return = r /\ "put" \in Labels /\ r \in Labels
    BY <1>1, LocalsTyped DEF Locals, Labels
  <2> HIDE DEF m
  <2>3. PendingAt("put", m) = 1 + PendingAt(r, loc[c])
    BY <2>2, LocalsTyped, PendingValue DEF PutPcs, AfterPut
  <2>4. /\ Cardinality(waiting') + Reach(ops) <= Cardinality(waiting) + Reach(ops')
        /\ PendingAt("put", m) + Cardinality(waiting') + Reach(ops) <= Pending(c) + Cardinality(waiting) + Reach(ops')
    BY <1>2, <1>3, <2>3
  <2>5. Typed' /\ RingInv' /\ Moves(c) /\ Affords(c) /\ pc'[c] = "put" /\ loc'[c] = m
    BY <1>1, <1>2, <2>1, <2>2, <2>4, CallStep
  <2>6. LocalInv(c)'
    BY <2>2, <2>5 DEF LocalInv, PutInv, GetInv, ThiefInv, AskInv, PutPcs, EmptyPcs, ThiefPcs, GrabPcs, Asking
  <2> QED BY <2>5, <2>6 DEF StepGoal
<1> QED BY <1>4, <1>5

LEMMA ReadyStep ==
    ASSUME CountersInv, NEW c \in Cpus, NEW t \in Threads, Ready(c, t), Observe
    PROVE  StepGoal(c)
<1>1. /\ pc[c] = "run" /\ t \in waiting /\ Counted /\ PutNext(c, t, "run")
      /\ waiting' = waiting \ {t} /\ UNCHANGED <<head, tail, queue, global, lock, current>>
  BY DEF Ready
<1>2. PendingAt("run", loc[c]) = 0 /\ Pending(c) \in Nat
  BY LocalsTyped, PendingTyped, PendingValue DEF Pending, Labels
<1>3. ops' \in 0 .. MaxOps /\ Reach(ops) <= Reach(ops') /\ PendingAt("run", loc[c]) + Reach(ops) <= Pending(c) + Reach(ops')
  BY <1>1, <1>2, CountedReach, Params
<1> QED BY <1>1, <1>3, PutNextStep

LEMMA TimerReadyStep ==
    ASSUME CountersInv, NEW c \in Cpus, NEW t \in Threads, TimerReady(c, t), Observe
    PROVE  StepGoal(c)
<1>1. PICK r : r = IF pc[c] = "find" THEN "find" ELSE "steal_timers"
  OBVIOUS
<1>2. /\ pc[c] \in {"find", "steal", "steal_timers"} /\ t \in waiting /\ PutNext(c, t, r)
      /\ waiting' = waiting \ {t} /\ UNCHANGED <<head, tail, queue, global, lock, current, ops>>
  BY <1>1 DEF TimerReady
<1>3. PendingAt(r, loc[c]) = Half /\ Pending(c) = Half
  BY <1>1, <1>2, LocalsTyped, PendingValue DEF Pending, Labels, PutPcs
<1>4. ops' \in 0 .. MaxOps /\ Reach(ops) <= Reach(ops') /\ PendingAt(r, loc[c]) + Reach(ops) <= Pending(c) + Reach(ops')
  BY <1>2, <1>3, Numbers, Params DEF CountersInv, Typed
<1>5. r \in {"run", "find", "steal_timers"}
  BY <1>1
<1> QED BY <1>2, <1>4, <1>5, PutNextStep

\* Every step moves the counters as it should, and leaves its CPU with what it
\* has to know.
LEMMA CpuSteps ==
    ASSUME CountersInv, NEW c \in Cpus, CpuStep(c), Observe
    PROVE  StepGoal(c)
<1>1. CASE PutSlow(c)
  BY <1>1, PutSlowTakes, PutSlowFails
<1>2. CASE GetCas(c)
  BY <1>2, GetCasTakes, GetCasFails
<1>3. CASE GrabCas(c)
  BY <1>3, GrabCasTakes, GrabCasFails
<1>4. CASE Yield(c) \/ Park(c) \/ Drop(c) \/ \E t \in Threads : Ready(c, t) \/ TimerReady(c, t)
  BY <1>4, YieldStep, ParkStep, DropStep, ReadyStep, TimerReadyStep
<1>5. CASE PutLoad(c) \/ PutWrite(c) \/ PutPublish(c) \/ PutGlobal(c) \/ GetNext(c) \/ GetLoad(c)
  BY <1>5, PutLoadStep, PutWriteStep, PutPublishStep, PutGlobalStep, GetNextStep, GetLoadStep
<1>6. CASE GlobalTick(c) \/ GlobalGet(c) \/ GlobalRest(c)
  BY <1>6, GlobalTickStep, GlobalGetStep, GlobalRestStep
<1>7. CASE \E v \in Cpus : (\E steal_next \in BOOLEAN : Steal(c, v, steal_next)) \/ EmptyCall(c, v)
  BY <1>7, StealStep, EmptyCallStep
<1>8. CASE GrabHead(c) \/ GrabTail(c) \/ GrabNext(c) \/ GrabNextCas(c) \/ GrabCopy(c)
  BY <1>8, GrabHeadStep, GrabTailStep, GrabNextStep, GrabNextCasStep, GrabCopyStep
<1>9. CASE Stolen(c) \/ StealPublish(c) \/ StealFail(c)
  BY <1>9, StolenStep, StealPublishStep, StealFailStep
<1>10. CASE EmptyHead(c) \/ EmptyTail(c) \/ EmptyNext(c) \/ EmptyCheck(c) \/ Halt(c)
  BY <1>10, EmptyHeadStep, EmptyTailStep, EmptyNextStep, EmptyCheckStep, HaltStep
<1> QED BY <1>1, <1>2, <1>3, <1>4, <1>5, <1>6, <1>7, <1>8, <1>9, <1>10 DEF CpuStep

LEMMA CountersNext ==
    ASSUME CountersInv, [Next]_vars
    PROVE  CountersInv'
<1>1. CASE Next
  <2>1. PICK c \in Cpus : CpuStep(c)
    BY <1>1 DEF Next
  <2>2. Observe
    BY <1>1 DEF Next
  <2>3. Typed' /\ RingInv' /\ Moves(c) /\ Affords(c) /\ LocalInv(c)'
    BY <2>1, <2>2, CpuSteps DEF StepGoal
  <2>4. \A d \in Cpus \ {c} : LocalInv(d)'
    BY <2>2, <2>3, OthersKeep
  <2>5. ReachInv'
    <3>1. SUFFICES ASSUME NEW d \in Cpus PROVE (T(d) + Pending(d) + Cardinality(waiting) <= Reach(ops))'
      BY DEF ReachInv
    <3>2. CASE d = c
      BY <2>3, <3>2 DEF Affords
    <3>3. CASE d # c
      <4>1. T(d)' = T(d) /\ Pending(d)' = Pending(d)
        BY <2>3, <3>3 DEF Moves, T, Pending
      <4>2. T(d) + Pending(d) + Cardinality(waiting) <= Reach(ops) /\ T(d) \in Nat /\ Pending(d) \in Nat /\ Reach(ops) \in Nat
        BY Numbers, PendingTyped, LocalsTyped DEF Pending
      <4>3. Cardinality(waiting)' \in Nat /\ Cardinality(waiting) \in Nat
        <5>1. IsFiniteSet(waiting)'
          BY <2>3, Params, FS_AddElement, FS_Subset DEF Typed, ThreadOrNone
        <5> QED BY <5>1, Numbers, FS_CardinalityType
      <4>4. Reach(ops)' \in Nat /\ Cardinality(waiting)' + Reach(ops) <= Cardinality(waiting) + Reach(ops)'
        BY <2>3, ReachValue DEF Affords, Typed
      <4> QED BY <4>1, <4>2, <4>3, <4>4
    <3> QED BY <3>2, <3>3
  <2> QED BY <2>3, <2>4, <2>5 DEF CountersInv
<1>2. CASE UNCHANGED vars
  BY <1>2 DEF vars, CountersInv, Typed, QueuesTyped, RingInv, ReachInv, LocalInv, PutInv, GetInv, ThiefInv,
              AskInv, H, T, Pending, SaysEmpty, TailUnchanged
<1> QED BY <1>1, <1>2

LEMMA CountersInit == Init => CountersInv
<1> SUFFICES ASSUME Init PROVE CountersInv
  OBVIOUS
<1>1. PICK p \in Placements : InitAt(p)
  BY DEF Init
<1>2. /\ p.ring \in [Cpus -> Seq(Threads)] /\ \A c \in Cpus : Len(p.ring[c]) <= RUN_QUEUE_LEN
      /\ p.next \in [Cpus -> ThreadOrNone] /\ p.current \in [Cpus -> Threads]
      /\ p.global \in Seq(Threads) /\ p.waiting \subseteq Threads
  BY RunQueueAssumption DEF ThreadOrNone
<1>3. \A c \in Cpus : p.ring[c] \in Seq(Threads) /\ Len(p.ring[c]) \in Nat /\ Len(p.ring[c]) <= RUN_QUEUE_LEN
  BY <1>2
<1>4. Start \in Words /\ U(Start) = 0
  BY Params, Distances
<1>5. \A c \in Cpus : Plus(Start, Len(p.ring[c])) \in Words /\ U(Plus(Start, Len(p.ring[c]))) = Len(p.ring[c])
  <2>1. ASSUME NEW c \in Cpus PROVE U(Start) + Len(p.ring[c]) < Width
    BY <1>3, <1>4, Params
  <2> QED BY <1>3, <1>4, <2>1, Distances
<1>6. head \in [Cpus -> Words] /\ tail \in [Cpus -> Words]
  BY <1>1, <1>4, <1>5 DEF Init, InitAt
<1>7. \A c \in Cpus : H(c) = 0 /\ T(c) = Len(p.ring[c])
  BY <1>1, <1>4, <1>5 DEF Init, InitAt, H, T
<1>8. QueuesTyped
  <2>1. queue \in [Cpus -> [0 .. RUN_QUEUE_LEN - 1 -> ThreadOrNone]]
    <3> DEFINE E(c, s) == LET i == 1 + ((s - Start) % RUN_QUEUE_LEN)
                          IN  IF i <= Len(p.ring[c]) THEN p.ring[c][i] ELSE None
    <3>1. \A c \in Cpus, s \in 0 .. RUN_QUEUE_LEN - 1 : E(c, s) \in ThreadOrNone
      <4>1. SUFFICES ASSUME NEW c \in Cpus, NEW s \in 0 .. RUN_QUEUE_LEN - 1 PROVE E(c, s) \in ThreadOrNone
        OBVIOUS
      <4>2. PICK i : i = 1 + ((s - Start) % RUN_QUEUE_LEN)
        OBVIOUS
      <4>3. i \in Nat /\ i >= 1
        BY <4>2, <1>4, Params, WordNat
      <4> QED BY <1>3, <4>2, <4>3 DEF ThreadOrNone
    <3>2. queue = [c \in Cpus |-> [s \in 0 .. RUN_QUEUE_LEN - 1 |-> E(c, s)]]
      BY <1>1 DEF InitAt
    <3> HIDE DEF E
    <3> QED BY <3>1, <3>2
  <2>2. Seq(Threads) \subseteq Seq(ThreadOrNone)
    BY DEF ThreadOrNone
  <2> QED BY <1>1, <1>2, <2>1, <2>2 DEF Init, InitAt, QueuesTyped, ThreadOrNone
<1>9. Typed
  <2>1. waiting \subseteq ThreadOrNone /\ ops \in 0 .. MaxOps /\ wasEmpty \in [Cpus -> BOOLEAN] /\ pc \in [Cpus -> Labels]
    BY <1>1, <1>2, Params DEF Init, InitAt, ThreadOrNone, Labels
  <2>2. loc \in [Cpus -> Locals]
    BY NoLocalsTyped DEF Init
  <2> QED BY <1>6, <1>8, <2>1, <2>2 DEF Typed
<1>10. RingInv
  BY <1>3, <1>7, Params DEF RingInv
<1>11. ReachInv
  <2>1. Cardinality(waiting) <= Cardinality(Threads) /\ Cardinality(waiting) \in Nat
    BY <1>1, <1>2, Params, FS_Subset, FS_CardinalityType DEF InitAt
  <2>2. Reach(0) = RUN_QUEUE_LEN + Cardinality(Threads)
    BY Params DEF Reach
  <2>3. \A c \in Cpus : Pending(c) = 0
    BY PendingValue, NoLocalsTyped DEF Init, Pending, Labels
  <2>4. ops = 0
    BY DEF Init
  <2> QED BY <1>3, <1>7, <2>1, <2>2, <2>3, <2>4, Params DEF ReachInv
<1>12. \A c \in Cpus : LocalInv(c)
  <2>1. \A c \in Cpus : pc[c] = "run"
    BY DEF Init
  <2> QED BY <2>1 DEF LocalInv, PutInv, GetInv, ThiefInv, AskInv, PutPcs, EmptyPcs, ThiefPcs, GrabPcs, Asking
<1> QED BY <1>9, <1>10, <1>11, <1>12 DEF CountersInv

LEMMA CountersInvariant == Spec => []CountersInv
BY CountersInit, CountersNext, PTL DEF Spec

\* The assertion of run_queue_steal holds: a thief's own ring is empty while it
\* steals, since only its own CPU fills it, and the threads it has taken are at
\* most half a ring.
THEOREM StolenThreadsFit == Spec => []StealHasRoom
<1>1. CountersInv => StealHasRoom
  <2> SUFFICES ASSUME CountersInv, NEW c \in Cpus, pc[c] = "steal_publish"
               PROVE  Minus(loc[c].t, head[c]) + loc[c].n < RUN_QUEUE_LEN
    BY DEF StealHasRoom
  <2>1. loc[c].t = head[c] /\ loc[c].n \in 1 .. Half - 1
    BY Numbers DEF LocalInv, ThiefInv, EmptyPcs, ThiefPcs
  <2>2. Minus(head[c], head[c]) = 0
    BY Numbers, MinusValue, Params DEF Words
  <2> QED BY <2>1, <2>2, Params
<1> QED BY <1>1, CountersInvariant, PTL

\* run_queue_empty is right when it says yes: head, tail and `next' are read one
\* after the other, and the second look at the tail shows that the ring was
\* empty when `next' was found empty.
THEOREM EmptyAnswersAreTrue == Spec => []EmptyOnlyIfEmpty
<1>1. CountersInv => EmptyOnlyIfEmpty
  BY DEF CountersInv, LocalInv, AskInv, EmptyOnlyIfEmpty
<1> QED BY <1>1, CountersInvariant, PTL

----------------------------------------------------------------------------
LEMMA Remainder ==
    ASSUME NEW n \in Nat, n > 0, NEW a \in Nat
    PROVE  a = n * (a \div n) + (a % n) /\ a \div n \in Nat /\ a % n \in 0 .. n - 1
OBVIOUS

\* Numbers with the same remainder differ by a multiple.
LEMMA SameRemainder ==
    ASSUME NEW n \in Nat, n > 0, NEW d \in Int, NEW e \in Int, NEW r \in 0 .. n - 1, NEW s \in 0 .. n - 1
    PROVE  /\ n * d + r = n * e + s => d = e /\ r = s
           /\ d # e => n * d + r - (n * e + r) >= n \/ n * e + r - (n * d + r) >= n
<1>1. n * d \in Int /\ n * e \in Int
  OBVIOUS
<1>2. d > e => n * d - n * e >= n
  <2>1. ASSUME d > e PROVE n * (d - e) >= n
    <3>1. d - e >= 1 /\ d - e \in Int
      BY <2>1
    <3> QED BY <3>1
  <2> QED BY <2>1
<1>3. d < e => n * e - n * d >= n
  <2>1. ASSUME d < e PROVE n * (e - d) >= n
    <3>1. e - d >= 1 /\ e - d \in Int
      BY <2>1
    <3> QED BY <3>1
  <2> QED BY <2>1
<1> QED BY <1>1, <1>2, <1>3

LEMMA AddMultiple ==
    ASSUME NEW n \in Nat, n > 0, NEW a \in Nat, NEW q \in Nat
    PROVE  (a + n * q) % n = a % n
<1>1. PICK d : d = a \div n
  OBVIOUS
<1>2. PICK e : e = (a + n * q) \div n
  OBVIOUS
<1>3. d \in Nat /\ a % n \in 0 .. n - 1 /\ a = n * d + (a % n)
  BY <1>1, Remainder
<1>4. a + n * q \in Nat
  OBVIOUS
<1>5. e \in Nat /\ (a + n * q) % n \in 0 .. n - 1 /\ a + n * q = n * e + ((a + n * q) % n)
  BY <1>2, <1>4, Remainder
<1>6. PICK r : r = a % n
  OBVIOUS
<1>7. PICK s : s = (a + n * q) % n
  OBVIOUS
<1>8. n * d + r + n * q = n * e + s /\ r \in 0 .. n - 1 /\ s \in 0 .. n - 1
  BY <1>3, <1>5, <1>6, <1>7
<1>9. n * d + n * q = n * (d + q) /\ d + q \in Int /\ e \in Int
  BY <1>3, <1>5
<1>10. n * (d + q) + r = n * e + s
  BY <1>3, <1>8, <1>9
<1>11. r = s
  <2>1. PICK w \in Int : w = d + q
    BY <1>9
  <2>2. n * w + r = n * e + s
    BY <1>10, <2>1
  <2>3. n * w + r = n * e + s => w = e /\ r = s
    BY <1>8, <1>9, <2>1, SameRemainder
  <2> QED BY <2>2, <2>3
<1> QED BY <1>6, <1>7, <1>11

\* Where position k of a ring lies, counted from the start.
Pos(k) == Slot(Start + k)

LEMMA PosTyped ==
    ASSUME NEW k \in Nat
    PROVE  Pos(k) \in 0 .. RUN_QUEUE_LEN - 1
BY Params, WordNat, SlotTyped DEF Pos

\* A counter and its distance lie at the same slot.
LEMMA SlotPos ==
    ASSUME NEW x \in Words, NEW i \in Nat
    PROVE  Slot(x + i) = Pos(U(x) + i)
<1>1. x \in Nat /\ Start \in Nat /\ Width \in Nat /\ RUN_QUEUE_LEN \in Nat /\ RUN_QUEUE_LEN > 0
  BY Params, WordNat
<1>2. U(x) = IF x >= Start THEN x - Start ELSE x - Start + Width
  BY Params, MinusValue DEF U
<1>3. CASE x >= Start
  BY <1>1, <1>2, <1>3 DEF Pos
<1>4. CASE x < Start
  <2>1. PICK q : q = Width \div RUN_QUEUE_LEN
    OBVIOUS
  <2>2. q \in Nat /\ Width = RUN_QUEUE_LEN * q
    BY <1>1, <2>1, Remainder, RunQueueAssumption
  <2>3. Start + (U(x) + i) = (x + i) + RUN_QUEUE_LEN * q
    BY <1>1, <1>2, <1>4, <2>2
  <2>4. ((x + i) + RUN_QUEUE_LEN * q) % RUN_QUEUE_LEN = (x + i) % RUN_QUEUE_LEN
    <3>1. PICK a \in Nat : a = x + i
      BY <1>1
    <3>2. (a + RUN_QUEUE_LEN * q) % RUN_QUEUE_LEN = a % RUN_QUEUE_LEN
      BY <1>1, <2>2, AddMultiple
    <3> QED BY <3>1, <3>2
  <2> QED BY <2>3, <2>4 DEF Pos, Slot
<1> QED BY <1>1, <1>3, <1>4

\* The positions of a stretch no longer than a ring have slots of their own.
LEMMA PosApart ==
    ASSUME NEW j \in Nat, NEW k \in Nat, j < k, k < j + RUN_QUEUE_LEN
    PROVE  Pos(j) # Pos(k)
<1> SUFFICES ASSUME Pos(j) = Pos(k) PROVE FALSE
  OBVIOUS
<1>1. PICK n : n = RUN_QUEUE_LEN
  OBVIOUS
<1>2. n \in Nat /\ n > 0 /\ Start + j \in Nat /\ Start + k \in Nat
  BY <1>1, Params, WordNat
<1>3. PICK d : d = (Start + j) \div n
  OBVIOUS
<1>4. PICK e : e = (Start + k) \div n
  OBVIOUS
<1>5. PICK r : r = (Start + j) % n
  OBVIOUS
<1>6. r = (Start + k) % n
  BY <1>1, <1>5 DEF Pos, Slot
<1>7. /\ d \in Int /\ e \in Int /\ r \in 0 .. n - 1
      /\ Start + j = n * d + r /\ Start + k = n * e + r
  <2>1. PICK a \in Nat : a = Start + j
    BY <1>2
  <2>2. PICK b \in Nat : b = Start + k
    BY <1>2
  <2>3. /\ a \div n \in Nat /\ a % n \in 0 .. n - 1 /\ a = n * (a \div n) + (a % n)
        /\ b \div n \in Nat /\ b = n * (b \div n) + (b % n)
    BY <1>2, Remainder
  <2> QED BY <1>3, <1>4, <1>5, <1>6, <2>1, <2>2, <2>3
<1>8. d # e
  BY <1>2, <1>7, Params, WordNat
<1>9. n * d + r - (n * e + r) >= n \/ n * e + r - (n * d + r) >= n
  BY <1>2, <1>7, <1>8, SameRemainder
<1> QED BY <1>1, <1>2, <1>7, <1>9, Params, WordNat

----------------------------------------------------------------------------
Cell(c, k) == queue[c][Pos(k)]
InRing(c) == H(c) .. T(c) - 1
InLoot(c) == IF pc[c] \in {"stolen", "steal_publish"} THEN T(c) .. T(c) + loc[c].n - 1 ELSE {}

\* The CPU holds the scheduler lock to take threads off the global queue.
InGlobal(c) == pc[c] = "global_rest" \/ (pc[c] \in PutPcs /\ loc[c].return = "global_rest")

HandInv(c) ==
    /\ (pc[c] = "run" \/ (pc[c] \in PutPcs /\ loc[c].return = "run")) <=> current[c] # None
    /\ pc[c] \in PutPcs \ {"put_global"} <=> loc[c].thread # None
    /\ InGlobal(c) <=> lock = c
    /\ InGlobal(c) \/ pc[c] = "steal_publish" <=> loc[c].found # None
    /\ loc[c].batch # << >> => InGlobal(c) \/ pc[c] = "put_global"
    /\ pc[c] = "grab_next_cas" => loc[c].next # None

\* What a CPU has written beyond its tail.
CopyInv(c) ==
    /\ pc[c] = "put_publish" => Cell(c, T(c)) = loc[c].thread
    /\ pc[c] = "grab_copy" => loc[c].i < loc[c].n
    /\ pc[c] = "grab_cas" => loc[c].i = loc[c].n
    /\ pc[c] \in {"grab_copy", "grab_cas"} /\ U(loc[c].h) = H(loc[c].victim) =>
           \A j \in 0 .. loc[c].i - 1 : Cell(c, T(c) + j) = Cell(loc[c].victim, H(loc[c].victim) + j)

Elements(s) == {s[i] : i \in 1 .. Len(s)}
Once(s) == \A i, j \in 1 .. Len(s) : s[i] = s[j] => i = j

FilledAt(c) ==
    /\ loc[c].batch \in Seq(Threads) /\ Once(loc[c].batch)
    /\ \A k \in InRing(c) \cup InLoot(c) : Cell(c, k) \in Threads
    /\ \A j, k \in InRing(c) : Cell(c, j) = Cell(c, k) => j = k
    /\ \A j, k \in InLoot(c) : Cell(c, j) = Cell(c, k) => j = k

SharedFilled == global \in Seq(Threads) /\ Once(global) /\ waiting \subseteq Threads /\ dead \subseteq Threads

Kinds == {"waiting", "dead", "global", "ring", "loot", "batch", "next", "current", "thread", "found"}
Who == Cpus \cup {None}
Holders == Kinds \X Who

Rung(c) == {Cell(c, i) : i \in InRing(c)}
Loot(c) == {Cell(c, i) : i \in InLoot(c)}

HeldBy(k, c) ==
    CASE k = "waiting" /\ c = None -> waiting
      [] k = "dead" /\ c = None -> dead
      [] k = "global" /\ c = None -> Elements(global)
      [] k = "ring" /\ c # None -> Rung(c)
      [] k = "loot" /\ c # None -> Loot(c)
      [] k = "batch" /\ c # None -> Elements(loc[c].batch)
      [] k = "next" /\ c # None -> {next[c]} \ {None}
      [] k = "current" /\ c # None -> {current[c]} \ {None}
      [] k = "thread" /\ c # None -> {loc[c].thread} \ {None}
      [] k = "found" /\ c # None -> {loc[c].found} \ {None}
      [] OTHER -> {}

Held == [h \in Holders |-> HeldBy(h[1], h[2])]
OneHolder(e) == \A t \in Threads : \E h \in Holders : t \in e[h] /\ \A g \in Holders : t \in e[g] => g = h

PlacesInv ==
    /\ CountersInv
    /\ SharedFilled
    /\ \A c \in Cpus : HandInv(c) /\ CopyInv(c) /\ FilledAt(c)
    /\ OneHolder(Held)

\* A step of c leaves the entries of all rings alone, and what others have.
Keeps(c) ==
    /\ \A d \in Cpus \ {c} : queue'[d] = queue[d] /\ current'[d] = current[d] /\ (lock' = d <=> lock = d)
    /\ \A k \in InRing(c) : Cell(c, k)' = Cell(c, k)

LEMMA NoneApart == None \notin Cpus /\ None \notin Threads
BY RunQueueAssumption

LEMMA HeldValues ==
    ASSUME NEW c \in Cpus
    PROVE  /\ HeldBy("waiting", None) = waiting /\ HeldBy("dead", None) = dead /\ HeldBy("global", None) = Elements(global)
           /\ HeldBy("ring", c) = Rung(c) /\ HeldBy("loot", c) = Loot(c) /\ HeldBy("batch", c) = Elements(loc[c].batch)
           /\ HeldBy("next", c) = {next[c]} \ {None} /\ HeldBy("current", c) = {current[c]} \ {None}
           /\ HeldBy("thread", c) = {loc[c].thread} \ {None} /\ HeldBy("found", c) = {loc[c].found} \ {None}
           /\ \A k \in {"waiting", "dead", "global"} : HeldBy(k, c) = {}
           /\ \A k \in Kinds \ {"waiting", "dead", "global"} : HeldBy(k, None) = {}
BY NoneApart DEF HeldBy, Kinds

LEMMA HeldValuesNext ==
    ASSUME NEW c \in Cpus
    PROVE  /\ HeldBy("waiting", None)' = waiting' /\ HeldBy("dead", None)' = dead' /\ HeldBy("global", None)' = Elements(global')
           /\ HeldBy("ring", c)' = Rung(c)' /\ HeldBy("loot", c)' = Loot(c)' /\ HeldBy("batch", c)' = Elements(loc'[c].batch)
           /\ HeldBy("next", c)' = {next'[c]} \ {None} /\ HeldBy("current", c)' = {current'[c]} \ {None}
           /\ HeldBy("thread", c)' = {loc'[c].thread} \ {None} /\ HeldBy("found", c)' = {loc'[c].found} \ {None}
           /\ \A k \in {"waiting", "dead", "global"} : HeldBy(k, c)' = {}
           /\ \A k \in Kinds \ {"waiting", "dead", "global"} : HeldBy(k, None)' = {}
BY NoneApart DEF HeldBy, Kinds

\* Threads that go from one holder to another.
LEMMA Handed ==
    ASSUME NEW e, NEW f, NEW a \in Holders, NEW b \in Holders, a # b, NEW X,
           OneHolder(e), X \subseteq e[a], f[a] = e[a] \ X, f[b] = e[b] \cup X,
           \A h \in Holders \ {a, b} : f[h] = e[h]
    PROVE  OneHolder(f)
<1> SUFFICES ASSUME NEW t \in Threads
             PROVE  \E h \in Holders : t \in f[h] /\ \A g \in Holders : t \in f[g] => g = h
  BY DEF OneHolder
<1>1. PICK h \in Holders : t \in e[h] /\ \A g \in Holders : t \in e[g] => g = h
  BY DEF OneHolder
<1>2. CASE t \in X
  <2>1. h = a /\ t \in f[b]
    BY <1>1, <1>2
  <2>2. \A g \in Holders : t \in f[g] => g = b
    BY <1>1, <1>2, <2>1
  <2> QED BY <2>1, <2>2
<1>3. CASE t \notin X
  <2>1. \A g \in Holders : t \in f[g] <=> t \in e[g]
    BY <1>3
  <2> QED BY <1>1, <2>1
<1> QED BY <1>2, <1>3

LEMMA HeldAt ==
    /\ \A k \in Kinds, d \in Who : Held[<<k, d>>] = HeldBy(k, d) /\ Held'[<<k, d>>] = HeldBy(k, d)'
    /\ \A h \in Holders : \E k \in Kinds, d \in Who : h = <<k, d>>
BY DEF Held, Holders

LEMMA PlacesNumbers ==
    ASSUME PlacesInv, NEW c \in Cpus
    PROVE  CountersInv /\ LocalInv(c) /\ HandInv(c) /\ CopyInv(c) /\ FilledAt(c) /\ SharedFilled /\ OneHolder(Held)
BY DEF PlacesInv, CountersInv

\* What the other CPUs have and know, while c takes a step.
LEMMA OthersHands ==
    ASSUME PlacesInv, NEW c \in Cpus, NEW d \in Cpus \ {c}, Typed', RingInv', Moves(c), Keeps(c)
    PROVE  HandInv(d)' /\ CopyInv(d)' /\ FilledAt(d)'
<1>0. PICK l : l = loc[d]
  OBVIOUS
<1>1. /\ l = loc[d] /\ loc'[d] = l /\ pc'[d] = pc[d] /\ tail'[d] = tail[d] /\ queue'[d] = queue[d]
      /\ current'[d] = current[d] /\ (lock' = d <=> lock = d)
  BY <1>0 DEF Moves, Keeps
<1>2. \A v \in Cpus : /\ H(v) \in Nat /\ T(v) \in Nat /\ H(v)' \in Nat /\ T(v)' \in Nat
                      /\ H(v) <= T(v) /\ H(v)' <= T(v)' /\ H(v) <= H(v)' /\ T(v) <= T(v)'
  <2>1. CountersInv
    BY DEF PlacesInv
  <2> QED BY <2>1, Distances DEF CountersInv, Typed, RingInv, Moves, H, T, Words
<1>3. T(d)' = T(d) /\ \A k : Cell(d, k)' = Cell(d, k)
  BY <1>1 DEF T, Cell
<1>4. /\ LocalInv(d) /\ HandInv(d) /\ CopyInv(d) /\ FilledAt(d)
      /\ l.n \in Nat /\ l.i \in Nat /\ U(l.h) \in Nat
  BY <1>1, PlacesNumbers, LocalsTyped
<1>5. HandInv(d)'
  BY <1>1, <1>4 DEF HandInv, InGlobal
<1>6. CopyInv(d)'
  <2>1. SUFFICES ASSUME pc[d] \in {"grab_copy", "grab_cas"}, NEW w \in Cpus, w = l.victim,
                        U(l.h) = H(w)', NEW j \in 0 .. l.i - 1
                 PROVE  (Cell(d, T(d) + j) = Cell(w, H(w) + j))'
    <3>1. pc[d] \in {"grab_copy", "grab_cas"} => l.victim \in Cpus
      BY <1>1, <1>4 DEF LocalInv, ThiefInv, GrabPcs
    <3> QED BY <1>1, <1>3, <1>4, <3>1 DEF CopyInv
  <2>2. U(l.h) <= H(w) /\ U(l.h) + l.n <= T(w) /\ l.i <= l.n
    BY <1>1, <1>4, <2>1 DEF LocalInv, ThiefInv, CopyInv
  <2>3. H(w) = H(w)' /\ H(w) + j \in InRing(w)
    BY <1>2, <1>4, <2>1, <2>2 DEF InRing
  <2>4. Cell(d, T(d) + j) = Cell(w, H(w) + j)
    BY <1>1, <1>4, <2>1, <2>3 DEF CopyInv
  <2>5. PICK k : k = H(w) + j
    OBVIOUS
  <2>6. Cell(w, k)' = Cell(w, k)
    <3>1. CASE w = c
      BY <2>3, <2>5, <3>1 DEF Keeps
    <3>2. CASE w # c
      BY <3>2 DEF Keeps, Cell
    <3> QED BY <3>1, <3>2
  <2>7. (Cell(w, H(w) + j))' = Cell(w, k)'
    BY <2>3, <2>5 DEF Cell
  <2>8. (Cell(d, T(d) + j))' = Cell(d, T(d) + j)
    BY <1>1, <1>3 DEF Cell
  <2> QED BY <2>4, <2>5, <2>6, <2>7, <2>8
<1>7. FilledAt(d)'
  <2>1. InRing(d)' \subseteq InRing(d)
    BY <1>2, <1>3 DEF InRing
  <2>2. InLoot(d)' = InLoot(d)
    BY <1>1, <1>3 DEF InLoot
  <2> QED BY <1>1, <1>3, <1>4, <2>1, <2>2 DEF FilledAt
<1> QED BY <1>5, <1>6, <1>7

\* Their holders keep what they hold, but for the victim of a thief.
LEMMA OthersHold ==
    ASSUME NEW c \in Cpus, NEW d \in Cpus \ {c}, NEW k \in Kinds, Moves(c), Keeps(c),
           k = "ring" => head'[d] = head[d],
           k = "next" => next'[d] = next[d]
    PROVE  HeldBy(k, d)' = HeldBy(k, d)
<1>1. /\ loc'[d] = loc[d] /\ pc'[d] = pc[d] /\ tail'[d] = tail[d] /\ queue'[d] = queue[d]
      /\ current'[d] = current[d]
  BY DEF Moves, Keeps
<1>2. T(d)' = T(d) /\ \A i : Cell(d, i)' = Cell(d, i)
  BY <1>1 DEF T, Cell
<1>3. InLoot(d)' = InLoot(d) /\ (k = "ring" => InRing(d)' = InRing(d))
  BY <1>1, <1>2 DEF InLoot, InRing, H
<1>4. Loot(d)' = Loot(d) /\ (k = "ring" => Rung(d)' = Rung(d))
  BY <1>2, <1>3 DEF Loot, Rung
<1> QED BY <1>1, <1>4, NoneApart DEF HeldBy

----------------------------------------------------------------------------
\* What is left to show of a step of c, once its counters are known.
PlacesGoal(c) == SharedFilled' /\ Keeps(c) /\ HandInv(c)' /\ CopyInv(c)' /\ FilledAt(c)' /\ OneHolder(Held')

\* A step in which no thread changes hands.
LEMMA NothingMoves ==
    ASSUME PlacesInv, NEW c \in Cpus, StepGoal(c), Keeps(c),
           UNCHANGED <<head, tail, next, current, global, waiting, dead>>,
           loc'[c].thread = loc[c].thread, loc'[c].found = loc[c].found, loc'[c].batch = loc[c].batch,
           pc[c] \notin {"stolen", "steal_publish"}, pc'[c] \notin {"stolen", "steal_publish"},
           HandInv(c)', CopyInv(c)'
    PROVE  PlacesGoal(c)
<1>1. H(c)' = H(c) /\ T(c)' = T(c) /\ InRing(c)' = InRing(c) /\ InLoot(c)' = InLoot(c) /\ InLoot(c) = {}
  BY DEF H, T, InRing, InLoot
<1>2. FilledAt(c) /\ SharedFilled /\ OneHolder(Held)
  BY PlacesNumbers
<1>3. FilledAt(c)'
  BY <1>1, <1>2 DEF FilledAt, Keeps
<1>4. Rung(c)' = Rung(c) /\ Loot(c)' = Loot(c)
  BY <1>1 DEF Rung, Loot, Keeps
<1>5. \A k \in Kinds, d \in Who : HeldBy(k, d)' = HeldBy(k, d)
  <2>1. SUFFICES ASSUME NEW k \in Kinds, NEW d \in Who PROVE HeldBy(k, d)' = HeldBy(k, d)
    OBVIOUS
  <2>2. CASE d \in Cpus \ {c}
    BY <2>2, OthersHold DEF StepGoal
  <2>3. CASE d = c
    BY <2>3, <1>4, NoneApart DEF HeldBy
  <2>4. CASE d = None
    BY <2>4, HeldValues, HeldValuesNext, ZenonT(40) DEF Kinds
  <2> QED BY <2>2, <2>3, <2>4 DEF Who
<1>6. \A h \in Holders : Held'[h] = Held[h]
  BY <1>5, HeldAt
<1>7. OneHolder(Held')
  BY <1>2, <1>6 DEF OneHolder
<1>8. SharedFilled'
  BY <1>2 DEF SharedFilled
<1> QED BY <1>3, <1>7, <1>8 DEF PlacesGoal

\* The places where a CPU has no thread in its hands.
Free == Labels \ (PutPcs \cup {"run", "global_rest", "stolen", "steal_publish"})

LEMMA EmptyHanded ==
    ASSUME PlacesInv, NEW c \in Cpus, NEW m, StepGoal(c),
           UNCHANGED <<head, tail, queue, next, current, global, lock, waiting, dead>>,
           pc[c] \in Free, pc'[c] \in Free, loc'[c] = m,
           m.thread \in {None, loc[c].thread}, m.found \in {None, loc[c].found}, m.batch \in {<< >>, loc[c].batch},
           pc'[c] = "grab_next_cas" => m.next # None,
           CopyInv(c)'
    PROVE  PlacesGoal(c)
<1>1. loc[c].thread = None /\ loc[c].found = None /\ loc[c].batch = << >> /\ current[c] = None /\ lock # c
  BY PlacesNumbers DEF HandInv, InGlobal, Free, PutPcs
<1>2. HandInv(c)'
  BY <1>1 DEF HandInv, InGlobal, Free, PutPcs
<1>3. Keeps(c)
  BY DEF Keeps, Cell
<1>4. /\ pc[c] \notin {"stolen", "steal_publish"} /\ pc'[c] \notin {"stolen", "steal_publish"}
      /\ loc'[c].thread = loc[c].thread /\ loc'[c].found = loc[c].found /\ loc'[c].batch = loc[c].batch
  BY <1>1 DEF Free
<1> QED BY <1>2, <1>3, <1>4, NothingMoves

LEMMA StealHands ==
    ASSUME PlacesInv, NEW c \in Cpus, NEW v \in Cpus, NEW s \in BOOLEAN, Steal(c, v, s), Observe
    PROVE  PlacesGoal(c)
<1>0. CountersInv /\ Typed
  BY DEF PlacesInv, CountersInv
<1>1. StepGoal(c)
  BY <1>0, StealStep
<1>2. pc[c] \in {"steal"} /\ UNCHANGED <<head, tail, queue, next, current, global, lock, waiting, dead>>
  BY DEF Steal, rings
<1>3. PICK m : m = loc'[c]
  OBVIOUS
<1>4. /\ pc'[c] \in {"grab"}
      /\ m.thread \in {None, loc[c].thread} /\ m.found \in {None, loc[c].found} /\ m.batch \in {<< >>, loc[c].batch}
  BY <1>0, <1>3, LocalsTyped DEF Steal, Goto, Set, Forget, Fresh, NoLocals, Typed, Locals
<1>5. CopyInv(c)'
  BY <1>4 DEF CopyInv
<1>6. pc[c] \in Free /\ pc'[c] \in Free
  BY <1>2, <1>4 DEF Free, Labels, Asking, PutPcs
<1> QED BY <1>1, <1>2, <1>3, <1>4, <1>5, <1>6, EmptyHanded

LEMMA StealFailHands ==
    ASSUME PlacesInv, NEW c \in Cpus, StealFail(c), Observe
    PROVE  PlacesGoal(c)
<1>0. CountersInv /\ Typed
  BY DEF PlacesInv, CountersInv
<1>1. StepGoal(c)
  BY <1>0, StealFailStep
<1>2. pc[c] \in {"steal"} /\ UNCHANGED <<head, tail, queue, next, current, global, lock, waiting, dead>>
  BY DEF StealFail, rings
<1>3. PICK m : m = loc'[c]
  OBVIOUS
<1>4. /\ pc'[c] \in {"find", "idle"}
      /\ m.thread \in {None, loc[c].thread} /\ m.found \in {None, loc[c].found} /\ m.batch \in {<< >>, loc[c].batch}
  BY <1>0, <1>3, LocalsTyped DEF StealFail, Goto, Set, Forget, Fresh, NoLocals, Typed, Locals
<1>5. CopyInv(c)'
  BY <1>4 DEF CopyInv
<1>6. pc[c] \in Free /\ pc'[c] \in Free
  BY <1>2, <1>4 DEF Free, Labels, Asking, PutPcs
<1> QED BY <1>1, <1>2, <1>3, <1>4, <1>5, <1>6, EmptyHanded

LEMMA GrabHeadHands ==
    ASSUME PlacesInv, NEW c \in Cpus, GrabHead(c), Observe
    PROVE  PlacesGoal(c)
<1>0. CountersInv /\ Typed
  BY DEF PlacesInv, CountersInv
<1>1. StepGoal(c)
  BY <1>0, GrabHeadStep
<1>2. pc[c] \in {"grab"} /\ UNCHANGED <<head, tail, queue, next, current, global, lock, waiting, dead>>
  BY DEF GrabHead, rings
<1>3. PICK m : m = loc'[c]
  OBVIOUS
<1>4. /\ pc'[c] \in {"grab_tail"}
      /\ m.thread \in {None, loc[c].thread} /\ m.found \in {None, loc[c].found} /\ m.batch \in {<< >>, loc[c].batch}
  BY <1>0, <1>3, LocalsTyped DEF GrabHead, Goto, Set, Forget, Fresh, NoLocals, Typed, Locals
<1>5. CopyInv(c)'
  BY <1>4 DEF CopyInv
<1>6. pc[c] \in Free /\ pc'[c] \in Free
  BY <1>2, <1>4 DEF Free, Labels, Asking, PutPcs
<1> QED BY <1>1, <1>2, <1>3, <1>4, <1>5, <1>6, EmptyHanded

LEMMA GrabNextHands ==
    ASSUME PlacesInv, NEW c \in Cpus, GrabNext(c), Observe
    PROVE  PlacesGoal(c)
<1>0. CountersInv /\ Typed
  BY DEF PlacesInv, CountersInv
<1>1. StepGoal(c)
  BY <1>0, GrabNextStep
<1>2. pc[c] \in {"grab_next"} /\ UNCHANGED <<head, tail, queue, next, current, global, lock, waiting, dead>>
  BY DEF GrabNext, rings
<1>3. PICK m : m = loc'[c]
  OBVIOUS
<1>4. /\ pc'[c] \in {"steal", "grab_next_cas"}
      /\ m.thread \in {None, loc[c].thread} /\ m.found \in {None, loc[c].found} /\ m.batch \in {<< >>, loc[c].batch}
      /\ pc'[c] = "grab_next_cas" => m.next # None
  BY <1>0, <1>3, LocalsTyped DEF GrabNext, Goto, Set, Forget, Fresh, NoLocals, Typed, Locals
<1>5. CopyInv(c)'
  BY <1>4 DEF CopyInv
<1>6. pc[c] \in Free /\ pc'[c] \in Free
  BY <1>2, <1>4 DEF Free, Labels, Asking, PutPcs
<1> QED BY <1>1, <1>2, <1>3, <1>4, <1>5, <1>6, EmptyHanded

LEMMA EmptyCallHands ==
    ASSUME PlacesInv, NEW c \in Cpus, NEW v \in Cpus, EmptyCall(c, v), Observe
    PROVE  PlacesGoal(c)
<1>0. CountersInv /\ Typed
  BY DEF PlacesInv, CountersInv
<1>1. StepGoal(c)
  BY <1>0, EmptyCallStep
<1>2. pc[c] \in {"look"} /\ UNCHANGED <<head, tail, queue, next, current, global, lock, waiting, dead>>
  BY DEF EmptyCall, rings
<1>3. PICK m : m = loc'[c]
  OBVIOUS
<1>4. /\ pc'[c] \in {"empty_head"}
      /\ m.thread \in {None, loc[c].thread} /\ m.found \in {None, loc[c].found} /\ m.batch \in {<< >>, loc[c].batch}
  BY <1>0, <1>3, LocalsTyped DEF EmptyCall, Goto, Set, Forget, Fresh, NoLocals, Typed, Locals
<1>5. CopyInv(c)'
  BY <1>4 DEF CopyInv
<1>6. pc[c] \in Free /\ pc'[c] \in Free
  BY <1>2, <1>4 DEF Free, Labels, Asking, PutPcs
<1> QED BY <1>1, <1>2, <1>3, <1>4, <1>5, <1>6, EmptyHanded

LEMMA EmptyHeadHands ==
    ASSUME PlacesInv, NEW c \in Cpus, EmptyHead(c), Observe
    PROVE  PlacesGoal(c)
<1>0. CountersInv /\ Typed
  BY DEF PlacesInv, CountersInv
<1>1. StepGoal(c)
  BY <1>0, EmptyHeadStep
<1>2. pc[c] \in {"empty_head"} /\ UNCHANGED <<head, tail, queue, next, current, global, lock, waiting, dead>>
  BY DEF EmptyHead, rings
<1>3. PICK m : m = loc'[c]
  OBVIOUS
<1>4. /\ pc'[c] \in {"empty_tail"}
      /\ m.thread \in {None, loc[c].thread} /\ m.found \in {None, loc[c].found} /\ m.batch \in {<< >>, loc[c].batch}
  BY <1>0, <1>3, LocalsTyped DEF EmptyHead, Goto, Set, Forget, Fresh, NoLocals, Typed, Locals
<1>5. CopyInv(c)'
  BY <1>4 DEF CopyInv
<1>6. pc[c] \in Free /\ pc'[c] \in Free
  BY <1>2, <1>4 DEF Free, Labels, Asking, PutPcs
<1> QED BY <1>1, <1>2, <1>3, <1>4, <1>5, <1>6, EmptyHanded

LEMMA EmptyTailHands ==
    ASSUME PlacesInv, NEW c \in Cpus, EmptyTail(c), Observe
    PROVE  PlacesGoal(c)
<1>0. CountersInv /\ Typed
  BY DEF PlacesInv, CountersInv
<1>1. StepGoal(c)
  BY <1>0, EmptyTailStep
<1>2. pc[c] \in {"empty_tail"} /\ UNCHANGED <<head, tail, queue, next, current, global, lock, waiting, dead>>
  BY DEF EmptyTail, rings
<1>3. PICK m : m = loc'[c]
  OBVIOUS
<1>4. /\ pc'[c] \in {"empty_next"}
      /\ m.thread \in {None, loc[c].thread} /\ m.found \in {None, loc[c].found} /\ m.batch \in {<< >>, loc[c].batch}
  BY <1>0, <1>3, LocalsTyped DEF EmptyTail, Goto, Set, Forget, Fresh, NoLocals, Typed, Locals
<1>5. CopyInv(c)'
  BY <1>4 DEF CopyInv
<1>6. pc[c] \in Free /\ pc'[c] \in Free
  BY <1>2, <1>4 DEF Free, Labels, Asking, PutPcs
<1> QED BY <1>1, <1>2, <1>3, <1>4, <1>5, <1>6, EmptyHanded

LEMMA EmptyNextHands ==
    ASSUME PlacesInv, NEW c \in Cpus, EmptyNext(c), Observe
    PROVE  PlacesGoal(c)
<1>0. CountersInv /\ Typed
  BY DEF PlacesInv, CountersInv
<1>1. StepGoal(c)
  BY <1>0, EmptyNextStep
<1>2. pc[c] \in {"empty_next"} /\ UNCHANGED <<head, tail, queue, next, current, global, lock, waiting, dead>>
  BY DEF EmptyNext, rings
<1>3. PICK m : m = loc'[c]
  OBVIOUS
<1>4. /\ pc'[c] \in {"empty_check"}
      /\ m.thread \in {None, loc[c].thread} /\ m.found \in {None, loc[c].found} /\ m.batch \in {<< >>, loc[c].batch}
  BY <1>0, <1>3, LocalsTyped DEF EmptyNext, Goto, Set, Forget, Fresh, NoLocals, Typed, Locals
<1>5. CopyInv(c)'
  BY <1>4 DEF CopyInv
<1>6. pc[c] \in Free /\ pc'[c] \in Free
  BY <1>2, <1>4 DEF Free, Labels, Asking, PutPcs
<1> QED BY <1>1, <1>2, <1>3, <1>4, <1>5, <1>6, EmptyHanded

LEMMA EmptyCheckHands ==
    ASSUME PlacesInv, NEW c \in Cpus, EmptyCheck(c), Observe
    PROVE  PlacesGoal(c)
<1>0. CountersInv /\ Typed
  BY DEF PlacesInv, CountersInv
<1>1. StepGoal(c)
  BY <1>0, EmptyCheckStep
<1>2. pc[c] \in {"empty_check"} /\ UNCHANGED <<head, tail, queue, next, current, global, lock, waiting, dead>>
  BY DEF EmptyCheck, rings
<1>3. PICK m : m = loc'[c]
  OBVIOUS
<1>4. /\ pc'[c] \in {"empty_head", "look", "find"}
      /\ m.thread \in {None, loc[c].thread} /\ m.found \in {None, loc[c].found} /\ m.batch \in {<< >>, loc[c].batch}
  BY <1>0, <1>3, LocalsTyped DEF EmptyCheck, Goto, Set, Forget, Fresh, NoLocals, Typed, Locals
<1>5. CopyInv(c)'
  BY <1>4 DEF CopyInv
<1>6. pc[c] \in Free /\ pc'[c] \in Free
  BY <1>2, <1>4 DEF Free, Labels, Asking, PutPcs
<1> QED BY <1>1, <1>2, <1>3, <1>4, <1>5, <1>6, EmptyHanded

LEMMA HaltHands ==
    ASSUME PlacesInv, NEW c \in Cpus, Halt(c), Observe
    PROVE  PlacesGoal(c)
<1>0. CountersInv /\ Typed
  BY DEF PlacesInv, CountersInv
<1>1. StepGoal(c)
  BY <1>0, HaltStep
<1>2. pc[c] \in {"look"} /\ UNCHANGED <<head, tail, queue, next, current, global, lock, waiting, dead>>
  BY DEF Halt, rings
<1>3. PICK m : m = loc'[c]
  OBVIOUS
<1>4. /\ pc'[c] \in {"find"}
      /\ m.thread \in {None, loc[c].thread} /\ m.found \in {None, loc[c].found} /\ m.batch \in {<< >>, loc[c].batch}
  BY <1>0, <1>3, LocalsTyped DEF Halt, Goto, Set, Forget, Fresh, NoLocals, Typed, Locals
<1>5. CopyInv(c)'
  BY <1>4 DEF CopyInv
<1>6. pc[c] \in Free /\ pc'[c] \in Free
  BY <1>2, <1>4 DEF Free, Labels, Asking, PutPcs
<1> QED BY <1>1, <1>2, <1>3, <1>4, <1>5, <1>6, EmptyHanded

LEMMA GetLoadHands ==
    ASSUME PlacesInv, NEW c \in Cpus, GetLoad(c), Observe
    PROVE  PlacesGoal(c)
<1>0. CountersInv /\ Typed
  BY DEF PlacesInv, CountersInv
<1>1. StepGoal(c)
  BY <1>0, GetLoadStep
<1>2. pc[c] \in {"get"} /\ UNCHANGED <<head, tail, queue, next, current, global, lock, waiting, dead>>
  BY DEF GetLoad, rings, LocalInv, GetInv
<1>3. PICK m : m = loc'[c]
  OBVIOUS
<1>4. /\ pc'[c] \in {"global", "steal", "get_cas"}
      /\ m.thread \in {None, loc[c].thread} /\ m.found \in {None, loc[c].found} /\ m.batch \in {<< >>, loc[c].batch}
  BY <1>0, <1>3, LocalsTyped, <1>2, PlacesNumbers DEF GetLoad, Goto, Set, Forget, Fresh, NoLocals, Typed, Locals, LocalInv, GetInv
<1>5. CopyInv(c)'
  BY <1>4 DEF CopyInv
<1>6. pc[c] \in Free /\ pc'[c] \in Free
  BY <1>2, <1>4 DEF Free, Labels, Asking, PutPcs
<1> QED BY <1>1, <1>2, <1>3, <1>4, <1>5, <1>6, EmptyHanded

LEMMA GetCasFailsHands ==
    ASSUME PlacesInv, NEW c \in Cpus, head[c] # loc[c].h, GetCas(c), Observe
    PROVE  PlacesGoal(c)
<1>0. CountersInv /\ Typed
  BY DEF PlacesInv, CountersInv
<1>1. StepGoal(c)
  BY <1>0, GetCasFails
<1>2. pc[c] \in {"get_cas"} /\ UNCHANGED <<head, tail, queue, next, current, global, lock, waiting, dead>>
  BY DEF GetCas, rings
<1>3. PICK m : m = loc'[c]
  OBVIOUS
<1>4. /\ pc'[c] \in {"get"}
      /\ m.thread \in {None, loc[c].thread} /\ m.found \in {None, loc[c].found} /\ m.batch \in {<< >>, loc[c].batch}
  BY <1>0, <1>3, LocalsTyped DEF GetCas, Goto, Set, Forget, Fresh, NoLocals, Typed, Locals
<1>5. CopyInv(c)'
  BY <1>4 DEF CopyInv
<1>6. pc[c] \in Free /\ pc'[c] \in Free
  BY <1>2, <1>4 DEF Free, Labels, Asking, PutPcs
<1> QED BY <1>1, <1>2, <1>3, <1>4, <1>5, <1>6, EmptyHanded

LEMMA GetNextEmptyHands ==
    ASSUME PlacesInv, NEW c \in Cpus, next[c] = None, GetNext(c), Observe
    PROVE  PlacesGoal(c)
<1>0. CountersInv /\ Typed
  BY DEF PlacesInv, CountersInv
<1>1. StepGoal(c)
  BY <1>0, GetNextStep
<1>2. pc[c] \in {"find", "steal_timers"} /\ UNCHANGED <<head, tail, queue, next, current, global, lock, waiting, dead>>
  BY DEF GetNext, rings
<1>3. PICK m : m = loc'[c]
  OBVIOUS
<1>4. /\ pc'[c] \in {"get"}
      /\ m.thread \in {None, loc[c].thread} /\ m.found \in {None, loc[c].found} /\ m.batch \in {<< >>, loc[c].batch}
  <2>1. PICK x : x = IF pc[c] = "find" THEN "global" ELSE "steal"
    OBVIOUS
  <2>2. PICK y : y = (pc[c] = "steal_timers")
    OBVIOUS
  <2>3. loc'[c] = [NoLocals EXCEPT !.return = x, !.ran = y] /\ pc'[c] = "get"
    BY <1>0, <2>1, <2>2 DEF GetNext, Goto, Set, Typed
  <2> QED BY <1>3, <2>3 DEF NoLocals
<1>5. CopyInv(c)'
  BY <1>4 DEF CopyInv
<1>6. pc[c] \in Free /\ pc'[c] \in Free
  BY <1>2, <1>4 DEF Free, Labels, Asking, PutPcs
<1> QED BY <1>1, <1>2, <1>3, <1>4, <1>5, <1>6, EmptyHanded

LEMMA GrabCasFailsHands ==
    ASSUME PlacesInv, NEW c \in Cpus, head[loc[c].victim] # loc[c].h, GrabCas(c), Observe
    PROVE  PlacesGoal(c)
<1>0. CountersInv /\ Typed
  BY DEF PlacesInv, CountersInv
<1>1. StepGoal(c)
  BY <1>0, GrabCasFails
<1>2. pc[c] \in {"grab_cas"} /\ UNCHANGED <<head, tail, queue, next, current, global, lock, waiting, dead>>
  BY DEF GrabCas, rings
<1>3. PICK m : m = loc'[c]
  OBVIOUS
<1>4. /\ pc'[c] \in {"grab"}
      /\ m.thread \in {None, loc[c].thread} /\ m.found \in {None, loc[c].found} /\ m.batch \in {<< >>, loc[c].batch}
  BY <1>0, <1>3, LocalsTyped DEF GrabCas, Goto, Set, Forget, Fresh, NoLocals, Typed, Locals
<1>5. CopyInv(c)'
  BY <1>4 DEF CopyInv
<1>6. pc[c] \in Free /\ pc'[c] \in Free
  BY <1>2, <1>4 DEF Free, Labels, Asking, PutPcs
<1> QED BY <1>1, <1>2, <1>3, <1>4, <1>5, <1>6, EmptyHanded

LEMMA GrabNextCasFailsHands ==
    ASSUME PlacesInv, NEW c \in Cpus, next[loc[c].victim] # loc[c].next, GrabNextCas(c), Observe
    PROVE  PlacesGoal(c)
<1>0. CountersInv /\ Typed
  BY DEF PlacesInv, CountersInv
<1>1. StepGoal(c)
  BY <1>0, GrabNextCasStep
<1>2. pc[c] \in {"grab_next_cas"} /\ UNCHANGED <<head, tail, queue, next, current, global, lock, waiting, dead>>
  BY DEF GrabNextCas, rings
<1>3. PICK m : m = loc'[c]
  OBVIOUS
<1>4. /\ pc'[c] \in {"grab"}
      /\ m.thread \in {None, loc[c].thread} /\ m.found \in {None, loc[c].found} /\ m.batch \in {<< >>, loc[c].batch}
  BY <1>0, <1>3, LocalsTyped DEF GrabNextCas, Goto, Set, Forget, Fresh, NoLocals, Typed, Locals
<1>5. CopyInv(c)'
  BY <1>4 DEF CopyInv
<1>6. pc[c] \in Free /\ pc'[c] \in Free
  BY <1>2, <1>4 DEF Free, Labels, Asking, PutPcs
<1> QED BY <1>1, <1>2, <1>3, <1>4, <1>5, <1>6, EmptyHanded

LEMMA GlobalGetEmptyHands ==
    ASSUME PlacesInv, NEW c \in Cpus, global = << >>, GlobalGet(c), Observe
    PROVE  PlacesGoal(c)
<1>0. CountersInv /\ Typed
  BY DEF PlacesInv, CountersInv
<1>1. StepGoal(c)
  BY <1>0, GlobalGetStep
<1>2. pc[c] \in {"global", "idle"} /\ UNCHANGED <<head, tail, queue, next, current, global, lock, waiting, dead>>
  BY DEF GlobalGet, rings
<1>3. PICK m : m = loc'[c]
  OBVIOUS
<1>4. /\ pc'[c] \in {"steal", "look"}
      /\ m.thread \in {None, loc[c].thread} /\ m.found \in {None, loc[c].found} /\ m.batch \in {<< >>, loc[c].batch}
  BY <1>0, <1>3, LocalsTyped DEF GlobalGet, Goto, Set, Forget, Fresh, NoLocals, Typed, Locals
<1>5. CopyInv(c)'
  BY <1>4 DEF CopyInv
<1>6. pc[c] \in Free /\ pc'[c] \in Free
  BY <1>2, <1>4 DEF Free, Labels, Asking, PutPcs
<1> QED BY <1>1, <1>2, <1>3, <1>4, <1>5, <1>6, EmptyHanded

LEMMA GrabTailHands ==
    ASSUME PlacesInv, NEW c \in Cpus, GrabTail(c), Observe
    PROVE  PlacesGoal(c)
<1>0. CountersInv /\ Typed
  BY DEF PlacesInv, CountersInv
<1>1. StepGoal(c)
  BY <1>0, GrabTailStep
<1>2. pc[c] \in {"grab_tail"} /\ UNCHANGED <<head, tail, queue, next, current, global, lock, waiting, dead>>
  BY DEF GrabTail, rings
<1>3. PICK m : m = loc'[c]
  OBVIOUS
<1>4. /\ pc'[c] \in {"steal", "grab_next", "grab", "grab_copy"}
      /\ m.thread \in {None, loc[c].thread} /\ m.found \in {None, loc[c].found} /\ m.batch \in {<< >>, loc[c].batch}
      /\ pc'[c] = "grab_copy" => m.i = 0 /\ m.n \in 1 .. Half
  <2>1. PICK n : n = Share(loc[c].h, tail[loc[c].victim])
    OBVIOUS
  <2>2. \/ pc'[c] = "steal" /\ loc'[c] = Fresh(c)
        \/ pc'[c] \in {"grab_next", "grab"} /\ loc'[c] = loc[c]
        \/ pc'[c] = "grab_copy" /\ loc'[c] = [loc[c] EXCEPT !.n = n, !.i = 0] /\ n \in 1 .. Half
    BY <1>0, <2>1 DEF GrabTail, Goto, Set, Typed
  <2> QED BY <1>0, <1>3, <2>2, LocalsTyped DEF Fresh, NoLocals, Locals
<1>5. CopyInv(c)'
  BY <1>3, <1>4, Params DEF CopyInv
<1>6. pc[c] \in Free /\ pc'[c] \in Free
  BY <1>2, <1>4 DEF Free, Labels, Asking, PutPcs
<1> QED BY <1>1, <1>2, <1>3, <1>4, <1>5, <1>6, EmptyHanded

LEMMA CounterSlots ==
    ASSUME CountersInv, NEW c \in Cpus, NEW i \in Nat
    PROVE  /\ Slot(tail[c] + i) = Pos(T(c) + i) /\ Slot(tail[c]) = Pos(T(c))
           /\ Slot(head[c] + i) = Pos(H(c) + i) /\ Slot(head[c]) = Pos(H(c))
           /\ Slot(loc[c].h + i) = Pos(U(loc[c].h) + i) /\ Slot(loc[c].h) = Pos(U(loc[c].h))
<1>1. ASSUME NEW x \in Words PROVE Slot(x + i) = Pos(U(x) + i) /\ Slot(x) = Pos(U(x))
  <2>1. Slot(x + i) = Pos(U(x) + i) /\ Slot(x + 0) = Pos(U(x) + 0)
    BY SlotPos
  <2>2. x + 0 = x /\ U(x) + 0 = U(x)
    BY WordNat, DistanceTyped
  <2> QED BY <2>1, <2>2
<1>2. tail[c] \in Words /\ head[c] \in Words /\ loc[c].h \in Words
  BY Numbers, LocalsTyped
<1> QED BY <1>1, <1>2 DEF H, T

LEMMA PutLoadHands ==
    ASSUME PlacesInv, NEW c \in Cpus, PutLoad(c), Observe
    PROVE  PlacesGoal(c)
<1>0. CountersInv /\ Typed
  BY DEF PlacesInv, CountersInv
<1>1. StepGoal(c)
  BY <1>0, PutLoadStep
<1>2. pc[c] = "put" /\ UNCHANGED <<head, tail, queue, next, current, global, lock, waiting, dead>>
  BY DEF PutLoad, rings
<1>3. /\ pc'[c] \in {"put_write", "put_slow"} /\ loc'[c].return = loc[c].return
      /\ loc'[c].thread = loc[c].thread /\ loc'[c].found = loc[c].found /\ loc'[c].batch = loc[c].batch
  BY <1>0, LocalsTyped DEF PutLoad, Goto, Set, Typed, Locals
<1>4. HandInv(c)'
  BY <1>2, <1>3, PlacesNumbers DEF HandInv, InGlobal, PutPcs
<1>5. CopyInv(c)' /\ Keeps(c)
  BY <1>2, <1>3 DEF CopyInv, Keeps, Cell
<1> QED BY <1>1, <1>2, <1>3, <1>4, <1>5, NothingMoves

LEMMA PutSlowFailsHands ==
    ASSUME PlacesInv, NEW c \in Cpus, PutSlow(c), head[c] # loc[c].h, Observe
    PROVE  PlacesGoal(c)
<1>0. CountersInv /\ Typed
  BY DEF PlacesInv, CountersInv
<1>1. StepGoal(c)
  BY <1>0, PutSlowFails
<1>2. pc[c] = "put_slow" /\ UNCHANGED <<head, tail, queue, next, current, global, lock, waiting, dead, loc>>
  BY DEF PutSlow
<1>3. pc'[c] = "put"
  BY <1>0 DEF PutSlow, Goto, Typed
<1>4. HandInv(c)'
  BY <1>2, <1>3, PlacesNumbers DEF HandInv, InGlobal, PutPcs
<1>5. CopyInv(c)' /\ Keeps(c)
  BY <1>2, <1>3 DEF CopyInv, Keeps, Cell
<1> QED BY <1>1, <1>2, <1>3, <1>4, <1>5, NothingMoves

LEMMA PutWriteHands ==
    ASSUME PlacesInv, NEW c \in Cpus, PutWrite(c), Observe
    PROVE  PlacesGoal(c)
<1>0. CountersInv /\ Typed /\ queue \in [Cpus -> [0 .. RUN_QUEUE_LEN - 1 -> ThreadOrNone]]
  BY DEF PlacesInv, CountersInv, Typed, QueuesTyped
<1>1. StepGoal(c)
  BY <1>0, PutWriteStep
<1>2. pc[c] = "put_write" /\ UNCHANGED <<head, tail, next, current, global, lock, waiting, dead, loc>>
  BY DEF PutWrite
<1>3. pc'[c] = "put_publish"
  BY <1>0 DEF PutWrite, Goto, Typed
<1>4. HandInv(c)'
  BY <1>2, <1>3, PlacesNumbers DEF HandInv, InGlobal, PutPcs
<1>5. loc[c].t = tail[c] /\ T(c) < H(c) + RUN_QUEUE_LEN /\ T(c) \in Nat /\ H(c) \in Nat
  BY <1>0, <1>2, Numbers DEF LocalInv, PutInv
<1>6. queue' = [queue EXCEPT ![c][Pos(T(c))] = loc[c].thread]
  BY <1>0, <1>5, CounterSlots DEF PutWrite
<1>7. \A k \in InRing(c) : k \in Nat /\ Pos(k) # Pos(T(c))
  BY <1>5, PosApart, Params DEF InRing
<1>8. Keeps(c)
  BY <1>0, <1>2, <1>5, <1>6, <1>7, PosTyped DEF Keeps, Cell
<1>9. CopyInv(c)'
  <2>1. queue'[c][Pos(T(c))] = loc[c].thread
    BY <1>0, <1>5, <1>6, PosTyped
  <2>2. Cell(c, T(c))' = loc[c].thread
    BY <1>2, <2>1 DEF Cell, T
  <2> QED BY <1>2, <1>3, <2>2 DEF CopyInv
<1> QED BY <1>1, <1>2, <1>3, <1>4, <1>8, <1>9, NothingMoves

LEMMA GrabCopyHands ==
    ASSUME PlacesInv, NEW c \in Cpus, GrabCopy(c), Observe
    PROVE  PlacesGoal(c)
<1>0. CountersInv /\ Typed /\ queue \in [Cpus -> [0 .. RUN_QUEUE_LEN - 1 -> ThreadOrNone]]
  BY DEF PlacesInv, CountersInv, Typed, QueuesTyped
<1>1. StepGoal(c)
  BY <1>0, GrabCopyStep
<1>2. pc[c] = "grab_copy" /\ UNCHANGED <<head, tail, next, current, global, lock, waiting, dead>>
  BY DEF GrabCopy
<1>3. PICK l : l = loc[c]
  OBVIOUS
<1>4. PICK w : w = l.victim
  OBVIOUS
<1>5. /\ l.i \in Nat /\ l.n \in Nat /\ l.i < l.n /\ l.n \in 1 .. Half /\ w \in Cpus \ {c} /\ l.t = tail[c]
      /\ tail[c] = head[c]
  BY <1>0, <1>2, <1>3, <1>4, LocalsTyped, PlacesNumbers DEF LocalInv, ThiefInv, CopyInv, EmptyPcs, ThiefPcs, GrabPcs
<1>6. /\ pc'[c] = IF l.i + 1 = l.n THEN "grab_cas" ELSE "grab_copy"
      /\ loc'[c].return = l.return /\ loc'[c].thread = l.thread /\ loc'[c].found = l.found /\ loc'[c].batch = l.batch
      /\ loc'[c].i = l.i + 1 /\ loc'[c].n = l.n /\ loc'[c].h = l.h /\ loc'[c].victim = w
  BY <1>0, <1>3, <1>4, LocalsTyped DEF GrabCopy, Goto, Set, Typed, Locals
<1>7. HandInv(c)'
  BY <1>2, <1>3, <1>6, PlacesNumbers DEF HandInv, InGlobal, PutPcs
<1>8. T(c) \in Nat /\ H(c) \in Nat /\ T(c) = H(c) /\ H(w) \in Nat /\ U(l.h) \in Nat /\ T(c)' = T(c) /\ H(w)' = H(w)
  BY <1>0, <1>2, <1>3, <1>5, Numbers, LocalsTyped DEF H, T
<1>9. queue' = [queue EXCEPT ![c][Pos(T(c) + l.i)] = queue[w][Pos(U(l.h) + l.i)]]
  <2>1. Slot(tail[c] + l.i) = Pos(T(c) + l.i) /\ Slot(loc[c].h + l.i) = Pos(U(loc[c].h) + l.i)
    BY <1>0, <1>5, CounterSlots
  <2>2. queue' = [queue EXCEPT ![c][Slot(l.t + l.i)] = queue[w][Slot(l.h + l.i)]]
    BY <1>3, <1>4 DEF GrabCopy
  <2>3. Slot(l.t + l.i) = Pos(T(c) + l.i) /\ Slot(l.h + l.i) = Pos(U(l.h) + l.i)
    BY <1>3, <1>5, <2>1
  <2> QED BY <2>2, <2>3
<1>10. Keeps(c)
  BY <1>0, <1>2, <1>8, <1>9 DEF Keeps, InRing
<1>11. CopyInv(c)'
  <2>1. \A k \in Nat : Cell(w, k)' = Cell(w, k)
    BY <1>0, <1>5, <1>9 DEF Cell
  <2>2. ASSUME U(l.h) = H(w), NEW j \in 0 .. l.i PROVE queue'[c][Pos(T(c) + j)] = queue[w][Pos(H(w) + j)]
    <3>1. j \in Nat /\ T(c) + j \in Nat /\ T(c) + l.i \in Nat
      BY <1>5, <1>8
    <3>2. CASE j = l.i
      BY <1>0, <1>9, <2>2, <3>1, <3>2, PosTyped
    <3>3. CASE j < l.i
      <4>1. Pos(T(c) + j) # Pos(T(c) + l.i)
        BY <1>5, <1>8, <3>1, <3>3, PosApart, Params
      <4>2. queue'[c][Pos(T(c) + j)] = queue[c][Pos(T(c) + j)]
        BY <1>0, <1>9, <3>1, <4>1, PosTyped
      <4>3. queue[c][Pos(T(c) + j)] = queue[w][Pos(H(w) + j)]
        BY <1>2, <1>3, <1>4, <1>5, <2>2, <3>3, PlacesNumbers DEF CopyInv, Cell
      <4> QED BY <4>2, <4>3
    <3> QED BY <1>5, <3>1, <3>2, <3>3
  <2>3. ASSUME U(l.h) = H(w), NEW j \in 0 .. l.i PROVE (Cell(c, T(c) + j) = Cell(w, H(w) + j))'
    BY <1>0, <1>5, <1>8, <1>9, <2>2, <2>3 DEF Cell
  <2> QED BY <1>5, <1>6, <1>8, <2>3 DEF CopyInv
<1> QED BY <1>1, <1>2, <1>3, <1>6, <1>7, <1>10, <1>11, NothingMoves

----------------------------------------------------------------------------
Shared == {"waiting", "dead", "global"}

\* The holders that a step of c may touch, by kind.
Mine(k, c) == HeldBy(k, IF k \in Shared THEN None ELSE c)

LEMMA MineValues ==
    ASSUME NEW c \in Cpus
    PROVE  /\ Mine("waiting", c) = waiting /\ Mine("dead", c) = dead /\ Mine("global", c) = Elements(global)
           /\ Mine("ring", c) = Rung(c) /\ Mine("loot", c) = Loot(c) /\ Mine("batch", c) = Elements(loc[c].batch)
           /\ Mine("next", c) = {next[c]} \ {None} /\ Mine("current", c) = {current[c]} \ {None}
           /\ Mine("thread", c) = {loc[c].thread} \ {None} /\ Mine("found", c) = {loc[c].found} \ {None}
BY HeldValues DEF Mine, Shared

LEMMA MineValuesNext ==
    ASSUME NEW c \in Cpus
    PROVE  /\ Mine("waiting", c)' = waiting' /\ Mine("dead", c)' = dead' /\ Mine("global", c)' = Elements(global')
           /\ Mine("ring", c)' = Rung(c)' /\ Mine("loot", c)' = Loot(c)' /\ Mine("batch", c)' = Elements(loc'[c].batch)
           /\ Mine("next", c)' = {next'[c]} \ {None} /\ Mine("current", c)' = {current'[c]} \ {None}
           /\ Mine("thread", c)' = {loc'[c].thread} \ {None} /\ Mine("found", c)' = {loc'[c].found} \ {None}
BY HeldValuesNext DEF Mine, Shared

\* The holder of a kind, as an index of Held.
At(k, c) == <<k, IF k \in Shared THEN None ELSE c>>

LEMMA AtMine ==
    ASSUME NEW c \in Cpus
    PROVE  /\ \A k \in Kinds : At(k, c) \in Holders /\ Held[At(k, c)] = Mine(k, c) /\ Held'[At(k, c)] = Mine(k, c)'
           /\ \A j, k \in Kinds : At(j, c) = At(k, c) => j = k
<1>1. \A k \in Kinds : At(k, c) \in Holders
  BY DEF At, Holders, Who
<1>2. \A k \in Kinds : Held[At(k, c)] = Mine(k, c) /\ Held'[At(k, c)] = Mine(k, c)'
  BY HeldAt DEF At, Mine, Who
<1>3. \A j, k \in Kinds : At(j, c) = At(k, c) => j = k
  BY DEF At
<1> QED BY <1>1, <1>2, <1>3

\* No thread is with two holders.
LEMMA MineApart ==
    ASSUME PlacesInv, NEW c \in Cpus, NEW j \in Kinds, NEW k \in Kinds, j # k, NEW t \in Threads
    PROVE  ~(t \in Mine(j, c) /\ t \in Mine(k, c))
<1>1. PICK h \in Holders : t \in Held[h] /\ \A g \in Holders : t \in Held[g] => g = h
  BY PlacesNumbers DEF OneHolder
<1> QED BY <1>1, AtMine

\* The holders of the other CPUs, and those that are nobody's.
LEMMA Elsewhere ==
    ASSUME NEW c \in Cpus, Moves(c), Keeps(c), \A d \in Cpus \ {c} : head'[d] = head[d] /\ next'[d] = next[d]
    PROVE  \A h \in Holders : (\A k \in Kinds : h # At(k, c)) => Held'[h] = Held[h]
<1> SUFFICES ASSUME NEW h \in Holders, \A k \in Kinds : h # At(k, c) PROVE Held'[h] = Held[h]
  OBVIOUS
<1>1. PICK k \in Kinds, d \in Who : h = <<k, d>>
  BY HeldAt
<1>2. h # <<k, IF k \in Shared THEN None ELSE c>>
  BY DEF At
<1>3. HeldBy(k, d)' = HeldBy(k, d)
  <2>1. CASE d \in Cpus \ {c}
    BY <2>1, OthersHold
  <2>2. CASE d = c
    <3>1. k \in Shared
      BY <1>1, <1>2, <2>2
    <3> QED BY <2>2, <3>1, HeldValues, HeldValuesNext DEF Shared
  <2>3. CASE d = None
    <3>1. k \in Kinds \ Shared
      BY <1>1, <1>2, <2>3
    <3> QED BY <2>3, <3>1, HeldValues, HeldValuesNext DEF Shared
  <2> QED BY <2>1, <2>2, <2>3 DEF Who
<1> QED BY <1>1, <1>3, HeldAt

\* A step of c hands the threads X over from one of its holders to another.
LEMMA Passes ==
    ASSUME PlacesInv, NEW c \in Cpus, Moves(c), Keeps(c),
           \A d \in Cpus \ {c} : head'[d] = head[d] /\ next'[d] = next[d],
           NEW a \in Kinds, NEW b \in Kinds, a # b, NEW X, X \subseteq Mine(a, c),
           Mine(a, c)' = Mine(a, c) \ X, Mine(b, c)' = Mine(b, c) \cup X,
           \A k \in Kinds \ {a, b} : Mine(k, c)' = Mine(k, c)
    PROVE  OneHolder(Held')
<1>1. \A h \in Holders \ {At(a, c), At(b, c)} : Held'[h] = Held[h]
  <2>1. SUFFICES ASSUME NEW h \in Holders \ {At(a, c), At(b, c)} PROVE Held'[h] = Held[h]
    OBVIOUS
  <2>2. CASE \A k \in Kinds : h # At(k, c)
    BY <2>2, Elsewhere
  <2>3. CASE \E k \in Kinds : h = At(k, c)
    <3>1. PICK k \in Kinds : h = At(k, c)
      BY <2>3
    <3>2. k \in Kinds \ {a, b}
      BY <3>1
    <3>3. Held[At(k, c)] = Mine(k, c) /\ Held'[At(k, c)] = Mine(k, c)'
      BY AtMine
    <3> QED BY <3>1, <3>2, <3>3
  <2> QED BY <2>2, <2>3
<1>2. OneHolder(Held)
  BY PlacesNumbers
<1>3. /\ At(a, c) \in Holders /\ At(b, c) \in Holders /\ At(a, c) # At(b, c)
      /\ X \subseteq Held[At(a, c)] /\ Held'[At(a, c)] = Held[At(a, c)] \ X /\ Held'[At(b, c)] = Held[At(b, c)] \cup X
  BY AtMine
<1> QED BY <1>1, <1>2, <1>3, Handed

\* The handover of X from kind a to kind b, between what c's holders have and g,
\* and between g and what they have after the step.
GivesTo(c, a, b, X, g) ==
    /\ a \in Kinds /\ b \in Kinds /\ a # b /\ X \subseteq Mine(a, c)
    /\ g[a] = Mine(a, c) \ X /\ g[b] = Mine(b, c) \cup X /\ \A k \in Kinds \ {a, b} : g[k] = Mine(k, c)

EndsWith(c, a, b, X, g) ==
    /\ a \in Kinds /\ b \in Kinds /\ a # b /\ X \subseteq g[a]
    /\ Mine(a, c)' = g[a] \ X /\ Mine(b, c)' = g[b] \cup X /\ \A k \in Kinds \ {a, b} : Mine(k, c)' = g[k]

\* Two handovers in one step; g is what the holders have between them.
LEMMA PassesTwice ==
    ASSUME PlacesInv, NEW c \in Cpus, Moves(c), Keeps(c),
           \A d \in Cpus \ {c} : head'[d] = head[d] /\ next'[d] = next[d],
           NEW g, NEW a, NEW b, NEW X, GivesTo(c, a, b, X, g), NEW p, NEW q, NEW Y, EndsWith(c, p, q, Y, g)
    PROVE  OneHolder(Held')
<1> USE DEF GivesTo, EndsWith
<1> DEFINE Is(h) == \E k \in Kinds : h = At(k, c)
<1>1. PICK f : f = [h \in Holders |-> IF Is(h) THEN g[h[1]] ELSE Held[h]]
  OBVIOUS
<1>2. \A k \in Kinds : f[At(k, c)] = g[k]
  <2>1. SUFFICES ASSUME NEW k \in Kinds PROVE f[At(k, c)] = g[k]
    OBVIOUS
  <2>2. Is(At(k, c)) /\ At(k, c) \in Holders /\ At(k, c)[1] = k
    BY AtMine DEF At
  <2> QED BY <1>1, <2>2
<1>3. \A h \in Holders : ~Is(h) => f[h] = Held[h] /\ Held'[h] = Held[h]
  BY <1>1, Elsewhere
<1>4. \A h \in Holders \ {At(a, c), At(b, c)} : f[h] = Held[h]
  <2>1. SUFFICES ASSUME NEW h \in Holders \ {At(a, c), At(b, c)}, Is(h) PROVE f[h] = Held[h]
    BY <1>3
  <2>2. PICK k \in Kinds : h = At(k, c)
    BY <2>1
  <2> QED BY <1>2, <2>1, <2>2, AtMine
<1>5. \A h \in Holders \ {At(p, c), At(q, c)} : Held'[h] = f[h]
  <2>1. SUFFICES ASSUME NEW h \in Holders \ {At(p, c), At(q, c)}, Is(h) PROVE Held'[h] = f[h]
    BY <1>3
  <2>2. PICK k \in Kinds : h = At(k, c)
    BY <2>1
  <2> QED BY <1>2, <2>1, <2>2, AtMine
<1>6. OneHolder(f)
  <2>1. OneHolder(Held)
    BY PlacesNumbers
  <2>2. /\ At(a, c) \in Holders /\ At(b, c) \in Holders /\ At(a, c) # At(b, c)
        /\ X \subseteq Held[At(a, c)] /\ f[At(a, c)] = Held[At(a, c)] \ X /\ f[At(b, c)] = Held[At(b, c)] \cup X
    BY <1>2, AtMine
  <2> QED BY <1>4, <2>1, <2>2, Handed
<1>7. /\ At(p, c) \in Holders /\ At(q, c) \in Holders /\ At(p, c) # At(q, c)
      /\ Y \subseteq f[At(p, c)] /\ Held'[At(p, c)] = f[At(p, c)] \ Y /\ Held'[At(q, c)] = f[At(q, c)] \cup Y
  BY <1>2, AtMine
<1> QED BY <1>5, <1>6, <1>7, Handed

----------------------------------------------------------------------------
\* Sequences without repetition.

LEMMA EmptyOnce == Elements(<< >>) = {} /\ Once(<< >>) /\ << >> \in Seq(Threads)
BY DEF Elements, Once

LEMMA JoinOnce ==
    ASSUME NEW s \in Seq(Threads), NEW r \in Seq(Threads), Once(s), Once(r), Elements(s) \cap Elements(r) = {}
    PROVE  s \o r \in Seq(Threads) /\ Once(s \o r) /\ Elements(s \o r) = Elements(s) \cup Elements(r)
<1>1. PICK n \in Nat : n = Len(s)
  OBVIOUS
<1>2. PICK k \in Nat : k = Len(r)
  OBVIOUS
<1>3. PICK w : w = s \o r
  OBVIOUS
<1>4. /\ w \in Seq(Threads) /\ Len(w) = n + k
      /\ \A i \in 1 .. n + k : w[i] = IF i <= n THEN s[i] ELSE r[i - n]
  BY <1>1, <1>2, <1>3
<1>5. /\ \A i \in 1 .. n : w[i] = s[i] /\ s[i] \in Elements(s)
      /\ \A i \in 1 .. k : w[n + i] = r[i] /\ r[i] \in Elements(r)
  <2>1. ASSUME NEW i \in 1 .. n PROVE w[i] = s[i] /\ s[i] \in Elements(s)
    BY <1>1, <1>4 DEF Elements
  <2>2. ASSUME NEW i \in 1 .. k PROVE w[n + i] = r[i] /\ r[i] \in Elements(r)
    <3>1. n + i \in 1 .. n + k /\ (n + i) - n = i /\ ~(n + i <= n)
      OBVIOUS
    <3>2. w[n + i] = r[i]
      BY <1>4, <3>1
    <3> QED BY <1>2, <3>2 DEF Elements
  <2> QED BY <2>1, <2>2
<1>6. Elements(w) = Elements(s) \cup Elements(r)
  <2>1. ASSUME NEW i \in 1 .. n + k PROVE w[i] \in Elements(s) \cup Elements(r)
    <3>1. CASE i <= n
      BY <1>5, <3>1
    <3>2. CASE i > n
      <4>1. PICK j \in 1 .. k : i = n + j
        <5>1. i - n \in 1 .. k /\ i = n + (i - n)
          BY <3>2
        <5> QED BY <5>1
      <4> QED BY <1>5, <4>1
    <3> QED BY <3>1, <3>2
  <2>2. ASSUME NEW i \in 1 .. n PROVE s[i] \in Elements(w)
    BY <1>4, <1>5 DEF Elements
  <2>3. ASSUME NEW i \in 1 .. k PROVE r[i] \in Elements(w)
    <3>1. n + i \in 1 .. Len(w)
      BY <1>4
    <3> QED BY <1>5, <3>1 DEF Elements
  <2>4. /\ Elements(w) = {w[i] : i \in 1 .. n + k}
        /\ Elements(s) = {s[i] : i \in 1 .. n} /\ Elements(r) = {r[i] : i \in 1 .. k}
    BY <1>1, <1>2, <1>4 DEF Elements
  <2>5. Elements(w) \subseteq Elements(s) \cup Elements(r)
    BY <2>1, <2>4
  <2>6. Elements(s) \subseteq Elements(w) /\ Elements(r) \subseteq Elements(w)
    BY <2>2, <2>3, <2>4
  <2> QED BY <2>5, <2>6
<1>7. Once(w)
  <2>1. SUFFICES ASSUME NEW i \in 1 .. n + k, NEW j \in 1 .. n + k, w[i] = w[j] PROVE i = j
    BY <1>4 DEF Once
  <2>2. CASE i <= n /\ j <= n
    BY <1>1, <1>4, <2>1, <2>2 DEF Once
  <2>3. CASE i > n /\ j > n
    <3>1. i - n \in 1 .. k /\ j - n \in 1 .. k /\ r[i - n] = r[j - n]
      BY <1>4, <2>1, <2>3
    <3> QED BY <1>2, <3>1 DEF Once
  <2>4. CASE i <= n /\ j > n
    <3>1. w[i] \in Elements(s) /\ j - n \in 1 .. k /\ j = n + (j - n)
      BY <1>5, <2>4, SMTT(30)
    <3>2. w[j] \in Elements(r)
      BY <1>5, <3>1
    <3> QED BY <2>1, <3>1, <3>2
  <2>5. CASE i > n /\ j <= n
    <3>1. w[j] \in Elements(s) /\ i - n \in 1 .. k /\ i = n + (i - n)
      BY <1>5, <2>5
    <3>2. w[i] \in Elements(r)
      BY <1>5, <3>1
    <3> QED BY <2>1, <3>1, <3>2
  <2> QED BY <2>2, <2>3, <2>4, <2>5
<1> QED BY <1>3, <1>4, <1>6, <1>7

LEMMA AppendOnce ==
    ASSUME NEW s \in Seq(Threads), NEW t \in Threads, Once(s), t \notin Elements(s)
    PROVE  Append(s, t) \in Seq(Threads) /\ Once(Append(s, t)) /\ Elements(Append(s, t)) = Elements(s) \cup {t}
<1>1. /\ Len(<<t>>) = 1 /\ <<t>>[1] = t /\ <<t>> \in Seq(Threads) /\ 1 .. 1 = {1}
  OBVIOUS
<1>2. Elements(<<t>>) = {t} /\ Once(<<t>>)
  BY <1>1 DEF Elements, Once
<1>3. Append(s, t) = s \o <<t>>
  OBVIOUS
<1>4. Elements(s) \cap Elements(<<t>>) = {}
  BY <1>2
<1>5. s \o <<t>> \in Seq(Threads) /\ Once(s \o <<t>>) /\ Elements(s \o <<t>>) = Elements(s) \cup Elements(<<t>>)
  BY <1>1, <1>2, <1>4, JoinOnce
<1> QED BY <1>2, <1>3, <1>5

LEMMA PartOnce ==
    ASSUME NEW s \in Seq(Threads), Once(s), NEW m \in Nat, NEW n \in Nat, 1 <= m, n <= Len(s)
    PROVE  /\ SubSeq(s, m, n) \in Seq(Threads) /\ Once(SubSeq(s, m, n))
           /\ Elements(SubSeq(s, m, n)) = {s[i] : i \in m .. n}
<1>1. PICK w : w = SubSeq(s, m, n)
  OBVIOUS
<1>2. PICK k \in Nat : k = IF m <= n THEN n - m + 1 ELSE 0
  <2>1. (IF m <= n THEN n - m + 1 ELSE 0) \in Nat
    OBVIOUS
  <2> QED BY <2>1
<1>3. w \in Seq(Threads) /\ Len(w) = k /\ \A i \in 1 .. k : w[i] = s[m + i - 1]
  BY <1>1, <1>2
<1>4. Once(w)
  <2>1. SUFFICES ASSUME NEW i \in 1 .. k, NEW j \in 1 .. k, w[i] = w[j] PROVE i = j
    BY <1>3 DEF Once
  <2>2. m + i - 1 \in 1 .. Len(s) /\ m + j - 1 \in 1 .. Len(s) /\ s[m + i - 1] = s[m + j - 1]
    BY <1>2, <1>3, <2>1
  <2>3. m + i - 1 = m + j - 1
    BY <2>2 DEF Once
  <2> QED BY <2>3
<1>5. Elements(w) = {s[i] : i \in m .. n}
  <2>1. ASSUME NEW i \in 1 .. k PROVE w[i] \in {s[j] : j \in m .. n}
    <3>1. m + i - 1 \in m .. n
      BY <1>2
    <3> QED BY <1>3, <3>1
  <2>2. ASSUME NEW j \in m .. n PROVE s[j] \in {w[i] : i \in 1 .. k}
    <3>1. j - m + 1 \in 1 .. k /\ m + (j - m + 1) - 1 = j
      BY <1>2
    <3> QED BY <1>3, <3>1
  <2> QED BY <1>3, <2>1, <2>2 DEF Elements
<1> QED BY <1>1, <1>3, <1>4, <1>5

LEMMA TailOnce ==
    ASSUME NEW s \in Seq(Threads), s # << >>, Once(s)
    PROVE  /\ Head(s) \in Threads /\ Head(s) \in Elements(s)
           /\ Tail(s) \in Seq(Threads) /\ Once(Tail(s)) /\ Elements(Tail(s)) = Elements(s) \ {Head(s)}
<1>1. PICK n \in Nat : n = Len(s) /\ n >= 1
  OBVIOUS
<1>2. Head(s) = s[1] /\ s[1] \in Threads /\ Tail(s) = SubSeq(s, 2, n)
  BY <1>1
<1>3. /\ SubSeq(s, 2, n) \in Seq(Threads) /\ Once(SubSeq(s, 2, n))
      /\ Elements(SubSeq(s, 2, n)) = {s[i] : i \in 2 .. n}
  BY <1>1, PartOnce
<1>4. {s[i] : i \in 2 .. n} = Elements(s) \ {s[1]}
  BY <1>1 DEF Elements, Once
<1>5. s[1] \in Elements(s)
  BY <1>1 DEF Elements
<1> QED BY <1>2, <1>3, <1>4, <1>5

----------------------------------------------------------------------------
\* The places where nothing lies beyond the CPU's tail.
Calm == Labels \ {"stolen", "steal_publish", "put_publish", "grab_copy", "grab_cas"}

\* A step that leaves the rings as they are.
LEMMA KeptRing ==
    ASSUME PlacesInv, NEW c \in Cpus, StepGoal(c), UNCHANGED <<head, tail, queue>>,
           \A d \in Cpus \ {c} : current'[d] = current[d] /\ (lock' = d <=> lock = d),
           pc[c] \notin {"stolen", "steal_publish"}, pc'[c] \in Calm,
           loc'[c].batch \in Seq(Threads), Once(loc'[c].batch)
    PROVE  /\ Moves(c) /\ Keeps(c) /\ CopyInv(c)' /\ FilledAt(c)'
           /\ Mine("ring", c)' = Mine("ring", c) /\ Mine("loot", c)' = Mine("loot", c)
<1>1. H(c)' = H(c) /\ T(c)' = T(c) /\ \A k : Cell(c, k)' = Cell(c, k)
  BY DEF H, T, Cell
<1>2. InRing(c)' = InRing(c) /\ InLoot(c)' = {} /\ InLoot(c) = {}
  BY <1>1 DEF InRing, InLoot, Calm
<1>3. Moves(c) /\ Keeps(c) /\ CopyInv(c)'
  BY <1>1 DEF StepGoal, Keeps, CopyInv, Calm
<1>4. FilledAt(c)'
  BY <1>1, <1>2, PlacesNumbers DEF FilledAt
<1>5. Rung(c)' = Rung(c) /\ Loot(c)' = Loot(c)
  BY <1>1, <1>2 DEF Rung, Loot
<1> QED BY <1>3, <1>4, <1>5, MineValues, MineValuesNext

\* A holder keeps what it has when the variable behind it stands.
LEMMA MineKept ==
    ASSUME NEW c \in Cpus
    PROVE  /\ waiting' = waiting => Mine("waiting", c)' = Mine("waiting", c)
           /\ dead' = dead => Mine("dead", c)' = Mine("dead", c)
           /\ global' = global => Mine("global", c)' = Mine("global", c)
           /\ loc'[c].batch = loc[c].batch => Mine("batch", c)' = Mine("batch", c)
           /\ next'[c] = next[c] => Mine("next", c)' = Mine("next", c)
           /\ current'[c] = current[c] => Mine("current", c)' = Mine("current", c)
           /\ loc'[c].thread = loc[c].thread => Mine("thread", c)' = Mine("thread", c)
           /\ loc'[c].found = loc[c].found => Mine("found", c)' = Mine("found", c)
<1>1. ASSUME waiting' = waiting PROVE Mine("waiting", c)' = Mine("waiting", c)
  BY <1>1, MineValues, MineValuesNext
<1>2. ASSUME dead' = dead PROVE Mine("dead", c)' = Mine("dead", c)
  BY <1>2, MineValues, MineValuesNext
<1>3. ASSUME global' = global PROVE Mine("global", c)' = Mine("global", c)
  BY <1>3, MineValues, MineValuesNext
<1>4. ASSUME loc'[c].batch = loc[c].batch PROVE Mine("batch", c)' = Mine("batch", c)
  BY <1>4, MineValues, MineValuesNext
<1>5. ASSUME next'[c] = next[c] PROVE Mine("next", c)' = Mine("next", c)
  <2>1. Mine("next", c) = {next[c]} \ {None}
    BY MineValues
  <2>2. Mine("next", c)' = {next'[c]} \ {None}
    BY MineValuesNext
  <2> QED BY <1>5, <2>1, <2>2
<1>6. ASSUME current'[c] = current[c] PROVE Mine("current", c)' = Mine("current", c)
  <2>1. Mine("current", c) = {current[c]} \ {None}
    BY MineValues
  <2>2. Mine("current", c)' = {current'[c]} \ {None}
    BY MineValuesNext
  <2> QED BY <1>6, <2>1, <2>2
<1>7. ASSUME loc'[c].thread = loc[c].thread PROVE Mine("thread", c)' = Mine("thread", c)
  BY <1>7, MineValues, MineValuesNext
<1>8. ASSUME loc'[c].found = loc[c].found PROVE Mine("found", c)' = Mine("found", c)
  BY <1>8, MineValues, MineValuesNext, ZenonT(40)
<1> QED BY <1>1, <1>2, <1>3, <1>4, <1>5, <1>6, <1>7, <1>8

\* What a CPU that is between two calls has in its hands.
LEMMA Hands ==
    ASSUME PlacesInv, NEW c \in Cpus
    PROVE  /\ pc[c] \in {"run", "find", "steal", "steal_timers", "global", "idle", "get_cas"} =>
                  /\ loc[c].thread = None /\ loc[c].found = None /\ loc[c].batch = << >> /\ lock # c
                  /\ (current[c] # None <=> pc[c] = "run")
           /\ current[c] \in ThreadOrNone /\ next[c] \in ThreadOrNone
<1>1. HandInv(c) /\ CountersInv
  BY PlacesNumbers
<1> QED BY <1>1 DEF HandInv, InGlobal, PutPcs, CountersInv, Typed, QueuesTyped

LEMMA PutGlobalHands ==
    ASSUME PlacesInv, NEW c \in Cpus, PutGlobal(c), Observe
    PROVE  PlacesGoal(c)
<1>0. CountersInv /\ Typed /\ LocalInv(c) /\ HandInv(c) /\ FilledAt(c) /\ SharedFilled
  BY PlacesNumbers DEF CountersInv
<1>1. StepGoal(c)
  BY <1>0, PutGlobalStep
<1>2. /\ pc[c] = "put_global" /\ lock = None /\ UNCHANGED <<head, tail, queue, next, lock, current, waiting, dead>>
      /\ global' = global \o loc[c].batch
  BY DEF PutGlobal, rings, PushBackAll
<1>3. loc[c].thread = None /\ loc[c].found = None /\ loc[c].return \in {"run", "find", "steal_timers"}
  BY <1>0, <1>2, NoneApart DEF HandInv, InGlobal, PutPcs, LocalInv, PutInv
<1>4. /\ pc'[c] = loc[c].return
      /\ loc'[c].thread = None /\ loc'[c].found = None /\ loc'[c].batch = << >>
  BY <1>0, <1>2, <1>3, NoneApart DEF PutGlobal, PutReturn, Goto, Set, Fresh, NoLocals, Typed
<1>5. HandInv(c)'
  BY <1>0, <1>2, <1>3, <1>4, NoneApart DEF HandInv, InGlobal, PutPcs
<1>6. Elements(global) \cap Elements(loc[c].batch) = {}
  <2>1. ASSUME NEW t \in Elements(global), t \in Elements(loc[c].batch) PROVE FALSE
    <3>1. t \in Threads
      BY <1>0, <2>1 DEF Elements, SharedFilled
    <3> QED BY <2>1, <3>1, MineApart, MineValues DEF Kinds
  <2> QED BY <2>1
<1>7. global' \in Seq(Threads) /\ Once(global') /\ Elements(global') = Elements(global) \cup Elements(loc[c].batch)
  BY <1>0, <1>2, <1>6, JoinOnce DEF SharedFilled, FilledAt
<1>8. SharedFilled'
  BY <1>0, <1>2, <1>7 DEF SharedFilled
<1>9. /\ Moves(c) /\ Keeps(c) /\ CopyInv(c)' /\ FilledAt(c)'
      /\ Mine("ring", c)' = Mine("ring", c) /\ Mine("loot", c)' = Mine("loot", c)
  <2>1. pc'[c] \in Calm
    BY <1>3, <1>4 DEF Calm, Labels
  <2> QED BY <1>1, <1>2, <1>4, <2>1, EmptyOnce, KeptRing
<1>10. OneHolder(Held')
  <2>1. /\ Mine("batch", c)' = Mine("batch", c) \ Elements(loc[c].batch)
        /\ Mine("global", c)' = Mine("global", c) \cup Elements(loc[c].batch)
        /\ Elements(loc[c].batch) \subseteq Mine("batch", c)
    BY <1>4, <1>7, EmptyOnce, MineValues, MineValuesNext
  <2>2. \A k \in Kinds \ {"batch", "global"} : Mine(k, c)' = Mine(k, c)
    BY <1>2, <1>3, <1>4, <1>9, MineKept DEF Kinds
  <2>3. "batch" \in Kinds /\ "global" \in Kinds
    BY DEF Kinds
  <2> QED BY <1>2, <1>9, <2>1, <2>2, <2>3, Passes
<1> QED BY <1>5, <1>8, <1>9, <1>10 DEF PlacesGoal

LEMMA GetNextTakesHands ==
    ASSUME PlacesInv, NEW c \in Cpus, next[c] # None, GetNext(c), Observe
    PROVE  PlacesGoal(c)
<1>0. CountersInv /\ Typed /\ SharedFilled
  BY PlacesNumbers DEF CountersInv
<1>1. StepGoal(c)
  BY <1>0, GetNextStep
<1>2. /\ pc[c] \in {"find", "steal_timers"} /\ UNCHANGED <<head, tail, queue, global, lock, waiting, dead>>
      /\ next' = [next EXCEPT ![c] = None] /\ current' = [current EXCEPT ![c] = next[c]]
  BY DEF GetNext, Execute
<1>3. /\ loc[c].thread = None /\ loc[c].found = None /\ loc[c].batch = << >> /\ lock # c /\ current[c] = None
      /\ next[c] \in Threads
  BY <1>2, Hands DEF ThreadOrNone
<1>4. pc'[c] = "run" /\ loc'[c].thread = None /\ loc'[c].found = None /\ loc'[c].batch = << >>
  BY <1>0 DEF GetNext, Execute, Goto, Forget, NoLocals, Typed
<1>5. next'[c] = None /\ current'[c] = next[c] /\ \A d \in Cpus \ {c} : current'[d] = current[d] /\ next'[d] = next[d]
  BY <1>0, <1>2 DEF Typed, QueuesTyped
<1>6. HandInv(c)'
  BY <1>2, <1>3, <1>4, <1>5, NoneApart DEF HandInv, InGlobal, PutPcs
<1>7. SharedFilled'
  BY <1>0, <1>2 DEF SharedFilled
<1>8. /\ Moves(c) /\ Keeps(c) /\ CopyInv(c)' /\ FilledAt(c)'
      /\ Mine("ring", c)' = Mine("ring", c) /\ Mine("loot", c)' = Mine("loot", c)
  <2>1. pc'[c] \in Calm
    BY <1>4 DEF Calm, Labels
  <2> QED BY <1>1, <1>2, <1>4, <1>5, <2>1, EmptyOnce, KeptRing
<1>9. OneHolder(Held')
  <2>1. /\ Mine("next", c)' = Mine("next", c) \ {next[c]} /\ Mine("current", c)' = Mine("current", c) \cup {next[c]}
        /\ {next[c]} \subseteq Mine("next", c)
    BY <1>3, <1>5, NoneApart, MineValues, MineValuesNext
  <2>2. \A k \in Kinds \ {"next", "current"} : Mine(k, c)' = Mine(k, c)
    BY <1>2, <1>3, <1>4, <1>8, MineKept DEF Kinds
  <2>3. "next" \in Kinds /\ "current" \in Kinds
    BY DEF Kinds
  <2> QED BY <1>2, <1>5, <1>8, <2>1, <2>2, <2>3, Passes
<1> QED BY <1>6, <1>7, <1>8, <1>9 DEF PlacesGoal
LEMMA YieldHands ==
    ASSUME PlacesInv, NEW c \in Cpus, Yield(c), Observe
    PROVE  PlacesGoal(c)
<1>0. CountersInv /\ Typed /\ SharedFilled /\ HandInv(c) /\ FilledAt(c) /\ LocalInv(c)
  BY PlacesNumbers DEF CountersInv
<1>1. StepGoal(c)
  BY <1>0, YieldStep
<1>2. /\ pc[c] = "run" /\ UNCHANGED <<head, tail, queue, next, global, lock, waiting, dead>>
      /\ current' = [current EXCEPT ![c] = None]
  BY DEF Yield, rings
<1>3. /\ loc[c].thread = None /\ loc[c].found = None /\ loc[c].batch = << >> /\ lock # c
      /\ current[c] \in Threads
  BY <1>2, Hands DEF ThreadOrNone
<1>4. pc'[c] = "put" /\ loc'[c].thread = current[c] /\ loc'[c].found = None /\ loc'[c].batch = << >> /\ loc'[c].return = "find"
  BY <1>0 DEF Yield, Goto, Set, NoLocals, Typed
<1>5. current'[c] = None /\ \A d \in Cpus \ {c} : current'[d] = current[d] /\ next'[d] = next[d]
  BY <1>0, <1>2 DEF Typed, QueuesTyped
<1>6. HandInv(c)'
  BY <1>2, <1>3, <1>4, <1>5, NoneApart DEF HandInv, InGlobal, PutPcs
<1>7. SharedFilled'
  BY <1>0, <1>2, <1>3 DEF SharedFilled
<1>8. /\ Moves(c) /\ Keeps(c) /\ CopyInv(c)' /\ FilledAt(c)'
      /\ Mine("ring", c)' = Mine("ring", c) /\ Mine("loot", c)' = Mine("loot", c)
  <2>1. pc'[c] \in Calm /\ pc[c] \notin {"stolen", "steal_publish"}
    BY <1>2, <1>4 DEF Calm, Labels
  <2>2. loc'[c].batch \in Seq(Threads) /\ Once(loc'[c].batch)
    BY <1>0, <1>3, <1>4, EmptyOnce DEF FilledAt
  <2> QED BY <1>1, <1>2, <1>5, <2>1, <2>2, KeptRing
<1>9. OneHolder(Held')
  <2>1. /\ Mine("current", c)' = Mine("current", c) \ {current[c]} /\ Mine("thread", c)' = Mine("thread", c) \cup {current[c]}
        /\ {current[c]} \subseteq Mine("current", c)
    <3>1. Mine("current", c) = {current[c]} \ {None} /\ Mine("thread", c) = {None} \ {None}
      BY <1>3, MineValues
    <3>2. Mine("current", c)' = {None} \ {None} /\ Mine("thread", c)' = {current[c]} \ {None}
      BY <1>4, <1>5, MineValuesNext
    <3> QED BY <1>3, <3>1, <3>2, NoneApart
  <2>2. \A k \in Kinds \ {"current", "thread"} : Mine(k, c)' = Mine(k, c)
    BY <1>2, <1>3, <1>4, <1>8, MineKept DEF Kinds
  <2>3. "current" \in Kinds /\ "thread" \in Kinds
    BY DEF Kinds
  <2> QED BY <1>2, <1>5, <1>8, <2>1, <2>2, <2>3, Passes
<1> QED BY <1>6, <1>7, <1>8, <1>9 DEF PlacesGoal

LEMMA ParkHands ==
    ASSUME PlacesInv, NEW c \in Cpus, Park(c), Observe
    PROVE  PlacesGoal(c)
<1>0. CountersInv /\ Typed /\ SharedFilled /\ HandInv(c) /\ FilledAt(c) /\ LocalInv(c)
  BY PlacesNumbers DEF CountersInv
<1>1. StepGoal(c)
  BY <1>0, ParkStep
<1>2. /\ pc[c] = "run" /\ UNCHANGED <<head, tail, queue, next, global, lock, dead, loc>>
      /\ current' = [current EXCEPT ![c] = None] /\ waiting' = waiting \cup {current[c]}
  BY DEF Park, rings
<1>3. /\ loc[c].thread = None /\ loc[c].found = None /\ loc[c].batch = << >> /\ lock # c
      /\ current[c] \in Threads
  BY <1>2, Hands DEF ThreadOrNone
<1>4. pc'[c] = "find" /\ loc'[c].thread = None /\ loc'[c].found = None /\ loc'[c].batch = << >>
  BY <1>0, <1>2, <1>3 DEF Park, Goto, Typed
<1>5. current'[c] = None /\ \A d \in Cpus \ {c} : current'[d] = current[d] /\ next'[d] = next[d]
  BY <1>0, <1>2 DEF Typed, QueuesTyped
<1>6. HandInv(c)'
  BY <1>2, <1>3, <1>4, <1>5, NoneApart DEF HandInv, InGlobal, PutPcs
<1>7. SharedFilled'
  BY <1>0, <1>2, <1>3 DEF SharedFilled
<1>8. /\ Moves(c) /\ Keeps(c) /\ CopyInv(c)' /\ FilledAt(c)'
      /\ Mine("ring", c)' = Mine("ring", c) /\ Mine("loot", c)' = Mine("loot", c)
  <2>1. pc'[c] \in Calm /\ pc[c] \notin {"stolen", "steal_publish"}
    BY <1>2, <1>4 DEF Calm, Labels
  <2>2. loc'[c].batch \in Seq(Threads) /\ Once(loc'[c].batch)
    BY <1>0, <1>3, <1>4, EmptyOnce DEF FilledAt
  <2> QED BY <1>1, <1>2, <1>5, <2>1, <2>2, KeptRing
<1>9. OneHolder(Held')
  <2>1. /\ Mine("current", c)' = Mine("current", c) \ {current[c]} /\ Mine("waiting", c)' = Mine("waiting", c) \cup {current[c]}
        /\ {current[c]} \subseteq Mine("current", c)
    <3>1. Mine("current", c) = {current[c]} \ {None} /\ Mine("waiting", c) = waiting
      BY <1>3, MineValues
    <3>2. Mine("current", c)' = {None} \ {None} /\ Mine("waiting", c)' = waiting \cup {current[c]}
      BY <1>2, <1>5, MineValuesNext
    <3> QED BY <1>3, <3>1, <3>2, NoneApart
  <2>2. \A k \in Kinds \ {"current", "waiting"} : Mine(k, c)' = Mine(k, c)
    BY <1>2, <1>3, <1>4, <1>8, MineKept DEF Kinds
  <2>3. "current" \in Kinds /\ "waiting" \in Kinds
    BY DEF Kinds
  <2> QED BY <1>2, <1>5, <1>8, <2>1, <2>2, <2>3, Passes
<1> QED BY <1>6, <1>7, <1>8, <1>9 DEF PlacesGoal

LEMMA DropHands ==
    ASSUME PlacesInv, NEW c \in Cpus, Drop(c), Observe
    PROVE  PlacesGoal(c)
<1>0. CountersInv /\ Typed /\ SharedFilled /\ HandInv(c) /\ FilledAt(c) /\ LocalInv(c)
  BY PlacesNumbers DEF CountersInv
<1>1. StepGoal(c)
  BY <1>0, DropStep
<1>2. /\ pc[c] = "run" /\ UNCHANGED <<head, tail, queue, next, global, lock, waiting, loc>>
      /\ current' = [current EXCEPT ![c] = None] /\ dead' = dead \cup {current[c]}
  BY DEF Drop, rings
<1>3. /\ loc[c].thread = None /\ loc[c].found = None /\ loc[c].batch = << >> /\ lock # c
      /\ current[c] \in Threads
  BY <1>2, Hands DEF ThreadOrNone
<1>4. pc'[c] = "find" /\ loc'[c].thread = None /\ loc'[c].found = None /\ loc'[c].batch = << >>
  BY <1>0, <1>2, <1>3 DEF Drop, Goto, Typed
<1>5. current'[c] = None /\ \A d \in Cpus \ {c} : current'[d] = current[d] /\ next'[d] = next[d]
  BY <1>0, <1>2 DEF Typed, QueuesTyped
<1>6. HandInv(c)'
  BY <1>2, <1>3, <1>4, <1>5, NoneApart DEF HandInv, InGlobal, PutPcs
<1>7. SharedFilled'
  BY <1>0, <1>2, <1>3 DEF SharedFilled
<1>8. /\ Moves(c) /\ Keeps(c) /\ CopyInv(c)' /\ FilledAt(c)'
      /\ Mine("ring", c)' = Mine("ring", c) /\ Mine("loot", c)' = Mine("loot", c)
  <2>1. pc'[c] \in Calm /\ pc[c] \notin {"stolen", "steal_publish"}
    BY <1>2, <1>4 DEF Calm, Labels
  <2>2. loc'[c].batch \in Seq(Threads) /\ Once(loc'[c].batch)
    BY <1>0, <1>3, <1>4, EmptyOnce DEF FilledAt
  <2> QED BY <1>1, <1>2, <1>5, <2>1, <2>2, KeptRing
<1>9. OneHolder(Held')
  <2>1. /\ Mine("current", c)' = Mine("current", c) \ {current[c]} /\ Mine("dead", c)' = Mine("dead", c) \cup {current[c]}
        /\ {current[c]} \subseteq Mine("current", c)
    <3>1. Mine("current", c) = {current[c]} \ {None} /\ Mine("dead", c) = dead
      BY <1>3, MineValues
    <3>2. Mine("current", c)' = {None} \ {None} /\ Mine("dead", c)' = dead \cup {current[c]}
      BY <1>2, <1>5, MineValuesNext
    <3> QED BY <1>3, <3>1, <3>2, NoneApart
  <2>2. \A k \in Kinds \ {"current", "dead"} : Mine(k, c)' = Mine(k, c)
    BY <1>2, <1>3, <1>4, <1>8, MineKept DEF Kinds
  <2>3. "current" \in Kinds /\ "dead" \in Kinds
    BY DEF Kinds
  <2> QED BY <1>2, <1>5, <1>8, <2>1, <2>2, <2>3, Passes
<1> QED BY <1>6, <1>7, <1>8, <1>9 DEF PlacesGoal

LEMMA GlobalRestEndsHands ==
    ASSUME PlacesInv, NEW c \in Cpus, loc[c].batch = << >>, GlobalRest(c), Observe
    PROVE  PlacesGoal(c)
<1>0. CountersInv /\ Typed /\ SharedFilled /\ HandInv(c) /\ FilledAt(c) /\ LocalInv(c)
  BY PlacesNumbers DEF CountersInv
<1>1. StepGoal(c)
  BY <1>0, GlobalRestStep
<1>2. /\ pc[c] = "global_rest" /\ UNCHANGED <<head, tail, queue, next, global, waiting, dead>>
      /\ lock' = None /\ current' = [current EXCEPT ![c] = loc[c].found]
  BY DEF GlobalRest, Execute, rings
<1>3. /\ loc[c].thread = None /\ loc[c].found \in Threads /\ loc[c].batch = << >> /\ lock = c /\ current[c] = None
  BY <1>0, <1>2, LocalsTyped DEF HandInv, InGlobal, PutPcs, ThreadOrNone
<1>4. pc'[c] = "run" /\ loc'[c].thread = None /\ loc'[c].found = None /\ loc'[c].batch = << >>
  BY <1>0, <1>3 DEF GlobalRest, Execute, Goto, Forget, NoLocals, Typed
<1>5. /\ current'[c] = loc[c].found
      /\ \A d \in Cpus \ {c} : current'[d] = current[d] /\ next'[d] = next[d] /\ (lock' = d <=> lock = d)
  BY <1>0, <1>2, <1>3, NoneApart DEF Typed, QueuesTyped
<1>6. HandInv(c)'
  BY <1>2, <1>3, <1>4, <1>5, NoneApart DEF HandInv, InGlobal, PutPcs
<1>7. SharedFilled'
  BY <1>0, <1>2 DEF SharedFilled
<1>8. /\ Moves(c) /\ Keeps(c) /\ CopyInv(c)' /\ FilledAt(c)'
      /\ Mine("ring", c)' = Mine("ring", c) /\ Mine("loot", c)' = Mine("loot", c)
  <2>1. pc'[c] \in Calm /\ pc[c] \notin {"stolen", "steal_publish"}
    BY <1>2, <1>4 DEF Calm, Labels
  <2>2. loc'[c].batch \in Seq(Threads) /\ Once(loc'[c].batch)
    BY <1>0, <1>3, <1>4, EmptyOnce DEF FilledAt
  <2> QED BY <1>1, <1>2, <1>5, <2>1, <2>2, KeptRing
<1>9. OneHolder(Held')
  <2>1. /\ Mine("found", c)' = Mine("found", c) \ {loc[c].found} /\ Mine("current", c)' = Mine("current", c) \cup {loc[c].found}
        /\ {loc[c].found} \subseteq Mine("found", c)
    <3>1. Mine("found", c) = {loc[c].found} \ {None} /\ Mine("current", c) = {None} \ {None}
      BY <1>3, MineValues
    <3>2. Mine("found", c)' = {None} \ {None} /\ Mine("current", c)' = {loc[c].found} \ {None}
      BY <1>4, <1>5, MineValuesNext
    <3> QED BY <1>3, <3>1, <3>2, NoneApart
  <2>2. \A k \in Kinds \ {"found", "current"} : Mine(k, c)' = Mine(k, c)
    BY <1>2, <1>3, <1>4, <1>8, MineKept DEF Kinds
  <2>3. "found" \in Kinds /\ "current" \in Kinds
    BY DEF Kinds
  <2> QED BY <1>2, <1>5, <1>8, <2>1, <2>2, <2>3, Passes
<1> QED BY <1>6, <1>7, <1>8, <1>9 DEF PlacesGoal

LEMMA GlobalRestPutsHands ==
    ASSUME PlacesInv, NEW c \in Cpus, loc[c].batch # << >>, GlobalRest(c), Observe
    PROVE  PlacesGoal(c)
<1>0. CountersInv /\ Typed /\ SharedFilled /\ HandInv(c) /\ FilledAt(c) /\ LocalInv(c)
  BY PlacesNumbers DEF CountersInv
<1>1. StepGoal(c)
  BY <1>0, GlobalRestStep
<1>2. pc[c] = "global_rest" /\ UNCHANGED <<head, tail, queue, next, global, lock, current, waiting, dead>>
  BY DEF GlobalRest, rings
<1>3. /\ loc[c].thread = None /\ loc[c].found \in Threads /\ lock = c /\ current[c] = None
      /\ Head(loc[c].batch) \in Threads /\ Head(loc[c].batch) \in Elements(loc[c].batch)
      /\ Tail(loc[c].batch) \in Seq(Threads) /\ Once(Tail(loc[c].batch))
      /\ Elements(Tail(loc[c].batch)) = Elements(loc[c].batch) \ {Head(loc[c].batch)}
  BY <1>0, <1>2, LocalsTyped, TailOnce DEF HandInv, InGlobal, PutPcs, ThreadOrNone, FilledAt
<1>4. /\ pc'[c] = "put" /\ loc'[c].thread = Head(loc[c].batch) /\ loc'[c].found = loc[c].found
      /\ loc'[c].batch = Tail(loc[c].batch) /\ loc'[c].return = "global_rest"
  <2>1. /\ pc'[c] = "put"
        /\ loc'[c] = [loc[c] EXCEPT !.thread = Head(loc[c].batch), !.batch = Tail(loc[c].batch), !.return = "global_rest"]
    BY <1>0 DEF GlobalRest, Goto, Set, Typed
  <2> QED BY <1>0, <2>1, LocalsTyped DEF Locals
<1>5. \A d \in Cpus \ {c} : current'[d] = current[d] /\ next'[d] = next[d] /\ (lock' = d <=> lock = d)
  BY <1>2
<1>6. HandInv(c)'
  BY <1>2, <1>3, <1>4, NoneApart DEF HandInv, InGlobal, PutPcs
<1>7. SharedFilled'
  BY <1>0, <1>2 DEF SharedFilled
<1>8. /\ Moves(c) /\ Keeps(c) /\ CopyInv(c)' /\ FilledAt(c)'
      /\ Mine("ring", c)' = Mine("ring", c) /\ Mine("loot", c)' = Mine("loot", c)
  <2>1. pc'[c] \in Calm /\ pc[c] \notin {"stolen", "steal_publish"}
    BY <1>2, <1>4 DEF Calm, Labels
  <2>2. loc'[c].batch \in Seq(Threads) /\ Once(loc'[c].batch)
    BY <1>0, <1>3, <1>4, EmptyOnce DEF FilledAt
  <2> QED BY <1>1, <1>2, <1>5, <2>1, <2>2, KeptRing
<1>9. OneHolder(Held')
  <2>1. /\ Mine("batch", c)' = Mine("batch", c) \ {Head(loc[c].batch)} /\ Mine("thread", c)' = Mine("thread", c) \cup {Head(loc[c].batch)}
        /\ {Head(loc[c].batch)} \subseteq Mine("batch", c)
    <3>1. Mine("batch", c) = Elements(loc[c].batch) /\ Mine("thread", c) = {None} \ {None}
      BY <1>3, MineValues
    <3>2. Mine("batch", c)' = Elements(Tail(loc[c].batch)) /\ Mine("thread", c)' = {Head(loc[c].batch)} \ {None}
      BY <1>4, MineValuesNext
    <3> QED BY <1>3, <3>1, <3>2, NoneApart
  <2>2. \A k \in Kinds \ {"batch", "thread"} : Mine(k, c)' = Mine(k, c)
    BY <1>2, <1>4, <1>8, MineKept DEF Kinds
  <2>3. "batch" \in Kinds /\ "thread" \in Kinds
    BY DEF Kinds
  <2> QED BY <1>2, <1>5, <1>8, <2>1, <2>2, <2>3, Passes
<1> QED BY <1>6, <1>7, <1>8, <1>9 DEF PlacesGoal

LEMMA PutNextFreeHands ==
    ASSUME PlacesInv, NEW c \in Cpus, NEW t \in waiting, NEW r \in {"run", "find", "steal_timers"},
           pc[c] \in {"run", "find", "steal", "steal_timers"}, r = "run" <=> pc[c] = "run",
           next[c] = None, PutNext(c, t, r), waiting' = waiting \ {t},
           UNCHANGED <<head, tail, queue, global, lock, current, dead>>, StepGoal(c)
    PROVE  PlacesGoal(c)
<1>0. CountersInv /\ Typed /\ SharedFilled /\ HandInv(c) /\ FilledAt(c) /\ LocalInv(c)
  BY PlacesNumbers DEF CountersInv
<1>1. StepGoal(c)
  OBVIOUS
<1>2. /\ pc[c] \in {"run", "find", "steal", "steal_timers"} /\ UNCHANGED <<head, tail, queue, global, lock, current, dead>>
      /\ waiting' = waiting \ {t} /\ next' = [next EXCEPT ![c] = t]
  BY DEF PutNext
<1>3. /\ loc[c].thread = None /\ loc[c].found = None /\ loc[c].batch = << >> /\ lock # c
      /\ (current[c] # None <=> pc[c] = "run") /\ t \in Threads /\ t # None /\ next[c] \in ThreadOrNone
  BY <1>0, <1>2, Hands, NoneApart DEF SharedFilled
<1>4. pc'[c] = r /\ loc'[c].thread = None /\ loc'[c].found = None /\ loc'[c].batch = << >>
  BY <1>0, <1>3 DEF PutNext, Goto, Typed
<1>5. next'[c] = t /\ \A d \in Cpus \ {c} : current'[d] = current[d] /\ next'[d] = next[d]
  BY <1>0, <1>2 DEF Typed, QueuesTyped
<1>6. HandInv(c)'
  BY <1>2, <1>3, <1>4, <1>5, NoneApart DEF HandInv, InGlobal, PutPcs
<1>7. SharedFilled'
  BY <1>0, <1>2 DEF SharedFilled
<1>8. /\ Moves(c) /\ Keeps(c) /\ CopyInv(c)' /\ FilledAt(c)'
      /\ Mine("ring", c)' = Mine("ring", c) /\ Mine("loot", c)' = Mine("loot", c)
  <2>1. pc'[c] \in Calm /\ pc[c] \notin {"stolen", "steal_publish"}
    BY <1>2, <1>4 DEF Calm, Labels
  <2>2. loc'[c].batch \in Seq(Threads) /\ Once(loc'[c].batch)
    BY <1>0, <1>3, <1>4, EmptyOnce DEF FilledAt
  <2> QED BY <1>1, <1>2, <1>5, <2>1, <2>2, KeptRing
<1>9. OneHolder(Held')
  <2>1. /\ Mine("waiting", c)' = Mine("waiting", c) \ {t} /\ Mine("next", c)' = Mine("next", c) \cup {t}
        /\ {t} \subseteq Mine("waiting", c)
    <3>1. Mine("waiting", c) = waiting /\ Mine("next", c) = {None} \ {None}
      BY <1>3, MineValues
    <3>2. Mine("waiting", c)' = waiting \ {t} /\ Mine("next", c)' = {t} \ {None}
      BY <1>2, <1>5, MineValuesNext
    <3> QED BY <1>3, <3>1, <3>2, NoneApart
  <2>2. \A k \in Kinds \ {"waiting", "next"} : Mine(k, c)' = Mine(k, c)
    BY <1>2, <1>3, <1>4, <1>8, MineKept DEF Kinds
  <2>3. "waiting" \in Kinds /\ "next" \in Kinds
    BY DEF Kinds
  <2> QED BY <1>2, <1>5, <1>8, <2>1, <2>2, <2>3, Passes
<1> QED BY <1>6, <1>7, <1>8, <1>9 DEF PlacesGoal

LEMMA PutNextKicksHands ==
    ASSUME PlacesInv, NEW c \in Cpus, NEW t \in waiting, NEW r \in {"run", "find", "steal_timers"},
           pc[c] \in {"run", "find", "steal", "steal_timers"}, r = "run" <=> pc[c] = "run",
           next[c] # None, PutNext(c, t, r), waiting' = waiting \ {t},
           UNCHANGED <<head, tail, queue, global, lock, current, dead>>, StepGoal(c)
    PROVE  PlacesGoal(c)
<1>0. CountersInv /\ Typed /\ SharedFilled /\ HandInv(c) /\ FilledAt(c) /\ LocalInv(c)
  BY PlacesNumbers DEF CountersInv
<1>1. StepGoal(c)
  OBVIOUS
<1>2. /\ pc[c] \in {"run", "find", "steal", "steal_timers"} /\ UNCHANGED <<head, tail, queue, global, lock, current, dead>>
      /\ waiting' = waiting \ {t} /\ next' = [next EXCEPT ![c] = t]
  BY DEF PutNext
<1>3. /\ loc[c].thread = None /\ loc[c].found = None /\ loc[c].batch = << >> /\ lock # c
      /\ (current[c] # None <=> pc[c] = "run") /\ t \in Threads /\ t # None /\ next[c] \in ThreadOrNone
  BY <1>0, <1>2, Hands, NoneApart DEF SharedFilled
<1>4. /\ pc'[c] = "put" /\ loc'[c].thread = next[c] /\ loc'[c].found = None /\ loc'[c].batch = << >> /\ loc'[c].return = r
  <2>1. pc'[c] = "put" /\ loc'[c] = [loc[c] EXCEPT !.thread = next[c], !.return = r]
    BY <1>0 DEF PutNext, Goto, Set, Typed
  <2> QED BY <1>0, <1>3, <2>1, LocalsTyped DEF Locals
<1>5. next'[c] = t /\ \A d \in Cpus \ {c} : current'[d] = current[d] /\ next'[d] = next[d]
  BY <1>0, <1>2 DEF Typed, QueuesTyped
<1>6. HandInv(c)'
  BY <1>2, <1>3, <1>4, <1>5, NoneApart DEF HandInv, InGlobal, PutPcs
<1>7. SharedFilled'
  BY <1>0, <1>2 DEF SharedFilled
<1>8. /\ Moves(c) /\ Keeps(c) /\ CopyInv(c)' /\ FilledAt(c)'
      /\ Mine("ring", c)' = Mine("ring", c) /\ Mine("loot", c)' = Mine("loot", c)
  <2>1. pc'[c] \in Calm /\ pc[c] \notin {"stolen", "steal_publish"}
    BY <1>2, <1>4 DEF Calm, Labels
  <2>2. loc'[c].batch \in Seq(Threads) /\ Once(loc'[c].batch)
    BY <1>4, EmptyOnce
  <2> QED BY <1>1, <1>2, <1>5, <2>1, <2>2, KeptRing
<1>9. OneHolder(Held')
  <2>1. PICK g : g = [k \in Kinds |-> CASE k = "next" -> Mine("next", c) \ {next[c]}
                                        [] k = "thread" -> Mine("thread", c) \cup {next[c]}
                                        [] OTHER -> Mine(k, c)]
    OBVIOUS
  <2>2. /\ g["next"] = Mine("next", c) \ {next[c]} /\ g["thread"] = Mine("thread", c) \cup {next[c]}
        /\ g["waiting"] = Mine("waiting", c)
        /\ \A k \in Kinds \ {"next", "thread"} : g[k] = Mine(k, c)
    BY <2>1 DEF Kinds
  <2>3. Mine("waiting", c) = waiting /\ Mine("next", c) = {next[c]} /\ Mine("thread", c) = {}
    BY <1>3, MineValues
  <2>4. Mine("waiting", c)' = waiting \ {t} /\ Mine("next", c)' = {t} /\ Mine("thread", c)' = {next[c]}
    BY <1>2, <1>3, <1>4, <1>5, MineValuesNext
  <2>5. \A k \in Kinds \ {"waiting", "next"} : Mine(k, c)' = g[k]
    <3>1. \A k \in Kinds \ {"waiting", "next", "thread"} : Mine(k, c)' = Mine(k, c)
      BY <1>2, <1>3, <1>4, <1>8, MineKept DEF Kinds
    <3> QED BY <2>2, <2>3, <2>4, <3>1
  <2>6. /\ {next[c]} \subseteq Mine("next", c) /\ {t} \subseteq g["waiting"]
        /\ Mine("waiting", c)' = g["waiting"] \ {t} /\ Mine("next", c)' = g["next"] \cup {t}
    BY <2>2, <2>3, <2>4
  <2>7. "waiting" \in Kinds /\ "next" \in Kinds /\ "thread" \in Kinds /\ "next" # "thread" /\ "waiting" # "next"
    BY DEF Kinds
  <2>8. \A d \in Cpus \ {c} : head'[d] = head[d] /\ next'[d] = next[d]
    BY <1>2, <1>5
  <2>9. GivesTo(c, "next", "thread", {next[c]}, g) /\ EndsWith(c, "waiting", "next", {t}, g)
    BY <2>2, <2>5, <2>6, <2>7 DEF GivesTo, EndsWith
  <2> QED BY <1>8, <2>8, <2>9, PassesTwice
<1> QED BY <1>6, <1>7, <1>8, <1>9 DEF PlacesGoal

LEMMA ReadyHands ==
    ASSUME PlacesInv, NEW c \in Cpus, NEW t \in Threads, Ready(c, t), Observe
    PROVE  PlacesGoal(c)
<1>1. StepGoal(c)
  BY ReadyStep DEF PlacesInv
<1>2. /\ pc[c] = "run" /\ t \in waiting /\ PutNext(c, t, "run") /\ waiting' = waiting \ {t}
      /\ UNCHANGED <<head, tail, queue, global, lock, current, dead>>
  BY DEF Ready
<1> QED BY <1>1, <1>2, PutNextFreeHands, PutNextKicksHands

LEMMA TimerReadyHands ==
    ASSUME PlacesInv, NEW c \in Cpus, NEW t \in Threads, TimerReady(c, t), Observe
    PROVE  PlacesGoal(c)
<1>1. StepGoal(c)
  BY TimerReadyStep DEF PlacesInv
<1>2. PICK r : r = IF pc[c] = "find" THEN "find" ELSE "steal_timers"
  OBVIOUS
<1>3. /\ pc[c] \in {"find", "steal", "steal_timers"} /\ t \in waiting /\ PutNext(c, t, r) /\ waiting' = waiting \ {t}
      /\ UNCHANGED <<head, tail, queue, global, lock, current, dead>>
      /\ r \in {"find", "steal_timers"}
  BY <1>2 DEF TimerReady
<1> QED BY <1>1, <1>3, PutNextFreeHands, PutNextKicksHands

\* global_run_queue_get, when there is something in the global queue.
LEMMA GlobalTakeHands ==
    ASSUME PlacesInv, NEW c \in Cpus, NEW max \in {0, 1}, pc[c] \in {"find", "global", "idle"},
           lock = None, global # << >>, GlobalTake(c, max),
           UNCHANGED <<head, tail, queue, next, current, waiting, dead>>, StepGoal(c)
    PROVE  PlacesGoal(c)
<1>0. CountersInv /\ Typed /\ SharedFilled /\ HandInv(c) /\ FilledAt(c) /\ LocalInv(c)
  BY PlacesNumbers DEF CountersInv
<1>1. PICK n \in Nat : n = Take(max) /\ n >= 1 /\ n <= Len(global)
  BY <1>0, TakeValue, Params
<1>2. global \in Seq(Threads) /\ Once(global) /\ Len(global) \in Nat /\ global[1] \in Threads
  BY <1>0, <1>1 DEF SharedFilled
<1>3. /\ loc[c].thread = None /\ loc[c].found = None /\ loc[c].batch = << >> /\ lock # c /\ current[c] = None
  BY Hands
<1>4. /\ pc'[c] = "global_rest" /\ loc'[c].thread = None /\ loc'[c].found = global[1]
      /\ loc'[c].batch = SubSeq(global, 2, n) /\ lock' = c /\ global' = SubSeq(global, n + 1, Len(global))
  BY <1>0, <1>1 DEF GlobalTake, Goto, Set, NoLocals, Typed, Remaining
<1>5. \A d \in Cpus \ {c} : current'[d] = current[d] /\ next'[d] = next[d] /\ (lock' = d <=> lock = d)
  BY <1>4, NoneApart
<1>6. HandInv(c)'
  BY <1>2, <1>3, <1>4, NoneApart DEF HandInv, InGlobal, PutPcs
<1>10. /\ SubSeq(global, 2, n) \in Seq(Threads) /\ Once(SubSeq(global, 2, n))
       /\ Elements(SubSeq(global, 2, n)) = {global[i] : i \in 2 .. n}
  BY <1>1, <1>2, PartOnce
<1>11. /\ SubSeq(global, n + 1, Len(global)) \in Seq(Threads) /\ Once(SubSeq(global, n + 1, Len(global)))
       /\ Elements(SubSeq(global, n + 1, Len(global))) = {global[i] : i \in n + 1 .. Len(global)}
  BY <1>1, <1>2, PartOnce
<1>7. SharedFilled'
  BY <1>0, <1>4, <1>11 DEF SharedFilled
<1>8. /\ Moves(c) /\ Keeps(c) /\ CopyInv(c)' /\ FilledAt(c)'
      /\ Mine("ring", c)' = Mine("ring", c) /\ Mine("loot", c)' = Mine("loot", c)
  <2>1. pc'[c] \in Calm /\ pc[c] \notin {"stolen", "steal_publish"}
    BY <1>4 DEF Calm, Labels
  <2>2. loc'[c].batch \in Seq(Threads) /\ Once(loc'[c].batch)
    BY <1>4, <1>10
  <2> QED BY <1>5, <2>1, <2>2, KeptRing
<1>9. OneHolder(Held')
  <2> DEFINE Y == {global[i] : i \in 2 .. n}
  <2>1. PICK g : g = [k \in Kinds |-> CASE k = "global" -> Mine("global", c) \ Y
                                        [] k = "batch" -> Mine("batch", c) \cup Y
                                        [] OTHER -> Mine(k, c)]
    OBVIOUS
  <2>2. /\ g["global"] = Mine("global", c) \ Y /\ g["batch"] = Mine("batch", c) \cup Y
        /\ g["found"] = Mine("found", c)
        /\ \A k \in Kinds \ {"global", "batch"} : g[k] = Mine(k, c)
    BY <2>1 DEF Kinds
  <2>3. Mine("global", c) = Elements(global) /\ Mine("batch", c) = {} /\ Mine("found", c) = {}
    BY <1>3, MineValues, EmptyOnce
  <2>4. /\ Mine("global", c)' = {global[i] : i \in n + 1 .. Len(global)} /\ Mine("batch", c)' = Y
        /\ Mine("found", c)' = {global[1]}
    BY <1>2, <1>4, <1>10, <1>11, NoneApart, MineValuesNext
  <2>5. \A k \in Kinds \ {"global", "found"} : Mine(k, c)' = g[k]
    <3>1. \A k \in Kinds \ {"global", "found", "batch"} : Mine(k, c)' = Mine(k, c)
      BY <1>3, <1>4, <1>8, MineKept DEF Kinds
    <3> QED BY <2>2, <2>3, <2>4, <3>1
  <2>6. Y \subseteq Elements(global) /\ global[1] \in Elements(global) \ Y
    BY <1>1, <1>2 DEF Elements, Once
  <2>7. {global[i] : i \in n + 1 .. Len(global)} = (Elements(global) \ Y) \ {global[1]}
    <3>1. ASSUME NEW i \in n + 1 .. Len(global) PROVE global[i] \in (Elements(global) \ Y) \ {global[1]}
      BY <1>1, <1>2 DEF Elements, Once
    <3>2. ASSUME NEW i \in 1 .. Len(global), global[i] \notin Y, global[i] # global[1] PROVE i \in n + 1 .. Len(global)
      BY <1>1, <1>2, <3>2
    <3> QED BY <3>1, <3>2 DEF Elements
  <2> HIDE DEF Y
  <2>8. /\ Y \subseteq Mine("global", c) /\ {global[1]} \subseteq g["global"]
        /\ Mine("global", c)' = g["global"] \ {global[1]} /\ Mine("found", c)' = g["found"] \cup {global[1]}
    BY <2>2, <2>3, <2>4, <2>6, <2>7
  <2>9. "global" \in Kinds /\ "batch" \in Kinds /\ "found" \in Kinds /\ "global" # "batch" /\ "global" # "found"
    BY DEF Kinds
  <2>10. \A d \in Cpus \ {c} : head'[d] = head[d] /\ next'[d] = next[d]
    BY <1>5
  <2>11. GivesTo(c, "global", "batch", Y, g) /\ EndsWith(c, "global", "found", {global[1]}, g)
    BY <2>2, <2>5, <2>8, <2>9 DEF GivesTo, EndsWith
  <2> QED BY <1>8, <2>10, <2>11, PassesTwice
<1> QED BY <1>6, <1>7, <1>8, <1>9 DEF PlacesGoal

LEMMA GlobalTickHands ==
    ASSUME PlacesInv, NEW c \in Cpus, GlobalTick(c), Observe
    PROVE  PlacesGoal(c)
<1>1. StepGoal(c)
  BY GlobalTickStep DEF PlacesInv
<1> QED BY <1>1, GlobalTakeHands DEF GlobalTick, rings

LEMMA GlobalGetHands ==
    ASSUME PlacesInv, NEW c \in Cpus, GlobalGet(c), Observe
    PROVE  PlacesGoal(c)
<1>1. StepGoal(c)
  BY GlobalGetStep DEF PlacesInv
<1>2. CASE global # << >>
  BY <1>1, <1>2, GlobalTakeHands DEF GlobalGet, rings
<1> QED BY <1>2, GlobalGetEmptyHands

----------------------------------------------------------------------------
LEMMA HeadMoves ==
    ASSUME CountersInv, NEW w \in Cpus, NEW k \in Nat, H(w) + k <= T(w),
           head' = [head EXCEPT ![w] = Plus(head[w], k)], UNCHANGED tail
    PROVE  /\ H(w)' = H(w) + k /\ \A v \in Cpus : T(v)' = T(v)
           /\ \A v \in Cpus \ {w} : head'[v] = head[v] /\ H(v)' = H(v)
<1>1. Plus(head[w], k) \in Words /\ U(Plus(head[w], k)) = H(w) + k
  <2>1. H(w) + k < Width
    <3>1. T(w) < Width
      BY Numbers, DistanceTyped DEF T
    <3> QED BY <3>1, Numbers, Params
  <2> QED BY <2>1, Numbers, Distances DEF H
<1> QED BY <1>1 DEF T, H, CountersInv, Typed

LEMMA TailMoves ==
    ASSUME CountersInv, NEW c \in Cpus, NEW k \in Nat, T(c) + k < Width,
           tail' = [tail EXCEPT ![c] = Plus(tail[c], k)], UNCHANGED head
    PROVE  T(c)' = T(c) + k /\ H(c)' = H(c)
<1>1. Plus(tail[c], k) \in Words /\ U(Plus(tail[c], k)) = T(c) + k
  BY Numbers, Distances DEF T
<1> QED BY <1>1 DEF T, H, CountersInv, Typed

\* The k oldest threads of a ring.
Front(w, k) == {Cell(w, i) : i \in H(w) .. H(w) + k - 1}

\* A ring loses its oldest threads.
LEMMA RingLosesFront ==
    ASSUME PlacesInv, NEW w \in Cpus, NEW k \in Nat, H(w) + k <= T(w),
           H(w)' = H(w) + k, T(w)' = T(w), queue'[w] = queue[w],
           NEW X, X = Front(w, k)
    PROVE  /\ X \subseteq Rung(w) /\ Rung(w)' = Rung(w) \ X /\ X \subseteq Threads
           /\ InRing(w)' \subseteq InRing(w) /\ \A i : Cell(w, i)' = Cell(w, i)
<1>1. H(w) \in Nat /\ T(w) \in Nat /\ H(w) <= T(w) /\ FilledAt(w)
  BY PlacesNumbers, Numbers
<1>2. \A i : Cell(w, i)' = Cell(w, i)
  BY DEF Cell
<1>3. InRing(w)' = H(w) + k .. T(w) - 1 /\ InRing(w) = H(w) .. T(w) - 1
  BY DEF InRing
<1>4. InRing(w)' \subseteq InRing(w) /\ H(w) .. H(w) + k - 1 \subseteq InRing(w)
  BY <1>1, <1>3
<1>5. \A i, j \in InRing(w) : Cell(w, i) \in Threads /\ (Cell(w, i) = Cell(w, j) => i = j)
  BY <1>1 DEF FilledAt
<1>6. Rung(w)' = {Cell(w, i) : i \in H(w) + k .. T(w) - 1}
  BY <1>2, <1>3 DEF Rung
<1>7. \A i \in InRing(w) : i \in H(w) + k .. T(w) - 1 \/ i \in H(w) .. H(w) + k - 1
  BY <1>1, <1>3
<1>8. \A i \in H(w) + k .. T(w) - 1 : i \notin H(w) .. H(w) + k - 1 /\ i \in InRing(w)
  BY <1>1, <1>3
<1>9. X \subseteq Rung(w) /\ X \subseteq Threads
  BY <1>4, <1>5 DEF Rung, Front
<1>10. Rung(w)' \subseteq Rung(w) \ X
  BY <1>4, <1>5, <1>6, <1>8 DEF Rung, Front
<1>11. Rung(w) \ X \subseteq Rung(w)'
  BY <1>6, <1>7 DEF Rung, Front
<1> QED BY <1>2, <1>4, <1>9, <1>10, <1>11

\* What c keeps when neither its ring nor what lies beyond is written.
LEMMA PublicKept ==
    ASSUME NEW c \in Cpus, queue' = queue,
           \A d \in Cpus \ {c} : current'[d] = current[d] /\ (lock' = d <=> lock = d)
    PROVE  Keeps(c) /\ \A d, k : Cell(d, k)' = Cell(d, k)
BY DEF Keeps, Cell

LEMMA GetCasTakesHands ==
    ASSUME PlacesInv, NEW c \in Cpus, head[c] = loc[c].h, GetCas(c), Observe
    PROVE  PlacesGoal(c)
<1>0. CountersInv /\ Typed /\ SharedFilled /\ HandInv(c) /\ FilledAt(c) /\ LocalInv(c)
  BY PlacesNumbers DEF CountersInv
<1>1. StepGoal(c) /\ Moves(c)
  BY <1>0, GetCasTakes DEF StepGoal
<1>2. /\ pc[c] = "get_cas" /\ UNCHANGED <<tail, queue, next, global, lock, waiting, dead>>
      /\ head' = [head EXCEPT ![c] = Plus(head[c], 1)]
      /\ current' = [current EXCEPT ![c] = queue[c][Slot(head[c])]]
  BY DEF GetCas, Execute
<1>3. /\ loc[c].thread = None /\ loc[c].found = None /\ loc[c].batch = << >> /\ lock # c /\ current[c] = None
  BY <1>2, Hands
<1>4. pc'[c] = "run" /\ loc'[c].thread = None /\ loc'[c].found = None /\ loc'[c].batch = << >>
  BY <1>0 DEF GetCas, Execute, Goto, Forget, NoLocals, Typed
<1>5. PICK t : t = Cell(c, H(c))
  OBVIOUS
<1>6. queue[c][Slot(head[c])] = t
  <2>1. 0 \in Nat /\ Slot(head[c]) = Pos(H(c))
    BY <1>0, CounterSlots
  <2> QED BY <1>5, <2>1 DEF Cell
<1>7. current'[c] = t /\ \A d \in Cpus \ {c} : current'[d] = current[d]
  BY <1>0, <1>2, <1>6 DEF Typed, QueuesTyped
<1>8. H(c) \in Nat /\ T(c) \in Nat /\ H(c) + 1 <= T(c)
  BY <1>0, <1>2, Numbers DEF LocalInv, GetInv, H
<1>9. H(c)' = H(c) + 1 /\ T(c)' = T(c) /\ \A d \in Cpus \ {c} : head'[d] = head[d]
  BY <1>0, <1>2, <1>8, HeadMoves
<1>10. {t} = Front(c, 1)
  <2>1. H(c) .. H(c) + 1 - 1 = {H(c)}
    BY <1>8
  <2> QED BY <1>5, <2>1 DEF Front
<1>11. /\ {t} \subseteq Rung(c) /\ Rung(c)' = Rung(c) \ {t} /\ {t} \subseteq Threads
       /\ InRing(c)' \subseteq InRing(c) /\ \A i : Cell(c, i)' = Cell(c, i)
  <2>1. queue'[c] = queue[c] /\ 1 \in Nat
    BY <1>2
  <2> QED BY <1>8, <1>9, <1>10, <2>1, RingLosesFront
<1>12. HandInv(c)' /\ CopyInv(c)'
  BY <1>2, <1>3, <1>4, <1>7, <1>11, NoneApart DEF HandInv, CopyInv, InGlobal, PutPcs
<1>13. SharedFilled' /\ Keeps(c)
  BY <1>0, <1>2, <1>7, PublicKept DEF SharedFilled
<1>14. InLoot(c)' = {} /\ InLoot(c) = {}
  BY <1>2, <1>4 DEF InLoot
<1>15. FilledAt(c)'
  BY <1>0, <1>4, <1>11, <1>14, EmptyOnce DEF FilledAt
<1>16. OneHolder(Held')
  <2>1. Mine("ring", c) = Rung(c) /\ Mine("current", c) = {} /\ Mine("loot", c) = {}
    BY <1>3, <1>14, MineValues DEF Loot
  <2>2. Mine("ring", c)' = Rung(c) \ {t} /\ Mine("current", c)' = {t} /\ Mine("loot", c)' = {}
    BY <1>7, <1>11, <1>14, NoneApart, MineValuesNext DEF Loot
  <2>3. /\ Mine("ring", c)' = Mine("ring", c) \ {t} /\ Mine("current", c)' = Mine("current", c) \cup {t}
        /\ {t} \subseteq Mine("ring", c) /\ Mine("loot", c)' = Mine("loot", c)
    BY <1>11, <2>1, <2>2
  <2>4. \A k \in Kinds \ {"ring", "current"} : Mine(k, c)' = Mine(k, c)
    BY <1>2, <1>3, <1>4, <2>3, MineKept DEF Kinds
  <2>5. "ring" \in Kinds /\ "current" \in Kinds
    BY DEF Kinds
  <2> QED BY <1>1, <1>2, <1>9, <1>13, <2>3, <2>4, <2>5, Passes
<1> QED BY <1>12, <1>13, <1>15, <1>16 DEF PlacesGoal

LEMMA PutPublishHands ==
    ASSUME PlacesInv, NEW c \in Cpus, PutPublish(c), Observe
    PROVE  PlacesGoal(c)
<1>0. CountersInv /\ Typed /\ SharedFilled /\ HandInv(c) /\ FilledAt(c) /\ LocalInv(c) /\ CopyInv(c)
  BY PlacesNumbers DEF CountersInv
<1>1. StepGoal(c) /\ Moves(c)
  BY <1>0, PutPublishStep DEF StepGoal
<1>2. pc[c] = "put_publish" /\ UNCHANGED <<head, queue, next, global, lock, current, waiting, dead>>
  BY DEF PutPublish
<1>3. PICK t : t = loc[c].thread
  OBVIOUS
<1>4. t \in Threads /\ t = Cell(c, T(c)) /\ (lock # c => loc[c].batch = << >>)
  BY <1>0, <1>2, <1>3, LocalsTyped DEF HandInv, InGlobal, PutPcs, CopyInv, ThreadOrNone
<1>5. /\ pc'[c] = loc[c].return /\ loc'[c].thread = None /\ loc'[c].found = loc[c].found /\ loc'[c].batch = loc[c].batch
      /\ loc[c].return \in {"run", "find", "steal_timers", "global_rest"}
  <2>1. pc'[c] = loc[c].return /\ loc[c].return \in {"run", "find", "steal_timers", "global_rest"}
    BY <1>0, <1>2 DEF PutPublish, PutReturn, Goto, Typed, LocalInv, PutInv, PutPcs
  <2>2. loc'[c] = [Fresh(c) EXCEPT !.found = loc[c].found, !.batch = loc[c].batch]
    BY <1>0, <1>4 DEF PutPublish, PutReturn, Set, Typed
  <2> QED BY <2>1, <2>2 DEF Fresh, NoLocals
<1>6. HandInv(c)' /\ CopyInv(c)'
  BY <1>0, <1>2, <1>5 DEF HandInv, CopyInv, InGlobal, PutPcs
<1>7. T(c) \in Nat /\ H(c) \in Nat /\ H(c) <= T(c) /\ T(c)' = T(c) + 1 /\ H(c)' = H(c)
  <2>1. Pending(c) \in Nat /\ Pending(c) >= 1
    <3>1. Pending(c) = 1 + AfterPut(loc[c]) /\ AfterPut(loc[c]) \in Nat
      BY <1>0, <1>2, LocalsTyped, PendingValue, Params DEF Pending, Labels, PutPcs, AfterPut
    <3> QED BY <3>1
  <2>2. T(c) \in Nat /\ H(c) \in Nat /\ H(c) <= T(c) /\ T(c) + 1 < Width
    BY <1>0, <2>1, Numbers, Params
  <2>3. tail' = [tail EXCEPT ![c] = Plus(tail[c], 1)]
    BY <1>0, <1>2 DEF PutPublish, LocalInv, PutInv
  <2> QED BY <1>0, <1>2, <2>2, <2>3, TailMoves
<1>8. SharedFilled' /\ Keeps(c) /\ \A k : Cell(c, k)' = Cell(c, k)
  BY <1>0, <1>2, PublicKept DEF SharedFilled
<1>9. InRing(c)' = InRing(c) \cup {T(c)} /\ T(c) \notin InRing(c)
  BY <1>7 DEF InRing
<1>10. Rung(c)' = Rung(c) \cup {t}
  BY <1>4, <1>8, <1>9 DEF Rung
<1>11. t \notin Rung(c)
  <2>1. t \in Mine("thread", c)
    BY <1>3, <1>4, MineValues, NoneApart
  <2>2. Mine("ring", c) = Rung(c)
    BY MineValues
  <2> QED BY <1>4, <2>1, <2>2, MineApart DEF Kinds
<1>12. InLoot(c)' = {} /\ InLoot(c) = {}
  BY <1>2, <1>5 DEF InLoot
<1>13. FilledAt(c)'
  <2>1. \A k \in InRing(c)' : Cell(c, k)' \in Threads
    BY <1>0, <1>4, <1>8, <1>9 DEF FilledAt
  <2>2. ASSUME NEW j \in InRing(c)', NEW k \in InRing(c)', Cell(c, j) = Cell(c, k) PROVE j = k
    <3>1. \A i \in InRing(c) : Cell(c, i) # t
      BY <1>11 DEF Rung
    <3> QED BY <1>0, <1>4, <1>9, <2>2, <3>1 DEF FilledAt
  <2> QED BY <1>0, <1>5, <1>8, <1>12, <2>1, <2>2 DEF FilledAt
<1>14. OneHolder(Held')
  <2>1. Mine("ring", c) = Rung(c) /\ Mine("thread", c) = {t} /\ Mine("loot", c) = {}
    BY <1>3, <1>4, <1>12, NoneApart, MineValues DEF Loot
  <2>2. Mine("ring", c)' = Rung(c) \cup {t} /\ Mine("thread", c)' = {} /\ Mine("loot", c)' = {}
    BY <1>5, <1>10, <1>12, NoneApart, MineValuesNext DEF Loot
  <2>3. /\ Mine("thread", c)' = Mine("thread", c) \ {t} /\ Mine("ring", c)' = Mine("ring", c) \cup {t}
        /\ {t} \subseteq Mine("thread", c) /\ Mine("loot", c)' = Mine("loot", c)
    BY <2>1, <2>2
  <2>4. \A k \in Kinds \ {"thread", "ring"} : Mine(k, c)' = Mine(k, c)
    BY <1>2, <1>5, <2>3, MineKept DEF Kinds
  <2>5. "ring" \in Kinds /\ "thread" \in Kinds
    BY DEF Kinds
  <2> QED BY <1>1, <1>2, <1>8, <2>3, <2>4, <2>5, Passes
<1> QED BY <1>6, <1>8, <1>13, <1>14 DEF PlacesGoal

LEMMA PutSlowTakesHands ==
    ASSUME PlacesInv, NEW c \in Cpus, head[c] = loc[c].h, PutSlow(c), Observe
    PROVE  PlacesGoal(c)
<1>0. CountersInv /\ Typed /\ SharedFilled /\ HandInv(c) /\ FilledAt(c) /\ LocalInv(c) /\ CopyInv(c)
  BY PlacesNumbers DEF CountersInv
<1>1. StepGoal(c) /\ Moves(c)
  BY <1>0, PutSlowTakes DEF StepGoal
<1>2. /\ pc[c] = "put_slow" /\ UNCHANGED <<tail, queue, next, global, lock, current, waiting, dead>>
      /\ head' = [head EXCEPT ![c] = Plus(head[c], Len(HalfOf(c)))]
  BY DEF PutSlow
<1>3. PICK t : t = loc[c].thread
  OBVIOUS
<1>4. t \in Threads /\ loc[c].batch = << >> /\ loc[c].found = None /\ loc[c].t = tail[c]
  BY <1>0, <1>2, <1>3, LocalsTyped DEF HandInv, InGlobal, PutPcs, ThreadOrNone, LocalInv, PutInv
<1>5. PICK s : s = HalfOf(c)
  OBVIOUS
<1>6. /\ pc'[c] = "put_global" /\ loc'[c].thread = None /\ loc'[c].found = None /\ loc'[c].batch = Append(s, t)
      /\ loc'[c].return = loc[c].return
  <2>1. pc'[c] = "put_global" /\ loc'[c] = [loc[c] EXCEPT !.batch = Append(s, t), !.thread = None]
    BY <1>0, <1>3, <1>5 DEF PutSlow, Goto, Set, Typed
  <2> QED BY <1>0, <1>4, <2>1, LocalsTyped DEF Locals
<1>7. HandInv(c)' /\ CopyInv(c)'
  BY <1>0, <1>2, <1>4, <1>6, NoneApart DEF HandInv, CopyInv, InGlobal, PutPcs, LocalInv, PutInv
<1>8. PICK k \in Nat : k = (T(c) - H(c)) \div 2 /\ H(c) + k <= T(c)
  BY <1>0, Numbers
<1>9. s = [i \in 1 .. k |-> Cell(c, H(c) + (i - 1))]
  <2>1. Minus(loc[c].t, loc[c].h) = T(c) - H(c)
    BY <1>0, <1>4, Numbers, Distances DEF H, T
  <2>2. ASSUME NEW i \in 1 .. k PROVE queue[c][Slot(loc[c].h + i - 1)] = Cell(c, H(c) + (i - 1))
    <3>1. i - 1 \in Nat /\ loc[c].h + i - 1 = head[c] + (i - 1)
      BY <1>0, Numbers, WordNat
    <3>2. Slot(head[c] + (i - 1)) = Pos(H(c) + (i - 1))
      BY <1>0, <3>1, CounterSlots
    <3> QED BY <3>1, <3>2 DEF Cell
  <2>3. s = [i \in 1 .. k |-> queue[c][Slot(loc[c].h + i - 1)]]
    BY <1>5, <1>8, <2>1 DEF HalfOf
  <2> QED BY <2>2, <2>3
<1>10. H(c) \in Nat /\ T(c) \in Nat /\ \A i \in 1 .. k : H(c) + (i - 1) \in InRing(c)
  BY <1>0, <1>8, Numbers DEF InRing
<1>11. /\ s \in Seq(Threads) /\ Len(s) = k /\ Once(s)
  <2>1. \A i \in 1 .. k : Cell(c, H(c) + (i - 1)) \in Threads
    BY <1>0, <1>10 DEF FilledAt
  <2>2. s \in Seq(Threads) /\ Len(s) = k
    BY <1>8, <1>9, <2>1
  <2>3. ASSUME NEW i \in 1 .. k, NEW j \in 1 .. k, s[i] = s[j] PROVE i = j
    <3>1. H(c) + (i - 1) = H(c) + (j - 1)
      BY <1>0, <1>9, <1>10, <2>3 DEF FilledAt
    <3> QED BY <1>10, <3>1
  <2> QED BY <2>2, <2>3 DEF Once
<1>12. PICK X : X = Front(c, k)
  OBVIOUS
<1>13. Elements(s) = X
  <2>1. ASSUME NEW i \in 1 .. k PROVE s[i] \in X
    <3>1. H(c) + (i - 1) \in H(c) .. H(c) + k - 1
      BY <1>10
    <3> QED BY <1>9, <1>12, <3>1 DEF Front
  <2>2. ASSUME NEW j \in H(c) .. H(c) + k - 1 PROVE Cell(c, j) \in Elements(s)
    <3>1. j - H(c) + 1 \in 1 .. k /\ H(c) + ((j - H(c) + 1) - 1) = j
      BY <1>10
    <3>2. s[j - H(c) + 1] = Cell(c, j)
      BY <1>9, <3>1
    <3> QED BY <1>11, <3>1, <3>2 DEF Elements
  <2> QED BY <1>11, <1>12, <2>1, <2>2 DEF Elements, Front
<1>14. H(c)' = H(c) + k /\ T(c)' = T(c) /\ \A d \in Cpus \ {c} : head'[d] = head[d]
  BY <1>0, <1>2, <1>5, <1>8, <1>11, HeadMoves
<1>15. /\ X \subseteq Rung(c) /\ Rung(c)' = Rung(c) \ X /\ X \subseteq Threads
       /\ InRing(c)' \subseteq InRing(c) /\ \A i : Cell(c, i)' = Cell(c, i)
  <2>1. queue'[c] = queue[c]
    BY <1>2
  <2> QED BY <1>8, <1>12, <1>14, <2>1, RingLosesFront
<1>16. t \notin Rung(c)
  <2>1. t \in Mine("thread", c)
    BY <1>3, <1>4, MineValues, NoneApart
  <2>2. Mine("ring", c) = Rung(c)
    BY MineValues
  <2> QED BY <1>4, <2>1, <2>2, MineApart DEF Kinds
<1>17. Append(s, t) \in Seq(Threads) /\ Once(Append(s, t)) /\ Elements(Append(s, t)) = X \cup {t}
  BY <1>4, <1>11, <1>13, <1>15, <1>16, AppendOnce
<1>18. SharedFilled' /\ Keeps(c)
  BY <1>0, <1>2, PublicKept DEF SharedFilled
<1>19. InLoot(c)' = {} /\ InLoot(c) = {}
  BY <1>2, <1>6 DEF InLoot
<1>20. FilledAt(c)'
  BY <1>0, <1>6, <1>15, <1>17, <1>19 DEF FilledAt
<1>21. OneHolder(Held')
  <2>1. PICK g : g = [j \in Kinds |-> CASE j = "ring" -> Mine("ring", c) \ X
                                        [] j = "batch" -> Mine("batch", c) \cup X
                                        [] OTHER -> Mine(j, c)]
    OBVIOUS
  <2>2. /\ g["ring"] = Mine("ring", c) \ X /\ g["batch"] = Mine("batch", c) \cup X /\ g["thread"] = Mine("thread", c)
        /\ \A j \in Kinds \ {"ring", "batch"} : g[j] = Mine(j, c)
    BY <2>1 DEF Kinds
  <2>3. Mine("ring", c) = Rung(c) /\ Mine("batch", c) = {} /\ Mine("thread", c) = {t} /\ Mine("loot", c) = {}
    BY <1>3, <1>4, <1>19, NoneApart, EmptyOnce, MineValues DEF Loot
  <2>4. Mine("ring", c)' = Rung(c) \ X /\ Mine("batch", c)' = X \cup {t} /\ Mine("thread", c)' = {} /\ Mine("loot", c)' = {}
    BY <1>6, <1>15, <1>17, <1>19, MineValuesNext DEF Loot
  <2>5. \A j \in Kinds \ {"thread", "batch"} : Mine(j, c)' = g[j]
    <3>1. \A j \in Kinds \ {"ring", "thread", "batch"} : Mine(j, c)' = Mine(j, c)
      BY <1>2, <1>4, <1>6, <2>3, <2>4, MineKept DEF Kinds
    <3> QED BY <2>2, <2>3, <2>4, <3>1
  <2>6. /\ X \subseteq Mine("ring", c) /\ {t} \subseteq g["thread"]
        /\ Mine("thread", c)' = g["thread"] \ {t} /\ Mine("batch", c)' = g["batch"] \cup {t}
    BY <1>15, <2>2, <2>3, <2>4
  <2>7. "ring" \in Kinds /\ "batch" \in Kinds /\ "thread" \in Kinds /\ "ring" # "batch" /\ "thread" # "batch"
    BY DEF Kinds
  <2>8. GivesTo(c, "ring", "batch", X, g) /\ EndsWith(c, "thread", "batch", {t}, g)
    BY <2>2, <2>5, <2>6, <2>7 DEF GivesTo, EndsWith
  <2>9. \A d \in Cpus \ {c} : head'[d] = head[d] /\ next'[d] = next[d]
    BY <1>2, <1>14
  <2> QED BY <1>1, <1>18, <2>8, <2>9, PassesTwice
<1> QED BY <1>7, <1>18, <1>20, <1>21 DEF PlacesGoal

LEMMA StolenHands ==
    ASSUME PlacesInv, NEW c \in Cpus, Stolen(c), Observe
    PROVE  PlacesGoal(c)
<1>0. CountersInv /\ Typed /\ SharedFilled /\ HandInv(c) /\ FilledAt(c) /\ LocalInv(c)
  BY PlacesNumbers DEF CountersInv
<1>1. StepGoal(c) /\ Moves(c)
  BY <1>0, StolenStep DEF StepGoal
<1>2. pc[c] = "stolen" /\ UNCHANGED <<head, tail, queue, next, global, lock, waiting, dead>>
  BY DEF Stolen, rings
<1>3. PICK n \in Nat : n = loc[c].n - 1 /\ loc[c].n = n + 1 /\ loc[c].t = tail[c]
  BY <1>0, <1>2, LocalsTyped, Params DEF LocalInv, ThiefInv, ThiefPcs
<1>4. PICK t : t = Cell(c, T(c) + n)
  OBVIOUS
<1>5. queue[c][Slot(loc[c].t + (loc[c].n - 1))] = t
  <2>1. Slot(tail[c] + n) = Pos(T(c) + n)
    BY <1>0, <1>3, CounterSlots
  <2> QED BY <1>3, <1>4, <2>1 DEF Cell
<1>6. loc[c].thread = None /\ loc[c].found = None /\ loc[c].batch = << >> /\ lock # c /\ current[c] = None
  BY <1>0, <1>2 DEF HandInv, InGlobal, PutPcs
<1>7. T(c) \in Nat /\ H(c)' = H(c) /\ T(c)' = T(c) /\ \A k : Cell(c, k)' = Cell(c, k)
  BY <1>0, <1>2, Numbers DEF H, T, Cell
<1>8. InLoot(c) = T(c) .. T(c) + n /\ T(c) + n \in InLoot(c) /\ t \in Threads
  <2>1. InLoot(c) = T(c) .. T(c) + n /\ T(c) + n \in InLoot(c)
    BY <1>2, <1>3, <1>7 DEF InLoot
  <2> QED BY <1>0, <1>4, <2>1 DEF FilledAt
<1>9. \/ n = 0 /\ pc'[c] = "run" /\ loc'[c] = NoLocals /\ current' = [current EXCEPT ![c] = t]
      \/ /\ n # 0 /\ pc'[c] = "steal_publish" /\ loc'[c] = [loc[c] EXCEPT !.n = n, !.found = t]
         /\ current' = current
  BY <1>0, <1>3, <1>5 DEF Stolen, Execute, Goto, Set, Forget, Typed
<1>10. /\ loc'[c].thread = None /\ loc'[c].batch = << >> /\ \A d \in Cpus \ {c} : current'[d] = current[d]
       /\ \/ n = 0 /\ pc'[c] = "run" /\ loc'[c].found = None /\ current'[c] = t
          \/ n # 0 /\ pc'[c] = "steal_publish" /\ loc'[c].found = t /\ loc'[c].n = n /\ current'[c] = None
  <2>1. CASE n = 0
    BY <1>0, <1>6, <1>9, <2>1 DEF NoLocals, Typed, QueuesTyped
  <2>2. CASE n # 0
    <3>1. loc'[c] = [loc[c] EXCEPT !.n = n, !.found = t] /\ pc'[c] = "steal_publish" /\ current' = current
      BY <1>9, <2>2
    <3>2. /\ loc'[c].thread = loc[c].thread /\ loc'[c].batch = loc[c].batch
          /\ loc'[c].found = t /\ loc'[c].n = n
      BY <1>0, <3>1, LocalsTyped DEF Locals
    <3> QED BY <1>6, <2>2, <3>1, <3>2
  <2> QED BY <2>1, <2>2
<1>11. HandInv(c)' /\ CopyInv(c)'
  BY <1>2, <1>6, <1>8, <1>10, NoneApart DEF HandInv, CopyInv, InGlobal, PutPcs
<1>12. SharedFilled' /\ Keeps(c)
  BY <1>0, <1>2, <1>10, PublicKept DEF SharedFilled
<1>13. InRing(c)' = InRing(c) /\ InLoot(c)' = T(c) .. T(c) + n - 1
  <2>1. InRing(c)' = InRing(c)
    BY <1>7 DEF InRing
  <2>2. CASE n = 0
    BY <1>7, <1>10, <2>1, <2>2 DEF InLoot
  <2>3. CASE n # 0
    <3>1. InLoot(c)' = T(c)' .. T(c)' + loc'[c].n - 1
      BY <1>10, <2>3 DEF InLoot
    <3> QED BY <1>7, <1>10, <2>1, <2>3, <3>1
  <2> QED BY <2>2, <2>3
<1>14. InLoot(c)' = InLoot(c) \ {T(c) + n}
  <2>1. ASSUME NEW a \in Nat PROVE a .. a + n - 1 = (a .. a + n) \ {a + n}
    BY <1>3
  <2> QED BY <1>7, <1>8, <1>13, <2>1
<1>15. FilledAt(c)'
  BY <1>0, <1>7, <1>10, <1>13, <1>14, EmptyOnce DEF FilledAt
<1>16. Rung(c)' = Rung(c) /\ Loot(c)' = Loot(c) \ {t} /\ t \in Loot(c)
  <2>1. \A j, k \in InLoot(c) : Cell(c, j) = Cell(c, k) => j = k
    BY <1>0 DEF FilledAt
  <2> QED BY <1>4, <1>7, <1>8, <1>13, <1>14, <2>1 DEF Rung, Loot
<1>17. Mine("loot", c)' = Mine("loot", c) \ {t} /\ {t} \subseteq Mine("loot", c) /\ Mine("ring", c)' = Mine("ring", c)
  BY <1>16, MineValues, MineValuesNext
<1>18. CASE n = 0
  <2>1. Mine("current", c) = {} /\ Mine("current", c)' = {t}
    BY <1>6, <1>8, <1>10, <1>18, NoneApart, MineValues, MineValuesNext
  <2>2. \A k \in Kinds \ {"loot", "current"} : Mine(k, c)' = Mine(k, c)
    BY <1>2, <1>6, <1>10, <1>17, <1>18, MineKept DEF Kinds
  <2>3. Mine("current", c)' = Mine("current", c) \cup {t} /\ "loot" \in Kinds /\ "current" \in Kinds
    BY <2>1 DEF Kinds
  <2>4. OneHolder(Held')
    BY <1>1, <1>2, <1>12, <1>17, <2>2, <2>3, Passes
  <2> QED BY <1>11, <1>12, <1>15, <2>4 DEF PlacesGoal
<1>19. CASE n # 0
  <2>1. Mine("found", c) = {} /\ Mine("found", c)' = {t}
    BY <1>6, <1>8, <1>10, <1>19, NoneApart, MineValues, MineValuesNext
  <2>2. \A k \in Kinds \ {"loot", "found"} : Mine(k, c)' = Mine(k, c)
    BY <1>2, <1>6, <1>10, <1>17, <1>19, MineKept DEF Kinds
  <2>3. Mine("found", c)' = Mine("found", c) \cup {t} /\ "loot" \in Kinds /\ "found" \in Kinds
    BY <2>1 DEF Kinds
  <2>4. OneHolder(Held')
    BY <1>1, <1>2, <1>12, <1>17, <2>2, <2>3, Passes
  <2> QED BY <1>11, <1>12, <1>15, <2>4 DEF PlacesGoal
<1> QED BY <1>18, <1>19

LEMMA StealPublishHands ==
    ASSUME PlacesInv, NEW c \in Cpus, StealPublish(c), Observe
    PROVE  PlacesGoal(c)
<1>0. CountersInv /\ Typed /\ SharedFilled /\ HandInv(c) /\ FilledAt(c) /\ LocalInv(c)
  BY PlacesNumbers DEF CountersInv
<1>1. StepGoal(c) /\ Moves(c)
  BY <1>0, StealPublishStep DEF StepGoal
<1>2. /\ pc[c] = "steal_publish" /\ UNCHANGED <<head, queue, next, global, lock, waiting, dead>>
      /\ current' = [current EXCEPT ![c] = loc[c].found]
  BY DEF StealPublish, Execute
<1>3. PICK t : t = loc[c].found
  OBVIOUS
<1>4. t \in Threads /\ loc[c].thread = None /\ loc[c].batch = << >> /\ lock # c /\ current[c] = None
  BY <1>0, <1>2, <1>3, LocalsTyped DEF HandInv, InGlobal, PutPcs, ThreadOrNone
<1>5. pc'[c] = "run" /\ loc'[c].thread = None /\ loc'[c].found = None /\ loc'[c].batch = << >>
  BY <1>0 DEF StealPublish, Execute, Goto, Forget, NoLocals, Typed
<1>6. current'[c] = t /\ \A d \in Cpus \ {c} : current'[d] = current[d]
  BY <1>0, <1>2, <1>3 DEF Typed, QueuesTyped
<1>7. HandInv(c)' /\ CopyInv(c)'
  BY <1>2, <1>4, <1>5, <1>6, NoneApart DEF HandInv, CopyInv, InGlobal, PutPcs
<1>8. SharedFilled' /\ Keeps(c) /\ \A k : Cell(c, k)' = Cell(c, k)
  BY <1>0, <1>2, <1>6, PublicKept DEF SharedFilled
<1>9. PICK n \in Nat : n = loc[c].n /\ loc[c].t = tail[c] /\ tail[c] = head[c]
  BY <1>0, <1>2, LocalsTyped DEF LocalInv, ThiefInv, ThiefPcs, EmptyPcs
<1>10. T(c) \in Nat /\ T(c) = H(c) /\ T(c)' = T(c) + n /\ H(c)' = H(c)
  <2>1. Pending(c) = n
    BY <1>0, <1>2, <1>9, LocalsTyped, PendingValue DEF Pending, Labels
  <2>2. T(c) \in Nat /\ T(c) + n < Width
    BY <1>0, <1>9, <2>1, Numbers, Params
  <2>3. tail' = [tail EXCEPT ![c] = Plus(tail[c], n)]
    BY <1>9 DEF StealPublish
  <2>4. T(c)' = T(c) + n /\ H(c)' = H(c)
    BY <1>0, <1>2, <1>9, <2>2, <2>3, TailMoves
  <2> QED BY <1>9, <2>2, <2>4 DEF T, H
<1>11. InRing(c) = {} /\ InRing(c)' = InLoot(c) /\ InLoot(c)' = {}
  BY <1>2, <1>5, <1>9, <1>10 DEF InRing, InLoot
<1>12. FilledAt(c)'
  BY <1>0, <1>5, <1>8, <1>11, EmptyOnce DEF FilledAt
<1>13. Rung(c) = {} /\ Rung(c)' = Loot(c) /\ Loot(c)' = {}
  BY <1>8, <1>11 DEF Rung, Loot
<1>14. OneHolder(Held')
  <2>1. PICK g : g = [j \in Kinds |-> CASE j = "loot" -> Mine("loot", c) \ Loot(c)
                                        [] j = "ring" -> Mine("ring", c) \cup Loot(c)
                                        [] OTHER -> Mine(j, c)]
    OBVIOUS
  <2>2. /\ g["loot"] = Mine("loot", c) \ Loot(c) /\ g["ring"] = Mine("ring", c) \cup Loot(c)
        /\ g["found"] = Mine("found", c) /\ g["current"] = Mine("current", c)
        /\ \A j \in Kinds \ {"loot", "ring"} : g[j] = Mine(j, c)
    BY <2>1 DEF Kinds
  <2>3. Mine("ring", c) = {} /\ Mine("loot", c) = Loot(c) /\ Mine("found", c) = {t} /\ Mine("current", c) = {}
    BY <1>3, <1>4, <1>13, NoneApart, MineValues
  <2>4. Mine("ring", c)' = Loot(c) /\ Mine("loot", c)' = {} /\ Mine("found", c)' = {} /\ Mine("current", c)' = {t}
    BY <1>4, <1>5, <1>6, <1>13, NoneApart, MineValuesNext
  <2>5. \A j \in Kinds \ {"found", "current"} : Mine(j, c)' = g[j]
    <3>1. \A j \in Kinds \ {"loot", "ring", "found", "current"} : Mine(j, c)' = Mine(j, c)
      BY <1>2, <1>4, <1>5, MineKept DEF Kinds
    <3>2. Mine("loot", c)' = g["loot"] /\ Mine("ring", c)' = g["ring"]
      BY <2>2, <2>3, <2>4
    <3> QED BY <2>2, <3>1, <3>2
  <2>6. /\ Loot(c) \subseteq Mine("loot", c) /\ {t} \subseteq g["found"]
        /\ Mine("found", c)' = g["found"] \ {t} /\ Mine("current", c)' = g["current"] \cup {t}
    BY <2>2, <2>3, <2>4
  <2>7. /\ "loot" \in Kinds /\ "ring" \in Kinds /\ "found" \in Kinds /\ "current" \in Kinds
        /\ "loot" # "ring" /\ "found" # "current"
    BY DEF Kinds
  <2>8. GivesTo(c, "loot", "ring", Loot(c), g) /\ EndsWith(c, "found", "current", {t}, g)
    BY <2>2, <2>5, <2>6, <2>7 DEF GivesTo, EndsWith
  <2>9. \A d \in Cpus \ {c} : head'[d] = head[d] /\ next'[d] = next[d]
    BY <1>2
  <2> QED BY <1>1, <1>8, <2>8, <2>9, PassesTwice
<1> QED BY <1>7, <1>8, <1>12, <1>14 DEF PlacesGoal

LEMMA GrabNextCasTakesHands ==
    ASSUME PlacesInv, NEW c \in Cpus, next[loc[c].victim] = loc[c].next, GrabNextCas(c), Observe
    PROVE  PlacesGoal(c)
<1>0. CountersInv /\ Typed /\ SharedFilled /\ HandInv(c) /\ FilledAt(c) /\ LocalInv(c)
  BY PlacesNumbers DEF CountersInv
<1>1. StepGoal(c) /\ Moves(c)
  BY <1>0, GrabNextCasStep DEF StepGoal
<1>2. PICK w : w = loc[c].victim
  OBVIOUS
<1>3. PICK t : t = next[w]
  OBVIOUS
<1>4. /\ pc[c] = "grab_next_cas" /\ UNCHANGED <<head, tail, global, lock, current, waiting, dead>>
      /\ next' = [next EXCEPT ![w] = None] /\ queue' = [queue EXCEPT ![c][Slot(loc[c].t)] = t]
  BY <1>2, <1>3 DEF GrabNextCas
<1>5. w \in Cpus \ {c} /\ t \in Threads /\ loc[c].t = tail[c] /\ tail[c] = head[c]
  BY <1>0, <1>2, <1>3, <1>4, LocalsTyped DEF LocalInv, ThiefInv, HandInv, EmptyPcs, ThiefPcs, GrabPcs, ThreadOrNone
<1>6. loc[c].thread = None /\ loc[c].found = None /\ loc[c].batch = << >> /\ lock # c /\ current[c] = None
  BY <1>0, <1>4 DEF HandInv, InGlobal, PutPcs
<1>7. /\ pc'[c] = "stolen" /\ loc'[c].thread = None /\ loc'[c].found = None /\ loc'[c].batch = << >> /\ loc'[c].n = 1
  <2>1. pc'[c] = "stolen" /\ loc'[c] = [loc[c] EXCEPT !.n = 1]
    BY <1>0 DEF GrabNextCas, Goto, Set, Typed
  <2> QED BY <1>0, <1>6, <2>1, LocalsTyped DEF Locals
<1>8. T(c) \in Nat /\ T(c) = H(c) /\ T(c)' = T(c) /\ H(c)' = H(c)
  BY <1>0, <1>4, <1>5, Numbers DEF T, H
<1>9. queue'[c][Pos(T(c))] = t /\ \A d \in Cpus \ {c} : queue'[d] = queue[d]
  <2>1. 0 \in Nat /\ Slot(tail[c]) = Pos(T(c)) /\ Pos(T(c)) \in 0 .. RUN_QUEUE_LEN - 1
    BY <1>0, <1>8, CounterSlots, PosTyped
  <2>2. queue' = [queue EXCEPT ![c][Pos(T(c))] = t] /\ queue \in [Cpus -> [0 .. RUN_QUEUE_LEN - 1 -> ThreadOrNone]]
    BY <1>0, <1>4, <1>5, <2>1 DEF Typed, QueuesTyped
  <2> QED BY <2>1, <2>2
<1>10. InRing(c) = {} /\ InRing(c)' = {} /\ InLoot(c)' = {T(c)} /\ InLoot(c) = {}
  BY <1>4, <1>7, <1>8 DEF InRing, InLoot
<1>11. HandInv(c)' /\ CopyInv(c)'
  BY <1>4, <1>6, <1>7, NoneApart DEF HandInv, CopyInv, InGlobal, PutPcs
<1>12. SharedFilled' /\ Keeps(c)
  BY <1>0, <1>4, <1>9, <1>10 DEF SharedFilled, Keeps
<1>13. Cell(c, T(c))' = t /\ \A k \in InLoot(c)' : Cell(c, k)' = t /\ k = T(c)
  BY <1>8, <1>9, <1>10 DEF Cell
<1>14. FilledAt(c)'
  BY <1>5, <1>7, <1>10, <1>13, EmptyOnce DEF FilledAt
<1>15. Rung(c) = {} /\ Rung(c)' = {} /\ Loot(c)' = {t} /\ Loot(c) = {}
  BY <1>10, <1>13 DEF Rung, Loot
<1>16. next'[w] = None /\ \A d \in Cpus \ {w} : next'[d] = next[d]
  BY <1>0, <1>4, <1>5 DEF Typed, QueuesTyped
<1>17. OneHolder(Held')
  <2>1. \A k \in Kinds, d \in Cpus \ {c} : <<k, d>> # <<"next", w>> => HeldBy(k, d)' = HeldBy(k, d)
    BY <1>1, <1>4, <1>12, <1>16, OthersHold
  <2>2. \A k \in Kinds : k # "loot" => HeldBy(k, c)' = HeldBy(k, c)
    BY <1>4, <1>5, <1>6, <1>7, <1>15, <1>16, NoneApart DEF HeldBy, Kinds
  <2>3. \A k \in Kinds : HeldBy(k, None)' = HeldBy(k, None)
    BY <1>4, NoneApart DEF HeldBy, Kinds
  <2>4. HeldBy("loot", c)' = HeldBy("loot", c) \cup {t}
    BY <1>15, HeldValues, HeldValuesNext
  <2>5. HeldBy("next", w)' = HeldBy("next", w) \ {t} /\ {t} \subseteq HeldBy("next", w)
    BY <1>3, <1>5, <1>16, NoneApart, HeldValues, HeldValuesNext
  <2>6. PICK a \in Holders : a = <<"next", w>>
    BY <1>5 DEF Holders, Who, Kinds
  <2>7. PICK b \in Holders : b = <<"loot", c>>
    BY DEF Holders, Who, Kinds
  <2>8. \A h \in Holders \ {a, b} : Held'[h] = Held[h]
    <3>1. SUFFICES ASSUME NEW k \in Kinds, NEW d \in Who, <<k, d>> # a, <<k, d>> # b PROVE HeldBy(k, d)' = HeldBy(k, d)
      BY HeldAt
    <3>2. CASE d \in Cpus \ {c}
      BY <2>1, <2>6, <3>1, <3>2
    <3>3. CASE d = c
      BY <2>2, <2>7, <3>1, <3>3
    <3>4. CASE d = None
      BY <2>3, <3>4
    <3> QED BY <3>2, <3>3, <3>4 DEF Who
  <2>9. a # b /\ Held'[a] = Held[a] \ {t} /\ Held'[b] = Held[b] \cup {t} /\ {t} \subseteq Held[a]
    BY <1>5, <2>4, <2>5, <2>6, <2>7, HeldAt DEF Who, Kinds
  <2>10. OneHolder(Held)
    BY PlacesNumbers
  <2> QED BY <2>8, <2>9, <2>10, Handed
<1> QED BY <1>11, <1>12, <1>14, <1>17 DEF PlacesGoal

LEMMA GrabCasTakesHands ==
    ASSUME PlacesInv, NEW c \in Cpus, head[loc[c].victim] = loc[c].h, GrabCas(c), Observe
    PROVE  PlacesGoal(c)
<1>0. CountersInv /\ Typed /\ SharedFilled /\ HandInv(c) /\ FilledAt(c) /\ LocalInv(c) /\ CopyInv(c)
  BY PlacesNumbers DEF CountersInv
<1>1. StepGoal(c) /\ Moves(c)
  BY <1>0, GrabCasTakes DEF StepGoal
<1>2. PICK w : w = loc[c].victim
  OBVIOUS
<1>3. PICK n : n = loc[c].n
  OBVIOUS
<1>4. /\ pc[c] = "grab_cas" /\ UNCHANGED <<tail, queue, next, global, lock, current, waiting, dead, loc>>
      /\ head' = [head EXCEPT ![w] = Plus(head[w], n)]
  BY <1>2, <1>3 DEF GrabCas
<1>5. /\ w \in Cpus \ {c} /\ n \in Nat /\ H(w) + n <= T(w) /\ tail[c] = head[c]
      /\ loc[c].i = n /\ U(loc[c].h) = H(w)
  BY <1>0, <1>2, <1>3, <1>4, LocalsTyped DEF LocalInv, ThiefInv, CopyInv, EmptyPcs, ThiefPcs, GrabPcs, H
<1>6. loc[c].thread = None /\ loc[c].found = None /\ loc[c].batch = << >> /\ lock # c /\ current[c] = None
  BY <1>0, <1>4 DEF HandInv, InGlobal, PutPcs
<1>7. pc'[c] = "stolen"
  BY <1>0 DEF GrabCas, Goto, Typed
<1>8. H(w)' = H(w) + n /\ T(w)' = T(w) /\ T(c)' = T(c) /\ \A d \in Cpus \ {w} : head'[d] = head[d] /\ H(d)' = H(d)
  BY <1>0, <1>4, <1>5, HeadMoves
<1>9. T(c) \in Nat /\ T(c) = H(c) /\ H(c)' = H(c) /\ H(w) \in Nat
  BY <1>0, <1>5, <1>8, Numbers DEF T, H
<1>10. InRing(c) = {} /\ InRing(c)' = {} /\ InLoot(c)' = T(c) .. T(c) + n - 1 /\ InLoot(c) = {}
  <2>1. InRing(c) = {} /\ InRing(c)' = {} /\ InLoot(c) = {}
    BY <1>4, <1>8, <1>9 DEF InRing, InLoot
  <2> QED BY <1>3, <1>4, <1>7, <1>8, <2>1 DEF InLoot
<1>11. HandInv(c)' /\ CopyInv(c)'
  BY <1>4, <1>6, <1>7, NoneApart DEF HandInv, CopyInv, InGlobal, PutPcs
<1>12. SharedFilled' /\ Keeps(c) /\ \A d, k : Cell(d, k)' = Cell(d, k)
  BY <1>0, <1>4, PublicKept DEF SharedFilled
<1>13. \A j \in 0 .. n - 1 : Cell(c, T(c) + j) = Cell(w, H(w) + j)
  BY <1>0, <1>2, <1>3, <1>4, <1>5 DEF CopyInv
<1>14. PICK X : X = Front(w, n)
  OBVIOUS
<1>15. X \subseteq Rung(w) /\ Rung(w)' = Rung(w) \ X /\ X \subseteq Threads
  <2>1. queue'[w] = queue[w]
    BY <1>4
  <2> QED BY <1>5, <1>8, <1>14, <2>1, RingLosesFront
<1>16. \A k \in InLoot(c)' : Cell(c, k) = Cell(w, H(w) + (k - T(c))) /\ H(w) + (k - T(c)) \in H(w) .. H(w) + n - 1
  <2>1. SUFFICES ASSUME NEW k \in T(c) .. T(c) + n - 1
                 PROVE  Cell(c, k) = Cell(w, H(w) + (k - T(c))) /\ H(w) + (k - T(c)) \in H(w) .. H(w) + n - 1
    BY <1>10
  <2>2. PICK j \in 0 .. n - 1 : k = T(c) + j /\ j = k - T(c)
    <3>1. k - T(c) \in 0 .. n - 1 /\ k = T(c) + (k - T(c))
      BY <1>5, <1>9
    <3> QED BY <3>1
  <2>3. Cell(c, T(c) + j) = Cell(w, H(w) + j)
    BY <1>13
  <2> QED BY <1>5, <1>9, <2>2, <2>3
<1>17. Loot(c)' = X
  <2>1. Loot(c)' = {Cell(c, k) : k \in InLoot(c)'}
    BY <1>12 DEF Loot
  <2>2. ASSUME NEW i \in H(w) .. H(w) + n - 1 PROVE Cell(w, i) \in Loot(c)'
    <3>1. PICK j \in 0 .. n - 1 : i = H(w) + j
      <4>1. i - H(w) \in 0 .. n - 1 /\ i = H(w) + (i - H(w))
        BY <1>5, <1>9
      <4> QED BY <4>1
    <3>2. T(c) + j \in InLoot(c)'
      BY <1>5, <1>9, <1>10
    <3> QED BY <1>13, <2>1, <3>1, <3>2
  <2> QED BY <1>14, <1>16, <2>1, <2>2 DEF Front
<1>18. FilledAt(c)'
  <2>1. \A i, j \in InRing(w) : Cell(w, i) = Cell(w, j) => i = j
    BY <1>5, PlacesNumbers DEF FilledAt
  <2>2. H(w) .. H(w) + n - 1 \subseteq InRing(w)
    BY <1>0, <1>5, <1>9, Numbers DEF InRing
  <2>3. ASSUME NEW j \in InLoot(c)', NEW k \in InLoot(c)', Cell(c, j) = Cell(c, k) PROVE j = k
    <3>1. H(w) + (j - T(c)) = H(w) + (k - T(c))
      BY <1>16, <2>1, <2>2, <2>3
    <3> QED BY <1>9, <1>10, <3>1
  <2>4. \A k \in InLoot(c)' : Cell(c, k) \in Threads
    BY <1>12, <1>15, <1>17 DEF Loot
  <2> QED BY <1>4, <1>6, <1>10, <1>12, <2>3, <2>4, EmptyOnce DEF FilledAt
<1>19. Rung(c) = {} /\ Rung(c)' = {} /\ Loot(c) = {}
  BY <1>10 DEF Rung, Loot
<1>20. OneHolder(Held')
  <2>1. \A k \in Kinds, d \in Cpus \ {c} : <<k, d>> # <<"ring", w>> => HeldBy(k, d)' = HeldBy(k, d)
    BY <1>1, <1>4, <1>8, <1>12, OthersHold
  <2>2. \A k \in Kinds : k # "loot" => HeldBy(k, c)' = HeldBy(k, c)
    BY <1>4, <1>6, <1>7, <1>19, NoneApart DEF HeldBy, Kinds
  <2>3. \A k \in Kinds : HeldBy(k, None)' = HeldBy(k, None)
    BY <1>4, NoneApart DEF HeldBy, Kinds
  <2>4. HeldBy("loot", c)' = HeldBy("loot", c) \cup X
    BY <1>17, <1>19, HeldValues, HeldValuesNext
  <2>5. HeldBy("ring", w)' = HeldBy("ring", w) \ X /\ X \subseteq HeldBy("ring", w)
    BY <1>5, <1>15, HeldValues, HeldValuesNext
  <2>6. PICK a \in Holders : a = <<"ring", w>>
    BY <1>5 DEF Holders, Who, Kinds
  <2>7. PICK b \in Holders : b = <<"loot", c>>
    BY DEF Holders, Who, Kinds
  <2>8. \A h \in Holders \ {a, b} : Held'[h] = Held[h]
    <3>1. SUFFICES ASSUME NEW k \in Kinds, NEW d \in Who, <<k, d>> # a, <<k, d>> # b PROVE HeldBy(k, d)' = HeldBy(k, d)
      BY HeldAt
    <3>2. CASE d \in Cpus \ {c}
      BY <2>1, <2>6, <3>1, <3>2
    <3>3. CASE d = c
      BY <2>2, <2>7, <3>1, <3>3
    <3>4. CASE d = None
      BY <2>3, <3>4
    <3> QED BY <3>2, <3>3, <3>4 DEF Who
  <2>9. a # b /\ Held'[a] = Held[a] \ X /\ Held'[b] = Held[b] \cup X /\ X \subseteq Held[a]
    BY <1>5, <2>4, <2>5, <2>6, <2>7, HeldAt DEF Who, Kinds
  <2>10. OneHolder(Held)
    BY PlacesNumbers
  <2> QED BY <2>8, <2>9, <2>10, Handed
<1> QED BY <1>11, <1>12, <1>18, <1>20 DEF PlacesGoal

----------------------------------------------------------------------------
LEMMA CpuHands ==
    ASSUME PlacesInv, NEW c \in Cpus, CpuStep(c), Observe
    PROVE  PlacesGoal(c)
<1>1. CASE PutSlow(c)
  BY <1>1, PutSlowTakesHands, PutSlowFailsHands
<1>2. CASE GetCas(c)
  BY <1>2, GetCasTakesHands, GetCasFailsHands
<1>3. CASE GrabCas(c)
  BY <1>3, GrabCasTakesHands, GrabCasFailsHands
<1>4. CASE GrabNextCas(c)
  BY <1>4, GrabNextCasTakesHands, GrabNextCasFailsHands
<1>5. CASE GetNext(c)
  BY <1>5, GetNextTakesHands, GetNextEmptyHands
<1>6. CASE GlobalRest(c)
  BY <1>6, GlobalRestEndsHands, GlobalRestPutsHands
<1>7. CASE Yield(c) \/ Park(c) \/ Drop(c) \/ \E t \in Threads : Ready(c, t) \/ TimerReady(c, t)
  BY <1>7, YieldHands, ParkHands, DropHands, ReadyHands, TimerReadyHands
<1>8. CASE PutLoad(c) \/ PutWrite(c) \/ PutPublish(c) \/ PutGlobal(c) \/ GetLoad(c)
  BY <1>8, PutLoadHands, PutWriteHands, PutPublishHands, PutGlobalHands, GetLoadHands
<1>9. CASE GlobalTick(c) \/ GlobalGet(c)
  BY <1>9, GlobalTickHands, GlobalGetHands
<1>10. CASE \E v \in Cpus : (\E steal_next \in BOOLEAN : Steal(c, v, steal_next)) \/ EmptyCall(c, v)
  BY <1>10, StealHands, EmptyCallHands
<1>11. CASE GrabHead(c) \/ GrabTail(c) \/ GrabNext(c) \/ GrabCopy(c)
  BY <1>11, GrabHeadHands, GrabTailHands, GrabNextHands, GrabCopyHands
<1>12. CASE Stolen(c) \/ StealPublish(c) \/ StealFail(c)
  BY <1>12, StolenHands, StealPublishHands, StealFailHands
<1>13. CASE EmptyHead(c) \/ EmptyTail(c) \/ EmptyNext(c) \/ EmptyCheck(c) \/ Halt(c)
  BY <1>13, EmptyHeadHands, EmptyTailHands, EmptyNextHands, EmptyCheckHands, HaltHands
<1> QED BY <1>1, <1>2, <1>3, <1>4, <1>5, <1>6, <1>7, <1>8, <1>9, <1>10, <1>11, <1>12, <1>13 DEF CpuStep

LEMMA PlacesNext ==
    ASSUME PlacesInv, [Next]_vars
    PROVE  PlacesInv'
<1>0. CountersInv
  BY DEF PlacesInv
<1>1. CASE Next
  <2>1. PICK c \in Cpus : CpuStep(c)
    BY <1>1 DEF Next
  <2>2. Observe
    BY <1>1 DEF Next
  <2>3. SharedFilled' /\ Keeps(c) /\ HandInv(c)' /\ CopyInv(c)' /\ FilledAt(c)' /\ OneHolder(Held')
    BY <2>1, <2>2, CpuHands DEF PlacesGoal
  <2>4. Typed' /\ RingInv' /\ Moves(c)
    BY <1>0, <2>1, <2>2, CpuSteps DEF StepGoal
  <2>5. \A d \in Cpus \ {c} : HandInv(d)' /\ CopyInv(d)' /\ FilledAt(d)'
    BY <2>3, <2>4, OthersHands
  <2>6. CountersInv'
    BY <1>0, CountersNext
  <2> QED BY <2>3, <2>5, <2>6 DEF PlacesInv
<1>2. CASE UNCHANGED vars
  <2>1. CountersInv'
    BY <1>0, CountersNext
  <2>2. SharedFilled' /\ \A c \in Cpus : HandInv(c)' /\ CopyInv(c)' /\ FilledAt(c)'
    BY <1>2, PlacesNumbers DEF vars, PlacesInv, SharedFilled, HandInv, InGlobal, CopyInv, FilledAt, InRing, InLoot, Cell, H, T
  <2>3. \A k \in Kinds, d \in Who : HeldBy(k, d)' = HeldBy(k, d)
    BY <1>2 DEF vars, HeldBy, Rung, Loot, InRing, InLoot, Cell, H, T
  <2>4. \A h \in Holders : Held'[h] = Held[h]
    BY <2>3, HeldAt
  <2>5. OneHolder(Held')
    BY <2>4 DEF OneHolder, PlacesInv
  <2> QED BY <2>1, <2>2, <2>5 DEF PlacesInv
<1> QED BY <1>1, <1>2

----------------------------------------------------------------------------
\* The entry that Init writes at position k of a ring.
LEMMA FirstSlots ==
    ASSUME NEW k \in 0 .. RUN_QUEUE_LEN - 1
    PROVE  (Pos(k) - Start) % RUN_QUEUE_LEN = k
<1>1. PICK n : n = RUN_QUEUE_LEN
  OBVIOUS
<1>2. n \in Nat /\ n > 0 /\ k \in 0 .. n - 1 /\ Start \in Nat /\ Start + k \in Nat
  BY <1>1, Params, WordNat
<1>3. PICK d : d = (Start + k) \div n
  OBVIOUS
<1>4. PICK r : r = (Start + k) % n
  OBVIOUS
<1>5. d \in Nat /\ r \in 0 .. n - 1 /\ Start + k = n * d + r
  <2>1. PICK a \in Nat : a = Start + k
    BY <1>2
  <2>2. a \div n \in Nat /\ a % n \in 0 .. n - 1 /\ a = n * (a \div n) + (a % n)
    BY <1>2, Remainder
  <2> QED BY <1>3, <1>4, <2>1, <2>2
<1>6. PICK b \in Int : b = r - Start
  BY <1>2, <1>5
<1>7. PICK e \in Int : b = n * e + (b % n) /\ b % n \in 0 .. n - 1
  <2>1. b \div n \in Int /\ b = n * (b \div n) + (b % n) /\ b % n \in 0 .. n - 1
    BY <1>2
  <2> QED BY <2>1
<1>8. PICK f \in Int : f = - d
  BY <1>5
<1>9. n * f + k = n * e + (b % n)
  <2>1. n * f = - (n * d)
    BY <1>2, <1>5, <1>8
  <2>2. n * d \in Int
    BY <1>2, <1>5
  <2> QED BY <1>2, <1>5, <1>6, <1>7, <2>1, <2>2
<1>10. k = b % n
  <2>1. PICK s \in 0 .. n - 1 : s = b % n
    BY <1>7
  <2>2. n * f + k = n * e + s => f = e /\ k = s
    BY <1>2, <1>7, <1>8, <2>1, SameRemainder
  <2> QED BY <1>9, <2>1, <2>2
<1> QED BY <1>1, <1>4, <1>6, <1>10 DEF Pos, Slot

LEMMA SeatsIn ==
    ASSUME NEW p, NEW x
    PROVE  x \in Seats(p) <=>
               \/ \E c \in Cpus : \/ \E i \in DOMAIN p.ring[c] : x = <<"ring", c, i, p.ring[c][i]>>
                                  \/ x = <<"next", c, 0, p.next[c]>> \/ x = <<"current", c, 0, p.current[c]>>
               \/ \E i \in DOMAIN p.global : x = <<"global", None, i, p.global[i]>>
               \/ \E t \in p.waiting : x = <<"waiting", None, 0, t>>
<1> DEFINE R(c) == {<<"ring", c, i, p.ring[c][i]>> : i \in DOMAIN p.ring[c]}
           N(c) == {<<"next", c, 0, p.next[c]>>, <<"current", c, 0, p.current[c]>>}
           G == {<<"global", None, i, p.global[i]>> : i \in DOMAIN p.global}
           W == {<<"waiting", None, 0, t>> : t \in p.waiting}
<1>0. x \in UNION {SeatsAt(p, c) : c \in Cpus} <=> \E c \in Cpus : x \in SeatsAt(p, c)
  OBVIOUS
<1>1. x \in Seats(p) <=> x \in UNION {SeatsAt(p, c) : c \in Cpus} \/ x \in G \/ x \in W
  BY Zenon DEF Seats
<1>2. ASSUME NEW c PROVE x \in R(c) <=> \E i \in DOMAIN p.ring[c] : x = <<"ring", c, i, p.ring[c][i]>>
  BY Zenon
<1>3. ASSUME NEW c PROVE x \in N(c) <=> x = <<"next", c, 0, p.next[c]>> \/ x = <<"current", c, 0, p.current[c]>>
  BY Zenon
<1>4. x \in G <=> \E i \in DOMAIN p.global : x = <<"global", None, i, p.global[i]>>
  BY Zenon
<1>5. x \in W <=> \E t \in p.waiting : x = <<"waiting", None, 0, t>>
  BY Zenon
<1>6. ASSUME NEW c PROVE SeatsAt(p, c) = R(c) \cup N(c)
  BY DEF SeatsAt
<1> HIDE DEF R, N, G, W
<1>7. x \in Seats(p) <=> (\E c \in Cpus : x \in R(c) \/ x \in N(c)) \/ x \in G \/ x \in W
  BY <1>0, <1>1, <1>6
<1>8. (\E c \in Cpus : x \in R(c) \/ x \in N(c)) <=>
          \E c \in Cpus : \/ \E i \in DOMAIN p.ring[c] : x = <<"ring", c, i, p.ring[c][i]>>
                         \/ x = <<"next", c, 0, p.next[c]>> \/ x = <<"current", c, 0, p.current[c]>>
  BY <1>2, <1>3, Zenon
<1> QED BY <1>4, <1>5, <1>7, <1>8, Zenon

LEMMA PlacesInit == Init => PlacesInv
<1> SUFFICES ASSUME Init PROVE PlacesInv
  OBVIOUS
<1>0. CountersInv
  BY CountersInit
<1>1. PICK p \in Placements : InitAt(p)
  BY DEF Init
<1>2. /\ p.ring \in [Cpus -> Seq(Threads)] /\ \A c \in Cpus : Len(p.ring[c]) <= RUN_QUEUE_LEN
      /\ p.next \in [Cpus -> ThreadOrNone] /\ p.current \in [Cpus -> Threads]
      /\ p.global \in Seq(Threads) /\ p.waiting \subseteq Threads
      /\ \A x, y \in Seats(p) : x[4] = y[4] /\ x[4] # None => x = y
  BY RunQueueAssumption DEF ThreadOrNone
<1>3. \A c \in Cpus : /\ p.ring[c] \in Seq(Threads) /\ Len(p.ring[c]) \in Nat /\ Len(p.ring[c]) <= RUN_QUEUE_LEN
                      /\ DOMAIN p.ring[c] = 1 .. Len(p.ring[c])
  BY <1>2
<1>4. \A c \in Cpus : H(c) = 0 /\ T(c) = Len(p.ring[c])
  <2>1. SUFFICES ASSUME NEW c \in Cpus PROVE H(c) = 0 /\ T(c) = Len(p.ring[c])
    OBVIOUS
  <2>2. head[c] = Start /\ tail[c] = Plus(Start, Len(p.ring[c]))
    BY <1>1 DEF Init, InitAt
  <2>3. Start \in Words /\ U(Start) = 0 /\ U(Start) + Len(p.ring[c]) < Width
    BY <1>3, Params, Distances
  <2> QED BY <1>3, <2>2, <2>3, Distances DEF H, T
<1>5. \A c \in Cpus : /\ pc[c] = "run" /\ loc[c].thread = None /\ loc[c].found = None /\ loc[c].batch = << >> /\ lock = None
                      /\ current[c] = p.current[c] /\ current[c] \in Threads /\ next[c] = p.next[c]
  BY <1>1, <1>2 DEF Init, InitAt, NoLocals
<1>6. \A c \in Cpus : InRing(c) = 0 .. Len(p.ring[c]) - 1 /\ InLoot(c) = {}
  BY <1>4, <1>5 DEF InRing, InLoot
<1>7. \A c \in Cpus : \A k \in InRing(c) : k + 1 \in 1 .. Len(p.ring[c]) /\ Cell(c, k) = p.ring[c][k + 1]
  <2>1. SUFFICES ASSUME NEW c \in Cpus, NEW k \in 0 .. Len(p.ring[c]) - 1
                 PROVE  k + 1 \in 1 .. Len(p.ring[c]) /\ Cell(c, k) = p.ring[c][k + 1]
    BY <1>6
  <2>2. k \in 0 .. RUN_QUEUE_LEN - 1 /\ k \in Nat /\ 1 + k = k + 1 /\ k + 1 <= Len(p.ring[c]) /\ k + 1 \in 1 .. Len(p.ring[c])
    BY <1>3, Params
  <2>3. (Pos(k) - Start) % RUN_QUEUE_LEN = k /\ Pos(k) \in 0 .. RUN_QUEUE_LEN - 1
    BY <2>2, FirstSlots, PosTyped
  <2>4. queue[c][Pos(k)] = IF 1 + ((Pos(k) - Start) % RUN_QUEUE_LEN) <= Len(p.ring[c])
                           THEN p.ring[c][1 + ((Pos(k) - Start) % RUN_QUEUE_LEN)] ELSE None
    BY <1>1, <2>3 DEF InitAt
  <2> QED BY <2>2, <2>3, <2>4 DEF Cell
<1>8. \A c \in Cpus : HandInv(c) /\ CopyInv(c)
  BY <1>5, NoneApart DEF HandInv, CopyInv, InGlobal, PutPcs
<1>9. \A c \in Cpus : FilledAt(c)
  <2>1. SUFFICES ASSUME NEW c \in Cpus PROVE FilledAt(c)
    OBVIOUS
  <2>2. \A k \in InRing(c) : Cell(c, k) \in Threads
    BY <1>3, <1>7
  <2>3. ASSUME NEW j \in InRing(c), NEW k \in InRing(c), Cell(c, j) = Cell(c, k) PROVE j = k
    <3>1. PICK x : x = <<"ring", c, j + 1, p.ring[c][j + 1]>>
      OBVIOUS
    <3>2. PICK y : y = <<"ring", c, k + 1, p.ring[c][k + 1]>>
      OBVIOUS
    <3>3. x \in Seats(p) /\ y \in Seats(p)
      BY <1>3, <1>7, <3>1, <3>2, SeatsIn
    <3>4. x[4] = y[4] /\ x[4] # None /\ x[3] = j + 1 /\ y[3] = k + 1
      BY <1>7, <2>2, <2>3, <3>1, <3>2, NoneApart
    <3>5. j + 1 = k + 1
      BY <1>2, <3>3, <3>4
    <3>6. j \in Int /\ k \in Int
      BY <1>6
    <3> QED BY <3>5, <3>6
  <2> QED BY <1>5, <1>6, <2>2, <2>3, EmptyOnce DEF FilledAt
<1>10. SharedFilled
  <2>1. global = p.global /\ waiting = p.waiting /\ dead = Threads \ Placed(p)
    BY <1>1 DEF InitAt
  <2>2. ASSUME NEW i \in 1 .. Len(global), NEW j \in 1 .. Len(global), global[i] = global[j] PROVE i = j
    <3>1. PICK x : x = <<"global", None, i, p.global[i]>>
      OBVIOUS
    <3>2. PICK y : y = <<"global", None, j, p.global[j]>>
      OBVIOUS
    <3>3. x \in Seats(p) /\ y \in Seats(p)
      BY <1>2, <2>1, <3>1, <3>2, SeatsIn
    <3>4. x[4] = y[4] /\ x[4] # None /\ x[3] = i /\ y[3] = j
      BY <1>2, <2>1, <2>2, <3>1, <3>2, NoneApart
    <3> QED BY <1>2, <3>3, <3>4
  <2> QED BY <1>2, <2>1, <2>2 DEF SharedFilled, Once
<1>11. ASSUME NEW t \in Threads, NEW k \in Kinds, NEW d \in Who
       PROVE  t \in HeldBy(k, d) <=> \/ k = "dead" /\ d = None /\ t \notin Placed(p)
                                     \/ \E x \in Seats(p) : x[1] = k /\ x[2] = d /\ x[4] = t
  <2>1. global = p.global /\ waiting = p.waiting /\ dead = Threads \ Placed(p)
    BY <1>1 DEF InitAt
  <2>2. t # None
    BY NoneApart
  <2>3. CASE d = None
    <3>1. HeldBy(k, None) = CASE k = "waiting" -> p.waiting [] k = "dead" -> dead [] k = "global" -> Elements(p.global) [] OTHER -> {}
      BY <2>1 DEF HeldBy
    <3>2. (\E x \in Seats(p) : x[1] = k /\ x[2] = None /\ x[4] = t) <=>
              (k = "waiting" /\ t \in p.waiting) \/ (k = "global" /\ t \in Elements(p.global))
      <4>1. ASSUME NEW x \in Seats(p), x[1] = k, x[2] = None, x[4] = t
            PROVE  (k = "waiting" /\ t \in p.waiting) \/ (k = "global" /\ t \in Elements(p.global))
        BY <1>2, <4>1, SeatsIn, NoneApart DEF Elements
      <4>2. ASSUME k = "waiting", t \in p.waiting PROVE \E x \in Seats(p) : x[1] = k /\ x[2] = None /\ x[4] = t
        <5>1. PICK x : x = <<"waiting", None, 0, t>>
          OBVIOUS
        <5> QED BY <4>2, <5>1, SeatsIn
      <4>3. ASSUME k = "global", t \in Elements(p.global) PROVE \E x \in Seats(p) : x[1] = k /\ x[2] = None /\ x[4] = t
        <5>1. PICK i \in 1 .. Len(p.global) : t = p.global[i]
          BY <4>3 DEF Elements
        <5>2. PICK x : x = <<"global", None, i, p.global[i]>>
          OBVIOUS
        <5>3. x \in Seats(p)
          BY <1>2, <5>1, <5>2, SeatsIn
        <5> QED BY <4>3, <5>1, <5>2, <5>3
      <4> QED BY <4>1, <4>2, <4>3
    <3> QED BY <2>1, <2>3, <3>1, <3>2
  <2>4. CASE d \in Cpus
    <3>1. /\ HeldBy("ring", d) = Rung(d) /\ HeldBy("loot", d) = {} /\ HeldBy("batch", d) = {}
          /\ HeldBy("next", d) = {p.next[d]} \ {None} /\ HeldBy("current", d) = {p.current[d]} \ {None}
          /\ HeldBy("thread", d) = {} /\ HeldBy("found", d) = {}
          /\ HeldBy("waiting", d) = {} /\ HeldBy("dead", d) = {} /\ HeldBy("global", d) = {}
      BY <1>5, <1>6, <2>4, HeldValues, EmptyOnce DEF Loot
    <3>2. t \in Rung(d) <=> \E i \in DOMAIN p.ring[d] : t = p.ring[d][i]
      <4>1. ASSUME t \in Rung(d) PROVE \E i \in DOMAIN p.ring[d] : t = p.ring[d][i]
        BY <1>3, <1>7, <2>4, <4>1 DEF Rung
      <4>2. ASSUME NEW i \in DOMAIN p.ring[d], t = p.ring[d][i] PROVE t \in Rung(d)
        <5>1. i - 1 \in InRing(d) /\ (i - 1) + 1 = i
          BY <1>3, <1>6, <2>4
        <5>2. Cell(d, i - 1) = p.ring[d][(i - 1) + 1]
          BY <1>7, <2>4, <5>1
        <5> QED BY <4>2, <5>1, <5>2 DEF Rung
      <4> QED BY <4>1, <4>2
    <3>3. (\E x \in Seats(p) : x[1] = k /\ x[2] = d /\ x[4] = t) <=>
              \/ k = "ring" /\ \E i \in DOMAIN p.ring[d] : t = p.ring[d][i]
              \/ k = "next" /\ t = p.next[d]
              \/ k = "current" /\ t = p.current[d]
      <4>1. ASSUME NEW x \in Seats(p), x[1] = k, x[2] = d, x[4] = t
            PROVE  \/ k = "ring" /\ \E i \in DOMAIN p.ring[d] : t = p.ring[d][i]
                   \/ k = "next" /\ t = p.next[d]
                   \/ k = "current" /\ t = p.current[d]
        BY <2>4, <4>1, SeatsIn, NoneApart
      <4>2. ASSUME k = "ring", NEW i \in DOMAIN p.ring[d], t = p.ring[d][i]
            PROVE  \E x \in Seats(p) : x[1] = k /\ x[2] = d /\ x[4] = t
        <5>1. PICK x : x = <<"ring", d, i, p.ring[d][i]>>
          OBVIOUS
        <5>2. x \in Seats(p)
          BY <2>4, <5>1, SeatsIn
        <5> QED BY <4>2, <5>1, <5>2
      <4>3. ASSUME k = "next", t = p.next[d] PROVE \E x \in Seats(p) : x[1] = k /\ x[2] = d /\ x[4] = t
        <5>1. PICK x : x = <<"next", d, 0, p.next[d]>>
          OBVIOUS
        <5>2. x \in Seats(p)
          BY <2>4, <5>1, SeatsIn
        <5> QED BY <4>3, <5>1, <5>2
      <4>4. ASSUME k = "current", t = p.current[d] PROVE \E x \in Seats(p) : x[1] = k /\ x[2] = d /\ x[4] = t
        <5>1. PICK x : x = <<"current", d, 0, p.current[d]>>
          OBVIOUS
        <5>2. x \in Seats(p)
          BY <2>4, <5>1, SeatsIn
        <5> QED BY <4>4, <5>1, <5>2
      <4> QED BY <4>1, <4>2, <4>3, <4>4
    <3> QED BY <2>2, <2>4, <3>1, <3>2, <3>3, NoneApart DEF Kinds
  <2> QED BY <2>3, <2>4 DEF Who
<1>12. OneHolder(Held)
  <2>1. SUFFICES ASSUME NEW t \in Threads
                 PROVE  \E h \in Holders : t \in Held[h] /\ \A g \in Holders : t \in Held[g] => g = h
    BY DEF OneHolder
  <2>2. CASE t \notin Placed(p)
    <3>1. \A x \in Seats(p) : x[4] # t
      BY <2>2 DEF Placed
    <3>2. \A k \in Kinds, d \in Who : t \in HeldBy(k, d) <=> k = "dead" /\ d = None
      BY <1>11, <2>2, <3>1
    <3>3. PICK h \in Holders : h = <<"dead", None>>
      BY DEF Holders, Kinds, Who
    <3>4. t \in Held[h]
      BY <3>2, <3>3, HeldAt DEF Kinds, Who
    <3>5. \A g \in Holders : t \in Held[g] => g = h
      BY <3>2, <3>3, HeldAt
    <3> QED BY <3>4, <3>5
  <2>3. CASE t \in Placed(p)
    <3>1. PICK x \in Seats(p) : x[4] = t
      BY <2>3 DEF Placed
    <3>2. PICK h : h = <<x[1], x[2]>>
      OBVIOUS
    <3>3. x[1] \in Kinds /\ x[2] \in Who /\ h \in Holders
      BY <3>1, <3>2, SeatsIn DEF Kinds, Who, Holders
    <3>4. t \in Held[h]
      BY <1>11, <3>1, <3>2, <3>3, HeldAt
    <3>5. ASSUME NEW g \in Holders, t \in Held[g] PROVE g = h
      <4>1. PICK k \in Kinds, d \in Who : g = <<k, d>>
        BY HeldAt
      <4>2. t \in HeldBy(k, d)
        BY <3>5, <4>1, HeldAt
      <4>3. PICK y \in Seats(p) : y[1] = k /\ y[2] = d /\ y[4] = t
        BY <1>11, <2>3, <4>2
      <4>4. x = y
        BY <1>2, <3>1, <4>3, NoneApart
      <4> QED BY <3>2, <4>1, <4>3, <4>4
    <3> QED BY <3>3, <3>4, <3>5
  <2> QED BY <2>2, <2>3
<1> QED BY <1>0, <1>8, <1>9, <1>10, <1>12 DEF PlacesInv

----------------------------------------------------------------------------
\* The place x of thread t is one of holder k of d.
InPlace(t, x, k, d) ==
    \/ k \in {"waiting", "dead"} /\ d = None /\ x = <<k>>
    \/ k = "global" /\ d = None /\ \E i \in 1 .. Len(global) : global[i] = t /\ x = <<"global", i>>
    \/ k = "ring" /\ d \in Cpus /\ \E i \in 1 .. Size(d) : Ring(d)[i] = t /\ x = <<"ring", d, i>>
    \/ k = "loot" /\ d \in Cpus /\ \E s \in Unpublished(d) : queue[d][s] = t /\ x = <<"stolen", d, s>>
    \/ k = "batch" /\ d \in Cpus /\ \E i \in 1 .. Len(loc[d].batch) : loc[d].batch[i] = t /\ x = <<"batch", d, i>>
    \/ k \in {"next", "current", "thread", "found"} /\ d \in Cpus /\ x = <<k, d>>

\* What is in a ring, as the definitions of the model see it.
LEMMA RingValue ==
    ASSUME CountersInv, NEW c \in Cpus
    PROVE  /\ Size(c) = T(c) - H(c) /\ Size(c) \in Nat /\ DOMAIN Ring(c) = 1 .. Size(c)
           /\ \A i \in 1 .. Size(c) : H(c) + (i - 1) \in InRing(c) /\ Ring(c)[i] = Cell(c, H(c) + (i - 1))
           /\ \A k \in InRing(c) : k - H(c) + 1 \in 1 .. Size(c) /\ Ring(c)[k - H(c) + 1] = Cell(c, k)
<1>1. H(c) \in Nat /\ T(c) \in Nat /\ H(c) <= T(c) /\ head[c] \in Nat
  BY Numbers, WordNat
<1>2. Size(c) = T(c) - H(c) /\ Size(c) \in Nat
  BY <1>1, Numbers, Distances DEF Size, H, T
<1>3. ASSUME NEW i \in 1 .. Size(c) PROVE H(c) + (i - 1) \in InRing(c) /\ Ring(c)[i] = Cell(c, H(c) + (i - 1))
  <2>1. i - 1 \in Nat /\ head[c] + i - 1 = head[c] + (i - 1) /\ H(c) + (i - 1) \in InRing(c)
    BY <1>1, <1>2 DEF InRing
  <2>2. Slot(head[c] + (i - 1)) = Pos(H(c) + (i - 1))
    BY <2>1, CounterSlots
  <2> QED BY <2>1, <2>2 DEF Ring, Cell
<1>4. ASSUME NEW k \in InRing(c) PROVE k - H(c) + 1 \in 1 .. Size(c) /\ Ring(c)[k - H(c) + 1] = Cell(c, k)
  <2>1. PICK i \in 1 .. Size(c) : i = k - H(c) + 1 /\ H(c) + (i - 1) = k
    <3>1. k - H(c) + 1 \in 1 .. Size(c) /\ H(c) + ((k - H(c) + 1) - 1) = k
      BY <1>1, <1>2 DEF InRing
    <3> QED BY <3>1
  <2> QED BY <1>3, <2>1
<1> QED BY <1>2, <1>3, <1>4 DEF Ring

LEMMA UnpublishedValue ==
    ASSUME CountersInv, NEW c \in Cpus
    PROVE  /\ \A s \in Unpublished(c) : \E k \in InLoot(c) : s = Pos(k)
           /\ \A k \in InLoot(c) : Pos(k) \in Unpublished(c)
<1>1. CASE pc[c] \notin {"stolen", "steal_publish"}
  BY <1>1 DEF Unpublished, InLoot
<1>2. CASE pc[c] \in {"stolen", "steal_publish"}
  <2>1. loc[c].t = tail[c] /\ T(c) \in Nat /\ loc[c].n \in Nat
    BY <1>2, Numbers, LocalsTyped DEF LocalInv, ThiefInv, ThiefPcs
  <2>2. Unpublished(c) = {Slot(tail[c] + i) : i \in 0 .. loc[c].n - 1} /\ InLoot(c) = T(c) .. T(c) + loc[c].n - 1
    BY <1>2, <2>1 DEF Unpublished, InLoot
  <2>3. \A i \in 0 .. loc[c].n - 1 : Slot(tail[c] + i) = Pos(T(c) + i) /\ T(c) + i \in InLoot(c)
    BY <2>1, <2>2, CounterSlots, SMTT(30)
  <2>4. ASSUME NEW k \in InLoot(c) PROVE Pos(k) \in Unpublished(c)
    <3>1. PICK i \in 0 .. loc[c].n - 1 : k = T(c) + i
      <4>1. k - T(c) \in 0 .. loc[c].n - 1 /\ k = T(c) + (k - T(c))
        BY <2>1, <2>2
      <4> QED BY <4>1
    <3> QED BY <2>2, <2>3, <3>1
  <2> QED BY <2>2, <2>3, <2>4
<1> QED BY <1>1, <1>2

\* Who has a thread has one place for it.
LEMMA HolderPlace ==
    ASSUME PlacesInv, NEW t \in Threads, NEW k \in Kinds, NEW d \in Who, t \in HeldBy(k, d)
    PROVE  /\ \E x : InPlace(t, x, k, d)
           /\ \A x, y : InPlace(t, x, k, d) /\ InPlace(t, y, k, d) => x = y
<1>0. CountersInv /\ SharedFilled
  BY DEF PlacesInv
<1>1. d \in Cpus <=> k \notin {"waiting", "dead", "global"}
  <2>1. CASE d = None
    BY <2>1, NoneApart DEF HeldBy
  <2>2. CASE d \in Cpus
    <3>1. \A j \in {"waiting", "dead", "global"} : HeldBy(j, d) = {}
      BY <2>2, HeldValues
    <3> QED BY <2>2, <3>1
  <2> QED BY <2>1, <2>2 DEF Who
<1>2. d = None <=> k \in {"waiting", "dead", "global"}
  BY <1>1, NoneApart DEF Who
<1>3. CASE k \in {"waiting", "dead"}
  BY <1>2, <1>3 DEF InPlace
<1>4. CASE k = "global"
  <2>1. d = None /\ t \in Elements(global)
    BY <1>2, <1>4 DEF HeldBy
  <2>2. PICK i \in 1 .. Len(global) : t = global[i]
    BY <2>1 DEF Elements
  <2>3. \A j \in 1 .. Len(global) : global[j] = t => j = i
    BY <1>0, <2>2 DEF SharedFilled, Once
  <2>4. InPlace(t, <<"global", i>>, k, d)
    BY <1>4, <2>1, <2>2 DEF InPlace
  <2>5. \A x : InPlace(t, x, k, d) => x = <<"global", i>>
    BY <1>4, <2>1, <2>3 DEF InPlace
  <2> QED BY <2>4, <2>5
<1>5. CASE k = "ring"
  <2>1. d \in Cpus /\ t \in Rung(d) /\ FilledAt(d)
    BY <1>1, <1>5, HeldValues, PlacesNumbers
  <2>2. PICK j \in InRing(d) : t = Cell(d, j)
    BY <2>1 DEF Rung
  <2>3. PICK i \in 1 .. Size(d) : Ring(d)[i] = t /\ i = j - H(d) + 1
    BY <1>0, <2>1, <2>2, RingValue
  <2>4. ASSUME NEW m \in 1 .. Size(d), Ring(d)[m] = t PROVE m = i
    <3>1. H(d) + (m - 1) \in InRing(d) /\ Cell(d, H(d) + (m - 1)) = t
      BY <1>0, <2>1, <2>4, RingValue
    <3>2. H(d) + (m - 1) = j
      BY <2>1, <2>2, <3>1 DEF FilledAt
    <3>3. H(d) \in Nat /\ Size(d) \in Nat
      BY <1>0, <2>1, Numbers, RingValue
    <3> QED BY <2>3, <3>2, <3>3
  <2>5. InPlace(t, <<"ring", d, i>>, k, d)
    BY <1>5, <2>1, <2>3 DEF InPlace
  <2>6. \A x : InPlace(t, x, k, d) => x = <<"ring", d, i>>
    BY <1>5, <2>4 DEF InPlace
  <2> QED BY <2>5, <2>6
<1>6. CASE k = "loot"
  <2>1. d \in Cpus /\ t \in Loot(d) /\ FilledAt(d)
    BY <1>1, <1>6, HeldValues, PlacesNumbers
  <2>2. PICK j \in InLoot(d) : t = Cell(d, j)
    BY <2>1 DEF Loot
  <2>3. PICK s \in Unpublished(d) : s = Pos(j) /\ queue[d][s] = t
    BY <1>0, <2>1, <2>2, UnpublishedValue DEF Cell
  <2>4. ASSUME NEW r \in Unpublished(d), queue[d][r] = t PROVE r = s
    <3>1. PICK m \in InLoot(d) : r = Pos(m)
      BY <1>0, <2>1, UnpublishedValue
    <3>2. m = j
      BY <2>1, <2>2, <2>4, <3>1 DEF FilledAt, Cell
    <3> QED BY <2>3, <3>1, <3>2
  <2>5. InPlace(t, <<"stolen", d, s>>, k, d)
    BY <1>6, <2>1, <2>3 DEF InPlace
  <2>6. \A x : InPlace(t, x, k, d) => x = <<"stolen", d, s>>
    BY <1>6, <2>4 DEF InPlace
  <2> QED BY <2>5, <2>6
<1>7. CASE k = "batch"
  <2>1. d \in Cpus /\ t \in Elements(loc[d].batch) /\ FilledAt(d)
    BY <1>1, <1>7, HeldValues, PlacesNumbers
  <2>2. PICK i \in 1 .. Len(loc[d].batch) : t = loc[d].batch[i]
    BY <2>1 DEF Elements
  <2>3. \A j \in 1 .. Len(loc[d].batch) : loc[d].batch[j] = t => j = i
    BY <2>1, <2>2 DEF FilledAt, Once
  <2>4. InPlace(t, <<"batch", d, i>>, k, d)
    BY <1>7, <2>1, <2>2 DEF InPlace
  <2>5. \A x : InPlace(t, x, k, d) => x = <<"batch", d, i>>
    BY <1>7, <2>3 DEF InPlace
  <2> QED BY <2>4, <2>5
<1>8. CASE k \in {"next", "current", "thread", "found"}
  BY <1>1, <1>8 DEF InPlace
<1> QED BY <1>3, <1>4, <1>5, <1>6, <1>7, <1>8 DEF Kinds

\* The names of the hands of c that t is in.
HandsWith(t, c, a, b, e, f) ==
    {<<p[1], c>> : p \in {q \in {<<"next", a>>, <<"current", b>>, <<"thread", e>>, <<"found", f>>} : q[2] = t}}

LEMMA HandPlaces ==
    ASSUME NEW t, NEW c, NEW x, NEW a, NEW b, NEW e, NEW f
    PROVE  x \in HandsWith(t, c, a, b, e, f) <=>
               \/ a = t /\ x = <<"next", c>>
               \/ b = t /\ x = <<"current", c>>
               \/ e = t /\ x = <<"thread", c>>
               \/ f = t /\ x = <<"found", c>>
<1> DEFINE Hand == {<<"next", a>>, <<"current", b>>, <<"thread", e>>, <<"found", f>>}
<1>1. ASSUME NEW p \in Hand
      PROVE  \/ p[1] = "next" /\ p[2] = a
             \/ p[1] = "current" /\ p[2] = b
             \/ p[1] = "thread" /\ p[2] = e
             \/ p[1] = "found" /\ p[2] = f
  <2>1. p = <<"next", a>> \/ p = <<"current", b>> \/ p = <<"thread", e>> \/ p = <<"found", f>>
    BY Zenon
  <2> HIDE DEF Hand
  <2> QED BY <2>1
<1>2. <<"next", a>> \in Hand /\ <<"current", b>> \in Hand /\ <<"thread", e>> \in Hand /\ <<"found", f>> \in Hand
  OBVIOUS
<1> HIDE DEF Hand
<1>3. x \in {<<p[1], c>> : p \in {q \in Hand : q[2] = t}} <=> \E p \in Hand : p[2] = t /\ x = <<p[1], c>>
  OBVIOUS
<1>4. ASSUME NEW n, NEW y, y = t, <<n, y>> \in Hand, x = <<n, c>> PROVE \E p \in Hand : p[2] = t /\ x = <<p[1], c>>
  <2>1. PICK p : p = <<n, y>>
    OBVIOUS
  <2> QED BY <1>4, <2>1
<1>5. ASSUME NEW p \in Hand, p[2] = t, x = <<p[1], c>>
      PROVE  \/ a = t /\ x = <<"next", c>>
             \/ b = t /\ x = <<"current", c>>
             \/ e = t /\ x = <<"thread", c>>
             \/ f = t /\ x = <<"found", c>>
  BY <1>1, <1>5, Zenon
<1>6. (\E p \in Hand : p[2] = t /\ x = <<p[1], c>>) <=>
          \/ a = t /\ x = <<"next", c>>
          \/ b = t /\ x = <<"current", c>>
          \/ e = t /\ x = <<"thread", c>>
          \/ f = t /\ x = <<"found", c>>
  BY <1>2, <1>4, <1>5
<1>7. HandsWith(t, c, a, b, e, f) = {<<p[1], c>> : p \in {q \in Hand : q[2] = t}}
  BY Zenon DEF HandsWith, Hand
<1> QED BY <1>3, <1>6, <1>7

\* The places of a thread are the places of its holders.
LEMMA PlacesHeld ==
    ASSUME PlacesInv, NEW t \in Threads, NEW x
    PROVE  x \in PlacesOf(t) <=> \E k \in Kinds, d \in Who : t \in HeldBy(k, d) /\ InPlace(t, x, k, d)
<1>0. CountersInv /\ SharedFilled /\ global \in Seq(Threads) /\ \A c \in Cpus : loc[c].batch \in Seq(Threads)
  BY PlacesNumbers DEF PlacesInv, SharedFilled, FilledAt
<1>1. t # None
  BY NoneApart
<1> DEFINE Own(c) == {<<"ring", c, i>> : i \in {j \in DOMAIN Ring(c) : Ring(c)[j] = t}}
                     \cup {<<"stolen", c, s>> : s \in {j \in Unpublished(c) : queue[c][j] = t}}
                     \cup {<<"batch", c, i>> : i \in {j \in DOMAIN loc[c].batch : loc[c].batch[j] = t}}
                     \cup HandsWith(t, c, next[c], current[c], loc[c].thread, loc[c].found)
           Public == {<<"waiting">> : y \in waiting \cap {t}} \cup {<<"dead">> : y \in dead \cap {t}}
                     \cup {<<"global", i>> : i \in {j \in DOMAIN global : global[j] = t}}
<1>2. PlacesOf(t) = Public \cup UNION {Own(c) : c \in Cpus}
  BY DEF PlacesOf, HandsWith
<1>3. x \in Public <=> \E k \in {"waiting", "dead", "global"} : t \in HeldBy(k, None) /\ InPlace(t, x, k, None)
  <2>1. x \in Public <=> \/ t \in waiting /\ x = <<"waiting">>
                         \/ t \in dead /\ x = <<"dead">>
                         \/ \E i \in 1 .. Len(global) : global[i] = t /\ x = <<"global", i>>
    BY <1>0
  <2>2. HeldBy("waiting", None) = waiting /\ HeldBy("dead", None) = dead /\ HeldBy("global", None) = Elements(global)
    BY DEF HeldBy
  <2>3. /\ InPlace(t, x, "waiting", None) <=> x = <<"waiting">>
        /\ InPlace(t, x, "dead", None) <=> x = <<"dead">>
        /\ InPlace(t, x, "global", None) <=> \E i \in 1 .. Len(global) : global[i] = t /\ x = <<"global", i>>
    BY DEF InPlace
  <2>4. (\E i \in 1 .. Len(global) : global[i] = t /\ x = <<"global", i>>) => t \in Elements(global)
    BY DEF Elements
  <2> HIDE DEF Public
  <2> QED BY <2>1, <2>2, <2>3, <2>4
<1>4. ASSUME NEW c \in Cpus
      PROVE  x \in Own(c) <=> \E k \in Kinds \ {"waiting", "dead", "global"} : t \in HeldBy(k, c) /\ InPlace(t, x, k, c)
  <2>1. x \in Own(c) <=> \/ \E i \in 1 .. Size(c) : Ring(c)[i] = t /\ x = <<"ring", c, i>>
                         \/ \E s \in Unpublished(c) : queue[c][s] = t /\ x = <<"stolen", c, s>>
                         \/ \E i \in 1 .. Len(loc[c].batch) : loc[c].batch[i] = t /\ x = <<"batch", c, i>>
                         \/ next[c] = t /\ x = <<"next", c>>
                         \/ current[c] = t /\ x = <<"current", c>>
                         \/ loc[c].thread = t /\ x = <<"thread", c>>
                         \/ loc[c].found = t /\ x = <<"found", c>>
    <3>1. DOMAIN Ring(c) = 1 .. Size(c) /\ DOMAIN loc[c].batch = 1 .. Len(loc[c].batch)
      BY <1>0, RingValue
    <3>2. x \in HandsWith(t, c, next[c], current[c], loc[c].thread, loc[c].found) <=>
              \/ next[c] = t /\ x = <<"next", c>>
              \/ current[c] = t /\ x = <<"current", c>>
              \/ loc[c].thread = t /\ x = <<"thread", c>>
              \/ loc[c].found = t /\ x = <<"found", c>>
      BY HandPlaces
    <3> QED BY <3>1, <3>2
  <2> HIDE DEF Own
  <2>2. /\ HeldBy("ring", c) = Rung(c) /\ HeldBy("loot", c) = Loot(c) /\ HeldBy("batch", c) = Elements(loc[c].batch)
        /\ (t \in HeldBy("next", c) <=> next[c] = t) /\ (t \in HeldBy("current", c) <=> current[c] = t)
        /\ (t \in HeldBy("thread", c) <=> loc[c].thread = t) /\ (t \in HeldBy("found", c) <=> loc[c].found = t)
    BY <1>1, HeldValues
  <2>3. /\ InPlace(t, x, "ring", c) <=> \E i \in 1 .. Size(c) : Ring(c)[i] = t /\ x = <<"ring", c, i>>
        /\ InPlace(t, x, "loot", c) <=> \E s \in Unpublished(c) : queue[c][s] = t /\ x = <<"stolen", c, s>>
        /\ InPlace(t, x, "batch", c) <=> \E i \in 1 .. Len(loc[c].batch) : loc[c].batch[i] = t /\ x = <<"batch", c, i>>
        /\ \A k \in {"next", "current", "thread", "found"} : InPlace(t, x, k, c) <=> x = <<k, c>>
    BY DEF InPlace
  <2>4. /\ InPlace(t, x, "ring", c) => t \in Rung(c)
        /\ InPlace(t, x, "loot", c) => t \in Loot(c)
        /\ InPlace(t, x, "batch", c) => t \in Elements(loc[c].batch)
    <3>1. ASSUME NEW i \in 1 .. Size(c), Ring(c)[i] = t PROVE t \in Rung(c)
      BY <1>0, <3>1, RingValue DEF Rung
    <3>2. ASSUME NEW s \in Unpublished(c), queue[c][s] = t PROVE t \in Loot(c)
      BY <1>0, <3>2, UnpublishedValue DEF Loot, Cell
    <3> QED BY <2>3, <3>1, <3>2 DEF Elements
  <2> QED BY <2>1, <2>2, <2>3, <2>4 DEF Kinds
<1>5. x \in UNION {Own(c) : c \in Cpus} <=> \E c \in Cpus : x \in Own(c)
  OBVIOUS
<1> HIDE DEF Own, Public
<1>6. ASSUME x \in PlacesOf(t) PROVE \E k \in Kinds, d \in Who : t \in HeldBy(k, d) /\ InPlace(t, x, k, d)
  BY <1>2, <1>3, <1>4, <1>5, <1>6 DEF Kinds, Who
<1>7. ASSUME NEW k \in Kinds, NEW d \in Who, t \in HeldBy(k, d), InPlace(t, x, k, d) PROVE x \in PlacesOf(t)
  <2>1. \/ k \in {"waiting", "dead", "global"} /\ d = None
        \/ k \in Kinds /\ k \notin {"waiting", "dead", "global"} /\ d \in Cpus
    <3>1. \/ k \in {"waiting", "dead", "global"} /\ d = None
          \/ k \in {"ring", "loot", "batch", "next", "current", "thread", "found"} /\ d \in Cpus
      BY <1>7 DEF InPlace
    <3>2. ASSUME k \in {"ring", "loot", "batch", "next", "current", "thread", "found"} PROVE k \notin {"waiting", "dead", "global"}
      BY <3>2
    <3> QED BY <3>1, <3>2
  <2> QED BY <1>2, <1>3, <1>4, <1>5, <1>7, <2>1
<1> QED BY <1>6, <1>7

LEMMA PlacesInvariant == Spec => []PlacesInv
BY PlacesInit, PlacesNext, PTL DEF Spec

\* No thread is lost and none is in two places, whatever the producers, the
\* consumers and the thieves do between each other's steps.
THEOREM ThreadsAlwaysInOnePlace == Spec => []NoThreadLostOrDuplicated
<1>1. PlacesInv => NoThreadLostOrDuplicated
  <2> SUFFICES ASSUME PlacesInv, NEW t \in Threads PROVE Cardinality(PlacesOf(t)) = 1
    BY DEF NoThreadLostOrDuplicated
  <2>1. OneHolder(Held)
    BY DEF PlacesInv
  <2>2. PICK h \in Holders : t \in Held[h] /\ \A g \in Holders : t \in Held[g] => g = h
    BY <2>1 DEF OneHolder
  <2>3. PICK k \in Kinds, d \in Who : h = <<k, d>>
    BY HeldAt
  <2>4. t \in HeldBy(k, d)
    BY <2>2, <2>3, HeldAt
  <2>5. ASSUME NEW j \in Kinds, NEW e \in Who, t \in HeldBy(j, e) PROVE j = k /\ e = d
    <3>1. <<j, e>> \in Holders /\ Held[<<j, e>>] = HeldBy(j, e)
      BY HeldAt DEF Holders
    <3>2. <<j, e>> = <<k, d>>
      BY <2>2, <2>3, <2>5, <3>1
    <3> QED BY <3>2
  <2>6. PICK x : InPlace(t, x, k, d)
    BY <2>4, HolderPlace
  <2>7. \A y : InPlace(t, y, k, d) => y = x
    BY <2>4, <2>6, HolderPlace
  <2>8. x \in PlacesOf(t)
    BY <2>4, <2>6, PlacesHeld
  <2>9. ASSUME NEW y \in PlacesOf(t) PROVE y = x
    <3>1. PICK j \in Kinds, e \in Who : t \in HeldBy(j, e) /\ InPlace(t, y, j, e)
      BY PlacesHeld
    <3> QED BY <2>5, <2>7, <3>1
  <2>10. PlacesOf(t) = {x}
    BY <2>8, <2>9
  <2> QED BY <2>10, FS_Singleton
<1> QED BY <1>1, PlacesInvariant, PTL
=============================================================================
