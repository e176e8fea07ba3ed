---------------------------- MODULE Conditional ----------------------------
(***************************************************************************)
(* The condition variable of kernel/sync/conditional.c, used as condition  *)
(* variables are: consumers wait under a mutex until there is an item,     *)
(* producers add an item under the mutex and signal or broadcast.  The     *)
(* mutex is abstracted to its owner (see Mutex).                           *)
(***************************************************************************)
EXTENDS NotifyList

CONSTANTS Start,        \* the first ticket, so that the counters soon wrap
          MaxItems      \* bound on the items in the buffer

VARIABLES mutex,        \* the owner of the mutex
          items,        \* the items in the buffer
          cpc           \* what each thread is doing

vars == <<wait, notify, llock, list, ticket, asleep, npc, seen, wake, mutex, items, cpc>>

CGoto(t, l) == cpc' = [cpc EXCEPT ![t] = l]

Init ==
    /\ NInit(Start)
    /\ mutex = NoThread
    /\ items = 0
    /\ cpc = [t \in Threads |-> "idle"]

\* Both kinds of client begin by locking the mutex, and conditional_wait ends
\* with it.
Begin(t, l) ==
    /\ cpc[t] = "idle"
    /\ CGoto(t, l)
    /\ UNCHANGED <<nvars, mutex, items>>

MutexLock(t) ==
    /\ cpc[t] \in {"c_lock", "p_lock"} /\ npc[t] = "idle"
    /\ mutex = NoThread
    /\ mutex' = t
    /\ CGoto(t, IF cpc[t] = "c_lock" THEN "c_test" ELSE "p_put")
    /\ UNCHANGED <<nvars, items>>

Take(t) ==
    /\ cpc[t] = "c_test" /\ items > 0
    /\ items' = items - 1
    /\ mutex' = NoThread
    /\ CGoto(t, "idle")
    /\ UNCHANGED nvars

\* conditional_wait: draw a ticket, unlock, wait for the ticket, lock.
CondAdd(t) ==
    /\ cpc[t] = "c_test" /\ items = 0
    /\ Add(t)
    /\ CGoto(t, "c_unlock")
    /\ UNCHANGED <<mutex, items>>

CondUnlock(t) ==
    /\ cpc[t] = "c_unlock"
    /\ mutex' = NoThread
    /\ WaitCall(t)
    /\ CGoto(t, "c_lock")
    /\ UNCHANGED items

Put(t) ==
    /\ cpc[t] = "p_put"
    /\ items < MaxItems
    /\ items' = items + 1
    /\ mutex' = NoThread
    /\ CGoto(t, "p_signal")
    /\ UNCHANGED nvars

PutFull(t) ==
    /\ cpc[t] = "p_put"
    /\ items = MaxItems
    /\ mutex' = NoThread
    /\ CGoto(t, "idle")
    /\ UNCHANGED <<nvars, items>>

\* conditional_signal or conditional_broadcast
Signal(t) ==
    /\ cpc[t] = "p_signal"
    /\ \E kind \in {"one_fast", "all_fast"} : NotifyCall(t, kind)
    /\ CGoto(t, "p_return")
    /\ UNCHANGED <<mutex, items>>

SignalReturn(t) ==
    /\ cpc[t] = "p_return" /\ npc[t] = "idle"
    /\ CGoto(t, "idle")
    /\ UNCHANGED <<nvars, mutex, items>>

Notify(t) == NStep(t) /\ UNCHANGED <<mutex, items, cpc>>

Inside(t) ==
    \/ MutexLock(t) \/ Take(t) \/ CondAdd(t) \/ CondUnlock(t) \/ Put(t) \/ PutFull(t)
    \/ Signal(t) \/ SignalReturn(t) \/ Notify(t)

Next == \E t \in Threads : Begin(t, "c_lock") \/ Begin(t, "p_lock") \/ Inside(t)

Spec == Init /\ [][Next]_vars

----------------------------------------------------------------------------
(* Properties                                                              *)

\* The mutex, the items and the notify list keep their types; tickets stay below the wrap.
TypeOK ==
    /\ {wait, notify} \subseteq 0..(Modulus - 1)
    /\ llock \in Threads \cup {NoThread} /\ mutex \in Threads \cup {NoThread}
    /\ list \in Seq(Threads) /\ asleep \subseteq Threads
    /\ ticket \in [Threads -> 0..(Modulus - 1)] /\ seen \in [Threads -> 0..(Modulus - 1)]
    /\ wake \in [Threads -> Seq(Threads)]
    /\ items \in 0..MaxItems

\* The threads that hold a ticket nobody has notified.
Pending ==
    {t \in Threads : npc[t] \in {"added", "w_lock", "w_check", "w_park"} /\ ~less(ticket[t], notify)}
        \cup ToSet(list)

\* notify_list.h: the counters "can wrap around, and such cases will be
\* correctly handled".  The distance between them is always the number of
\* tickets that are still to be notified.
TicketsMatchCounters == (wait - notify) % Modulus = Cardinality(Pending)

\* No lost signal: when there is an item and a consumer sleeps un-notified,
\* somebody is still awake who will take the item or wake a consumer.
NoLostSignal ==
    (items > 0 /\ list # << >>) =>
        \E t \in Threads :
            \/ cpc[t] \in {"c_test", "c_unlock", "p_put", "p_signal", "p_return"}
            \/ cpc[t] = "c_lock" /\ t \notin ToSet(list)
=============================================================================
