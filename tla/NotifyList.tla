----------------------------- MODULE NotifyList -----------------------------
(***************************************************************************)
(* The ticket-based notification list of kernel/sync/notify_list.c.  A     *)
(* thread draws a ticket (notify_list_add) before it gives up the caller's *)
(* mutex and sleeps later (notify_list_wait); a notifier advances `notify` *)
(* past a ticket and wakes its holder if it already sleeps.  The counters  *)
(* are unsigned words of Modulus values and wrap around, 2^32 in the code. *)
(*                                                                         *)
(* A thread enters with WaitCall, NotifyOneCall or NotifyAllCall and has   *)
(* returned when npc[t] = "idle".                                          *)
(***************************************************************************)
EXTENDS Integers, Sequences, SequencesExt, FiniteSets

CONSTANTS Threads, NoThread,
          Half          \* 2^31: half the values of a counter

VARIABLES
    wait, notify,   \* list->wait and list->notify
    llock,          \* list->lock
    list,           \* the parked waiters, head first
    ticket,         \* the ticket each thread has drawn, 0 out of a call
    asleep,         \* the threads that are WAITING
    npc,            \* where each thread is in the functions of notify_list.c
    seen,           \* the value of wait a notifier has loaded on its fast path
    wake            \* the waiters a notifier has yet to ready

nvars == <<wait, notify, llock, list, ticket, asleep, npc, seen, wake>>

Modulus == 2 * Half

Inc(n) == (n + 1) % Modulus
\* Mutant: tickets compared as plain numbers.
lessPlain(a, b) == a < b

\* (int32_t)(a - b) < 0
less(a, b) == (a - b) % Modulus >= Half

NGoto(t, l) == npc' = [npc EXCEPT ![t] = l]

NInit(start) ==
    /\ wait = start /\ notify = start
    /\ llock = NoThread
    /\ list = << >>
    /\ ticket = [t \in Threads |-> 0]
    /\ asleep = {}
    /\ npc = [t \in Threads |-> "idle"]
    /\ seen = [t \in Threads |-> 0]
    /\ wake = [t \in Threads |-> << >>]

----------------------------------------------------------------------------
\* notify_list_add
Add(t) ==
    /\ npc[t] = "idle"
    /\ ticket' = [ticket EXCEPT ![t] = wait]
    /\ wait' = Inc(wait)
    /\ NGoto(t, "added")
    /\ UNCHANGED <<notify, llock, list, asleep, seen, wake>>

WaitCall(t) ==
    /\ npc[t] = "added"
    /\ NGoto(t, "w_lock")
    /\ UNCHANGED <<wait, notify, llock, list, ticket, asleep, seen, wake>>

Lock(t) ==
    /\ npc[t] \in {"w_lock", "one_lock", "all_lock"}
    /\ llock = NoThread
    /\ llock' = t
    /\ NGoto(t, CASE npc[t] = "w_lock" -> "w_check"
                  [] npc[t] = "one_lock" -> "one"
                  [] npc[t] = "all_lock" -> "all")
    /\ UNCHANGED <<wait, notify, list, ticket, asleep, seen, wake>>
\* Return right away if the ticket has already been notified, else enqueue.
WaitCheck(t) ==
    /\ npc[t] = "w_check"
    /\ \/ less(ticket[t], notify) /\ NGoto(t, "unlock") /\ UNCHANGED list
       \/ ~less(ticket[t], notify) /\ list' = Append(list, t) /\ NGoto(t, "w_park")
    /\ UNCHANGED <<wait, notify, llock, ticket, asleep, seen, wake>>

\* scheduler_park: WAITING, then the lock is released by the callback.
WaitPark(t) ==
    /\ npc[t] = "w_park"
    /\ asleep' = asleep \cup {t}
    /\ llock' = NoThread
    /\ NGoto(t, "parked")
    /\ UNCHANGED <<wait, notify, list, ticket, seen, wake>>

WaitWoken(t) ==
    /\ npc[t] = "parked" /\ t \notin asleep
    /\ ticket' = [ticket EXCEPT ![t] = 0]
    /\ NGoto(t, "idle")
    /\ UNCHANGED <<wait, notify, llock, list, asleep, seen, wake>>

----------------------------------------------------------------------------
\* The fast path of notify_list_notify_one and notify_list_notify_all loads
\* the two counters one after the other, without the lock.
NotifyCall(t, kind) ==
    /\ npc[t] = "idle"
    /\ seen' = [seen EXCEPT ![t] = wait]
    /\ NGoto(t, kind)
    /\ UNCHANGED <<wait, notify, llock, list, ticket, asleep, wake>>

NotifyFast(t) ==
    /\ npc[t] \in {"one_fast", "all_fast"}
    /\ NGoto(t, IF seen[t] = notify THEN "idle"
                ELSE IF npc[t] = "one_fast" THEN "one_lock" ELSE "all_lock")
    /\ seen' = [seen EXCEPT ![t] = 0]
    /\ UNCHANGED <<wait, notify, llock, list, ticket, asleep, wake>>

\* How far notify has got ahead of a ticket that is still to be checked.  The
\* bound: less than Half tickets are notified while a thread stands between
\* drawing its ticket and checking it; beyond it `less` gives the wrong answer.
\* notify_list.c has no test of it: with Half = 2^31 a thread would have to stand
\* there through that many notifications.
Lag(t) == (notify - ticket[t]) % Modulus

MayAdvance(n) ==
    \A t \in Threads : npc[t] \in {"added", "w_lock", "w_check"} /\ less(ticket[t], notify)
                          => Lag(t) + n < Half
\* The thread with this ticket is taken out of the list, if it has got there.
Unlink(t, number) ==
    \/ /\ \A i \in DOMAIN list : ticket[list[i]] # number
       /\ UNCHANGED <<list, wake>>
    \/ \E i \in DOMAIN list :
          /\ ticket[list[i]] = number
          /\ list' = RemoveAt(list, i)
          /\ wake' = [wake EXCEPT ![t] = <<list[i]>>]

\* Mutant: notify advances only if the holder of the ticket already sleeps.
NotifyOneSleeping(t) ==
    /\ npc[t] = "one"
    /\ NGoto(t, "unlock")
    /\ Unlink(t, notify)
    /\ notify' = IF list' = list THEN notify ELSE Inc(notify)
    /\ UNCHANGED <<wait, llock, ticket, asleep, seen>>

NotifyOne(t) ==
    /\ npc[t] = "one"
    /\ NGoto(t, "unlock")
    /\ \/ notify = wait /\ UNCHANGED <<notify, list, wake>>
       \/ /\ notify # wait
          /\ MayAdvance(1)
          /\ notify' = Inc(notify)
          /\ Unlink(t, notify)
    /\ UNCHANGED <<wait, llock, ticket, asleep, seen>>

NotifyAll(t) ==
    /\ npc[t] = "all"
    /\ MayAdvance((wait - notify) % Modulus)
    /\ NGoto(t, "unlock")
    /\ notify' = wait
    /\ list' = << >>
    /\ wake' = [wake EXCEPT ![t] = list]
    /\ UNCHANGED <<wait, llock, ticket, asleep, seen>>

Unlock(t) ==
    /\ npc[t] = "unlock"
    /\ llock' = NoThread
    /\ ticket' = [ticket EXCEPT ![t] = 0]
    /\ NGoto(t, IF wake[t] = << >> THEN "idle" ELSE "ready")
    /\ UNCHANGED <<wait, notify, list, asleep, seen, wake>>

\* scheduler_ready_thread on the next waiter of the local list.
Ready(t) ==
    /\ npc[t] = "ready"
    /\ asleep' = asleep \ {Head(wake[t])}
    /\ wake' = [wake EXCEPT ![t] = Tail(@)]
    /\ NGoto(t, IF Len(wake[t]) = 1 THEN "idle" ELSE "ready")
    /\ UNCHANGED <<wait, notify, llock, list, ticket, seen>>

NStep(t) ==
    \/ Lock(t) \/ WaitCheck(t) \/ WaitPark(t) \/ WaitWoken(t)
    \/ NotifyFast(t) \/ NotifyOne(t) \/ NotifyAll(t) \/ Unlock(t) \/ Ready(t)
=============================================================================
