----------------------------- MODULE WaitHandle -----------------------------
(***************************************************************************)
(* The wait handles of the class library (Corelib/System/Threading) over   *)
(* the reference-counted waitables of kernel/thread/waitable.c: one handle *)
(* that is an event, a semaphore or a mutex, the callers that share it,    *)
(* and the timers that after() starts for waits with a timeout.            *)
(*                                                                         *)
(* Sending, receiving, closing and selecting are single steps with the     *)
(* contract that module Waitable checks.  An element of Waitables is one   *)
(* allocation and not an address: whoever touches it after it was freed    *)
(* has gone wrong, whatever the memory holds by then.                      *)
(***************************************************************************)
EXTENDS Naturals, FiniteSets

CONSTANTS Callers, Waitables, Null,
          MaxCount      \* maximumCount of the semaphore

VARIABLES
    sort,               \* auto-reset or manual-reset event, semaphore or mutex
    field,              \* WaitHandle.Waitable, as long as the handle has its reference
    stale,              \* what the field still holds after Dispose has released it
    wait,               \* the waitables
    timer,              \* what the timer of each waitable does next
    caller,             \* where each caller is, and the waitables it knows
    fault               \* who has touched a freed waitable, or released another's reference

wvars == <<sort, field, stale, wait, timer, caller, fault>>

Sorts == {"auto", "manual", "semaphore", "mutex"}
Idle == [at |-> "idle", on |-> Null, timeout |-> Null, left |-> 0]
Unmade == [made |-> FALSE, refs |-> 0, size |-> 0, count |-> 0, closed |-> FALSE]

create_waitable(n) == [Unmade EXCEPT !.made = TRUE, !.refs = 1, !.size = n]

Freed(x) == wait[x].made /\ wait[x].refs = 0
Size(k) == IF k = "semaphore" THEN MaxCount ELSE 1

\* What the constructors leave in the waitable: initialCount permits, or one if
\* the mutex is not owned or the auto-reset event is set.
Permits(k) == IF k = "manual" THEN {0} ELSE 0..Size(k)

\* A manual-reset event that is set initially is closed.
Init ==
    /\ sort \in Sorts
    /\ field = (CHOOSE x \in Waitables : TRUE) /\ stale = Null
    /\ \E n \in Permits(sort), set \in {FALSE, sort = "manual"} :
         wait = [x \in Waitables |->
                   IF x # field THEN Unmade
                   ELSE [create_waitable(Size(sort)) EXCEPT !.count = n, !.closed = set]]
    /\ timer = [x \in Waitables |-> "none"]
    /\ caller = [c \in Callers |-> Idle]
    /\ fault = {}

----------------------------------------------------------------------------
(* The waitable.                                                           *)

At(c, l) == fault = {} /\ caller[c].at = l
Goes(c, l) == [caller EXCEPT ![c].at = l]
Returns(c) == [caller EXCEPT ![c] = Idle]

GoesWrong(who) == fault' = {who} /\ UNCHANGED <<sort, field, stale, wait, timer, caller>>

\* c reaches the waitable x, which nobody has freed, or has gone wrong.
Touch(who, x, Step) ==
    IF x = Null \/ Freed(x) THEN GoesWrong(who) ELSE Step /\ UNCHANGED fault

Sleepers(x) == {c \in Callers : caller[c].at = "asleep" /\ x \in {caller[c].on, caller[c].timeout}}

\* A sleeper goes on behind its wait: a wait with a timeout gives its references back.
Woken(s) == IF caller[s].timeout = Null THEN Idle ELSE [caller[s] EXCEPT !.at = "drop_timeout"]

Wake(others, S) == [c \in Callers |-> IF c \in S THEN Woken(c) ELSE others[c]]

\* waitable_send without blocking, by a caller that then is as in `others'.
Send(x, others) ==
    IF wait[x].closed THEN caller' = others /\ UNCHANGED wait
    ELSE IF Sleepers(x) # {}
    THEN (\E s \in Sleepers(x) : caller' = Wake(others, {s})) /\ UNCHANGED wait
    ELSE /\ caller' = others
         /\ wait' = [wait EXCEPT ![x].count = IF @ < wait[x].size THEN @ + 1 ELSE @]

\* waitable_close, of a closed waitable too, which only warns.
Close(x, others) ==
    /\ wait' = [wait EXCEPT ![x].closed = TRUE]
    /\ caller' = Wake(others, Sleepers(x))

put_waitable(x) == wait' = [wait EXCEPT ![x].refs = @ + 1]

\* The last reference closes the waitable and frees it.
release_waitable(x, others) ==
    IF wait[x].refs = 1
    THEN /\ wait' = [wait EXCEPT ![x].refs = 0, ![x].closed = TRUE]
         /\ caller' = Wake(others, Sleepers(x))
    ELSE wait' = [wait EXCEPT ![x].refs = @ - 1] /\ caller' = others

\* A waitable is received from: a permit goes, or it is closed.
Ready(x) == x # Null /\ (wait[x].count > 0 \/ wait[x].closed)
Receive(x) == wait' = [wait EXCEPT ![x].count = IF @ > 0 THEN @ - 1 ELSE @]

----------------------------------------------------------------------------
(* WaitOne.                                                                *)

\* What a read of WaitHandle.Waitable gives.
Waitable == IF stale # Null THEN stale ELSE field

\* An operation reads the field ...
Begin(c, l) ==
    /\ At(c, "idle")
    /\ caller' = [caller EXCEPT ![c].at = l, ![c].on = Waitable]
    /\ UNCHANGED <<sort, field, stale, wait, timer, fault>>

\* ... and most read it twice: to throw when it is 0, and for the call.
Reread(c) ==
    /\ fault = {} /\ caller[c].at \in {"wait", "put", "send", "take", "set", "close", "reset", "dispose"}
    /\ caller[c].on # Waitable
    /\ caller' = [caller EXCEPT ![c].on = Waitable]
    /\ UNCHANGED <<sort, field, stale, wait, timer, fault>>

\* WaitOneInternal() waits on the waitable it has read, without a reference.
WaitOne(c) == Waitable # Null /\ Begin(c, "wait")

WaitableWait(c) ==
    /\ At(c, "wait")
    /\ Touch(c, caller[c].on,
         /\ IF Ready(caller[c].on)
            THEN Receive(caller[c].on) /\ caller' = Returns(c)
            ELSE caller' = Goes(c, "asleep") /\ UNCHANGED wait
         /\ UNCHANGED <<sort, field, stale, timer>>)

\* WaitOneInternal(timeout) takes a reference and a timeout.
WaitOneTimed(c) == Waitable # Null /\ Begin(c, "put")

Put(c) ==
    /\ At(c, "put")
    /\ Touch(c, caller[c].on,
         /\ put_waitable(caller[c].on) /\ caller' = Goes(c, "after")
         /\ UNCHANGED <<sort, field, stale, timer>>)

\* Thread.Sleep waits for its timeout alone.
Sleep(c) ==
    /\ At(c, "idle") /\ caller' = Goes(c, "after")
    /\ UNCHANGED <<sort, field, stale, wait, timer, fault>>

\* after() starts a timer that has the first reference ...
After(c) ==
    /\ At(c, "after")
    /\ \E x \in Waitables :
         /\ ~wait[x].made
         /\ wait' = [wait EXCEPT ![x] = create_waitable(1)]
         /\ timer' = [timer EXCEPT ![x] = "send"]
         /\ caller' = [caller EXCEPT ![c].at = "after_put", ![c].timeout = x]
    /\ UNCHANGED <<sort, field, stale, fault>>

\* Mutant of AfterPut: the caller is given the reference of the timer.
AfterPutShared(c) ==
    /\ At(c, "after_put") /\ caller' = Goes(c, "select")
    /\ UNCHANGED <<sort, field, stale, wait, timer, fault>>

\* ... and takes the caller's only then, when the timer may have run already.
AfterPut(c) ==
    /\ At(c, "after_put")
    /\ Touch(c, caller[c].timeout,
         /\ put_waitable(caller[c].timeout) /\ caller' = Goes(c, "select")
         /\ UNCHANGED <<sort, field, stale, timer>>)

\* The caller selects between the handle, if there is one, and its timeout.
Known(c) == {caller[c].on, caller[c].timeout} \ {Null}

WaitableSelect2(c) ==
    /\ At(c, "select")
    /\ IF \E x \in Known(c) : Freed(x)
       THEN GoesWrong(c)
       ELSE /\ \/ \E x \in Known(c) : Ready(x) /\ Receive(x) /\ caller' = Goes(c, "drop_timeout")
               \/ /\ \A x \in Known(c) : ~Ready(x)
                  /\ caller' = Goes(c, "asleep") /\ UNCHANGED wait
            /\ UNCHANGED <<sort, field, stale, timer, fault>>

\* The two references go, the timeout's first.
DropTimeout(c) ==
    /\ At(c, "drop_timeout")
    /\ Touch(c, caller[c].timeout,
         /\ release_waitable(caller[c].timeout,
              IF caller[c].on = Null THEN Returns(c)
              ELSE [caller EXCEPT ![c].at = "drop", ![c].timeout = Null])
         /\ UNCHANGED <<sort, field, stale, timer>>)

Drop(c) ==
    /\ At(c, "drop")
    /\ Touch(c, caller[c].on,
         release_waitable(caller[c].on, Returns(c)) /\ UNCHANGED <<sort, field, stale, timer>>)

\* send_timer: it sends, closes and gives up its reference.
SendTimer(x) ==
    /\ fault = {} /\ timer[x] # "none"
    /\ Touch(x, x,
         /\ CASE timer[x] = "send" -> Send(x, caller)
              [] timer[x] = "close" -> Close(x, caller)
              [] timer[x] = "release" -> release_waitable(x, caller)
         /\ timer' = [timer EXCEPT ![x] = CASE @ = "send" -> "close" [] @ = "close" -> "release" [] OTHER -> "none"]
         /\ UNCHANGED <<sort, field, stale>>)

----------------------------------------------------------------------------
(* Events, semaphores and mutexes.                                         *)

\* SetAutoReset and ReleaseMutex send once, Semaphore.Release as often as asked;
\* of these, and of Set and Reset, only the mutex tests whether it was disposed of.
Release(c) ==
    \E n \in 1..Size(sort) :
        /\ sort # "manual" /\ At(c, "idle") /\ (sort = "mutex" => Waitable # Null)
        /\ caller' = [caller EXCEPT ![c].at = "send", ![c].on = Waitable, ![c].left = n]
        /\ UNCHANGED <<sort, field, stale, wait, timer, fault>>

\* A full semaphore ends the loop with an exception.
SendLoop(c) ==
    /\ At(c, "send")
    /\ Touch(c, caller[c].on,
         /\ Send(caller[c].on,
              IF caller[c].left = 1 \/ wait[caller[c].on].closed \/ wait[caller[c].on].count = wait[caller[c].on].size
              THEN Returns(c)
              ELSE [caller EXCEPT ![c].left = @ - 1, ![c].on = Waitable])
         /\ UNCHANGED <<sort, field, stale, timer>>)

\* ResetAutoReset receives what is there.
ResetAutoReset(c) == sort = "auto" /\ Begin(c, "take")

Take(c) ==
    /\ At(c, "take")
    /\ Touch(c, caller[c].on,
         Receive(caller[c].on) /\ caller' = Returns(c) /\ UNCHANGED <<sort, field, stale, timer>>)

\* SetManualReset looks whether the event is set, and reads the field again to close it.
SetManualReset(c) == sort = "manual" /\ Begin(c, "set")

SetCheck(c) ==
    /\ At(c, "set")
    /\ Touch(c, caller[c].on,
         /\ caller' = IF wait[caller[c].on].closed THEN Returns(c)
                      ELSE [caller EXCEPT ![c].at = "close", ![c].on = Waitable]
         /\ UNCHANGED <<sort, field, stale, wait, timer>>)

SetClose(c) ==
    /\ At(c, "close")
    /\ Touch(c, caller[c].on, Close(caller[c].on, Returns(c)) /\ UNCHANGED <<sort, field, stale, timer>>)

\* ResetManualReset replaces a closed waitable and releases the old one.
ResetManualReset(c) == sort = "manual" /\ Begin(c, "reset")

ResetCheck(c) ==
    /\ At(c, "reset")
    /\ Touch(c, caller[c].on,
         /\ caller' = IF wait[caller[c].on].closed THEN Goes(c, "exchange") ELSE Returns(c)
         /\ UNCHANGED <<sort, field, stale, wait, timer>>)

\* A Reset that overtakes a Dispose releases what the handle has no reference to.
Exchange(c) ==
    /\ At(c, "exchange")
    /\ IF field = Null THEN GoesWrong(c)
       ELSE /\ \E x \in Waitables :
                 /\ ~wait[x].made
                 /\ wait' = [wait EXCEPT ![x] = create_waitable(1)]
                 /\ field' = x
                 /\ caller' = [caller EXCEPT ![c].at = "drop", ![c].on = field]
            /\ UNCHANGED <<sort, stale, timer, fault>>

\* Dispose tests the field, releases what it holds ...
Dispose(c) == Waitable # Null /\ Begin(c, "dispose")

\* ... which is wrong where another Dispose or a Reset has done it already ...
DisposeRelease(c) ==
    /\ At(c, "dispose")
    /\ IF field = Null \/ caller[c].on # field THEN GoesWrong(c)
       ELSE /\ release_waitable(field, Goes(c, "clear"))
            /\ field' = Null /\ stale' = field
            /\ UNCHANGED <<sort, timer, fault>>

\* ... and only then clears it.
DisposeClear(c) ==
    /\ At(c, "clear") /\ stale' = Null /\ caller' = Returns(c)
    /\ UNCHANGED <<sort, field, wait, timer, fault>>

Next ==
    \/ \E c \in Callers :
          \/ Reread(c) \/ WaitOne(c) \/ WaitableWait(c)
          \/ WaitOneTimed(c) \/ Put(c) \/ Sleep(c) \/ After(c) \/ AfterPut(c)
          \/ WaitableSelect2(c) \/ DropTimeout(c) \/ Drop(c)
          \/ Release(c) \/ SendLoop(c) \/ ResetAutoReset(c) \/ Take(c)
          \/ SetManualReset(c) \/ SetCheck(c) \/ SetClose(c)
          \/ ResetManualReset(c) \/ ResetCheck(c) \/ Exchange(c)
          \/ Dispose(c) \/ DisposeRelease(c) \/ DisposeClear(c)
    \/ \E x \in Waitables : SendTimer(x)

----------------------------------------------------------------------------
\* The references to x that are counted: the handle's, that of the timer that
\* has not run, and those of the callers in a wait with a timeout or in the
\* middle of a Reset.
Counted(c) ==
    (IF \/ caller[c].at \in {"after", "after_put", "select", "drop_timeout", "drop"}
        \/ caller[c].at = "asleep" /\ caller[c].timeout # Null
     THEN {<<c, caller[c].on>>} ELSE {})
    \cup (IF caller[c].at \in {"select", "asleep", "drop_timeout"} THEN {<<c, caller[c].timeout>>} ELSE {})

References(x) ==
    {f \in {"handle"} : field = x} \cup {t \in {"timer"} : timer[x] # "none"}
    \cup {c \in Callers : <<c, x>> \in Counted(c)}

\* The references of a waitable are counted exactly, so it is freed with its
\* last one, and only a caller without a reference ever touches a freed waitable
\* or gives back a reference it does not have (put_waitable, release_waitable,
\* after, ResetManualReset, Dispose).
ReferencesExact ==
    /\ \A x \in Waitables : wait[x].refs = Cardinality(References(x))
    /\ \A who \in fault : /\ who \in Callers
                          /\ caller[who].at \notin {"select", "drop_timeout", "drop"}

\* What the code says of a Reset, "anything waiting on this will also release
\* its own reference soon enough" (EventWaitHandle.cs), does not hold of
\* WaitOne(), which takes no reference, nor of a caller that has not taken it yet.
WaitersHoldReferences == fault = {}
=============================================================================
