----------------------------- MODULE IdleProofs -----------------------------
(***************************************************************************)
(* The properties of Idle for every number of CPUs and threads, every      *)
(* length of the queues and any number of timers and interrupts.           *)
(***************************************************************************)
EXTENDS Idle, FiniteSetTheorems, TLAPS

Pcs == {"find", "wake", "work", "found", "steal", "idle", "recheck", "poll", "until", "pollcpu", "pollhlt",
        "polled", "again", "hlt", "woken", "thread", "halt"}

\* A CPU between cpu_put_idle and cpu_wake_idle.
Quiet == {"recheck", "poll", "until", "pollcpu", "pollhlt", "polled", "again", "hlt", "woken"}

\* The thread a CPU has picked and not yet made its current one.
Pick(c) == loc[c]["t"]

\* The thread that thread u is about to put into a run queue, and where u is.
Hand(u) == at[u]["hand"]
Step(u) == at[u]["step"]
PutSteps == {"put", "late"}
AtFields == {"step", "when", "hand"}

\* The threads that are on no CPU and in no queue.
Away == blocked \cup lost \cup {t \in Threads : \E u \in Threads : Hand(u) = t}

IdleType ==
    /\ pc \in [Cpus -> Pcs] /\ cur \in [Cpus -> Threads \cup {None}]
    /\ DOMAIN loc = Cpus /\ \A c \in Cpus : DOMAIN loc[c] = {"poll", "was", "left", "t"}
    /\ run \in [Cpus -> SUBSET Threads] /\ glob \subseteq Threads /\ blocked \subseteq Threads
    /\ idle \subseteq Cpus /\ spinning \subseteq Cpus /\ idleCount \in Int /\ nspin \in Int

\* The idle mask and the spinning CPUs against where the CPUs are.  A dispatch
\* out of hlt leaves the CPU in the mask, so the count may be ahead of it.
SleepInv ==
    /\ \A c \in Cpus : pc[c] \in Quiet => c \in idle
    /\ \A c \in Cpus : pc[c] = "recheck" => c \in spinning
    /\ \A c \in Cpus : pc[c] \in (Quiet \ {"recheck"}) \cup {"thread"} => c \notin spinning
    /\ idleCount >= Cardinality(idle) /\ nspin = Cardinality(spinning)

\* Only the CPU itself puts threads into its queue; who fills the global one is
\* awake, and the last CPU to go to sleep has seen it empty.
WorkInv ==
    /\ \A c \in Cpus : pc[c] \in Quiet \cup {"steal", "idle"} => run[c] = {}
    /\ glob # {} => \E c \in Cpus : pc[c] \notin Quiet

\* Which CPUs have a thread.
HandInv ==
    /\ \A c \in Cpus : pc[c] = "thread" => cur[c] \in Threads
    /\ \A c \in Cpus : pc[c] \notin {"thread", "halt"} => cur[c] = None
    /\ \A c \in Cpus : pc[c] = "found" => Pick(c) \in Threads
    /\ \A c \in Cpus : pc[c] # "found" => Pick(c) = None
    /\ ~masked => waiter \in blocked

\* A thread holds another one exactly while it is in a put; no two hold the same,
\* and what is held is neither parked nor lost.
AwayInv ==
    /\ DOMAIN at = Threads /\ \A u \in Threads : DOMAIN at[u] = AtFields
    /\ lost \subseteq Threads /\ lost \cap blocked = {}
    /\ \A u \in Threads : Step(u) \in PutSteps => Hand(u) \in Threads
    /\ \A u \in Threads : Step(u) \notin PutSteps => Hand(u) = None
    /\ \A u \in Threads : Hand(u) \notin blocked /\ Hand(u) \notin lost
    /\ \A u, v \in Threads : Hand(u) = Hand(v) /\ Hand(u) \in Threads => u = v

\* ThreadsInOnePlace of t, without counting.
Has(c, t) == cur[c] = t \/ Pick(c) = t \/ t \in run[c]
Placed(t) ==
    /\ \A c, d \in Cpus : Has(c, t) /\ Has(d, t) => c = d
    /\ \A c \in Cpus : ~(cur[c] = t /\ Pick(c) = t) /\ ~(cur[c] = t /\ t \in run[c]) /\ ~(Pick(c) = t /\ t \in run[c])
    /\ t \in glob => t \notin Away /\ \A c \in Cpus : ~Has(c, t)
    /\ t \in Away => \A c \in Cpus : ~Has(c, t)
    /\ t \in glob \/ t \in Away \/ \E c \in Cpus : Has(c, t)

IdleInv == IdleType /\ SleepInv /\ WorkInv /\ HandInv /\ AwayInv /\ \A t \in Threads : Placed(t)

----------------------------------------------------------------------------
(* What the steps are made of.                                             *)

Fields == {"poll", "was", "left", "t"}

LEMMA SetLoc ==
    ASSUME IdleType, NEW c \in Cpus, NEW f \in Fields, NEW x, Set(c, f, x)
    PROVE  /\ DOMAIN loc' = Cpus /\ \A d \in Cpus : DOMAIN loc'[d] = {"poll", "was", "left", "t"}
           /\ loc'[c][f] = x
           /\ f # "t" => \A d \in Cpus : Pick(d)' = Pick(d)
           /\ \A d \in Cpus : d # c => Pick(d)' = Pick(d)
BY DEF IdleType, Set, Pick, Fields

LEMMA ResetLoc ==
    ASSUME IdleType, NEW c \in Cpus, loc' = [loc EXCEPT ![c] = NoLoc]
    PROVE  /\ DOMAIN loc' = Cpus /\ \A d \in Cpus : DOMAIN loc'[d] = {"poll", "was", "left", "t"}
           /\ Pick(c)' = None
           /\ \A d \in Cpus : d # c => Pick(d)' = Pick(d)
BY DEF IdleType, Pick, NoLoc

\* run_queue_put leaves t and what was in the queue in one of the two queues.
LEMMA PutMoves ==
    ASSUME IdleType, NEW c \in Cpus, NEW t, Put(c, t)
    PROVE  \E out \in SUBSET (run[c] \cup {t}) :
              run' = [run EXCEPT ![c] = (run[c] \cup {t}) \ out] /\ glob' = glob \cup out
<1>1. CASE run' = [run EXCEPT ![c] = run[c] \cup {t}] /\ glob' = glob
  <2>1. {} \in SUBSET (run[c] \cup {t}) /\ (run[c] \cup {t}) \ {} = run[c] \cup {t} /\ glob \cup {} = glob
    OBVIOUS
  <2> QED BY <1>1, <2>1
<1>2. CASE \E out \in kSubset(Cardinality(run[c]) \div 2 + 1, run[c] \cup {t}) :
              run' = [run EXCEPT ![c] = (run[c] \cup {t}) \ out] /\ glob' = glob \cup out
  BY <1>2 DEF kSubset
<1> QED BY <1>1, <1>2 DEF Put

\* global_run_queue_get takes some threads, one of them to run it at once.
LEMMA GetMoves ==
    ASSUME IdleType, NEW c \in Cpus, NEW max, GlobalGet(c, max)
    PROVE  \E take \in SUBSET glob : \E t \in take :
              /\ glob' = glob \ take /\ run' = [run EXCEPT ![c] = run[c] \cup (take \ {t})]
              /\ Set(c, "t", t) /\ Goto(c, "found")
<1>1. PICK n : \E take \in kSubset(n, glob) : \E t \in take :
              /\ glob' = glob \ take /\ run' = [run EXCEPT ![c] = run[c] \cup (take \ {t})]
              /\ Set(c, "t", t) /\ Goto(c, "found")
  BY DEF GlobalGet
<1> QED BY <1>1 DEF kSubset

----------------------------------------------------------------------------
(* What a step of c does to each part of the invariant.                    *)

\* c is somewhere else, and no thread has moved.
Still == UNCHANGED <<cur, run, glob, blocked, at, lost, waiter, masked>> /\ \A d \in Cpus : Pick(d)' = Pick(d)

\* The same, although a parked thread may have come into a hand, or one in a hand
\* may be lost.
Calm ==
    /\ UNCHANGED <<cur, run, glob>> /\ \A d \in Cpus : Pick(d)' = Pick(d)
    /\ Away' = Away /\ AwayInv' /\ blocked' \subseteq Threads
    /\ ~masked' => waiter' \in blocked'
LocOK == DOMAIN loc' = Cpus /\ \A d \in Cpus : DOMAIN loc'[d] = {"poll", "was", "left", "t"}

\* The same threads are in the same hands.
SameHands ==
    /\ DOMAIN at' = Threads /\ \A u \in Threads : DOMAIN at'[u] = AtFields
    /\ \A u \in Threads : Hand(u)' = Hand(u) /\ (Step(u)' \in PutSteps <=> Step(u) \in PutSteps)

\* Some parked threads are parked no more.
LEMMA AwayLess ==
    ASSUME IdleInv, SameHands, UNCHANGED lost, NEW b \in SUBSET blocked, blocked' = blocked \ b
    PROVE  Away' = Away \ b /\ AwayInv'
<1>1. /\ \A u \in Threads : Hand(u) \notin blocked /\ Hand(u) \notin lost
      /\ lost \cap blocked = {} /\ blocked \subseteq Threads
  BY DEF IdleInv, IdleType, AwayInv
<1>2. Away' = Away \ b
  BY <1>1 DEF Away, SameHands
<1>3. AwayInv'
  BY <1>1 DEF IdleInv, AwayInv, SameHands
<1> QED BY <1>2, <1>3

LEMMA AtSame ==
    ASSUME IdleInv, UNCHANGED at
    PROVE  SameHands
BY DEF IdleInv, AwayInv, SameHands, Hand, Step

LEMMA AwaySame ==
    ASSUME IdleInv, SameHands, UNCHANGED <<lost, blocked>>
    PROVE  Away' = Away /\ AwayInv'
<1>1. PICK b : b = {}
  OBVIOUS
<1>2. b \in SUBSET blocked /\ blocked' = blocked \ b /\ Away \ b = Away
  BY <1>1
<1> QED BY <1>2, AwayLess

\* Thread u has taken a step.
LEMMA AtBecomes ==
    ASSUME IdleInv, NEW u \in Threads, NEW r, DOMAIN r = AtFields, at' = [at EXCEPT ![u] = r]
    PROVE  /\ DOMAIN at' = Threads /\ \A v \in Threads : DOMAIN at'[v] = AtFields
           /\ Hand(u)' = r["hand"] /\ Step(u)' = r["step"]
           /\ \A v \in Threads : v # u => Hand(v)' = Hand(v) /\ Step(v)' = Step(v)
<1>1. DOMAIN at = Threads /\ \A v \in Threads : DOMAIN at[v] = AtFields
  BY DEF IdleInv, AwayInv
<1>2. DOMAIN at' = Threads /\ at'[u] = r /\ \A v \in Threads : v # u => at'[v] = at[v]
  BY <1>1
<1> QED BY <1>1, <1>2 DEF Hand, Step

LEMMA StillCalm ==
    ASSUME IdleInv, Still
    PROVE  Calm
<1>1. UNCHANGED <<cur, run, glob, blocked, at, lost, waiter, masked>> /\ \A d \in Cpus : Pick(d)' = Pick(d)
  BY DEF Still
<1>2. Away' = Away /\ AwayInv'
  BY <1>1, AtSame, AwaySame
<1> QED BY <1>1, <1>2 DEF Calm, IdleInv, IdleType, HandInv

LEMMA CalmPlaced ==
    ASSUME Calm, \A t \in Threads : Placed(t)
    PROVE  \A t \in Threads : Placed(t)'
<1>1. \A t \in Threads : \A c \in Cpus : Has(c, t)' <=> Has(c, t)
  BY DEF Calm, Has
<1> QED BY <1>1 DEF Calm, Placed

LEMMA StillPlaced ==
    ASSUME IdleInv, Still
    PROVE  AwayInv' /\ \A t \in Threads : Placed(t)'
BY StillCalm, CalmPlaced DEF IdleInv, Calm

\* A CPU that has no thread goes on without one.
LEMMA StillHand ==
    ASSUME IdleInv, NEW c \in Cpus, NEW l \in Pcs, Goto(c, l), Calm,
           l = pc[c] \/ (pc[c] \notin {"thread", "found", "halt"} /\ l \notin {"thread", "found"}) \/ (pc[c] = "thread" /\ l = "halt")
    PROVE  HandInv'
<1>1. \A d \in Cpus : pc'[d] = IF d = c THEN l ELSE pc[d]
  BY DEF Goto, IdleInv, IdleType
<1>2. Pick(c) = None \/ pc[c] = "found"
  BY DEF IdleInv, HandInv
<1> QED BY <1>1, <1>2 DEF Calm, IdleInv, HandInv, Pick

\* A step into or within the idle loop, or out of it, with the idle mask as it is.
LEMMA StillWork ==
    ASSUME IdleInv, NEW c \in Cpus, NEW l \in Pcs, Goto(c, l), UNCHANGED <<run, glob>>,
           l \in Quiet \cup {"steal", "idle"} => run[c] = {},
           l \in Quiet => pc[c] \in Quiet \/ glob = {}
    PROVE  WorkInv'
<1>1. \A d \in Cpus : pc'[d] = IF d = c THEN l ELSE pc[d]
  BY DEF Goto, IdleInv, IdleType
<1> QED BY <1>1 DEF IdleInv, WorkInv

LEMMA StillSleep ==
    ASSUME IdleInv, NEW c \in Cpus, NEW l \in Pcs, Goto(c, l), UNCHANGED sched,
           l \in Quiet => pc[c] \in Quiet,
           l = "recheck" => pc[c] = "recheck",
           l \in (Quiet \ {"recheck"}) \cup {"thread"} => c \notin spinning
    PROVE  SleepInv'
<1>1. \A d \in Cpus : pc'[d] = IF d = c THEN l ELSE pc[d]
  BY DEF Goto, IdleInv, IdleType
<1>2. UNCHANGED <<idle, idleCount, spinning, nspin>>
  BY DEF sched
<1> QED BY <1>1, <1>2 DEF IdleInv, SleepInv

LEMMA StillType ==
    ASSUME IdleInv, NEW c \in Cpus, NEW l \in Pcs, Goto(c, l), LocOK, Calm,
           idle' \subseteq Cpus, spinning' \subseteq Cpus, idleCount' \in Int, nspin' \in Int
    PROVE  IdleType'
BY DEF IdleInv, IdleType, LocOK, Goto, Calm

\* All of it, for a step that changes neither mask nor counter.
LEMMA CalmStep ==
    ASSUME IdleInv, NEW c \in Cpus, NEW l \in Pcs, Goto(c, l), LocOK, Calm, UNCHANGED sched,
           l = pc[c] \/ (pc[c] \notin {"thread", "found", "halt"} /\ l \notin {"thread", "found"}) \/ (pc[c] = "thread" /\ l = "halt"),
           l \in Quiet \cup {"steal", "idle"} => run[c] = {},
           l \in Quiet => pc[c] \in Quiet,
           l = "recheck" => pc[c] = "recheck",
           l \in (Quiet \ {"recheck"}) \cup {"thread"} => c \notin spinning
    PROVE  IdleInv'
<1>1. UNCHANGED <<cur, run, glob, idle, idleCount, spinning, nspin>> /\ AwayInv'
  BY DEF Calm, sched
<1>2. IdleType'
  <2>1. idle' \subseteq Cpus /\ spinning' \subseteq Cpus /\ idleCount' \in Int /\ nspin' \in Int
    BY <1>1 DEF IdleInv, IdleType
  <2> QED BY <2>1, StillType
<1>3. SleepInv'
  BY StillSleep
<1>4. WorkInv'
  BY <1>1, StillWork
<1>5. HandInv'
  BY StillHand
<1>6. \A t \in Threads : Placed(t)'
  BY CalmPlaced DEF IdleInv
<1> QED BY <1>1, <1>2, <1>3, <1>4, <1>5, <1>6 DEF IdleInv

LEMMA StillStep ==
    ASSUME IdleInv, NEW c \in Cpus, NEW l \in Pcs, Goto(c, l), LocOK, Still, UNCHANGED sched,
           l = pc[c] \/ (pc[c] \notin {"thread", "found", "halt"} /\ l \notin {"thread", "found"}) \/ (pc[c] = "thread" /\ l = "halt"),
           l \in Quiet \cup {"steal", "idle"} => run[c] = {},
           l \in Quiet => pc[c] \in Quiet,
           l = "recheck" => pc[c] = "recheck",
           l \in (Quiet \ {"recheck"}) \cup {"thread"} => c \notin spinning
    PROVE  IdleInv'
BY StillCalm, CalmStep

\* Nothing the invariant looks at changes.
LEMMA Untouched ==
    ASSUME IdleInv, UNCHANGED <<pc, loc, sched, cur, run, glob, blocked, waiter, masked>>,
           SameHands, UNCHANGED lost
    PROVE  IdleInv'
<1>1. UNCHANGED <<pc, loc, cur, run, glob, blocked, waiter, masked, idle, idleCount, spinning, nspin>>
  BY DEF sched
<1>2. IdleType' /\ SleepInv' /\ WorkInv'
  BY <1>1 DEF IdleInv, IdleType, SleepInv, WorkInv
<1>3. Away' = Away /\ AwayInv'
  BY <1>1, AwaySame
<1>4. HandInv'
  BY <1>1 DEF IdleInv, HandInv, Pick
<1>5. \A t \in Threads : \A c \in Cpus : /\ Has(c, t)' <=> Has(c, t)
                                         /\ cur'[c] = cur[c] /\ run'[c] = run[c] /\ Pick(c)' = Pick(c)
  BY <1>1 DEF Has, Pick
<1>6. \A t \in Threads : Placed(t)'
  BY <1>1, <1>3, <1>5 DEF IdleInv, Placed
<1> QED BY <1>2, <1>3, <1>4, <1>6 DEF IdleInv

LEMMA LocBecomes ==
    ASSUME IdleType, NEW c \in Cpus, NEW r, DOMAIN r = Fields, loc' = [loc EXCEPT ![c] = r]
    PROVE  /\ LocOK /\ Pick(c)' = r["t"]
           /\ \A d \in Cpus : d # c => Pick(d)' = Pick(d)
BY DEF IdleType, Pick, LocOK, Fields

LEMMA LocSame ==
    ASSUME IdleType, UNCHANGED loc
    PROVE  LocOK /\ \A d \in Cpus : Pick(d)' = Pick(d)
BY DEF IdleType, Pick, LocOK

----------------------------------------------------------------------------
(* The steps that move no thread.                                          *)

LEMMA IdleWakeCpu == ASSUME IdleInv, NEW c \in Cpus, WakeCpu(c) PROVE IdleInv'
<1>1. pc[c] = "wake" /\ Goto(c, "work") /\ UNCHANGED <<loc, sched>> /\ "work" \in Pcs
  BY DEF WakeCpu, Pcs
<1>2. LocOK /\ Still
  BY LocSame DEF WakeCpu, Still, where, dev, IdleInv
<1>3. UNCHANGED sched
  BY <1>1
<1> QED BY <1>1, <1>2, <1>3, StillStep DEF Quiet

LEMMA IdleTakePoll == ASSUME IdleInv, NEW c \in Cpus, TakePoll(c) PROVE IdleInv'
<1>1. PICK l \in {"until", "hlt"} : pc[c] = "poll" /\ Goto(c, l)
  BY DEF TakePoll
<1>2. PICK r : r = (IF l = "hlt" THEN NoLoc ELSE loc[c])
  OBVIOUS
<1>3. pc'[c] = l
  BY <1>1 DEF Goto, IdleInv, IdleType
<1>4. loc' = [loc EXCEPT ![c] = r] /\ UNCHANGED sched
  BY <1>2, <1>3 DEF TakePoll
<1>5. Pick(c) = None /\ DOMAIN r = Fields /\ r["t"] = None
  BY <1>1, <1>2 DEF IdleInv, IdleType, HandInv, Pick, NoLoc, Fields
<1>6. LocOK /\ \A d \in Cpus : Pick(d)' = Pick(d)
  BY <1>4, <1>5, LocBecomes DEF IdleInv
<1>7. LocOK /\ Still /\ l \in Pcs
  BY <1>6 DEF TakePoll, Still, where, dev, Pcs
<1>8. run[c] = {} /\ c \notin spinning /\ pc[c] \in Quiet
  BY <1>1 DEF IdleInv, WorkInv, SleepInv, Quiet
<1> QED BY <1>1, <1>4, <1>7, <1>8, StillStep

LEMMA IdlePollUntil == ASSUME IdleInv, NEW c \in Cpus, PollUntil(c) PROVE IdleInv'
<1>1. PICK l \in {"pollcpu", "polled"} : pc[c] = "until" /\ Goto(c, l)
  BY DEF PollUntil
<1>2. LocOK /\ Still /\ UNCHANGED sched /\ l \in Pcs
  BY LocSame DEF PollUntil, Still, where, dev, IdleInv, Pcs
<1>3. run[c] = {} /\ c \notin spinning /\ pc[c] \in Quiet
  BY <1>1 DEF IdleInv, WorkInv, SleepInv, Quiet
<1> QED BY <1>1, <1>2, <1>3, StillStep

LEMMA IdlePollCpu == ASSUME IdleInv, NEW c \in Cpus, PollCpu(c) PROVE IdleInv'
<1>1. pc[c] = "pollcpu" /\ Goto(c, "pollhlt") /\ "pollhlt" \in Pcs
  BY DEF PollCpu, Pcs
<1>2. LocOK /\ Still /\ UNCHANGED sched
  BY LocSame DEF PollCpu, Still, where, dev, IdleInv
<1>3. run[c] = {} /\ c \notin spinning /\ pc[c] \in Quiet
  BY <1>1 DEF IdleInv, WorkInv, SleepInv, Quiet
<1> QED BY <1>1, <1>2, <1>3, StillStep

LEMMA IdleWakeup == ASSUME IdleInv, NEW c \in Cpus, Wakeup(c) PROVE IdleInv'
<1>1. PICK l \in {"woken", "polled", "thread"} :
         /\ Goto(c, l)
         /\ l = "thread" => pc[c] = "thread"
         /\ l # "thread" => pc[c] \in {"hlt", "pollhlt"}
  BY DEF Wakeup
<1>2. LocOK /\ Still /\ UNCHANGED sched /\ l \in Pcs
  BY <1>1, LocSame DEF Wakeup, Still, where, dev, IdleInv, Pcs
<1>3. CASE l = "thread"
  <2>1. c \notin spinning /\ pc[c] = l
    BY <1>1, <1>3 DEF IdleInv, SleepInv
  <2> QED BY <1>1, <1>2, <1>3, <2>1, StillStep DEF Quiet
<1>4. CASE l # "thread"
  <2>1. run[c] = {} /\ c \notin spinning /\ pc[c] \in Quiet
    BY <1>1, <1>4 DEF IdleInv, WorkInv, SleepInv, Quiet
  <2> QED BY <1>1, <1>2, <1>4, <2>1, StillStep
<1> QED BY <1>3, <1>4

LEMMA IdlePollEnd == ASSUME IdleInv, NEW c \in Cpus, PollEnd(c) PROVE IdleInv'
<1>1. pc[c] = "polled" /\ Goto(c, "again") /\ "again" \in Pcs
  BY DEF PollEnd, Pcs
<1>2. LocOK /\ Still /\ UNCHANGED sched
  BY LocSame DEF PollEnd, Still, where, dev, IdleInv
<1>3. run[c] = {} /\ c \notin spinning /\ pc[c] \in Quiet
  BY <1>1 DEF IdleInv, WorkInv, SleepInv, Quiet
<1> QED BY <1>1, <1>2, <1>3, StillStep

\* A failed assertion.
LEMMA IdleHalts ==
    ASSUME IdleInv, NEW c \in Cpus, PreemptIdle(c) \/ ParkAsserts(c) \/ DispatchAsserts(c)
    PROVE  IdleInv'
<1>1. pc[c] \in {"hlt", "pollhlt", "thread"} /\ Goto(c, "halt") /\ "halt" \in Pcs
  BY DEF PreemptIdle, ParkAsserts, DispatchAsserts, At, Pcs
<1>2. LocOK /\ Still /\ UNCHANGED sched
  BY LocSame DEF PreemptIdle, ParkAsserts, DispatchAsserts, Still, where, dev, IdleInv
<1> QED BY <1>1, <1>2, StillStep DEF Quiet

\* What a thread does without giving up its CPU or readying another one.
LEMMA IdleThread ==
    ASSUME IdleInv, NEW c \in Cpus, ThreadWakes(c) \/ PreemptEnable(c) \/ AddTimer(c) \/ WakePoller(c)
    PROVE  IdleInv'
<1>1. UNCHANGED <<pc, loc, sched, cur, run, glob, blocked, lost, waiter, masked>>
  BY DEF ThreadWakes, PreemptEnable, AddTimer, WakePoller, dev
<1>2. cur[c] \in Threads /\ Step(cur[c]) \notin PutSteps
  BY DEF ThreadWakes, PreemptEnable, AddTimer, WakePoller, At, Step, PutSteps, IdleInv, HandInv
<1>3. PICK u \in Threads : u = cur[c]
  BY <1>2
<1>4. DOMAIN at = Threads /\ DOMAIN at[u] = AtFields /\ Hand(u) = None /\ Step(u) \notin PutSteps
  BY <1>2, <1>3 DEF IdleInv, AwayInv
<1>5. PICK r : DOMAIN r = AtFields /\ r["hand"] = None /\ r["step"] \notin PutSteps /\ at' = [at EXCEPT ![u] = r]
  <2>1. ASSUME NEW x, x \notin PutSteps, at' = [at EXCEPT ![u].step = x]
        PROVE  \E r : DOMAIN r = AtFields /\ r["hand"] = None /\ r["step"] \notin PutSteps /\ at' = [at EXCEPT ![u] = r]
    <3>1. PICK r : r = [at[u] EXCEPT !.step = x]
      OBVIOUS
    <3>2. at' = [at EXCEPT ![u] = r]
      BY <2>1, <3>1
    <3>3. DOMAIN r = AtFields /\ r["hand"] = None /\ r["step"] = x
      BY <1>4, <3>1 DEF AtFields, Hand
    <3> QED BY <2>1, <3>2, <3>3
  <2>2. ASSUME NEW w, at' = [at EXCEPT ![u].step = "poke", ![u].when = w]
        PROVE  \E r : DOMAIN r = AtFields /\ r["hand"] = None /\ r["step"] \notin PutSteps /\ at' = [at EXCEPT ![u] = r]
    <3>1. PICK r : r = [at[u] EXCEPT !.step = "poke", !.when = w]
      OBVIOUS
    <3>2. at' = [at EXCEPT ![u] = r]
      BY <1>4, <2>2, <3>1
    <3>3. DOMAIN r = AtFields /\ r["hand"] = None /\ r["step"] = "poke"
      BY <1>4, <3>1 DEF AtFields, Hand
    <3> QED BY <3>2, <3>3 DEF PutSteps
  <2>3. ASSUME at' = [at EXCEPT ![u] = User]
        PROVE  \E r : DOMAIN r = AtFields /\ r["hand"] = None /\ r["step"] \notin PutSteps /\ at' = [at EXCEPT ![u] = r]
    BY <2>3 DEF User, AtFields, PutSteps
  <2>4. \/ \E x \in {"enable", "user", "until", "try", "break"} : at' = [at EXCEPT ![u].step = x]
        \/ \E w : at' = [at EXCEPT ![u].step = "poke", ![u].when = w]
        \/ at' = [at EXCEPT ![u] = User]
    BY <1>3 DEF ThreadWakes, PreemptEnable, AddTimer, WakePoller, Then
  <2> QED BY <2>1, <2>2, <2>3, <2>4 DEF PutSteps
<1>6. /\ DOMAIN at' = Threads /\ \A v \in Threads : DOMAIN at'[v] = AtFields
      /\ Hand(u)' = None /\ Step(u)' = r["step"]
      /\ \A v \in Threads : v # u => Hand(v)' = Hand(v) /\ Step(v)' = Step(v)
  BY <1>5, AtBecomes
<1>7. SameHands
  BY <1>4, <1>5, <1>6 DEF SameHands
<1> QED BY <1>1, <1>7, Untouched

LEMMA IdleTick == ASSUME IdleInv, Tick PROVE IdleInv'
<1>1. UNCHANGED <<pc, loc, sched, cur, run, glob, blocked, waiter, masked>>
  BY DEF Tick, where, dev
<1>2. SameHands /\ UNCHANGED lost
  BY AtSame DEF Tick, where
<1> QED BY <1>1, <1>2, Untouched

----------------------------------------------------------------------------
(* The steps that change the idle mask or the spinning CPUs.               *)

\* Adding to and removing from a set of CPUs.
LEMMA CpuCount ==
    ASSUME NEW S \in SUBSET Cpus, NEW c \in Cpus
    PROVE  /\ Cardinality(S) \in Nat
           /\ S \cup {c} \in SUBSET Cpus /\ S \ {c} \in SUBSET Cpus
           /\ c \notin S => Cardinality(S \cup {c}) = Cardinality(S) + 1
           /\ c \in S => Cardinality(S \ {c}) = Cardinality(S) - 1 /\ S \cup {c} = S
           /\ c \notin S => S \ {c} = S
           /\ Cardinality(S \cup {c}) <= Cardinality(S) + 1
<1>1. IsFiniteSet(S)
  BY IdleAssumption, FS_Subset
<1>2. Cardinality(S) \in Nat
  BY <1>1, FS_CardinalityType
<1>3. c \notin S => Cardinality(S \cup {c}) = Cardinality(S) + 1
  BY <1>1, FS_AddElement
<1>4. c \in S => Cardinality(S \ {c}) = Cardinality(S) - 1
  BY <1>1, FS_RemoveElement
<1>5. (c \in S => S \cup {c} = S) /\ (c \notin S => S \ {c} = S) /\ S \cup {c} \in SUBSET Cpus /\ S \ {c} \in SUBSET Cpus
  OBVIOUS
<1>6. Cardinality(S \cup {c}) <= Cardinality(S) + 1
  <2>1. CASE c \in S
    <3>1. S \cup {c} = S
      BY <2>1
    <3>2. Cardinality(S \cup {c}) = Cardinality(S)
      BY <3>1, Zenon
    <3> QED BY <1>2, <3>2
  <2> QED BY <1>2, <1>3, <2>1
<1> QED BY <1>2, <1>3, <1>4, <1>5, <1>6, Zenon

LEMMA IdleStartSpin == ASSUME IdleInv, NEW c \in Cpus, StartSpin(c) PROVE IdleInv'
<1>1. /\ pc[c] = "work" /\ run[c] = {} /\ glob = {} /\ UNCHANGED <<idle, idleCount, cur, run, glob, blocked, at, lost, waiter, masked>>
  BY DEF StartSpin, where, dev
<1>2. PICK x : Set(c, "left", x)
  BY DEF StartSpin
<1>3. PICK l \in {"steal", "idle"} : Goto(c, l)
  BY DEF StartSpin
<1>4. \/ spinning' = spinning /\ nspin' = nspin
      \/ c \notin spinning /\ spinning' = spinning \cup {c} /\ nspin' = nspin + 1
  <2>1. CASE c \in spinning
    BY <2>1 DEF StartSpin
  <2>2. CASE c \notin spinning
    BY <2>2 DEF StartSpin
  <2> QED BY <2>1, <2>2
<1>5. LocOK /\ Still
  BY <1>1, <1>2, SetLoc DEF LocOK, Still, Fields, IdleInv
<1>6. l \in Pcs
  BY DEF Pcs
<1>7. /\ spinning \in SUBSET Cpus /\ nspin = Cardinality(spinning) /\ Cardinality(spinning) \in Nat
      /\ c \notin spinning => Cardinality(spinning \cup {c}) = Cardinality(spinning) + 1
  BY CpuCount DEF IdleInv, IdleType, SleepInv
<1>8. IdleType'
  <2>1. idle' \subseteq Cpus /\ spinning' \subseteq Cpus /\ idleCount' \in Int /\ nspin' \in Int
    BY <1>1, <1>4, <1>7 DEF IdleInv, IdleType
  <2> QED BY <1>1, <1>3, <1>5, <1>6, <2>1, StillCalm, StillType
<1>9. SleepInv'
  <2>1. \A d \in Cpus : pc'[d] = IF d = c THEN l ELSE pc[d]
    BY <1>3 DEF Goto, IdleInv, IdleType
  <2>2. nspin' = Cardinality(spinning')
    BY <1>4, <1>7
  <2>3. \A d \in Cpus : d # c => (d \in spinning' <=> d \in spinning)
    BY <1>4
  <2>4. /\ \A d \in Cpus : pc'[d] = "recheck" => d \in spinning'
        /\ \A d \in Cpus : pc'[d] \in (Quiet \ {"recheck"}) \cup {"thread"} => d \notin spinning'
        /\ \A d \in Cpus : pc'[d] \in Quiet => d \in idle'
    BY <1>1, <2>1, <2>3 DEF IdleInv, SleepInv, Quiet
  <2> QED BY <1>1, <2>2, <2>4 DEF IdleInv, SleepInv
<1>10. WorkInv'
  BY <1>1, <1>3, <1>6, StillWork DEF Quiet
<1>11. HandInv'
  BY <1>1, <1>3, <1>5, <1>6, StillCalm, StillHand
<1>12. AwayInv' /\ \A t \in Threads : Placed(t)'
  BY <1>5, StillPlaced
<1> QED BY <1>8, <1>9, <1>10, <1>11, <1>12 DEF IdleInv

\* cpu_wake_idle and the return to the start of find_runnable.
LEMMA WakesIdle ==
    ASSUME IdleInv, NEW c \in Cpus, pc[c] \in Quiet, WakeIdle(c), loc' = [loc EXCEPT ![c] = NoLoc], Goto(c, "find"),
           UNCHANGED <<cur, run, glob, blocked, at, lost, waiter, masked>>,
           \/ spinning' = spinning /\ nspin' = nspin
           \/ c \notin spinning /\ spinning' = spinning \cup {c} /\ nspin' = nspin + 1
    PROVE  IdleInv'
<1>1. "find" \in Pcs /\ "find" \notin Quiet /\ pc[c] \notin {"thread", "found", "halt"}
  BY DEF Pcs, Quiet
<1>2. Pick(c) = None /\ c \in idle
  BY <1>1 DEF IdleInv, HandInv, SleepInv
<1>3. LocOK /\ Still
  BY <1>2, ResetLoc DEF LocOK, Still, IdleInv
<1>4. /\ spinning \in SUBSET Cpus /\ nspin = Cardinality(spinning) /\ Cardinality(spinning) \in Nat
      /\ c \notin spinning => Cardinality(spinning \cup {c}) = Cardinality(spinning) + 1
      /\ idle \in SUBSET Cpus /\ idleCount \in Int
  BY CpuCount DEF IdleInv, IdleType, SleepInv
<1>5. idle' = idle \ {c} /\ idleCount' = idleCount - 1 /\ Cardinality(idle') = Cardinality(idle) - 1 /\ Cardinality(idle) \in Nat
  BY <1>2, <1>4, CpuCount DEF WakeIdle
<1>6. IdleType'
  <2>1. idle' \subseteq Cpus /\ spinning' \subseteq Cpus /\ idleCount' \in Int /\ nspin' \in Int
    BY <1>4, <1>5
  <2> QED BY <1>1, <1>3, <2>1, StillCalm, StillType
<1>7. SleepInv'
  <2>1. \A d \in Cpus : pc'[d] = IF d = c THEN "find" ELSE pc[d]
    BY DEF Goto, IdleInv, IdleType
  <2>2. nspin' = Cardinality(spinning') /\ idleCount' >= Cardinality(idle')
    <3>1. nspin' = Cardinality(spinning')
      BY <1>4
    <3>2. idleCount >= Cardinality(idle)
      BY DEF IdleInv, SleepInv
    <3>3. idleCount' >= Cardinality(idle')
      BY <1>4, <1>5, <3>2
    <3> QED BY <3>1, <3>3
  <2>3. \A d \in Cpus : d # c => (d \in spinning' <=> d \in spinning) /\ (d \in idle' <=> d \in idle)
    BY <1>5
  <2>4. /\ \A d \in Cpus : pc'[d] = "recheck" => d \in spinning'
        /\ \A d \in Cpus : pc'[d] \in (Quiet \ {"recheck"}) \cup {"thread"} => d \notin spinning'
        /\ \A d \in Cpus : pc'[d] \in Quiet => d \in idle'
    BY <1>1, <2>1, <2>3 DEF IdleInv, SleepInv, Quiet
  <2> QED BY <2>2, <2>4 DEF SleepInv
<1>8. WorkInv'
  BY <1>1, StillWork
<1>9. HandInv'
  BY <1>1, <1>3, StillCalm, StillHand
<1>10. AwayInv' /\ \A t \in Threads : Placed(t)'
  BY <1>3, StillPlaced
<1> QED BY <1>6, <1>7, <1>8, <1>9, <1>10 DEF IdleInv

LEMMA IdleWoke == ASSUME IdleInv, NEW c \in Cpus, Woke(c) PROVE IdleInv'
<1>1. /\ pc[c] \in {"woken", "again"} /\ WakeIdle(c) /\ loc' = [loc EXCEPT ![c] = NoLoc] /\ Goto(c, "find")
      /\ UNCHANGED <<cur, run, glob, blocked, at, lost, waiter, masked>>
  BY DEF Woke, where, dev
<1>2. pc[c] \in Quiet /\ c \notin spinning
  BY <1>1 DEF IdleInv, SleepInv, Quiet
<1>3. \/ spinning' = spinning /\ nspin' = nspin
      \/ c \notin spinning /\ spinning' = spinning \cup {c} /\ nspin' = nspin + 1
  BY <1>2 DEF Woke
<1> QED BY <1>1, <1>2, <1>3, WakesIdle

LEMMA IdleRecheck == ASSUME IdleInv, NEW c \in Cpus, Recheck(c) PROVE IdleInv'
<1>1. pc[c] = "recheck" /\ UNCHANGED <<cur, run, glob, blocked, at, lost, waiter, masked>> /\ pc[c] \in Quiet
  BY DEF Recheck, where, dev, Quiet
<1>2. CASE /\ WakeIdle(c) /\ UNCHANGED <<spinning, nspin>>
           /\ loc' = [loc EXCEPT ![c] = NoLoc] /\ Goto(c, "find")
  BY <1>1, <1>2, WakesIdle
<1>3. ASSUME NEW x, spinning' = spinning \ {c}, nspin' = nspin - 1, Set(c, "poll", x), Goto(c, "poll"),
             UNCHANGED <<idle, idleCount>>
      PROVE  IdleInv'
  <2>1. LocOK /\ Still
    BY <1>1, <1>3, SetLoc DEF LocOK, Still, Fields, IdleInv
  <2>2. "poll" \in Pcs /\ run[c] = {} /\ c \in spinning /\ c \in idle
    BY <1>1 DEF Pcs, IdleInv, WorkInv, SleepInv
  <2>3. /\ spinning' \in SUBSET Cpus /\ nspin = Cardinality(spinning) /\ Cardinality(spinning) \in Nat
        /\ Cardinality(spinning') = Cardinality(spinning) - 1
    BY <1>3, <2>2, CpuCount DEF IdleInv, IdleType, SleepInv
  <2>4. IdleType'
    <3>1. idle' \subseteq Cpus /\ spinning' \subseteq Cpus /\ idleCount' \in Int /\ nspin' \in Int
      BY <1>3, <2>3 DEF IdleInv, IdleType
    <3> QED BY <1>1, <1>3, <2>1, <2>2, <3>1, StillCalm, StillType
  <2>5. SleepInv'
    <3>1. \A d \in Cpus : pc'[d] = IF d = c THEN "poll" ELSE pc[d]
      BY <1>3 DEF Goto, IdleInv, IdleType
    <3>2. \A d \in Cpus : d # c => (d \in spinning' <=> d \in spinning)
      BY <1>3
    <3>3. c \notin spinning'
      BY <1>3
    <3> QED BY <1>3, <2>2, <2>3, <3>1, <3>2, <3>3 DEF IdleInv, SleepInv
  <2>6. WorkInv'
    BY <1>1, <1>3, <2>2, StillWork
  <2>7. HandInv'
    BY <1>1, <1>3, <2>1, <2>2, StillCalm, StillHand
  <2>8. AwayInv' /\ \A t \in Threads : Placed(t)'
    BY <2>1, StillPlaced
  <2> QED BY <2>4, <2>5, <2>6, <2>7, <2>8 DEF IdleInv
<1> QED BY <1>2, <1>3 DEF Recheck

----------------------------------------------------------------------------
(* The steps that move a thread.                                           *)

\* c is awake before and after; the queues of the others only shrink.
AwakeAt(c, l) ==
    /\ l \in {"wake", "work", "found", "thread", "find"} /\ Goto(c, l) /\ LocOK
    /\ UNCHANGED <<idle, idleCount>> /\ spinning' \subseteq Cpus /\ nspin' \in Int /\ nspin' = Cardinality(spinning')
    /\ l = "thread" => c \notin spinning'
    /\ \A d \in Cpus : d # c => (d \in spinning' <=> d \in spinning)
ThreadsAt(c, l) ==
    /\ cur' \in [Cpus -> Threads \cup {None}] /\ run' \in [Cpus -> SUBSET Threads]
    /\ glob' \subseteq Threads /\ blocked' \subseteq Threads /\ AwayInv'
    /\ \A d \in Cpus : d # c => cur'[d] = cur[d] /\ run'[d] \subseteq run[d] /\ Pick(d)' = Pick(d)
    /\ IF l = "thread" THEN cur'[c] \in Threads ELSE cur'[c] = None
    /\ IF l = "found" THEN Pick(c)' \in Threads ELSE Pick(c)' = None
    /\ ~masked' => waiter' \in blocked'

LEMMA MoveStep ==
    ASSUME IdleInv, NEW c \in Cpus, NEW l, AwakeAt(c, l), ThreadsAt(c, l), \A t \in Threads : Placed(t)'
    PROVE  IdleInv'
<1>1. /\ \A d \in Cpus : pc'[d] = IF d = c THEN l ELSE pc[d]
      /\ pc' \in [Cpus -> Pcs] /\ l \notin Quiet
  BY DEF AwakeAt, Goto, IdleInv, IdleType, Pcs, Quiet
<1>2. IdleType'
  BY <1>1 DEF AwakeAt, ThreadsAt, LocOK, IdleInv, IdleType
<1>3. SleepInv'
  <2>1. \A d \in Cpus : pc'[d] \in Quiet => d \in idle'
    BY <1>1 DEF AwakeAt, IdleInv, SleepInv
  <2>2. \A d \in Cpus : pc'[d] = "recheck" => d \in spinning'
    BY <1>1 DEF AwakeAt, IdleInv, SleepInv, Quiet
  <2>3. \A d \in Cpus : pc'[d] \in (Quiet \ {"recheck"}) \cup {"thread"} => d \notin spinning'
    BY <1>1 DEF AwakeAt, IdleInv, SleepInv
  <2>4. idleCount' >= Cardinality(idle')
    BY DEF AwakeAt, IdleInv, SleepInv
  <2> QED BY <2>1, <2>2, <2>3, <2>4 DEF AwakeAt, SleepInv
<1>4. WorkInv'
  <2>1. l \notin {"steal", "idle"}
    BY DEF AwakeAt
  <2>2. \A d \in Cpus : pc'[d] \in Quiet \cup {"steal", "idle"} => run'[d] = {}
    BY <1>1, <2>1 DEF ThreadsAt, IdleInv, WorkInv
  <2> QED BY <1>1, <2>2 DEF WorkInv
<1>5. HandInv'
  <2>1. l # "halt"
    BY DEF AwakeAt
  <2>2. \A d \in Cpus : pc'[d] = "thread" => cur'[d] \in Threads
    BY <1>1 DEF ThreadsAt, IdleInv, HandInv
  <2>3. \A d \in Cpus : pc'[d] \notin {"thread", "halt"} => cur'[d] = None
    BY <1>1, <2>1 DEF ThreadsAt, IdleInv, HandInv
  <2>4. \A d \in Cpus : pc'[d] = "found" => Pick(d)' \in Threads
    BY <1>1 DEF ThreadsAt, IdleInv, HandInv
  <2>5. \A d \in Cpus : pc'[d] # "found" => Pick(d)' = None
    BY <1>1 DEF ThreadsAt, IdleInv, HandInv
  <2> QED BY <2>2, <2>3, <2>4, <2>5 DEF ThreadsAt, HandInv
<1> QED BY <1>2, <1>3, <1>4, <1>5 DEF IdleInv, ThreadsAt

\* c picks t, out of glob or a queue.
LEMMA Finds ==
    ASSUME IdleInv, NEW c \in Cpus, pc[c] \in {"work", "steal", "idle"}, NEW t \in Threads, Set(c, "t", t), Goto(c, "found"),
           UNCHANGED <<idle, idleCount, spinning, nspin, cur, blocked, at, lost, waiter, masked>>,
           run' \in [Cpus -> SUBSET Threads], glob' \subseteq glob,
           \A d \in Cpus : d # c => run'[d] \subseteq run[d],
           \A u \in Threads : Placed(u)'
    PROVE  IdleInv'
<1>1. /\ LocOK /\ Pick(c)' = t
      /\ \A d \in Cpus : d # c => Pick(d)' = Pick(d)
  BY SetLoc DEF LocOK, Fields, IdleInv, Pick
<1>2. AwakeAt(c, "found")
  BY <1>1 DEF AwakeAt, IdleInv, IdleType, SleepInv
<1>3. AwayInv'
  BY AtSame, AwaySame
<1>4. ThreadsAt(c, "found")
  BY <1>1, <1>3 DEF ThreadsAt, IdleInv, IdleType, HandInv
<1> QED BY <1>2, <1>4, MoveStep

\* Where the threads are when c has taken some from the global queue.
LEMMA FindsGlobal ==
    ASSUME IdleInv, NEW c \in Cpus, pc[c] \in {"work", "steal", "idle"}, NEW max, GlobalGet(c, max),
           UNCHANGED <<idle, idleCount, spinning, nspin, cur, blocked, at, lost, waiter, masked>>
    PROVE  IdleInv'
<1>1. PICK take \in SUBSET glob : \E t \in take :
         /\ glob' = glob \ take /\ run' = [run EXCEPT ![c] = run[c] \cup (take \ {t})]
         /\ Set(c, "t", t) /\ Goto(c, "found")
  BY GetMoves DEF IdleInv
<1>2. PICK t \in take :
         /\ glob' = glob \ take /\ run' = [run EXCEPT ![c] = run[c] \cup (take \ {t})]
         /\ Set(c, "t", t) /\ Goto(c, "found")
  BY <1>1
<1>3. t \in Threads /\ take \subseteq Threads
  BY DEF IdleInv, IdleType
<1>4. /\ run' \in [Cpus -> SUBSET Threads] /\ glob' \subseteq glob
      /\ run'[c] = run[c] \cup (take \ {t})
      /\ \A d \in Cpus : d # c => run'[d] = run[d]
  BY <1>2, <1>3 DEF IdleInv, IdleType
<1>5. /\ Pick(c)' = t /\ Pick(c) = None
      /\ \A d \in Cpus : d # c => Pick(d)' = Pick(d)
  BY <1>2, SetLoc DEF Fields, IdleInv, Pick, HandInv
<1>6. ASSUME NEW u \in Threads PROVE Placed(u)'
  <2>1. Placed(u) /\ u # None
    BY IdleAssumption DEF IdleInv
  <2>4. Away' = Away
    BY AtSame, AwaySame
  <2>2. CASE u \in take
    <3>1. u \in glob /\ u \notin glob' /\ u \notin Away /\ \A d \in Cpus : ~Has(d, u)
      BY <1>2, <2>1, <2>2 DEF Placed
    <3>2. \A d \in Cpus : d # c => ~Has(d, u)'
      BY <1>4, <1>5, <3>1 DEF Has
    <3>3. cur'[c] # u /\ (IF u = t THEN Pick(c)' = u /\ u \notin run'[c] ELSE Pick(c)' # u /\ u \in run'[c])
      BY <1>4, <1>5, <2>2, <3>1 DEF Has
    <3> QED BY <2>4, <3>1, <3>2, <3>3 DEF Placed, Has
  <2>3. CASE u \notin take
    <3>1. \A d \in Cpus : /\ cur'[d] = u <=> cur[d] = u
                          /\ Pick(d)' = u <=> Pick(d) = u
                          /\ u \in run'[d] <=> u \in run[d]
      BY <1>4, <1>5, <2>1, <2>3
    <3>2. (u \in glob' <=> u \in glob) /\ (u \in Away' <=> u \in Away)
      BY <1>2, <2>3, <2>4
    <3> QED BY <2>1, <3>1, <3>2 DEF Placed, Has
  <2> QED BY <2>2, <2>3
<1> QED BY <1>2, <1>3, <1>4, <1>6, Finds

\* u is where it was.
Stays(u) ==
    /\ \A d \in Cpus : (cur'[d] = u <=> cur[d] = u) /\ (Pick(d)' = u <=> Pick(d) = u) /\ (u \in run'[d] <=> u \in run[d])
    /\ (u \in glob' <=> u \in glob) /\ (u \in Away' <=> u \in Away)

LEMMA StaysPlaced ==
    ASSUME NEW u, Placed(u), Stays(u)
    PROVE  Placed(u)'
BY DEF Placed, Has, Stays

LEMMA IdleFindWork == ASSUME IdleInv, NEW c \in Cpus, FindWork(c) PROVE IdleInv'
<1>1. pc[c] \in {"work", "steal", "idle"} /\ UNCHANGED <<idle, idleCount, spinning, nspin, cur, blocked, at, lost, waiter, masked>>
  BY DEF FindWork, sched, dev
<1>4. Away' = Away
  BY <1>1, AtSame, AwaySame
<1>2. ASSUME NEW max, GlobalGet(c, max) PROVE IdleInv'
  BY <1>1, <1>2, FindsGlobal
<1>3. ASSUME NEW t \in run[c], run' = [run EXCEPT ![c] = run[c] \ {t}], UNCHANGED glob, Set(c, "t", t), Goto(c, "found")
      PROVE  IdleInv'
  <2>1. t \in Threads /\ run' \in [Cpus -> SUBSET Threads] /\ run'[c] = run[c] \ {t}
        /\ \A d \in Cpus : d # c => run'[d] = run[d]
    BY <1>3 DEF IdleInv, IdleType
  <2>2. /\ Pick(c)' = t /\ Pick(c) = None
        /\ \A d \in Cpus : d # c => Pick(d)' = Pick(d)
    BY <1>1, <1>3, SetLoc DEF Fields, IdleInv, Pick, HandInv
  <2>3. ASSUME NEW u \in Threads PROVE Placed(u)'
    <3>1. Placed(u) /\ u # None
      BY IdleAssumption DEF IdleInv
    <3>2. CASE u = t
      <4>1. Has(c, u) /\ u \in run[c]
        BY <3>2 DEF Has
      <4>2. cur[c] # u /\ u \notin glob /\ u \notin Away /\ \A d \in Cpus : d # c => ~Has(d, u)
        BY <3>1, <4>1 DEF Placed
      <4>3. \A d \in Cpus : d # c => ~Has(d, u)'
        BY <1>1, <2>1, <2>2, <4>2 DEF Has
      <4>4. cur'[c] # u /\ Pick(c)' = u /\ u \notin run'[c]
        BY <1>1, <2>1, <2>2, <3>2, <4>2
      <4> QED BY <1>1, <1>3, <1>4, <4>2, <4>3, <4>4 DEF Placed, Has
    <3>3. CASE u # t
      <4>1. Stays(u)
        BY <1>1, <1>3, <1>4, <2>1, <2>2, <3>1, <3>3 DEF Stays
      <4> QED BY <3>1, <4>1, StaysPlaced
    <3> QED BY <3>2, <3>3
  <2> QED BY <1>1, <1>3, <2>1, <2>3, Finds
<1> QED BY <1>2, <1>3 DEF FindWork

LEMMA IdlePutIdle == ASSUME IdleInv, NEW c \in Cpus, PutIdle(c) PROVE IdleInv'
<1>1. pc[c] = "idle" /\ UNCHANGED <<spinning, nspin, cur, blocked, at, lost, waiter, masked>>
  BY DEF PutIdle, dev
<1>2. ASSUME NEW max, GlobalGet(c, max), UNCHANGED <<idle, idleCount>> PROVE IdleInv'
  BY <1>1, <1>2, FindsGlobal
<1>3. ASSUME NEW x, Set(c, "was", x), idle' = idle \cup {c}, idleCount' = idleCount + 1, UNCHANGED <<glob, run>>, glob = {},
             Goto(c, IF c \in spinning THEN "recheck" ELSE "poll")
      PROVE  IdleInv'
  <2>1. PICK l \in {"recheck", "poll"} : Goto(c, l) /\ (l = "recheck" <=> c \in spinning)
    BY <1>3
  <2>2. LocOK /\ Still
    BY <1>1, <1>3, SetLoc DEF LocOK, Still, Fields, IdleInv
  <2>3. l \in Pcs /\ run[c] = {} /\ l \in Quiet
    BY <1>1 DEF Pcs, IdleInv, WorkInv, Quiet
  <2>4. /\ idle' \in SUBSET Cpus /\ idleCount >= Cardinality(idle) /\ Cardinality(idle) \in Nat
        /\ Cardinality(idle') <= Cardinality(idle) + 1 /\ idleCount \in Int /\ Cardinality(idle') \in Nat
    BY <1>3, CpuCount DEF IdleInv, IdleType, SleepInv
  <2>5. IdleType'
    <3>1. idle' \subseteq Cpus /\ spinning' \subseteq Cpus /\ idleCount' \in Int /\ nspin' \in Int
      BY <1>1, <1>3, <2>4 DEF IdleInv, IdleType
    <3> QED BY <1>1, <1>3, <2>1, <2>2, <2>3, <3>1, StillCalm, StillType
  <2>6. SleepInv'
    <3>1. \A d \in Cpus : pc'[d] = IF d = c THEN l ELSE pc[d]
      BY <2>1 DEF Goto, IdleInv, IdleType
    <3>2. idleCount' >= Cardinality(idle')
      BY <1>3, <2>4
    <3>3. \A d \in Cpus : pc'[d] \in Quiet => d \in idle'
      BY <1>3, <3>1 DEF IdleInv, SleepInv
    <3>4. \A d \in Cpus : pc'[d] = "recheck" => d \in spinning'
      BY <1>1, <2>1, <3>1 DEF IdleInv, SleepInv
    <3>5. \A d \in Cpus : pc'[d] \in (Quiet \ {"recheck"}) \cup {"thread"} => d \notin spinning'
      BY <1>1, <2>1, <3>1 DEF IdleInv, SleepInv
    <3>6. nspin' = Cardinality(spinning')
      BY <1>1 DEF IdleInv, SleepInv
    <3> QED BY <3>2, <3>3, <3>4, <3>5, <3>6 DEF SleepInv
  <2>7. WorkInv'
    BY <1>3, <2>1, <2>3, StillWork
  <2>8. HandInv'
    BY <1>1, <2>1, <2>2, <2>3, StillCalm, StillHand
  <2>9. AwayInv' /\ \A t \in Threads : Placed(t)'
    BY <2>2, StillPlaced
  <2> QED BY <2>5, <2>6, <2>7, <2>8, <2>9 DEF IdleInv
<1> QED BY <1>2, <1>3 DEF PutIdle

LEMMA IdleStealFrom == ASSUME IdleInv, NEW c \in Cpus, NEW v \in Cpus, StealFrom(c, v) PROVE IdleInv'
<1>1. /\ pc[c] = "steal" /\ run[c] = {} /\ Pick(c) = None
      /\ UNCHANGED <<sched, idle, idleCount, spinning, nspin, cur, glob, blocked, at, lost, waiter, masked>>
  BY DEF StealFrom, dev, sched, IdleInv, WorkInv, HandInv
<1>5. Away' = Away
  BY <1>1, AtSame, AwaySame
<1>2. CASE Goto(c, "halt") /\ UNCHANGED <<loc, run>>
  <2>1. LocOK /\ Still /\ "halt" \in Pcs
    BY <1>1, <1>2, LocSame DEF Still, IdleInv, Pcs
  <2> QED BY <1>1, <1>2, <2>1, StillStep DEF Quiet
<1>3. ASSUME NEW t \in run[v], NEW more \in SUBSET (run[v] \ {t}), Set(c, "t", t), Goto(c, "found"),
             run' = [run EXCEPT ![v] = @ \ (more \cup {t}), ![c] = @ \cup more]
      PROVE  IdleInv'
  <2>1. v # c
    BY <1>1
  <2>2. t \in Threads /\ run' \in [Cpus -> SUBSET Threads] /\ run'[c] = more /\ run'[v] = run[v] \ (more \cup {t})
        /\ \A d \in Cpus : d # c /\ d # v => run'[d] = run[d]
    BY <1>1, <1>3, <2>1 DEF IdleInv, IdleType
  <2>3. /\ Pick(c)' = t
        /\ \A d \in Cpus : d # c => Pick(d)' = Pick(d)
    BY <1>3, SetLoc DEF Fields, IdleInv, Pick
  <2>4. ASSUME NEW u \in Threads PROVE Placed(u)'
    <3>1. Placed(u) /\ u # None
      BY IdleAssumption DEF IdleInv
    <3>2. CASE u = t \/ u \in more
      <4>1. u \in run[v] /\ Has(v, u)
        BY <3>2 DEF Has
      <4>2. /\ cur[v] # u /\ Pick(v) # u /\ u \notin glob /\ u \notin Away
            /\ \A d \in Cpus : d # v => ~Has(d, u)
        BY <3>1, <4>1 DEF Placed
      <4>3. \A d \in Cpus : d # c => ~Has(d, u)'
        BY <1>1, <2>1, <2>2, <2>3, <3>2, <4>2 DEF Has
      <4>4. cur'[c] # u
        BY <1>1, <2>1, <4>2 DEF Has
      <4>5. IF u = t THEN Pick(c)' = u /\ u \notin run'[c] ELSE Pick(c)' # u /\ u \in run'[c]
        BY <2>2, <2>3, <3>2
      <4> QED BY <1>1, <1>5, <4>2, <4>3, <4>4, <4>5 DEF Placed, Has
    <3>3. CASE u # t /\ u \notin more
      <4>1. Stays(u)
        BY <1>1, <1>5, <2>1, <2>2, <2>3, <3>1, <3>3 DEF Stays
      <4> QED BY <3>1, <4>1, StaysPlaced
    <3> QED BY <3>2, <3>3
  <2>5. glob' \subseteq glob /\ \A d \in Cpus : d # c => run'[d] \subseteq run[d]
    BY <1>1, <2>2
  <2> QED BY <1>1, <1>3, <2>2, <2>4, <2>5, Finds
<1>4. ASSUME NEW x, NEW y, loc' = [loc EXCEPT ![c] = [loc[c] EXCEPT !.left = x, !.poll = y]], UNCHANGED run,
             NEW l \in {"idle", "steal"}, Goto(c, l)
      PROVE  IdleInv'
  <2>1. PICK r : r = [loc[c] EXCEPT !.left = x, !.poll = y]
    OBVIOUS
  <2>2. DOMAIN r = Fields /\ r["t"] = Pick(c)
    BY <2>1 DEF IdleInv, IdleType, Fields, Pick
  <2>3. loc' = [loc EXCEPT ![c] = r]
    BY <1>4, <2>1
  <2>4. LocOK /\ \A d \in Cpus : Pick(d)' = Pick(d)
    BY <2>2, <2>3, LocBecomes DEF IdleInv
  <2>5. Still /\ l \in Pcs
    BY <1>1, <1>4, <2>4 DEF Still, Pcs
  <2> QED BY <1>1, <1>4, <2>4, <2>5, StillStep DEF Quiet
<1> QED
  <2> DEFINE due == v \in timers /\ when[v] # 0 /\ when[v] <= now
             later == v \in timers /\ when[v] > now /\ (loc[c].poll = 0 \/ when[v] < loc[c].poll)
             x == loc[c].left \ {v}
             y == IF later THEN when[v] ELSE loc[c].poll
             next == [loc[c] EXCEPT !.left = x, !.poll = y]
  <2>1. CASE due /\ Goto(c, "halt") /\ UNCHANGED <<loc, run>>
    BY <1>2, <2>1
  <2>2. CASE /\ \E t \in run[v] : \E more \in SUBSET (run[v] \ {t}) :
                    /\ run' = [run EXCEPT ![v] = @ \ (more \cup {t}), ![c] = @ \cup more]
                    /\ Set(c, "t", t)
             /\ Goto(c, "found")
    BY <1>3, <2>2
  <2>3. CASE /\ loc' = [loc EXCEPT ![c] = next]
             /\ Goto(c, IF next.left = {} THEN "idle" ELSE "steal") /\ UNCHANGED run
    <3>1. PICK l \in {"idle", "steal"} : Goto(c, l)
      BY <2>3
    <3> QED BY <1>4, <2>3, <3>1
  <2> QED BY <2>1, <2>2, <2>3 DEF StealFrom

\* run_queue_put, thread by thread.
LEMMA PutEffect ==
    ASSUME IdleInv, NEW c \in Cpus, NEW t \in Threads, Put(c, t)
    PROVE  /\ run' \in [Cpus -> SUBSET Threads] /\ glob' \subseteq Threads
           /\ \A d \in Cpus : d # c => run'[d] = run[d]
           /\ \A u \in run[c] \cup {t} : u \notin glob => (u \in run'[c] <=> u \notin glob')
           /\ \A u \in Threads : u \notin run[c] /\ u # t => u \notin run'[c] /\ (u \in glob' <=> u \in glob)
<1>1. PICK out \in SUBSET (run[c] \cup {t}) :
         run' = [run EXCEPT ![c] = (run[c] \cup {t}) \ out] /\ glob' = glob \cup out
  BY PutMoves DEF IdleInv
<1>2. run[c] \subseteq Threads /\ glob \subseteq Threads /\ run \in [Cpus -> SUBSET Threads]
  BY DEF IdleInv, IdleType
<1>3. run' \in [Cpus -> SUBSET Threads] /\ glob' \subseteq Threads /\ run'[c] = (run[c] \cup {t}) \ out
      /\ \A d \in Cpus : d # c => run'[d] = run[d]
  BY <1>1, <1>2
<1> QED BY <1>1, <1>3

\* Where the threads are when t, which was away or the current thread of c, has
\* gone to its queue, and w, which was away, may have become its current one.
LEMMA PutPlaced ==
    ASSUME IdleInv, NEW c \in Cpus, NEW t \in Threads, Put(c, t),
           \A d \in Cpus : Pick(d)' = Pick(d) /\ (d # c => cur'[d] = cur[d]),
           NEW b \in SUBSET Away, Away' = Away \ b,
           NEW w, cur'[c] = w,
           \/ cur[c] = t /\ b = {w} \ {None}
           \/ cur[c] = w /\ b = {t}
    PROVE  \A u \in Threads : Placed(u)'
<1> SUFFICES ASSUME NEW u \in Threads PROVE Placed(u)'
  OBVIOUS
<1>1. Placed(u) /\ Placed(t) /\ u # None /\ t # None
  BY IdleAssumption DEF IdleInv
<1>2. /\ \A d \in Cpus : d # c => run'[d] = run[d]
      /\ u \in run[c] \cup {t} /\ u \notin glob => (u \in run'[c] <=> u \notin glob')
      /\ u \notin run[c] /\ u # t => u \notin run'[c] /\ (u \in glob' <=> u \in glob)
  <2>1. /\ \A d \in Cpus : d # c => run'[d] = run[d]
        /\ \A x \in run[c] \cup {t} : x \notin glob => (x \in run'[c] <=> x \notin glob')
        /\ \A x \in Threads : x \notin run[c] /\ x # t => x \notin run'[c] /\ (x \in glob' <=> x \in glob)
    BY PutEffect
  <2> QED BY <2>1
<1>3. t \in Away \/ cur[c] = t
  OBVIOUS
<1>4. CASE u = t
  <2>1. t \notin glob /\ t \notin run[c] /\ Pick(c) # t /\ \A d \in Cpus : d # c => ~Has(d, t)
    BY <1>1, <1>3 DEF Placed, Has
  <2>2. t \notin Away' /\ cur'[c] # t
    BY <1>1, <1>3 DEF Placed, Has
  <2>3. \A d \in Cpus : d # c => ~Has(d, t)'
    BY <1>2, <2>1 DEF Has
  <2>4. Pick(c)' # t /\ (t \in run'[c] <=> t \notin glob')
    BY <1>2, <1>4, <2>1
  <2> QED BY <1>4, <2>2, <2>3, <2>4 DEF Placed, Has
<1>5. CASE u # t /\ u \in run[c]
  <2>1. u \notin glob /\ u \notin Away /\ Pick(c) # u /\ cur[c] # u /\ \A d \in Cpus : d # c => ~Has(d, u)
    BY <1>1, <1>5 DEF Placed, Has
  <2>2. u \notin Away' /\ cur'[c] # u
    BY <1>1, <2>1
  <2>3. \A d \in Cpus : d # c => ~Has(d, u)'
    BY <1>2, <2>1 DEF Has
  <2>4. Pick(c)' # u /\ (u \in run'[c] <=> u \notin glob')
    BY <1>2, <1>5, <2>1
  <2> QED BY <2>2, <2>3, <2>4 DEF Placed, Has
<1>6. CASE u # t /\ u \notin run[c] /\ u \notin b
  <2>1. u \notin run'[c] /\ (u \in glob' <=> u \in glob) /\ (u \in Away' <=> u \in Away)
    BY <1>2, <1>6
  <2>2. cur'[c] = u <=> cur[c] = u
    BY <1>1, <1>6
  <2>3. Stays(u)
    BY <1>2, <1>6, <2>1, <2>2 DEF Stays
  <2> QED BY <1>1, <2>3, StaysPlaced
<1>7. CASE u # t /\ u \notin run[c] /\ u \in b
  <2>1. u = w /\ cur'[c] = u /\ u \in Away
    BY <1>7
  <2>2. u \notin glob /\ Pick(c) # u /\ u \notin run[c] /\ \A d \in Cpus : d # c => ~Has(d, u)
    BY <1>1, <2>1 DEF Placed, Has
  <2>3. u \notin Away' /\ u \notin glob' /\ u \notin run'[c] /\ Pick(c)' # u
    BY <1>2, <1>7, <2>2
  <2>4. \A d \in Cpus : d # c => ~Has(d, u)'
    BY <1>2, <2>2 DEF Has
  <2> QED BY <2>1, <2>3, <2>4 DEF Placed, Has
<1> QED BY <1>4, <1>5, <1>6, <1>7

LEMMA IdleCheckTimers == ASSUME IdleInv, NEW c \in Cpus, CheckTimers(c) PROVE IdleInv'
<1>1. pc[c] = "find" /\ Pick(c) = None /\ cur[c] = None /\ UNCHANGED <<sched, idle, idleCount, spinning, nspin, cur, at, lost, waiter, masked>>
  BY DEF CheckTimers, sched, dev, IdleInv, HandInv
<1>2. PICK r : r = [NoLoc EXCEPT !.poll = when'[c]]
  OBVIOUS
<1>3. loc' = [loc EXCEPT ![c] = r] /\ DOMAIN r = Fields /\ r["t"] = None
  BY <1>2 DEF CheckTimers, NoLoc, Fields
<1>4. LocOK /\ \A d \in Cpus : Pick(d)' = Pick(d)
  BY <1>1, <1>3, LocBecomes DEF IdleInv
<1>5. PICK l \in {"wake", "work"} : Goto(c, l)
  BY DEF CheckTimers
<1>6. CASE UNCHANGED <<run, glob, blocked>>
  <2>1. Still /\ l \in Pcs
    BY <1>1, <1>4, <1>6 DEF Still, Pcs
  <2> QED BY <1>1, <1>4, <1>5, <2>1, StillStep DEF Quiet
<1>7. CASE \E t \in blocked \ {waiter} : Put(c, t) /\ blocked' = blocked \ {t}
  <2>1. PICK t \in blocked \ {waiter} : Put(c, t) /\ blocked' = blocked \ {t}
    BY <1>7
  <2>2. t \in Threads /\ blocked \subseteq Threads
    BY DEF IdleInv, IdleType
  <2>7. PICK b : b = {t}
    OBVIOUS
  <2>8. b \in SUBSET blocked /\ b \in SUBSET Away /\ Away' = Away \ b /\ AwayInv'
    <3>1. b \in SUBSET blocked /\ blocked' = blocked \ b
      BY <2>1, <2>7
    <3>2. b \in SUBSET Away
      BY <3>1 DEF Away
    <3> QED BY <1>1, <3>1, <3>2, AtSame, AwayLess
  <2>3. \A u \in Threads : Placed(u)'
    <3>1. PICK w : w = cur[c]
      OBVIOUS
    <3>2. b \in SUBSET Away /\ Away' = Away \ b /\ cur'[c] = w /\ cur[c] = w /\ b = {t}
      BY <1>1, <2>7, <2>8, <3>1
    <3>3. \A d \in Cpus : Pick(d)' = Pick(d) /\ (d # c => cur'[d] = cur[d])
      BY <1>1, <1>4
    <3> QED BY <2>1, <2>2, <3>2, <3>3, PutPlaced
  <2>4. AwakeAt(c, l)
    BY <1>1, <1>4, <1>5 DEF AwakeAt, IdleInv, IdleType, SleepInv
  <2>5. run' \in [Cpus -> SUBSET Threads] /\ glob' \subseteq Threads /\ \A d \in Cpus : d # c => run'[d] = run[d]
    BY <2>1, <2>2, PutEffect
  <2>6. ThreadsAt(c, l)
    BY <1>1, <1>4, <2>1, <2>2, <2>5, <2>8 DEF ThreadsAt, IdleInv, IdleType, HandInv
  <2> QED BY <2>3, <2>4, <2>6, MoveStep
<1> QED BY <1>6, <1>7 DEF CheckTimers

\* The running thread takes a parked one into its hand.
LEMMA IdleReady == ASSUME IdleInv, NEW c \in Cpus, Ready(c) PROVE IdleInv'
<1>1. /\ pc[c] = "thread" /\ Goto(c, "thread") /\ UNCHANGED <<loc, sched, cur, run, glob, lost, waiter, masked>>
      /\ cur[c] \in Threads /\ c \notin spinning /\ Step(cur[c]) = "user"
  BY DEF Ready, At, Goto, Step, dev, IdleInv, IdleType, HandInv, SleepInv
<1>2. PICK t \in blocked \ {waiter} :
         blocked' = blocked \ {t} /\ at' = [at EXCEPT ![cur[c]].step = "put", ![cur[c]].hand = t]
  BY DEF Ready
<1>3. PICK u \in Threads : u = cur[c]
  BY <1>1
<1>4. PICK r : r = [at[u] EXCEPT !.step = "put", !.hand = t]
  OBVIOUS
<1>5. /\ DOMAIN at = Threads /\ DOMAIN at[u] = AtFields /\ t \in Threads /\ t \notin lost
      /\ Hand(u) = None /\ None \notin Threads /\ blocked \subseteq Threads
      /\ \A v \in Threads : Hand(v) # t
  BY <1>1, <1>3, IdleAssumption DEF IdleInv, IdleType, AwayInv, PutSteps
<1>6. at' = [at EXCEPT ![u] = r] /\ DOMAIN r = AtFields /\ r["hand"] = t /\ r["step"] = "put"
  BY <1>2, <1>3, <1>4, <1>5 DEF AtFields
<1>7. /\ DOMAIN at' = Threads /\ \A v \in Threads : DOMAIN at'[v] = AtFields
      /\ Hand(u)' = t /\ Step(u)' = "put"
      /\ \A v \in Threads : v # u => Hand(v)' = Hand(v) /\ Step(v)' = Step(v)
  BY <1>6, AtBecomes
<1>8. AwayInv'
  BY <1>1, <1>2, <1>5, <1>7 DEF IdleInv, AwayInv, PutSteps
<1>9. Away' = Away
  BY <1>1, <1>2, <1>5, <1>7 DEF Away
<1>10. LocOK /\ \A d \in Cpus : Pick(d)' = Pick(d)
  BY <1>1, LocSame DEF IdleInv
<1>11. Calm
  BY <1>1, <1>2, <1>5, <1>8, <1>9, <1>10 DEF Calm, IdleInv, HandInv
<1>12. "thread" \in Pcs /\ "thread" \notin Quiet \cup {"steal", "idle"}
  BY DEF Pcs, Quiet
<1> QED BY <1>1, <1>10, <1>11, <1>12, CalmStep

\* The running thread opens its hand.
LEMMA HandOpens ==
    ASSUME IdleInv, NEW u \in Threads, Step(u) \in PutSteps, NEW t, t = Hand(u),
           at' = [at EXCEPT ![u].step = "wake", ![u].hand = None], UNCHANGED blocked,
           lost' = lost \/ lost' = lost \cup {t}
    PROVE  /\ t \in Threads /\ AwayInv'
           /\ lost' = lost => Away' = Away \ {t}
           /\ lost' = lost \cup {t} => Away' = Away
<1>1. PICK r : r = [at[u] EXCEPT !.step = "wake", !.hand = None]
  OBVIOUS
<1>2. /\ DOMAIN at = Threads /\ DOMAIN at[u] = AtFields /\ t \in Threads /\ t \notin blocked /\ t \notin lost
      /\ None \notin Threads /\ blocked \subseteq Threads /\ lost \subseteq Threads
      /\ \A v \in Threads : v # u => Hand(v) # t
  BY IdleAssumption DEF IdleInv, IdleType, AwayInv
<1>3. at' = [at EXCEPT ![u] = r] /\ DOMAIN r = AtFields /\ r["hand"] = None /\ r["step"] = "wake"
  BY <1>1, <1>2 DEF AtFields
<1>4. /\ DOMAIN at' = Threads /\ \A v \in Threads : DOMAIN at'[v] = AtFields
      /\ Hand(u)' = None /\ Step(u)' = "wake"
      /\ \A v \in Threads : v # u => Hand(v)' = Hand(v) /\ Step(v)' = Step(v)
  BY <1>3, AtBecomes
<1>5. AwayInv'
  <2>1. \A v \in Threads : Hand(v)' = None \/ (v # u /\ Hand(v)' = Hand(v))
    BY <1>4
  <2>2. None \notin blocked /\ None \notin lost'
    BY <1>2
  <2>3. \A v \in Threads : Hand(v)' \notin blocked' /\ Hand(v)' \notin lost'
    BY <1>2, <2>1, <2>2 DEF IdleInv, AwayInv
  <2>4. \A v, w \in Threads : Hand(v)' = Hand(w)' /\ Hand(v)' \in Threads => v = w
    BY <1>2, <2>1 DEF IdleInv, AwayInv
  <2>5. /\ \A v \in Threads : Step(v)' \in PutSteps => Hand(v)' \in Threads
        /\ \A v \in Threads : Step(v)' \notin PutSteps => Hand(v)' = None
    BY <1>4 DEF IdleInv, AwayInv, PutSteps
  <2>6. lost' \subseteq Threads /\ lost' \cap blocked' = {}
    BY <1>2 DEF IdleInv, AwayInv
  <2> QED BY <1>4, <2>3, <2>4, <2>5, <2>6 DEF AwayInv
<1>6. lost' = lost => Away' = Away \ {t}
  BY <1>2, <1>4 DEF Away
<1>7. lost' = lost \cup {t} => Away' = Away
  BY <1>2, <1>4 DEF Away
<1> QED BY <1>2, <1>5, <1>6, <1>7

\* The thread that was in the hand goes to a queue.
LEMMA IdlePutReady == ASSUME IdleInv, NEW c \in Cpus, PutReady(c) PROVE IdleInv'
<1>1. /\ pc[c] = "thread" /\ Goto(c, "thread") /\ UNCHANGED <<loc, sched, idle, idleCount, spinning, nspin, cur, blocked, lost, waiter, masked>>
      /\ cur[c] \in Threads /\ Pick(c) = None /\ c \notin spinning /\ Step(cur[c]) \in PutSteps
  BY DEF PutReady, At, Goto, Step, PutSteps, sched, dev, IdleInv, IdleType, HandInv, SleepInv
<1>2. PICK u \in Threads : u = cur[c]
  BY <1>1
<1>3. PICK t : t = Hand(u)
  OBVIOUS
<1>4. Put(c, t) /\ at' = [at EXCEPT ![u].step = "wake", ![u].hand = None]
  BY <1>2, <1>3 DEF PutReady, Hand
<1>5. t \in Threads /\ AwayInv' /\ Away' = Away \ {t}
  BY <1>1, <1>2, <1>3, <1>4, HandOpens
<1>6. t \in Away
  BY <1>3, <1>5 DEF Away
<1>7. blocked \subseteq Threads /\ LocOK /\ \A d \in Cpus : Pick(d)' = Pick(d)
  BY <1>1, LocSame DEF IdleInv, IdleType
<1>8. \A v \in Threads : Placed(v)'
  <2>1. PICK w, b : w = cur[c] /\ b = {t}
    OBVIOUS
  <2>2. b \in SUBSET Away /\ Away' = Away \ b /\ cur'[c] = w /\ cur[c] = w /\ b = {t}
    BY <1>1, <1>5, <1>6, <2>1
  <2>3. \A d \in Cpus : Pick(d)' = Pick(d) /\ (d # c => cur'[d] = cur[d])
    BY <1>1, <1>7
  <2> QED BY <1>4, <1>5, <2>2, <2>3, PutPlaced
<1>9. AwakeAt(c, "thread")
  BY <1>1, <1>7 DEF AwakeAt, IdleInv, IdleType, SleepInv
<1>10. run' \in [Cpus -> SUBSET Threads] /\ glob' \subseteq Threads /\ \A d \in Cpus : d # c => run'[d] = run[d]
  BY <1>4, <1>5, PutEffect
<1>11. ThreadsAt(c, "thread")
  BY <1>1, <1>5, <1>7, <1>10 DEF ThreadsAt, IdleInv, IdleType, HandInv
<1> QED BY <1>8, <1>9, <1>11, MoveStep

\* Or it is lost, and the CPU goes no further.
LEMMA IdlePutLate == ASSUME IdleInv, NEW c \in Cpus, PutLate(c) PROVE IdleInv'
<1>1. /\ pc[c] = "thread" /\ Goto(c, "halt") /\ UNCHANGED <<loc, sched, cur, run, glob, blocked, waiter, masked>>
      /\ cur[c] \in Threads /\ Step(cur[c]) \in PutSteps
  BY DEF PutLate, At, Step, PutSteps, dev, IdleInv, HandInv
<1>2. PICK u \in Threads : u = cur[c]
  BY <1>1
<1>3. PICK t : t = Hand(u)
  OBVIOUS
<1>4. lost' = lost \cup {t} /\ at' = [at EXCEPT ![u].step = "wake", ![u].hand = None]
  <2>1. at' = [at EXCEPT ![u].hand = None, ![u].step = "wake"] /\ lost' = lost \cup {t}
    BY <1>2, <1>3 DEF PutLate, Hand
  <2>2. DOMAIN at[u] = AtFields /\ DOMAIN at = Threads
    BY DEF IdleInv, AwayInv
  <2>3. [at[u] EXCEPT !.hand = None, !.step = "wake"] = [at[u] EXCEPT !.step = "wake", !.hand = None]
    BY <2>2 DEF AtFields
  <2> QED BY <2>1, <2>2, <2>3
<1>5. t \in Threads /\ AwayInv' /\ Away' = Away
  BY <1>1, <1>2, <1>3, <1>4, HandOpens
<1>6. LocOK /\ \A d \in Cpus : Pick(d)' = Pick(d)
  BY <1>1, LocSame DEF IdleInv
<1>7. Calm
  BY <1>1, <1>5, <1>6 DEF Calm, IdleInv, IdleType, HandInv
<1>8. "halt" \in Pcs /\ "halt" \notin Quiet \cup {"steal", "idle", "thread"} /\ UNCHANGED sched
  BY <1>1 DEF Pcs, Quiet
<1> QED BY <1>1, <1>6, <1>7, <1>8, CalmStep

\* A thread that is switched out keeps what it has in its hand.
LEMMA SwitchedHands ==
    ASSUME IdleInv, NEW c \in Cpus, cur[c] \in Threads, at' = SwitchedOut(c)
    PROVE  SameHands
<1>1. PICK u \in Threads : u = cur[c]
  OBVIOUS
<1>2. PICK r : r = [at[u] EXCEPT !.step = IF @ = "put" THEN "late" ELSE @]
  OBVIOUS
<1>3. DOMAIN at = Threads /\ DOMAIN at[u] = AtFields
  BY DEF IdleInv, AwayInv
<1>4. /\ at' = [at EXCEPT ![u] = r] /\ DOMAIN r = AtFields /\ r["hand"] = Hand(u)
      /\ r["step"] = IF Step(u) = "put" THEN "late" ELSE Step(u)
  BY <1>1, <1>2, <1>3 DEF SwitchedOut, AtFields, Hand, Step
<1>5. /\ DOMAIN at' = Threads /\ \A v \in Threads : DOMAIN at'[v] = AtFields
      /\ Hand(u)' = Hand(u) /\ Step(u)' = r["step"]
      /\ \A v \in Threads : v # u => Hand(v)' = Hand(v) /\ Step(v)' = Step(v)
  BY <1>4, AtBecomes
<1> QED BY <1>4, <1>5 DEF SameHands, PutSteps

LEMMA IdleSaveRunnable == ASSUME IdleInv, NEW c \in Cpus, pc[c] = "thread", SaveRunnable(c) PROVE IdleInv'
<1>1. /\ Goto(c, "find") /\ UNCHANGED <<loc, idle, idleCount, spinning, nspin, blocked, waiter, masked>>
      /\ cur[c] \in Threads /\ Pick(c) = None /\ c \notin spinning /\ Put(c, cur[c])
      /\ cur' = [cur EXCEPT ![c] = None]
  BY DEF SaveRunnable, sched, dev, IdleInv, HandInv, SleepInv
<1>2. cur'[c] = None /\ cur' \in [Cpus -> Threads \cup {None}] /\ \A d \in Cpus : d # c => cur'[d] = cur[d]
  BY <1>1 DEF IdleInv, IdleType
<1>3. LocOK /\ \A d \in Cpus : Pick(d)' = Pick(d)
  BY <1>1, LocSame DEF IdleInv
<1>8. Away' = Away /\ AwayInv'
  <2>1. at' = SwitchedOut(c) /\ UNCHANGED <<lost, blocked>>
    BY DEF SaveRunnable
  <2> QED BY <1>1, <2>1, SwitchedHands, AwaySame
<1>4. \A u \in Threads : Placed(u)'
  <2>1. PICK t, w, b : t = cur[c] /\ w = None /\ b = {}
    OBVIOUS
  <2>2. /\ b \in SUBSET Away /\ Away' = Away \ b /\ cur'[c] = w /\ cur[c] = t /\ b = {w} \ {None}
        /\ t \in Threads /\ Put(c, t)
    BY <1>1, <1>2, <1>8, <2>1
  <2>3. \A d \in Cpus : Pick(d)' = Pick(d) /\ (d # c => cur'[d] = cur[d])
    BY <1>2, <1>3
  <2> QED BY <2>2, <2>3, PutPlaced
<1>5. AwakeAt(c, "find")
  BY <1>1, <1>3 DEF AwakeAt, IdleInv, IdleType, SleepInv
<1>6. run' \in [Cpus -> SUBSET Threads] /\ glob' \subseteq Threads /\ \A d \in Cpus : d # c => run'[d] = run[d]
  BY <1>1, PutEffect
<1>7. ThreadsAt(c, "find")
  BY <1>1, <1>2, <1>3, <1>6, <1>8 DEF ThreadsAt, IdleInv, IdleType, HandInv
<1> QED BY <1>4, <1>5, <1>7, MoveStep

\* The current thread of c is parked; the driver's may become the waiter.
LEMMA IdleSaveParked ==
    ASSUME IdleInv, NEW c \in Cpus, pc[c] = "thread", SaveParked(c),
           UNCHANGED <<waiter, masked>> \/ waiter' = cur[c]
    PROVE  IdleInv'
<1>1. /\ Goto(c, "find") /\ UNCHANGED <<loc, idle, idleCount, spinning, nspin, run, glob>>
      /\ cur[c] \in Threads /\ Pick(c) = None /\ c \notin spinning
      /\ cur' = [cur EXCEPT ![c] = None] /\ blocked' = blocked \cup {cur[c]}
  BY DEF SaveParked, sched, IdleInv, HandInv, SleepInv
<1>2. cur'[c] = None /\ cur' \in [Cpus -> Threads \cup {None}] /\ \A d \in Cpus : d # c => cur'[d] = cur[d]
  BY <1>1 DEF IdleInv, IdleType
<1>3. LocOK /\ \A d \in Cpus : Pick(d)' = Pick(d)
  BY <1>1, LocSame DEF IdleInv
<1>8. Away' = Away \cup {cur[c]} /\ AwayInv'
  <2>1. Placed(cur[c]) /\ Has(c, cur[c])
    BY <1>1 DEF IdleInv, Has
  <2>2. cur[c] \notin Away
    BY <2>1 DEF Placed
  <2>3. SameHands /\ UNCHANGED lost
    BY AtSame DEF SaveParked
  <2>4. cur[c] \notin lost /\ \A v \in Threads : Hand(v) # cur[c]
    BY <1>1, <2>2 DEF Away
  <2>5. AwayInv'
    BY <1>1, <2>3, <2>4 DEF IdleInv, AwayInv, SameHands
  <2>6. Away' = Away \cup {cur[c]}
    BY <1>1, <2>3 DEF Away, SameHands
  <2> QED BY <2>5, <2>6
<1>4. ASSUME NEW u \in Threads PROVE Placed(u)'
  <2>1. Placed(u) /\ u # None
    BY IdleAssumption DEF IdleInv
  <2>2. CASE u = cur[c]
    <3>1. u \notin glob /\ Pick(c) # u /\ u \notin run[c] /\ \A d \in Cpus : d # c => ~Has(d, u)
      BY <2>1, <2>2 DEF Placed, Has
    <3>2. \A d \in Cpus : ~Has(d, u)'
      BY <1>1, <1>2, <1>3, <2>1, <3>1 DEF Has
    <3> QED BY <1>1, <1>8, <2>2, <3>1, <3>2 DEF Placed, Has
  <2>3. CASE u # cur[c]
    <3>1. Stays(u)
      BY <1>1, <1>2, <1>3, <1>8, <2>1, <2>3 DEF Stays
    <3> QED BY <2>1, <3>1, StaysPlaced
  <2> QED BY <2>2, <2>3
<1>5. AwakeAt(c, "find")
  BY <1>1, <1>3 DEF AwakeAt, IdleInv, IdleType, SleepInv
<1>6. ~masked' => waiter' \in blocked'
  BY <1>1 DEF IdleInv, HandInv
<1>7. ThreadsAt(c, "find")
  BY <1>1, <1>2, <1>3, <1>6, <1>8 DEF ThreadsAt, IdleInv, IdleType
<1> QED BY <1>4, <1>5, <1>7, MoveStep

LEMMA IdleSchedule == ASSUME IdleInv, NEW c \in Cpus, Schedule(c) PROVE IdleInv'
<1>1. /\ pc[c] = "found" /\ Goto(c, "thread") /\ UNCHANGED <<idle, idleCount, run, glob, blocked, at, lost, waiter, masked>>
      /\ cur' = [cur EXCEPT ![c] = Pick(c)] /\ loc' = [loc EXCEPT ![c] = NoLoc]
      /\ Pick(c) \in Threads /\ cur[c] = None
  BY DEF Schedule, dev, Pick, IdleInv, HandInv
<1>2. /\ cur'[c] = Pick(c) /\ cur' \in [Cpus -> Threads \cup {None}]
      /\ \A d \in Cpus : d # c => cur'[d] = cur[d]
  BY <1>1 DEF IdleInv, IdleType
<1>3. /\ LocOK /\ Pick(c)' = None
      /\ \A d \in Cpus : d # c => Pick(d)' = Pick(d)
  BY <1>1, ResetLoc DEF LocOK, IdleInv
<1>7. Away' = Away /\ AwayInv'
  BY <1>1, AtSame, AwaySame
<1>4. ASSUME NEW u \in Threads PROVE Placed(u)'
  <2>1. Placed(u) /\ u # None
    BY IdleAssumption DEF IdleInv
  <2>2. CASE u = Pick(c)
    <3>1. u \notin glob /\ u \notin Away /\ u \notin run[c] /\ \A d \in Cpus : d # c => ~Has(d, u)
      BY <2>1, <2>2 DEF Placed, Has
    <3>2. \A d \in Cpus : d # c => ~Has(d, u)'
      BY <1>1, <1>2, <1>3, <3>1 DEF Has
    <3>3. cur'[c] = u /\ Pick(c)' # u /\ u \notin run'[c] /\ u \notin glob' /\ u \notin Away'
      BY <1>1, <1>2, <1>3, <1>7, <2>1, <2>2, <3>1
    <3> QED BY <3>2, <3>3 DEF Placed, Has
  <2>3. CASE u # Pick(c)
    <3>1. Stays(u)
      BY <1>1, <1>2, <1>3, <1>7, <2>1, <2>3 DEF Stays
    <3> QED BY <2>1, <3>1, StaysPlaced
  <2> QED BY <2>2, <2>3
<1>5. AwakeAt(c, "thread")
  <2>1. /\ spinning' = spinning \ {c} /\ nspin' = IF c \in spinning THEN nspin - 1 ELSE nspin
        /\ spinning \in SUBSET Cpus /\ nspin = Cardinality(spinning)
    BY DEF Schedule, IdleInv, IdleType, SleepInv
  <2>2. /\ Cardinality(spinning) \in Nat /\ spinning' \in SUBSET Cpus
        /\ c \in spinning => Cardinality(spinning \ {c}) = Cardinality(spinning) - 1
        /\ c \notin spinning => spinning \ {c} = spinning
    BY <2>1, CpuCount
  <2>3. nspin' = Cardinality(spinning') /\ nspin' \in Int
    <3>1. CASE c \in spinning
      BY <2>1, <2>2, <3>1
    <3>2. CASE c \notin spinning
      <4>1. spinning' = spinning
        BY <2>1, <2>2, <3>2
      <4>2. Cardinality(spinning') = Cardinality(spinning)
        BY <4>1, Zenon
      <4> QED BY <2>1, <2>2, <3>2, <4>2
    <3> QED BY <3>1, <3>2
  <2> QED BY <1>1, <1>3, <2>1, <2>2, <2>3 DEF AwakeAt
<1>6. ThreadsAt(c, "thread")
  BY <1>1, <1>2, <1>3, <1>7 DEF ThreadsAt, IdleInv, IdleType, HandInv
<1> QED BY <1>4, <1>5, <1>6, MoveStep

LEMMA IdleDispatch == ASSUME IdleInv, NEW c \in Cpus, Dispatch(c) PROVE IdleInv'
<1>1. /\ Goto(c, "thread") /\ UNCHANGED <<idle, idleCount, spinning, nspin>>
      /\ cur' = [cur EXCEPT ![c] = waiter] /\ loc' = [loc EXCEPT ![c] = NoLoc]
      /\ ~masked /\ masked' = TRUE /\ blocked' = blocked \ {waiter} /\ pc[c] \in {"thread", "hlt", "pollhlt"}
  BY DEF Dispatch, sched
<1>2. waiter \in blocked /\ waiter \in Threads /\ blocked \subseteq Threads /\ waiter # None
  BY <1>1, IdleAssumption DEF IdleInv, IdleType, HandInv
<1>3. /\ cur'[c] = waiter /\ cur' \in [Cpus -> Threads \cup {None}]
      /\ \A d \in Cpus : d # c => cur'[d] = cur[d]
  BY <1>1, <1>2 DEF IdleInv, IdleType
<1>4. Pick(c) = None /\ c \notin spinning
  BY <1>1 DEF IdleInv, HandInv, SleepInv, Quiet
<1>5. LocOK /\ \A d \in Cpus : Pick(d)' = Pick(d)
  BY <1>1, <1>4, ResetLoc DEF LocOK, IdleInv
<1>6. AwakeAt(c, "thread")
  BY <1>1, <1>4, <1>5 DEF AwakeAt, IdleInv, IdleType, SleepInv
<1>9. SameHands
  <2>1. CASE pc[c] = "thread" /\ at' = SwitchedOut(c)
    <3>1. cur[c] \in Threads
      BY <2>1 DEF IdleInv, HandInv
    <3> QED BY <2>1, <3>1, SwitchedHands
  <2>2. CASE UNCHANGED at
    BY <2>2, AtSame
  <2> QED BY <2>1, <2>2 DEF Dispatch
<1>10. PICK b : b = {waiter}
  OBVIOUS
<1>11. b \in SUBSET Away /\ Away' = Away \ b /\ AwayInv'
  <2>1. b \in SUBSET blocked /\ blocked' = blocked \ b /\ UNCHANGED lost
    BY <1>1, <1>2, <1>10 DEF Dispatch
  <2>2. b \in SUBSET Away
    BY <2>1 DEF Away
  <2> QED BY <1>9, <2>1, <2>2, AwayLess
<1>7. CASE pc[c] = "thread" /\ Put(c, cur[c])
  <2>1. cur[c] \in Threads
    BY <1>7 DEF IdleInv, HandInv
  <2>2. \A u \in Threads : Placed(u)'
    <3>1. PICK t, w : t = cur[c] /\ w = waiter
      OBVIOUS
    <3>2. /\ b \in SUBSET Away /\ Away' = Away \ b /\ cur'[c] = w /\ cur[c] = t /\ b = {w} \ {None}
          /\ t \in Threads /\ Put(c, t)
      BY <1>1, <1>2, <1>3, <1>7, <1>10, <1>11, <2>1, <3>1
    <3>3. \A d \in Cpus : Pick(d)' = Pick(d) /\ (d # c => cur'[d] = cur[d])
      BY <1>3, <1>5
    <3> QED BY <3>2, <3>3, PutPlaced
  <2>3. run' \in [Cpus -> SUBSET Threads] /\ glob' \subseteq Threads /\ \A d \in Cpus : d # c => run'[d] = run[d]
    BY <1>7, <2>1, PutEffect
  <2>4. ThreadsAt(c, "thread")
    BY <1>1, <1>2, <1>3, <1>4, <1>5, <1>11, <2>3 DEF ThreadsAt
  <2> QED BY <1>6, <2>2, <2>4, MoveStep
<1>8. CASE pc[c] \in {"hlt", "pollhlt"} /\ UNCHANGED <<run, glob>>
  <2>1. cur[c] = None
    BY <1>8 DEF IdleInv, HandInv
  <2>2. ASSUME NEW u \in Threads PROVE Placed(u)'
    <3>1. Placed(u) /\ u # None
      BY IdleAssumption DEF IdleInv
    <3>2. CASE u = waiter
      <4>1. u \notin glob /\ \A d \in Cpus : ~Has(d, u)
        BY <1>10, <1>11, <3>1, <3>2 DEF Placed
      <4>2. \A d \in Cpus : d # c => ~Has(d, u)'
        BY <1>3, <1>5, <1>8, <4>1 DEF Has
      <4>3. cur'[c] = u /\ Pick(c)' # u /\ u \notin run'[c] /\ u \notin glob' /\ u \notin Away'
        BY <1>1, <1>3, <1>5, <1>8, <1>10, <1>11, <3>1, <3>2, <4>1 DEF Has
      <4> QED BY <4>2, <4>3 DEF Placed, Has
    <3>3. CASE u # waiter
      <4>1. Stays(u)
        BY <1>1, <1>3, <1>5, <1>8, <1>10, <1>11, <2>1, <3>1, <3>3 DEF Stays
      <4> QED BY <3>1, <4>1, StaysPlaced
    <3> QED BY <3>2, <3>3
  <2>3. ThreadsAt(c, "thread")
    BY <1>1, <1>2, <1>3, <1>4, <1>5, <1>8, <1>11 DEF ThreadsAt, IdleInv, IdleType
  <2> QED BY <1>6, <2>2, <2>3, MoveStep
<1> QED BY <1>7, <1>8 DEF Dispatch

----------------------------------------------------------------------------
(* The invariant, and what it says of the properties.                      *)

LEMMA IdleInit == Init => IdleInv
<1> SUFFICES ASSUME Init PROVE IdleInv
  OBVIOUS
<1>1. \A c \in Cpus : Pick(c) = None /\ DOMAIN loc[c] = {"poll", "was", "left", "t"}
  BY DEF Init, Pick, NoLoc
<1>2. IdleType
  BY <1>1 DEF Init, IdleType, Pcs
<1>3. SleepInv
  BY FS_EmptySet DEF Init, SleepInv, Quiet
<1>4. WorkInv
  BY IdleAssumption DEF Init, WorkInv, Quiet
<1>5. HandInv
  BY <1>1 DEF Init, HandInv
<1>6. \A u \in Threads : Hand(u) = None /\ Step(u) = "user" /\ DOMAIN at[u] = AtFields
  BY DEF Init, User, Hand, Step, AtFields
<1>7. AwayInv /\ Away = {}
  BY <1>6, IdleAssumption DEF Init, AwayInv, Away, PutSteps
<1>8. \A t \in Threads : Placed(t)
  BY <1>1, <1>7, IdleAssumption DEF Init, Placed, Has
<1> QED BY <1>2, <1>3, <1>4, <1>5, <1>7, <1>8 DEF IdleInv

LEMMA IdleNext == IdleInv /\ [Next]_vars => IdleInv'
<1> SUFFICES ASSUME IdleInv, [Next]_vars PROVE IdleInv'
  OBVIOUS
<1>1. CASE Tick
  BY <1>1, IdleTick
<1>2. ASSUME NEW c \in Cpus, FindRunnable(c) PROVE IdleInv'
  BY <1>2, IdleCheckTimers, IdleWakeCpu, IdleFindWork, IdleStartSpin, IdleStealFrom, IdlePutIdle, IdleRecheck,
     IdleTakePoll, IdlePollUntil, IdlePollCpu, IdlePollEnd, IdleWoke, IdleSchedule DEF FindRunnable
<1>3. ASSUME NEW c \in Cpus, Interrupt(c) PROVE IdleInv'
  <2>1. CASE Preempt(c)
    BY <2>1, IdleSaveRunnable DEF Preempt
  <2> QED BY <1>3, <2>1, IdleWakeup, IdleHalts, IdleDispatch DEF Interrupt
<1>4. ASSUME NEW c \in Cpus, Thread(c) PROVE IdleInv'
  <2>1. CASE Yield(c)
    BY <2>1, IdleSaveRunnable DEF Yield, At
  <2>2. CASE Park(c) \/ IrqWait(c)
    BY <2>2, IdleSaveParked DEF Park, IrqWait, At
  <2> QED BY <1>4, <2>1, <2>2, IdleReady, IdlePutReady, IdlePutLate, IdleThread, IdleHalts DEF Thread
<1>5. CASE UNCHANGED vars
  <2>1. UNCHANGED <<pc, loc, sched, cur, run, glob, blocked, waiter, masked>>
    BY <1>5 DEF vars, where, dev
  <2>2. SameHands /\ UNCHANGED lost
    BY <1>5, AtSame DEF vars, where
  <2> QED BY <2>1, <2>2, Untouched
<1> QED BY <1>1, <1>2, <1>3, <1>4, <1>5 DEF Next

LEMMA IdleAlways == Spec => []IdleInv
BY IdleInit, IdleNext, PTL DEF Spec

\* A set that has at most one member.
LEMMA OneCpu ==
    ASSUME NEW S, NEW c, \A d \in S : d = c
    PROVE  Cardinality(S) = IF c \in S THEN 1 ELSE 0
<1>1. CASE c \in S
  <2>1. S = {c}
    BY <1>1
  <2>2. Cardinality({c}) = 1
    BY FS_Singleton
  <2>3. Cardinality(S) = 1
    BY <2>1, <2>2, Zenon
  <2> QED BY <1>1, <2>3
<1>2. CASE c \notin S
  <2>1. S = {}
    BY <1>2
  <2>2. Cardinality(S) = 0
    BY <2>1, FS_EmptySet, Zenon
  <2> QED BY <1>2, <2>2
<1> QED BY <1>1, <1>2

LEMMA PlacedCounts ==
    ASSUME IdleInv, NEW t \in Threads
    PROVE  Cardinality({c \in Cpus : cur[c] = t}) + Cardinality({c \in Cpus : Pick(c) = t})
             + Cardinality({c \in Cpus : t \in run[c]}) + Cardinality({u \in DOMAIN at : Hand(u) = t})
             + (IF t \in glob THEN 1 ELSE 0) + (IF t \in blocked THEN 1 ELSE 0)
             + (IF t \in lost THEN 1 ELSE 0) = 1
<1>1. Placed(t)
  BY DEF IdleInv
<1>2. PICK C, P, R : C = {c \in Cpus : cur[c] = t} /\ P = {c \in Cpus : Pick(c) = t} /\ R = {c \in Cpus : t \in run[c]}
  OBVIOUS
<1>3. PICK c \in Cpus : \A d \in C \cup P \cup R : d = c
  <2>1. CASE \E d \in Cpus : Has(d, t)
    <3>1. PICK d \in Cpus : Has(d, t)
      BY <2>1
    <3> QED BY <1>1, <1>2, <3>1 DEF Placed, Has
  <2>2. CASE \A d \in Cpus : ~Has(d, t)
    BY <1>2, <2>2, IdleAssumption DEF Has
  <2> QED BY <2>1, <2>2
<1>4. C \in SUBSET Cpus /\ P \in SUBSET Cpus /\ R \in SUBSET Cpus
  BY <1>2
<1>5. /\ Cardinality(C) = IF c \in C THEN 1 ELSE 0
      /\ Cardinality(P) = IF c \in P THEN 1 ELSE 0
      /\ Cardinality(R) = IF c \in R THEN 1 ELSE 0
  <2>1. /\ \A d \in C : d = c
        /\ \A d \in P : d = c
        /\ \A d \in R : d = c
    BY <1>3
  <2> QED BY <1>4, <2>1, OneCpu
<1>6. /\ Has(c, t) <=> (c \in C \/ c \in P \/ c \in R)
      /\ ~(c \in C /\ c \in P) /\ ~(c \in C /\ c \in R) /\ ~(c \in P /\ c \in R)
  BY <1>1, <1>2 DEF Placed, Has
<1>7. \A d \in Cpus : Has(d, t) => d = c
  BY <1>2, <1>3 DEF Has
<1>8. /\ t \in glob => t \notin Away /\ ~Has(c, t)
      /\ t \in Away => ~Has(c, t)
      /\ t \in glob \/ t \in Away \/ Has(c, t)
  BY <1>1, <1>7 DEF Placed
<1>9. PICK H : H = {u \in DOMAIN at : Hand(u) = t}
  OBVIOUS
<1>10. PICK u \in Threads : \A v \in H : v = u
  <2>1. DOMAIN at = Threads /\ \A v, w \in H : v = w
    BY <1>9 DEF IdleInv, AwayInv
  <2>2. CASE H = {}
    BY <2>2
  <2>3. CASE H # {}
    BY <1>9, <2>1, <2>3
  <2> QED BY <2>2, <2>3
<1>11. Cardinality(H) = IF u \in H THEN 1 ELSE 0
  BY <1>10, OneCpu
<1>12. /\ t \in Away <=> (t \in blocked \/ t \in lost \/ u \in H)
       /\ ~(t \in blocked /\ t \in lost) /\ (u \in H => t \notin blocked /\ t \notin lost)
  <2>1. DOMAIN at = Threads
    BY DEF IdleInv, AwayInv
  <2>2. u \in H <=> \E v \in Threads : Hand(v) = t
    BY <1>9, <1>10, <2>1
  <2>3. t \in Away <=> (t \in blocked \/ t \in lost \/ u \in H)
    BY <2>2 DEF Away
  <2> QED BY <2>2, <2>3 DEF IdleInv, AwayInv
<1>13. Cardinality(C) + Cardinality(P) + Cardinality(R) + Cardinality(H)
        + (IF t \in glob THEN 1 ELSE 0) + (IF t \in blocked THEN 1 ELSE 0) + (IF t \in lost THEN 1 ELSE 0) = 1
  BY <1>5, <1>6, <1>8, <1>11, <1>12
<1> QED BY <1>2, <1>9, <1>13, Zenon

\* No thread is ever in two places, and none is in no place but the one a
\* run_queue_put cut in two by the device interrupt has lost, whatever the order
\* in which the CPUs put, take, steal and park threads and the interrupt switches
\* to the one that waits for it: for every set of threads and CPUs and every
\* length of the queues (ThreadsInOnePlace).
THEOREM ThreadsStayInOnePlace == Spec => []ThreadsInOnePlace
<1>1. IdleInv => ThreadsInOnePlace
  <2> SUFFICES ASSUME IdleInv PROVE ThreadsInOnePlace
    OBVIOUS
  <2>1. ~masked => waiter \in blocked
    BY DEF IdleInv, HandInv
  <2>2. DOMAIN at = Threads
    BY DEF IdleInv, AwayInv
  <2> QED BY <2>1, <2>2, PlacedCounts DEF ThreadsInOnePlace, Pick, Hand
<1> QED BY <1>1, IdleAlways, PTL

\* When every CPU is in the hlt of find_runnable no run queue has a thread: the
\* last look at the global queue under the scheduler lock, together with each
\* CPU filling only its own queue, is enough, for any number of CPUs (NoLostWork).
THEOREM NoWorkIsLost == Spec => []NoLostWork
<1>1. IdleInv => NoLostWork
  BY DEF IdleInv, WorkInv, NoLostWork, Quiet
<1> QED BY <1>1, IdleAlways, PTL

\* wake_cpu finds every CPU that sleeps or is about to: m_idle_cpus has it, the
\* count read first is not below the mask, m_number_spinning is exact
\* (SleepersAreSeen).
THEOREM SleepersAreAlwaysSeen == Spec => []SleepersAreSeen
<1>1. IdleInv => SleepersAreSeen
  BY DEF IdleInv, IdleType, SleepInv, SleepersAreSeen, Quiet
<1> QED BY <1>1, IdleAlways, PTL
=============================================================================
