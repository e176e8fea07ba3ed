------------------------------- MODULE MCIdle -------------------------------
EXTENDS Idle, TLC, RandomOrder

\* No operation tells one thread from another.
AnyThread == Permutations(Threads)

\* A put that is cut in two takes three threads: the one that puts, the one it
\* puts and the driver the interrupt switches to.  These behaviours have a third
\* thread and a clock that stands still.
CONSTANT Third
More == INSTANCE Idle WITH Threads <- Threads \cup {Third}, MaxNow <- 1

MCInit == Init \/ More!Init
MCNext == (DOMAIN at = Threads /\ Next) \/ (DOMAIN at # Threads /\ More!Next)
MCSpec == MCInit /\ [][MCNext]_vars

\* Idle lets steal_work look at the CPUs in any order, each once: up to MaxCpus
\* the enumeration of the code does, from every random start.
MaxCpus == 12
ASSUME StealsFromEveryCpu == \A count \in 1..MaxCpus : MeetsEveryCpu(count)
=============================================================================
