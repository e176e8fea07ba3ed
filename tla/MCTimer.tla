------------------------------ MODULE MCTimer ------------------------------
(* The timers of an instance: one periodic, one not. *)
EXTENDS Timer, TLC
CONSTANTS t1, t2
MCPeriod == t1 :> 1 @@ t2 :> 0
Symmetry == Permutations(Cpus)
=============================================================================
