------------------------------ MODULE MCMutex ------------------------------
(* TLC instances of Mutex. *)
EXTENDS Mutex, TLC

Symmetry == Permutations(Threads)
=============================================================================
