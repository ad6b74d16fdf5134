------------------------------- MODULE MCMutex -------------------------------
(* Instances of Mutex for TLC.                                             *)
EXTENDS Mutex, TLC

Symmetry == Permutations(Coroutines)
=============================================================================
