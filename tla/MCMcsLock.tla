----------------------------- MODULE MCMcsLock -----------------------------
(* McsLock on a small set of threads.  Threads are interchangeable, which  *)
(* the safety run uses; a run with a liveness property must not.           *)
EXTENDS McsLock, TLC

ThreadSymmetry == Permutations(Threads)
=============================================================================
