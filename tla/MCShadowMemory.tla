--------------------------- MODULE MCShadowMemory ---------------------------
(* ShadowMemory with interchangeable threads. *)
EXTENDS ShadowMemory, TLC

ThreadSymmetry == Permutations(Threads)
=============================================================================
