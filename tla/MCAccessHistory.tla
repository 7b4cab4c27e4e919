-------------------------- MODULE MCAccessHistory --------------------------
(* AccessHistory with interchangeable tasks. *)
EXTENDS AccessHistory, TLC

TaskSymmetry == Permutations(Tasks)
=============================================================================
