---------------------------- MODULE MCTaskQueue ----------------------------
(***************************************************************************)
(* Instances of TaskQueue for TLC.                                         *)
(***************************************************************************)
EXTENDS TaskQueue, TLC

Symmetry ==
  Permutations(JobIds) \cup Permutations(Workers) \cup
  Permutations(Handlers) \cup Permutations(Faults) \cup Permutations(Keys)
=============================================================================
