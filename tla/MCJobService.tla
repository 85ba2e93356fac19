---------------------------- MODULE MCJobService ---------------------------
(***************************************************************************)
(* Instances of JobService for TLC.                                        *)
(***************************************************************************)
EXTENDS JobService, TLC

Symmetry == Permutations(JobIds) \cup Permutations(Specs) \cup Permutations(Keys)
=============================================================================
