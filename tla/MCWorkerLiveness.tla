-------------------------- MODULE MCWorkerLiveness -------------------------
EXTENDS WorkerLiveness, TLC

Symmetry == Permutations(Workers)
=============================================================================
