------------------------------ MODULE MCUserLock ------------------------------
EXTENDS UserLock, TLC

Symmetry == Permutations(Procs) \cup Permutations(Objs)
=============================================================================
