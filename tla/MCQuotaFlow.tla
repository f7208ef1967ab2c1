----------------------------- MODULE MCQuotaFlow -----------------------------
EXTENDS QuotaFlow, TLC

Symmetry == Permutations(Procs) \cup Permutations(Ids)
=============================================================================
