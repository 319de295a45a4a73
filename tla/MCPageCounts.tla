---------------------------- MODULE MCPageCounts ----------------------------
EXTENDS PageCounts, TLC

CONSTANTS c1, c2, p1, m1, e1, e2, e3

Symmetry == Permutations(Cpus) \cup Permutations(Elems)
=============================================================================
