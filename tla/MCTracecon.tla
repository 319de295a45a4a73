---------------------------- MODULE MCTracecon ----------------------------
\* Instances of Tracecon for TLC.
EXTENDS Tracecon, TLC

Symmetry == Permutations(Threads) \cup Permutations(Hosts) \cup
            Permutations(Ips) \cup Permutations(Elems \ Spares) \cup
            Permutations(Spares)
=============================================================================
