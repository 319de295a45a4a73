----------------------------- MODULE Benchmarks -----------------------------
\* One of the three benchmarks that measure: where it starts says which one.
EXTENDS BenchMemory, BenchFiles, BenchWorkload

memory == <<buffers_passive, buffers>>
vars == <<pc, results, memory, files, workload>>

Init ==
  /\ BenchInit /\ MemoryInit /\ FilesInit /\ WorkloadInit
  /\ pc \in {"arrays", "create", "open"}

Next ==
  \/ MemoryNext /\ UNCHANGED <<files, workload>>
  \/ FilesNext /\ UNCHANGED <<memory, workload>>
  \/ WorkloadNext /\ UNCHANGED <<memory, files>>

Spec == Init /\ [][Next]_vars
=============================================================================
