---------------------------- MODULE BenchMemory ----------------------------
(***************************************************************************)
(* benchmark.c: cycles of bursty_memory_usage, each allocating a row of    *)
(* small and of large blocks and freeing them again, and the statistics of *)
(* their latencies.  A failing malloc ends the process.                    *)
(***************************************************************************)
EXTENDS BenchStats

CONSTANTS
  Cycles,                 \* n of main: 100 in the code
  NUM_ALLOCATION_PASSIVE,
  NUM_ALLOCATION_BURSTS

VARIABLES
  buffers_passive, buffers   \* the number of blocks they hold

MemoryInit ==
  buffers_passive = 0 /\ buffers = 0

\* The arrays of pointers
AllocateArrays ==
  /\ pc = "arrays"
  /\ pc' \in {"passive", "exited"}
  /\ UNCHANGED <<results, buffers_passive, buffers>>

AllocatePassive ==
  /\ pc = "passive"
  /\ IF buffers_passive = NUM_ALLOCATION_PASSIVE
     THEN pc' = "bursts" /\ UNCHANGED buffers_passive
     ELSE \/ pc' = "exited" /\ UNCHANGED buffers_passive
          \/ buffers_passive' = buffers_passive + 1 /\ UNCHANGED pc
  /\ UNCHANGED <<results, buffers>>

AllocateBurst ==
  /\ pc = "bursts"
  /\ IF buffers = NUM_ALLOCATION_BURSTS
     THEN pc' = "free" /\ UNCHANGED buffers
     ELSE \/ pc' = "exited" /\ UNCHANGED buffers
          \/ buffers' = buffers + 1 /\ UNCHANGED pc
  /\ UNCHANGED <<results, buffers_passive>>

\* The blocks and the arrays are freed, and main takes the time.
ReleaseMemory(latency) ==
  /\ pc = "free"
  /\ buffers_passive' = 0 /\ buffers' = 0
  /\ Measure(latency)
  /\ pc' = IF Len(latencies') = Cycles THEN "measured" ELSE "arrays"

MemoryNext ==
  \/ AllocateArrays \/ AllocatePassive \/ AllocateBurst
  \/ \E l \in Latencies : ReleaseMemory(l)
  \/ (Sort \/ Report) /\ UNCHANGED <<buffers_passive, buffers>>
=============================================================================
