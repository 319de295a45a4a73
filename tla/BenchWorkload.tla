--------------------------- MODULE BenchWorkload ---------------------------
(***************************************************************************)
(* benchmark_wmhigh.c: simulate_workload opens, maps, reads or writes a    *)
(* block of, unmaps and closes one file after the other.  main calls it    *)
(* for a warm-up of two iterations and then for those it reports on.  Any  *)
(* call that fails ends the process.                                       *)
(***************************************************************************)
EXTENDS BenchStats

CONSTANTS
  NUM_ITERATIONS,
  WarmUp,             \* iterations of the first call: 2 in the code
  Operations          \* operations of an iteration: 100000 in the code

ASSUME IterationsAssumption ==
  WarmUp \in Nat /\ NUM_ITERATIONS \in Nat \ {0, WarmUp}

VARIABLES
  total_iterations,   \* of the current call
  iteration, op,
  total_latency

workload == <<total_iterations, iteration, op, total_latency>>

WorkloadInit ==
  /\ total_iterations = WarmUp
  /\ iteration = 0 /\ op = 0 /\ total_latency = 0

\* The steps of an operation on a file, read or written: open, mmap, munmap
Operation(from, to) ==
  /\ pc = from /\ op < Operations
  /\ pc' \in {to, "exited"}
  /\ UNCHANGED <<results, workload>>

Close ==
  /\ pc = "close"
  /\ op' = op + 1
  /\ pc' = "open"
  /\ UNCHANGED <<results, total_iterations, iteration, total_latency>>

EndIteration(latency) ==
  /\ pc = "open" /\ op = Operations /\ iteration < total_iterations
  /\ op' = 0 /\ iteration' = iteration + 1
  /\ total_latency' = total_latency + latency
  /\ samples' = Append(samples, latency)
  /\ UNCHANGED <<pc, latencies, stats, total_iterations>>

\* Variant of TotalAtCall for a total that outlives the call.
TotalAtCallKept == total_latency

\* double total_latency = 0.0
TotalAtCall == 0

\* simulate_workload returns the total divided by NUM_ITERATIONS, whatever the
\* number of iterations was; main goes on with the second call or reports.
ReturnAverage ==
  /\ pc = "open" /\ op = 0 /\ iteration = total_iterations
  /\ average' = total_latency \div NUM_ITERATIONS
  /\ IF total_iterations = WarmUp
     THEN /\ total_iterations' = NUM_ITERATIONS /\ iteration' = 0
          /\ total_latency' = TotalAtCall /\ samples' = <<>>
          /\ UNCHANGED <<pc, op>>
     ELSE pc' = "averaged" /\ UNCHANGED <<workload, samples>>
  /\ UNCHANGED <<latencies, std_dev, median, p75, p99>>

WorkloadNext ==
  \/ Operation("open", "mmap") \/ Operation("mmap", "munmap")
  \/ Operation("munmap", "close")
  \/ Close \/ ReturnAverage
  \/ \E l \in Latencies : EndIteration(l)
=============================================================================
