SPECIFICATION Spec
CONSTANT
  Programs = {"minimal", "minimal_legacy", "minimal_ns", "lsm", "uprobe",
              "fentry", "ksyscall", "usdt", "tc", "kprobe", "task_iter",
              "bootstrap", "sockfilter", "profile", "xdp", "tracecon", "profile_rs",
              "benchmark_cache"}
INVARIANTS
   CleanStopIsSuccess CleanupReleasesAll
  FailuresAreReported
 
CHECK_DEADLOCK FALSE
