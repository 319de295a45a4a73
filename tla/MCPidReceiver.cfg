SPECIFICATION Spec
CONSTANTS
  Pids = {5, 17}
  MaxPids = 1
  Jobs = 1
  MaxRuns = 2
  Leftover <- CleanOrOld
INVARIANTS TrackedWereListed
PROPERTIES ListedBecomesTracked ShutdownCompletes
CHECK_DEADLOCK FALSE
