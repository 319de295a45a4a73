SPECIFICATION Spec
CONSTANTS
  Latencies = {1, 2, 5, 11}
  IntHalf = 8
  Cycles = 6
  NUM_ALLOCATION_PASSIVE = 1
  NUM_ALLOCATION_BURSTS = 2
  FILES_PER_ITERATION = 3
  BURSTS = 2
  ITERATIONS = 2
  MaxFds = 2
  NUM_ITERATIONS = 3
  WarmUp = 2
  Operations = 2
INVARIANTS  AverageOfMeasured BurstsStartClean ClosesOwnDescriptors
CHECK_DEADLOCK FALSE
