SPECIFICATION Spec
CONSTANTS
  Pids = {1, 2}
  Pages = {1, 2, 3, 4}
  Dumps <- MCDumps
  KernelInit = 10
  KernelMax = 11
  MaxFiles = 10
INVARIANTS TypeOK KernelFollows
PROPERTIES ProcessedInOrder SmallNeverGrows
CHECK_DEADLOCK FALSE
