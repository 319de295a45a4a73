SPECIFICATION SplitSpec
CONSTANTS
  Counts = {1, 5, 40}
  MaxLen = 11
  MemTotal = 8
  Free = {0, 8}
  Old = 10
INVARIANTS
  SplitIsSmallestWorkingSet SplitsGetTheirBucket
CHECK_DEADLOCK FALSE
