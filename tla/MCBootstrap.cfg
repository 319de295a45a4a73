SPECIFICATION BootSpec
CONSTANTS
  Pids = {p1, p2}
  MinDurations = {0, 2}
  MaxStarts = 1
  RingSize = 2
  MaxTime = 3
INVARIANTS BootTypeOK DurationIsLifetime StartsAreLive
PROPERTIES FullBufferDrains 
CHECK_DEADLOCK FALSE
