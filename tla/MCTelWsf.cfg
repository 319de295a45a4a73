SPECIFICATION Spec
CONSTANTS
  Lines = {1}
  MaxLines = 1
  MaxFiles = 5
  MaxCleanups = 1
  MaxRuns = 2
  Total = 8
  Free = {3}
  StopNumber = 2
INVARIANTS TypeOK StopFileHonoured
PROPERTIES ImplementsChannel SnapshotsReachController
CHECK_DEADLOCK FALSE
