SPECIFICATION DumpSpec
CONSTANTS
  Keys <- Pages
  NoKey = NoKey
  ZeroKey <- Zero
  Buckets = 2
  Bucket <- Shared
  MaxChanges = 2
  MaxFiles = 2

INVARIANTS KeptEntriesDumped RepeatsNeedChange
PROPERTY InterruptEndsLoop
