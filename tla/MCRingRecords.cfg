SPECIFICATION Spec
CONSTANTS
  Cpus = {0, 1}
  RingWords = 32
  BusyBit = 1048576
  MaxRecords = 5
  MAX_STACK_DEPTH = 2
  Packets <- Traffic
  Samples <- Work
INVARIANTS PrintedAsReceived HostPacketsPrinted TracesAreOwn
CHECK_DEADLOCK FALSE
