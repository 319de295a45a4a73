--------------------------- MODULE MCPidReceiver ---------------------------
EXTENDS PidReceiver

\* kprobe starts after cleanup.sh, or with the pids.txt of an earlier experiment
\* in place.
CleanOrOld == {<<>>, <<Blank, 17, 5>>}
=============================================================================
