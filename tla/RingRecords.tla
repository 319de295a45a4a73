---------------------------- MODULE RingRecords ----------------------------
(***************************************************************************)
(* One of the two programs with records in a ring buffer, sockfilter or    *)
(* profile, at work.                                                       *)
(***************************************************************************)
EXTENDS SockFilter, Profile

\* max_entries is a power of two, and a length leaves the busy bit free.
ASSUME SizesAssumption ==
  /\ RingWords % 8 = 0
  /\ BusyBit > so_event.size /\ BusyBit > stacktrace_event.size

VARIABLE program

vars == <<ring, line, program>>

Init == RingInit /\ program \in {"sockfilter", "profile"}

Next ==
  /\ \/ program = "sockfilter" /\ SockNext
     \/ program = "profile" /\ ProfNext
  /\ UNCHANGED program

Spec == Init /\ [][Next]_vars
=============================================================================
