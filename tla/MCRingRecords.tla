--------------------------- MODULE MCRingRecords ---------------------------
\* Four records of so_event fill the ring, stacktrace_event lies across its end.
EXTENDS RingRecords

Packet(proto, addr, pkt_type) ==
  [proto |-> proto, src |-> addr, dst |-> addr + 256, ports |-> addr + 512,
   pkt_type |-> pkt_type, ifindex |-> 1, ip |-> TRUE, fragment |-> FALSE]

Traffic == {Packet(6, 2001, PACKET_HOST), Packet(17, 3001, 4),
            Packet(IPPROTO_GRE, 4001, PACKET_HOST),
            [Packet(6, 5001, PACKET_HOST) EXCEPT !.ip = FALSE],
            [Packet(6, 6001, PACKET_HOST) EXCEPT !.fragment = TRUE]}

Work ==
  {[pid |-> 1, comm |-> 11, cpu |-> 0, kstack |-> <<101, 102>>, ustack |-> <<103>>],
   [pid |-> 2, comm |-> 12, cpu |-> 1, kstack |-> <<201>>, ustack |-> <<>>],
   [pid |-> 3, comm |-> 13, cpu |-> 1, kstack |-> <<>>, ustack |-> <<301, 302>>],
   [pid |-> 0, comm |-> 0, cpu |-> 0, kstack |-> <<>>, ustack |-> <<>>]}
=============================================================================
