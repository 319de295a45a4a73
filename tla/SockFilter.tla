----------------------------- MODULE SockFilter -----------------------------
(***************************************************************************)
(* sockfilter.bpf.c and the callback of sockfilter.c: a record per IPv4    *)
(* packet, a printed line per record of a packet for this host.            *)
(***************************************************************************)
EXTENDS RingBuffer

CONSTANTS Packets   \* [proto, src, dst, ports, pkt_type, ifindex, ip, fragment]

\* The protocol of a packet is a byte of its header.
ASSUME PacketsAssumption == \A skb \in Packets : skb.proto \in 0 .. 255

IPPROTO_GRE == 47
IPPROTO_MAX == 256
PACKET_HOST == 0

\* Variant of so_event with a field more; records are aligned to two words.
so_event_longer == [src_addr |-> 2, dst_addr |-> 3, ports |-> 4, ip_proto |-> 5,
                    pkt_type |-> 6, ifindex |-> 7, size |-> 8]

\* The words of struct so_event, counted from the header
so_event == [src_addr |-> 2, dst_addr |-> 3, ports |-> 4, ip_proto |-> 5,
             pkt_type |-> 6, ifindex |-> 7, size |-> 6]

\* socket_handler up to the reservation
socket_handler(c, skb) ==
  /\ skb.ip /\ ~skb.fragment
  /\ Reserve(c, so_event.size, skb)

\* Variant of AddressWords that takes GRE for the only protocol with addresses.
AddressWordsOfGre(ip_proto) ==
  IF ip_proto = IPPROTO_GRE THEN {so_event.src_addr, so_event.dst_addr} ELSE {}

\* if (e->ip_proto != IPPROTO_GRE) the addresses are written.
AddressWords(ip_proto) ==
  IF ip_proto # IPPROTO_GRE THEN {so_event.src_addr, so_event.dst_addr} ELSE {}

\* The rest of socket_handler: one byte of the word ip_proto, the addresses, the
\* ports (zero if the packet is too short for them), packet type and interface.
FillPacket(c) ==
  LET skb == inputs[mine[c]]
      ip_proto == 256 * (Load(mine[c], so_event.ip_proto) \div 256) + skb.proto
  IN  Fill(c, [k \in AddressWords(ip_proto) \cup so_event.ports .. so_event.ifindex |->
                 CASE k = so_event.src_addr -> skb.src
                   [] k = so_event.dst_addr -> skb.dst
                   [] k = so_event.ports    -> skb.ports
                   [] k = so_event.ip_proto -> ip_proto
                   [] k = so_event.pkt_type -> skb.pkt_type
                   [] k = so_event.ifindex  -> skb.ifindex])

\* handle_event.  if_indextoname fails if the interface is gone.
handle_event ==
  LET e(k) == Load(cons, so_event[k])
  IN  \E ifname \in BOOLEAN :
        Consume([of |-> "packet", pos |-> cons, ifname |-> ifname,
                 printed |-> /\ e("pkt_type") = PACKET_HOST
                             /\ e("ip_proto") \in 0 .. IPPROTO_MAX - 1
                             /\ ifname,
                 ip_proto |-> e("ip_proto"), ports |-> e("ports"),
                 ifindex |-> e("ifindex"),
                 src |-> e("src_addr"), dst |-> e("dst_addr")])

SockNext ==
  \/ \E c \in Cpus : \/ \E skb \in Packets : socket_handler(c, skb)
                     \/ FillPacket(c) \/ Submit(c)
  \/ handle_event
-----------------------------------------------------------------------------
\* Every record of a packet for this host is printed while its interface is
\* there.  The test of ip_proto lets all protocols pass although the probe writes
\* one byte of four: a record lies exactly over earlier ones, whose other three
\* bytes are zero as well, since the size of a record divides that of the ring.
HostPacketsPrinted ==
  line.of = "packet" =>
    (line.printed <=> inputs[line.pos].pkt_type = PACKET_HOST /\ line.ifname)

\* The records with addresses that had the place of the one at pos, up to it
SamePlace(pos) ==
  {p \in DOMAIN inputs : /\ p <= pos /\ (pos - p) % RingWords = 0
                         /\ inputs[p].proto # IPPROTO_GRE}

\* What is printed is the packet of the record, with one exception: the addresses
\* of a GRE packet are not written, so those of the last other packet that had
\* its place in the ring are printed, or zeros.
PrintedAsReceived ==
  line.of = "packet" =>
    LET skb == inputs[line.pos]
    IN  /\ line.ip_proto = skb.proto /\ line.ports = skb.ports
        /\ line.ifindex = skb.ifindex
        /\ \/ SamePlace(line.pos) = {} /\ line.src = 0 /\ line.dst = 0
           \/ \E last \in SamePlace(line.pos) :
                /\ \A p \in SamePlace(line.pos) : p <= last
                /\ line.src = inputs[last].src /\ line.dst = inputs[last].dst
=============================================================================
