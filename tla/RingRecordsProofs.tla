-------------------------- MODULE RingRecordsProofs --------------------------
(***************************************************************************)
(* What sockfilter and profile print is what their probes recorded, for    *)
(* every number of CPUs, every ring whose size is a multiple of eight      *)
(* words, all packets and all samples, however many records there are.     *)
(***************************************************************************)
EXTENDS RingRecords, TLAPS

\* Division with a remainder
LEMMA DivMod ==
  ASSUME NEW W \in Nat \ {0}, NEW a \in Int
  PROVE  a \div W \in Int /\ a % W \in 0 .. W - 1 /\ a = W * (a \div W) + (a % W)
OBVIOUS

\* The remainder is the only one.
LEMMA Unique ==
  ASSUME NEW W \in Nat \ {0}, NEW q \in Int, NEW r \in 0 .. W - 1
  PROVE  (W * q + r) % W = r
<1> DEFINE a == W * q + r
           k == a \div W
           s == a % W
<1>1. a \in Int /\ k \in Int /\ s \in 0 .. W - 1 /\ a = W * k + s
  <2>1. W * q \in Int OBVIOUS
  <2>2. a \in Int BY <2>1
  <2> QED BY <2>2, DivMod
<1>2. a = W * q + r OBVIOUS
<1> HIDE DEF a, k, s
<1>3. W * (q - k) = s - r
  <2>1. W * (q - k) = W * q - W * k BY <1>1
  <2>2. W * q \in Int /\ W * k \in Int /\ r \in Int /\ s \in Int BY <1>1
  <2> QED BY <1>1, <1>2, <2>1, <2>2
<1>4. q - k < 1
  <2> SUFFICES ASSUME q - k >= 1 PROVE FALSE BY <1>1
  <2>1. W * (q - k) >= W BY <1>1
  <2> QED BY <1>1, <1>3, <2>1
<1>5. q - k > -1
  <2> SUFFICES ASSUME q - k <= -1 PROVE FALSE BY <1>1
  <2>1. W * (q - k) <= -W BY <1>1
  <2> QED BY <1>1, <1>3, <2>1
<1>6. q - k = 0 BY <1>1, <1>4, <1>5
<1>7. s = r BY <1>1, <1>3, <1>6
<1> QED BY <1>7 DEF s, a

\* A whole number of rounds leaves the remainder as it is.
LEMMA ModShift ==
  ASSUME NEW W \in Nat \ {0}, NEW q \in Int, NEW a \in Int
  PROVE  (a + W * q) % W = a % W
<1>1. a \div W \in Int /\ a % W \in 0 .. W - 1 /\ a = W * (a \div W) + (a % W) BY DivMod
<1> DEFINE k == a \div W
           r == a % W
<1>2. k \in Int /\ r \in 0 .. W - 1 /\ a = W * k + r BY <1>1
<1> HIDE DEF k, r
<1>3. a + W * q = W * (k + q) + r
  <2>1. W * (k + q) = W * k + W * q BY <1>2
  <2>2. W * k \in Int /\ W * q \in Int /\ W * (k + q) \in Int /\ r \in Int BY <1>2
  <2> QED BY <1>2, <2>1, <2>2
<1>4. (W * (k + q) + r) % W = r BY <1>2, Unique
<1> QED BY <1>3, <1>4 DEF r

\* How far a word of the ring is behind a position: the offset that Stored takes
LEMMA ModLess ==
  ASSUME NEW W \in Nat \ {0}, NEW a \in Int, NEW b \in Int
  PROVE  ((a % W) - b) % W = (a - b) % W
<1> DEFINE k == a \div W
           r == a % W
<1>1. k \in Int /\ r \in 0 .. W - 1 /\ a = W * k + r BY DivMod
<1> HIDE DEF k, r
<1>2. r - b \in Int /\ W * k \in Int BY <1>1
<1>3. a - b = (r - b) + W * k BY <1>1, <1>2
<1>4. ((r - b) + W * k) % W = (r - b) % W BY <1>1, <1>2, ModShift, Zenon
<1> QED BY <1>3, <1>4 DEF r

\* The remainder of a number within a round of zero
LEMMA ModNear ==
  ASSUME NEW W \in Nat \ {0}, NEW a \in Int
  PROVE  /\ a \in 0 .. W - 1 => a % W = a
         /\ a \in -W .. -1 => a % W = a + W
<1>1. ASSUME a \in 0 .. W - 1 PROVE a % W = a BY <1>1
<1>2. ASSUME a \in -W .. -1 PROVE a % W = a + W
  <2>1. a + W \in 0 .. W - 1 /\ W * (-1) = -W BY <1>2
  <2>2. (W * (-1) + (a + W)) % W = a + W BY <2>1, -1 \in Int, Unique
  <2>3. W * (-1) + (a + W) = a BY <2>1
  <2> QED BY <2>2, <2>3
<1> QED BY <1>1, <1>2

\* Below a round the only multiple of a round is zero or less.
LEMMA ModZero ==
  ASSUME NEW W \in Nat \ {0}, NEW a \in Int, a % W = 0, a < W
  PROVE  a <= 0
<1> SUFFICES ASSUME a > 0 PROVE FALSE OBVIOUS
<1>1. a % W = a BY ModNear
<1> QED BY <1>1

\* The difference of two whole numbers of rounds is one.
LEMMA ModDifference ==
  ASSUME NEW W \in Nat \ {0}, NEW a \in Int, NEW b \in Int, a % W = 0, b % W = 0
  PROVE  (a - b) % W = 0
<1>1. ((a % W) - b) % W = (a - b) % W BY ModLess, Zenon
<1> DEFINE k == b \div W
<1>2. k \in Int /\ b = W * k + (b % W) BY DivMod
<1> HIDE DEF k
<1>3. b = W * k BY <1>2
<1>4. W * (-k) = -(W * k) /\ W * k \in Int /\ -k \in Int BY <1>2
<1>5. (0 + W * (-k)) % W = 0 % W
  <2>1. 0 \in Int OBVIOUS
  <2> QED BY ModShift, <1>4, <2>1, Zenon
<1>6. 0 % W = 0 BY ModNear
<1>7. 0 + W * (-k) = 0 - b BY <1>3, <1>4
<1> QED BY <1>1, <1>5, <1>6, <1>7

\* What is aligned to eight words stays so in a ring of a multiple of them.
LEMMA ModAligned ==
  ASSUME NEW W \in Nat \ {0}, W % 8 = 0, NEW a \in Int, a % 8 = 0, NEW j \in 0 .. 7
  PROVE  (a % W) % 8 = 0 /\ (a + j) % W = (a % W) + j
<1> DEFINE k == a \div W
           r == a % W
           n == W \div 8
<1>1. k \in Int /\ r \in 0 .. W - 1 /\ a = W * k + r BY DivMod
<1>2. n \in Int /\ W = 8 * n
  <2>1. W \div 8 \in Int /\ W = 8 * (W \div 8) + (W % 8) BY DivMod
  <2> QED BY <2>1
<1> HIDE DEF k, r, n
<1>3. r % 8 = 0
  <2>1. n * k \in Int BY <1>1, <1>2
  <2>2. W * k = 8 * (n * k) BY <1>1, <1>2
  <2>3. r = a - 8 * (n * k) BY <1>1, <2>1, <2>2
  <2> QED BY <2>1, <2>3
<1>4. r + j \in 0 .. W - 1 BY <1>1, <1>2, <1>3
<1>5. a + j = W * k + (r + j)
  <2>1. W * k \in Int BY <1>1
  <2> QED BY <1>1, <2>1
<1>6. (W * k + (r + j)) % W = r + j BY <1>1, <1>4, Unique, Zenon
<1> QED BY <1>3, <1>5, <1>6 DEF r

-----------------------------------------------------------------------------
\* Words of a record without its header, in the program at work
Size == IF program = "sockfilter" THEN so_event.size ELSE stacktrace_event.size

\* The records that are still in the ring
Live == {p \in DOMAIN inputs : cons <= p}

\* Reserved and not submitted; reserved and not yet written
Busy(p) == \E c \in Cpus : mine[c] = p
Open(p) == \E c \in Cpus : mine[c] = p /\ pc[c] = "fill"

\* Records follow each other without a gap, those in the ring fit into it.
RecordsOK ==
  /\ DOMAIN mem = 0 .. RingWords - 1
  /\ prod \in Nat /\ cons \in Nat /\ cons <= prod /\ prod - cons < RingWords
  /\ DOMAIN inputs \subseteq Nat
  /\ cons = prod \/ cons \in DOMAIN inputs
  /\ \A p \in DOMAIN inputs : p + 2 + Size = prod \/ p + 2 + Size \in DOMAIN inputs
  /\ \A p \in DOMAIN inputs : p + 2 + Size <= prod
  /\ \A p, q \in DOMAIN inputs : p < q => p + 2 + Size <= q

\* A CPU has at most one record, which no other has and which is in the ring.
CpusOK ==
  /\ mine \in [Cpus -> Int] /\ pc \in [Cpus -> {"idle", "fill", "submit"}]
  /\ \A c \in Cpus : pc[c] = "idle" <=> mine[c] = None
  /\ \A c \in Cpus : pc[c] # "idle" => mine[c] \in Live
  /\ \A c, d \in Cpus : mine[c] = mine[d] /\ mine[c] # None => c = d

HeadersOK ==
  \A p \in Live : Load(p, 0) = IF Busy(p) THEN BusyBit + Size ELSE Size

RingOK == RecordsOK /\ CpusOK /\ HeadersOK

\* The words of a record are those of its packet, the addresses apart.
PacketAt(p) ==
  /\ Load(p, so_event.ports) = inputs[p].ports
  /\ Load(p, so_event.ip_proto) = inputs[p].proto
  /\ Load(p, so_event.pkt_type) = inputs[p].pkt_type
  /\ Load(p, so_event.ifindex) = inputs[p].ifindex

\* The packets with addresses whose record was written at the place of x
Seen(x) == {q \in DOMAIN inputs : /\ (x - q) % RingWords = 0
                                  /\ inputs[q].proto # IPPROTO_GRE
                                  /\ ~Open(q)}

\* What the memory at an aligned place holds: the addresses of the last of
\* those packets, and a protocol.
PlaceOK(x) ==
  /\ Load(x, so_event.ip_proto) \in 0 .. 255
  /\ \/ /\ Seen(x) = {}
        /\ Load(x, so_event.src_addr) = 0 /\ Load(x, so_event.dst_addr) = 0
     \/ \E q \in Seen(x) :
          /\ \A r \in Seen(x) : r <= q
          /\ Load(x, so_event.src_addr) = inputs[q].src
          /\ Load(x, so_event.dst_addr) = inputs[q].dst

\* The record of a packet has eight words with its header.
Aligned(x) == x % 8 = 0

SockOK ==
  /\ Aligned(prod)
  /\ \A p \in DOMAIN inputs : inputs[p] \in Packets /\ Aligned(p)
  /\ \A p \in Live : ~Open(p) => PacketAt(p)
  /\ \A x \in Nat : Aligned(x) => PlaceOK(x)

\* The words of a record are those of its sample, frame by frame.
SampleAt(p) ==
  LET e == stacktrace_event
      s == inputs[p]
  IN  /\ Load(p, e.pid) = s.pid /\ Load(p, e.cpu_id) = s.cpu
      /\ Load(p, e.comm) = s.comm
      /\ Load(p, e.kstack_sz) = StackSize(s.kstack)
      /\ Load(p, e.ustack_sz) = StackSize(s.ustack)
      /\ \A n \in 1 .. Len(s.kstack) : Load(p, e.kstack + n - 1) = s.kstack[n]
      /\ \A n \in 1 .. Len(s.ustack) : Load(p, e.ustack + n - 1) = s.ustack[n]

ProfOK ==
  /\ \A p \in DOMAIN inputs : inputs[p] \in Samples
  /\ \A c \in Cpus : pc[c] # "idle" => inputs[mine[c]].cpu = c
  /\ \A p \in Live : ~Open(p) => SampleAt(p)

\* The line printed last is about a record that left the ring.
LineOK ==
  /\ line.of \in {"none", "packet", "trace"}
  /\ line.of # "none" => line.pos \in DOMAIN inputs
  /\ PrintedAsReceived /\ HostPacketsPrinted /\ TracesAreOwn

IInv ==
  /\ program \in {"sockfilter", "profile"}
  /\ RingOK /\ LineOK
  /\ program = "sockfilter" => SockOK
  /\ program = "profile" => ProfOK
-----------------------------------------------------------------------------
LEMMA SizeType == Size \in Nat /\ BusyBit > Size
BY RingAssumption, SizesAssumption, SamplesAssumption
   DEF Size, so_event, stacktrace_event

\* What a word of the ring is after words are written at pos
LEMMA StoredAt ==
  ASSUME DOMAIN mem = 0 .. RingWords - 1, NEW pos \in Int, NEW words
  PROVE  \A a \in Int : \A k : (a - pos) % RingWords = k =>
           /\ k \in DOMAIN words => Stored(pos, words)[a % RingWords] = words[k]
           /\ k \notin DOMAIN words =>
                Stored(pos, words)[a % RingWords] = mem[a % RingWords]
<1> TAKE a \in Int
<1> TAKE k
<1> HAVE (a - pos) % RingWords = k
<1> DEFINE w == a % RingWords
<1>1. w \in 0 .. RingWords - 1 BY RingAssumption, DivMod
<1>2. (w - pos) % RingWords = k BY RingAssumption, ModLess, Zenon
<1> HIDE DEF w
<1>3. Stored(pos, words)[w] =
        IF (w - pos) % RingWords \in DOMAIN words
        THEN words[(w - pos) % RingWords] ELSE mem[w]
  BY <1>1 DEF Stored
<1> QED BY <1>2, <1>3 DEF w

\* Writing words at the record pos, or at the producer, leaves another record
\* in the ring as it is, and of its own all but the words.
LEMMA StoredInRecord ==
  ASSUME RecordsOK, NEW p \in Live, NEW j \in 0 .. Size + 1, NEW words,
         NEW pos \in Nat, DOMAIN words \subseteq 0 .. Size + 1,
         \/ pos \in Live
         \/ pos = prod /\ prod + 2 + Size - cons < RingWords
  PROVE  Stored(pos, words)[(p + j) % RingWords] =
           IF p = pos /\ j \in DOMAIN words THEN words[j] ELSE Load(p, j)
<1> DEFINE d == (p + j) - pos
<1>1. p \in Nat /\ p \in DOMAIN inputs /\ cons <= p /\ p + 2 + Size <= prod
  BY DEF Live, RecordsOK
<1>2. Size \in Nat /\ RingWords \in Nat \ {0} BY SizeType, RingAssumption
<1>3. cons \in Nat /\ prod \in Nat /\ prod - cons < RingWords BY DEF RecordsOK
<1>4. p + j \in Int /\ d \in Int /\ p + j \in Nat BY <1>1, <1>2
<1>5. \A k : d % RingWords = k =>
        /\ k \in DOMAIN words => Stored(pos, words)[(p + j) % RingWords] = words[k]
        /\ k \notin DOMAIN words =>
             Stored(pos, words)[(p + j) % RingWords] = mem[(p + j) % RingWords]
  <2>1. DOMAIN mem = 0 .. RingWords - 1 /\ pos \in Int BY DEF RecordsOK
  <2> QED BY <1>4, <2>1, StoredAt
<1>6. CASE p = pos
  <2>1. d = j /\ d \in 0 .. RingWords - 1 BY <1>1, <1>2, <1>3, <1>6
  <2>2. d % RingWords = j BY <1>2, <1>4, <2>1, ModNear
  <2> QED BY <1>5, <1>6, <2>2 DEF Load
<1>7. CASE p # pos
  <2>1. d % RingWords \notin 0 .. Size + 1
    <3>1. CASE pos \in Live /\ pos < p
      <4>1. pos + 2 + Size <= p BY <1>1, <3>1 DEF Live, RecordsOK
      <4>2. cons <= pos BY <3>1 DEF Live
      <4>3. d \in 0 .. RingWords - 1 /\ d >= 2 + Size BY <1>1, <1>2, <1>3, <4>1, <4>2
      <4>4. d % RingWords = d BY <1>2, <1>4, <4>3, ModNear
      <4> QED BY <1>2, <1>4, <4>3, <4>4
    <3>2. CASE pos \in Live /\ p < pos
      <4>1. p + 2 + Size <= pos /\ pos + 2 + Size <= prod
        BY <1>1, <3>2 DEF Live, RecordsOK
      <4>2. d \in -RingWords .. -1 /\ d + RingWords > 1 + Size
        BY <1>1, <1>2, <1>3, <4>1
      <4>3. d % RingWords = d + RingWords BY <1>2, <1>4, <4>2, ModNear
      <4> QED BY <1>2, <1>4, <4>2, <4>3
    <3>3. CASE pos = prod /\ prod + 2 + Size - cons < RingWords
      <4>1. d \in -RingWords .. -1 /\ d + RingWords > 1 + Size
        BY <1>1, <1>2, <1>3, <3>3
      <4>2. d % RingWords = d + RingWords BY <1>2, <1>4, <4>1, ModNear
      <4> QED BY <1>2, <1>4, <4>1, <4>2
    <3> QED BY <1>1, <1>7, <3>1, <3>2, <3>3
  <2> QED BY <1>5, <1>7, <2>1 DEF Load
<1> QED BY <1>6, <1>7

\* bpf_ringbuf_reserve: a record more, those in the ring stay as they are.
LEMMA ReserveRing ==
  ASSUME RingOK, NEW c \in Cpus, NEW in, Reserve(c, Size, in), program' = program
  PROVE  /\ RingOK'
         /\ prod \notin DOMAIN inputs /\ Live' = Live \cup {prod}
         /\ \A p \in Live : \A j \in 0 .. Size + 1 : Load(p, j)' = Load(p, j)
         /\ \A p \in Nat : Open(p)' <=> Open(p) \/ p = prod
<1> DEFINE words == [k \in {0, 1} |-> IF k = 0 THEN BusyBit + Size ELSE 0]
<1>1. Size' = Size /\ Size \in Nat /\ BusyBit \in Nat /\ RingWords \in Nat \ {0}
  BY SizeType, RingAssumption DEF Size
<1>2. /\ pc[c] = "idle" /\ prod + 2 + Size - cons < RingWords
      /\ mem' = Stored(prod, words)
      /\ mine' = [mine EXCEPT ![c] = prod]
      /\ prod' = prod + 2 + Size /\ cons' = cons
      /\ inputs' = [p \in DOMAIN inputs \cup {prod} |->
                      IF p = prod THEN in ELSE inputs[p]]
      /\ pc' = [pc EXCEPT ![c] = "fill"]
  BY DEF Reserve
<1>3. RecordsOK /\ CpusOK /\ HeadersOK BY DEF RingOK
<1> HIDE DEF words
<1>4. DOMAIN words = {0, 1} /\ words[0] = BusyBit + Size BY DEF words
<1>5. prod \in Nat /\ cons \in Nat /\ DOMAIN inputs \subseteq Nat BY <1>3 DEF RecordsOK
<1>6. \A p \in DOMAIN inputs : p + 2 + Size <= prod BY <1>3 DEF RecordsOK
<1>7. prod \notin DOMAIN inputs BY <1>1, <1>5, <1>6
<1>8. DOMAIN inputs' = DOMAIN inputs \cup {prod} BY <1>2
<1>9. Live' = Live \cup {prod} BY <1>2, <1>3, <1>8 DEF Live, RecordsOK
<1>10. \A p \in Live : \A j \in 0 .. Size + 1 : Load(p, j)' = Load(p, j)
  <2> SUFFICES ASSUME NEW p \in Live, NEW j \in 0 .. Size + 1
               PROVE  mem'[(p + j) % RingWords] = Load(p, j)
    BY DEF Load
  <2>1. DOMAIN words \subseteq 0 .. Size + 1 BY <1>1, <1>4
  <2>2. p # prod BY <1>7 DEF Live
  <2> QED BY <1>2, <1>3, <1>5, <2>1, <2>2, StoredInRecord
<1>11. DOMAIN mem' = 0 .. RingWords - 1 /\ mem'[(prod + 0) % RingWords] = BusyBit + Size
  <2>1. ((prod + 0) - prod) % RingWords = 0
    <3>1. (prod + 0) - prod = 0 BY <1>5
    <3>2. 0 % RingWords = 0 BY <1>1, ModNear
    <3> QED BY <3>1, <3>2
  <2>2. DOMAIN mem = 0 .. RingWords - 1 /\ prod \in Int /\ prod + 0 \in Int
    BY <1>3, <1>5 DEF RecordsOK
  <2>3. mem'[(prod + 0) % RingWords] = BusyBit + Size
    BY <1>2, <1>4, <2>1, <2>2, StoredAt
  <2> QED BY <1>2, <2>2, <2>3 DEF Stored
<1>12. RecordsOK'
  <2>1. /\ prod' \in Nat /\ cons' \in Nat /\ cons' <= prod' /\ prod' - cons' < RingWords
        /\ DOMAIN inputs' \subseteq Nat
    BY <1>1, <1>2, <1>3, <1>5, <1>8 DEF RecordsOK
  <2>2. cons' = prod' \/ cons' \in DOMAIN inputs' BY <1>2, <1>3, <1>8 DEF RecordsOK
  <2>3. \A p \in DOMAIN inputs' :
          p + 2 + Size = prod' \/ p + 2 + Size \in DOMAIN inputs'
    BY <1>2, <1>3, <1>8 DEF RecordsOK
  <2>4. \A p \in DOMAIN inputs' : p + 2 + Size <= prod'
    BY <1>1, <1>2, <1>5, <1>6, <1>8
  <2>5. \A p, q \in DOMAIN inputs' : p < q => p + 2 + Size <= q
    BY <1>1, <1>3, <1>5, <1>6, <1>8 DEF RecordsOK
  <2> QED BY <1>1, <1>11, <2>1, <2>2, <2>3, <2>4, <2>5, Zenon DEF RecordsOK
<1>13. /\ mine'[c] = prod /\ pc'[c] = "fill" /\ mine[c] = None /\ None \notin Nat
       /\ \A d \in Cpus : d # c => mine'[d] = mine[d] /\ pc'[d] = pc[d]
  BY <1>2, <1>3 DEF CpusOK, None
<1>14. \A d \in Cpus : mine[d] # prod BY <1>3, <1>5, <1>7, <1>13 DEF CpusOK, Live
<1>15. CpusOK'
  <2>1. mine' \in [Cpus -> Int] /\ pc' \in [Cpus -> {"idle", "fill", "submit"}]
    BY <1>2, <1>3, <1>5 DEF CpusOK
  <2>2. \A d \in Cpus : pc'[d] = "idle" <=> mine'[d] = None
    BY <1>3, <1>5, <1>13 DEF CpusOK
  <2>3. \A d \in Cpus : pc'[d] # "idle" => mine'[d] \in Live'
    BY <1>3, <1>9, <1>13 DEF CpusOK
  <2>4. \A d, e \in Cpus : mine'[d] = mine'[e] /\ mine'[d] # None => d = e
    BY <1>3, <1>13, <1>14 DEF CpusOK
  <2> QED BY <2>1, <2>2, <2>3, <2>4 DEF CpusOK, None
<1>16. HeadersOK'
  <2> SUFFICES ASSUME NEW p \in Live'
               PROVE  mem'[(p + 0) % RingWords] =
                        IF Busy(p)' THEN BusyBit + Size ELSE Size
    BY <1>1 DEF HeadersOK, Load
  <2>1. CASE p = prod BY <1>11, <1>13, <2>1 DEF Busy
  <2>2. CASE p # prod
    <3>1. p \in Live /\ p \in Nat BY <1>5, <1>9, <2>2 DEF Live
    <3>2. Busy(p)' <=> Busy(p) BY <1>13, <2>2, <3>1 DEF Busy
    <3>3. 0 \in 0 .. Size + 1 BY <1>1
    <3>4. mem'[(p + 0) % RingWords] = Load(p, 0) BY <1>10, <3>1, <3>3 DEF Load
    <3> QED BY <1>3, <3>1, <3>2, <3>4 DEF HeadersOK
  <2> QED BY <2>1, <2>2
<1>17. \A p \in Nat : Open(p)' <=> Open(p) \/ p = prod BY <1>2, <1>13, <1>14 DEF Open
<1> QED BY <1>7, <1>9, <1>10, <1>12, <1>15, <1>16, <1>17 DEF RingOK

\* A probe that writes into its record changes no other.
LEMMA FillRing ==
  ASSUME RingOK, NEW c \in Cpus, NEW words, Fill(c, words), program' = program,
         DOMAIN words \subseteq 2 .. Size + 1
  PROVE  /\ RingOK' /\ Live' = Live /\ mine[c] \in Live /\ Open(mine[c])
         /\ \A p \in Live : \A j \in 0 .. Size + 1 :
              Load(p, j)' = IF p = mine[c] /\ j \in DOMAIN words THEN words[j] ELSE Load(p, j)
         /\ \A p : Open(p)' <=> Open(p) /\ p # mine[c]
<1>1. Size' = Size /\ Size \in Nat /\ RingWords \in Nat \ {0}
  BY SizeType, RingAssumption DEF Size
<1>2. /\ pc[c] = "fill" /\ mem' = Stored(mine[c], words)
      /\ pc' = [pc EXCEPT ![c] = "submit"]
      /\ prod' = prod /\ cons' = cons /\ mine' = mine /\ inputs' = inputs
  BY DEF Fill
<1>3. RecordsOK /\ CpusOK /\ HeadersOK BY DEF RingOK
<1>4. Live' = Live BY <1>2 DEF Live
<1>5. mine[c] \in Live BY <1>2, <1>3 DEF CpusOK
<1>6. mine[c] \in Nat BY <1>3, <1>5 DEF Live, RecordsOK
<1>7. \A p \in Live : \A j \in 0 .. Size + 1 :
        Load(p, j)' = IF p = mine[c] /\ j \in DOMAIN words THEN words[j] ELSE Load(p, j)
  <2> SUFFICES ASSUME NEW p \in Live, NEW j \in 0 .. Size + 1
               PROVE  mem'[(p + j) % RingWords] =
                        IF p = mine[c] /\ j \in DOMAIN words THEN words[j] ELSE Load(p, j)
    BY DEF Load
  <2>1. DOMAIN words \subseteq 0 .. Size + 1 BY <1>1
  <2> QED BY <1>2, <1>3, <1>5, <1>6, <2>1, StoredInRecord
<1>8. DOMAIN mem' = 0 .. RingWords - 1 BY <1>2, <1>3 DEF Stored, RecordsOK
<1>9. RecordsOK' BY <1>1, <1>2, <1>3, <1>8 DEF RecordsOK
<1>10. pc'[c] = "submit" /\ \A d \in Cpus : d # c => pc'[d] = pc[d]
  BY <1>2, <1>3 DEF CpusOK
<1>11. CpusOK'
  <2>1. pc' \in [Cpus -> {"idle", "fill", "submit"}] BY <1>2, <1>3 DEF CpusOK
  <2> QED BY <1>2, <1>3, <1>4, <1>10, <2>1 DEF CpusOK, None
<1>12. HeadersOK'
  <2> SUFFICES ASSUME NEW p \in Live
               PROVE  Load(p, 0)' = IF Busy(p)' THEN BusyBit + Size ELSE Size
    BY <1>1, <1>4 DEF HeadersOK
  <2>1. Busy(p)' <=> Busy(p) BY <1>2 DEF Busy
  <2>2. 0 \in 0 .. Size + 1 /\ 0 \notin DOMAIN words BY <1>1
  <2>3. Load(p, 0)' = Load(p, 0) BY <1>7, <2>2
  <2> QED BY <1>3, <2>1, <2>3 DEF HeadersOK
<1>13. Open(mine[c]) BY <1>2 DEF Open
<1>14. ASSUME NEW p PROVE Open(p)' <=> Open(p) /\ p # mine[c]
  <2>1. \A d \in Cpus : mine[d] = mine[c] => d = c
    BY <1>2, <1>3 DEF CpusOK
  <2> QED BY <1>2, <1>10, <2>1 DEF Open
<1> QED BY <1>4, <1>5, <1>7, <1>9, <1>11, <1>12, <1>13, <1>14 DEF RingOK

\* bpf_ringbuf_submit clears the busy bit of a record and nothing else.
LEMMA SubmitRing ==
  ASSUME RingOK, NEW c \in Cpus, Submit(c), program' = program
  PROVE  /\ RingOK' /\ Live' = Live /\ mine[c] \in Live
         /\ \A p \in Live : \A j \in 1 .. Size + 1 : Load(p, j)' = Load(p, j)
         /\ \A p \in Nat : Open(p)' <=> Open(p)
<1> DEFINE words == [k \in {0} |-> Load(mine[c], 0) - BusyBit]
<1>1. Size' = Size /\ Size \in Nat /\ BusyBit \in Nat /\ RingWords \in Nat \ {0}
  BY SizeType, RingAssumption DEF Size
<1>2. /\ pc[c] = "submit" /\ mem' = Stored(mine[c], words)
      /\ mine' = [mine EXCEPT ![c] = None] /\ pc' = [pc EXCEPT ![c] = "idle"]
      /\ prod' = prod /\ cons' = cons /\ inputs' = inputs
  BY DEF Submit
<1>3. RecordsOK /\ CpusOK /\ HeadersOK BY DEF RingOK
<1>4. Live' = Live BY <1>2 DEF Live
<1>5. mine[c] \in Live BY <1>2, <1>3 DEF CpusOK
<1>6. mine[c] \in Nat BY <1>3, <1>5 DEF Live, RecordsOK
<1>7. DOMAIN words = {0} /\ words[0] = Size
  <2>1. Load(mine[c], 0) = BusyBit + Size BY <1>3, <1>5 DEF HeadersOK, Busy
  <2> QED BY <1>1, <2>1
<1> HIDE DEF words
<1>8. \A p \in Live : \A j \in 0 .. Size + 1 :
        Load(p, j)' = IF p = mine[c] /\ j = 0 THEN Size ELSE Load(p, j)
  <2> SUFFICES ASSUME NEW p \in Live, NEW j \in 0 .. Size + 1
               PROVE  mem'[(p + j) % RingWords] =
                        IF p = mine[c] /\ j = 0 THEN Size ELSE Load(p, j)
    BY DEF Load
  <2>1. DOMAIN words \subseteq 0 .. Size + 1 BY <1>1, <1>7
  <2>2. mem'[(p + j) % RingWords] =
          IF p = mine[c] /\ j \in DOMAIN words THEN words[j] ELSE Load(p, j)
    BY <1>2, <1>3, <1>5, <1>6, <2>1, StoredInRecord
  <2> QED BY <1>7, <2>2
<1>9. \A p \in Live : \A j \in 1 .. Size + 1 : Load(p, j)' = Load(p, j) BY <1>1, <1>8
<1>10. RecordsOK'
  <2>1. DOMAIN mem' = 0 .. RingWords - 1 BY <1>2, <1>3 DEF Stored, RecordsOK
  <2> QED BY <1>1, <1>2, <1>3, <2>1 DEF RecordsOK
<1>11. /\ mine'[c] = None /\ pc'[c] = "idle" /\ None \in Int /\ None \notin Nat
       /\ \A d \in Cpus : d # c => mine'[d] = mine[d] /\ pc'[d] = pc[d]
  BY <1>2, <1>3 DEF CpusOK, None
<1>12. \A d \in Cpus : mine[d] = mine[c] => d = c BY <1>2, <1>3 DEF CpusOK
<1>13. CpusOK'
  <2>1. mine' \in [Cpus -> Int] /\ pc' \in [Cpus -> {"idle", "fill", "submit"}]
    BY <1>2, <1>3, <1>11 DEF CpusOK
  <2> QED BY <1>3, <1>4, <1>11, <2>1 DEF CpusOK, None
<1>14. HeadersOK'
  <2> SUFFICES ASSUME NEW p \in Live
               PROVE  Load(p, 0)' = IF Busy(p)' THEN BusyBit + Size ELSE Size
    BY <1>1, <1>4 DEF HeadersOK
  <2>1. 0 \in 0 .. Size + 1 /\ p \in Nat BY <1>1, <1>3 DEF Live, RecordsOK
  <2>2. CASE p = mine[c]
    <3>1. ~Busy(p)' BY <1>11, <1>12, <2>1, <2>2 DEF Busy
    <3> QED BY <1>8, <2>1, <2>2, <3>1
  <2>3. CASE p # mine[c]
    <3>1. Busy(p)' <=> Busy(p) BY <1>11, <2>1, <2>3 DEF Busy
    <3>2. Load(p, 0)' = Load(p, 0) BY <1>8, <2>1, <2>3
    <3> QED BY <1>3, <3>1, <3>2 DEF HeadersOK
  <2> QED BY <2>2, <2>3
<1>15. \A p \in Nat : Open(p)' <=> Open(p) BY <1>2, <1>11 DEF Open
<1> QED BY <1>4, <1>5, <1>9, <1>10, <1>13, <1>14, <1>15 DEF RingOK

\* ring_buffer__poll goes on to the next record, past one that is written.
LEMMA ConsumeRing ==
  ASSUME RingOK, NEW text, Consume(text), program' = program
  PROVE  /\ RingOK' /\ cons \in Live /\ Live' \subseteq Live
         /\ ~Busy(cons)
         /\ \A p : Open(p)' <=> Open(p)
<1>1. Size' = Size /\ Size \in Nat /\ BusyBit \in Nat /\ BusyBit > Size
  BY SizeType, RingAssumption DEF Size
<1>2. /\ cons < prod /\ Load(cons, 0) < BusyBit /\ cons' = cons + 2 + Load(cons, 0)
      /\ mem' = mem /\ prod' = prod /\ mine' = mine /\ pc' = pc /\ inputs' = inputs
  BY DEF Consume
<1>3. RecordsOK /\ CpusOK /\ HeadersOK BY DEF RingOK
<1>4. cons \in Nat /\ prod \in Nat /\ DOMAIN inputs \subseteq Nat BY <1>3 DEF RecordsOK
<1>5. cons \in Live BY <1>2, <1>3, <1>4 DEF RecordsOK, Live
<1>6. ~Busy(cons) /\ Load(cons, 0) = Size BY <1>1, <1>2, <1>3, <1>5 DEF HeadersOK
<1>7. cons' = cons + 2 + Size BY <1>2, <1>6
<1>8. Live' \subseteq Live BY <1>1, <1>2, <1>4, <1>7 DEF Live
<1>9. ASSUME NEW p \in Live, p # cons PROVE p \in Live'
  <2>1. p \in DOMAIN inputs /\ cons \in DOMAIN inputs /\ p \in Nat /\ cons < p
    BY <1>4, <1>5, <1>9 DEF Live
  <2>2. cons + 2 + Size <= p BY <1>3, <2>1 DEF RecordsOK
  <2> QED BY <1>2, <1>7, <2>1, <2>2 DEF Live
<1>10. RecordsOK'
  <2>1. cons' \in Nat /\ cons' <= prod' /\ prod' - cons' < RingWords
    BY <1>1, <1>2, <1>3, <1>4, <1>5, <1>7, RingAssumption DEF Live, RecordsOK
  <2>2. cons' = prod' \/ cons' \in DOMAIN inputs'
    BY <1>2, <1>3, <1>5, <1>7 DEF Live, RecordsOK
  <2> QED BY <1>1, <1>2, <1>3, <2>1, <2>2 DEF RecordsOK
<1>11. CpusOK'
  <2>1. \A c \in Cpus : pc[c] # "idle" => mine[c] \in Live'
    BY <1>3, <1>6, <1>9 DEF CpusOK, Busy
  <2> QED BY <1>2, <1>3, <2>1 DEF CpusOK, None
<1>12. HeadersOK'
  <2> SUFFICES ASSUME NEW p \in Live'
               PROVE  Load(p, 0)' = IF Busy(p)' THEN BusyBit + Size ELSE Size
    BY <1>1 DEF HeadersOK
  <2>1. Load(p, 0)' = Load(p, 0) /\ (Busy(p)' <=> Busy(p)) BY <1>2 DEF Load, Busy
  <2> QED BY <1>3, <1>8, <2>1 DEF HeadersOK
<1>13. ASSUME NEW p PROVE Open(p)' <=> Open(p) BY <1>2 DEF Open
<1> QED BY <1>5, <1>6, <1>8, <1>10, <1>11, <1>12, <1>13 DEF RingOK

\* What was printed stays true of its record: reserving another is all that
\* changes the history of inputs.
LEMMA LineKept ==
  ASSUME RecordsOK, LineOK, line' = line,
         DOMAIN inputs' = DOMAIN inputs \/ DOMAIN inputs' = DOMAIN inputs \cup {prod},
         \A p \in DOMAIN inputs : inputs'[p] = inputs[p]
  PROVE  LineOK'
<1>1. line.of = "none" => LineOK'
  BY DEF LineOK, PrintedAsReceived, HostPacketsPrinted, TracesAreOwn
<1>2. CASE line.of # "none"
  <2>1. line.pos \in DOMAIN inputs /\ line.pos \in DOMAIN inputs' /\ line.pos \in Nat
    BY <1>2 DEF LineOK, RecordsOK
  <2>2. inputs'[line.pos] = inputs[line.pos] BY <2>1
  <2>3. SamePlace(line.pos)' = SamePlace(line.pos)
    <3>1. line.pos < prod /\ prod \in Nat
      BY <2>1, SizeType DEF RecordsOK
    <3>2. \A p \in DOMAIN inputs' : p <= line.pos <=> p \in DOMAIN inputs /\ p <= line.pos
      BY <2>1, <3>1 DEF RecordsOK
    <3>3. DOMAIN inputs \subseteq DOMAIN inputs' OBVIOUS
    <3> QED BY <3>2, <3>3 DEF SamePlace, IPPROTO_GRE
  <2>4. SamePlace(line.pos) \subseteq DOMAIN inputs BY DEF SamePlace
  <2>5. PrintedAsReceived' BY <2>2, <2>3, <2>4 DEF LineOK, PrintedAsReceived
  <2>6. HostPacketsPrinted' BY <2>2 DEF LineOK, HostPacketsPrinted, PACKET_HOST
  <2>7. TracesAreOwn' BY <2>2 DEF LineOK, TracesAreOwn
  <2> QED BY <2>1, <2>5, <2>6, <2>7 DEF LineOK
<1> QED BY <1>1, <1>2
-----------------------------------------------------------------------------
\* Only the empty stack has no frames.
LEMMA EmptyStack ==
  ASSUME NEW stack, stack = [k \in 1 .. Len(stack) |-> stack[k]],
         Len(stack) \in Nat, stack # <<>>
  PROVE  Len(stack) > 0
<1> SUFFICES ASSUME Len(stack) = 0 PROVE stack = <<>> OBVIOUS
<1>1. stack = [k \in 1 .. 0 |-> stack[k]] OBVIOUS
<1>2. [k \in 1 .. 0 |-> stack[k]] = <<>> OBVIOUS
<1> QED BY <1>1, <1>2

\* show_stack_trace shows the frames that bpf_get_stack wrote.
LEMMA ShownStack ==
  ASSUME NEW stack, stack = [k \in 1 .. Len(stack) |-> stack[k]],
         Len(stack) \in Nat, NEW at \in Nat, NEW ok \in BOOLEAN,
         \A n \in 1 .. Len(stack) : Load(cons, at + n - 1) = stack[n]
  PROVE  show_stack_trace(at, StackSize(stack), ok) = IF ok THEN stack ELSE <<>>
<1>1. CASE stack = <<>> \/ ~ok
  BY <1>1 DEF show_stack_trace, StackSize, EFAULT, FrameSize
<1>2. CASE stack # <<>> /\ ok
  <2> DEFINE n == Len(stack)
  <2>1. n \in Nat /\ n > 0 BY <1>2, EmptyStack
  <2>2. StackSize(stack) = 8 * n BY <1>2 DEF StackSize, FrameSize
  <2> HIDE DEF n
  <2>3. StackSize(stack) > 0 /\ StackDepth(StackSize(stack)) = n
    BY <2>1, <2>2 DEF StackDepth, FrameSize
  <2>4. show_stack_trace(at, StackSize(stack), ok) =
          [k \in 1 .. n |-> Load(cons, at + k - 1)]
    BY <1>2, <2>3 DEF show_stack_trace
  <2>5. [k \in 1 .. n |-> Load(cons, at + k - 1)] = [k \in 1 .. n |-> stack[k]]
    BY DEF n
  <2> QED BY <1>2, <2>4, <2>5, Zenon DEF n
<1> QED BY <1>1, <1>2

\* A record whose words stay is still that of its sample.
LEMMA SampleKept ==
  ASSUME program = "profile", NEW p, SampleAt(p),
         inputs[p] \in Samples, inputs'[p] = inputs[p],
         \A j \in 1 .. Size + 1 : Load(p, j)' = Load(p, j)
  PROVE  SampleAt(p)'
<1> DEFINE s == inputs[p]
           e == stacktrace_event
<1>1. MAX_STACK_DEPTH \in Nat /\ Size = 5 + 2 * MAX_STACK_DEPTH
  BY SamplesAssumption DEF Size, stacktrace_event
<1>2. Len(s.kstack) \in 0 .. MAX_STACK_DEPTH /\ Len(s.ustack) \in 0 .. MAX_STACK_DEPTH
  BY SamplesAssumption, Zenon
<1>3. /\ e.pid \in 1 .. Size + 1 /\ e.cpu_id \in 1 .. Size + 1 /\ e.comm \in 1 .. Size + 1
      /\ e.kstack_sz \in 1 .. Size + 1 /\ e.ustack_sz \in 1 .. Size + 1
  BY <1>1, SMTT(30) DEF stacktrace_event
<1>4. ASSUME NEW n \in 1 .. Len(s.kstack) PROVE e.kstack + n - 1 \in 1 .. Size + 1
  BY <1>1, <1>2 DEF stacktrace_event
<1>5. ASSUME NEW n \in 1 .. Len(s.ustack) PROVE e.ustack + n - 1 \in 1 .. Size + 1
  BY <1>1, <1>2 DEF stacktrace_event
<1> HIDE DEF e
<1> QED BY <1>3, <1>4, <1>5 DEF SampleAt, e

\* bpf_get_stack stays within the array, and where it writes frame n.
LEMMA StackWordsIn ==
  ASSUME NEW stack, Len(stack) \in 0 .. MAX_STACK_DEPTH, MAX_STACK_DEPTH \in Nat,
         NEW at \in Nat
  PROVE  /\ StackWords(stack, at) \subseteq at .. at + MAX_STACK_DEPTH - 1
         /\ \A n \in 1 .. Len(stack) :
              stack # <<>> => /\ at + n - 1 \in StackWords(stack, at)
                              /\ StackWord(stack, at, at + n - 1) = stack[n]
<1> DEFINE L == IF stack = <<>> THEN MAX_STACK_DEPTH ELSE Len(stack)
<1>1. L \in 0 .. MAX_STACK_DEPTH /\ StackWords(stack, at) = at .. at + L - 1
  BY DEF StackWords
<1>2. ASSUME NEW n \in 1 .. Len(stack), stack # <<>>
      PROVE  /\ at + n - 1 \in StackWords(stack, at)
             /\ StackWord(stack, at, at + n - 1) = stack[n]
  <2>1. L = Len(stack) BY <1>2
  <2> HIDE DEF L
  <2>2. at + n - 1 \in at .. at + L - 1 /\ (at + n - 1) - at + 1 = n
    BY <1>1, <1>2, <2>1
  <2>3. StackWord(stack, at, at + n - 1) = stack[(at + n - 1) - at + 1]
    BY <1>2 DEF StackWord
  <2> QED BY <1>1, <2>2, <2>3
<1> HIDE DEF L
<1> QED BY <1>1, <1>2

\* The whole of a sample is in its record once the probe has written it.
LEMMA SampleWritten ==
  ASSUME RingOK, ProfOK, program = "profile", program' = program,
         NEW c \in Cpus, FillSample(c)
  PROVE  RingOK' /\ ProfOK'
<1> DEFINE p == mine[c]
           s == inputs[p]
           e == stacktrace_event
           words == [k \in e.pid .. e.ustack_sz \cup StackWords(s.kstack, e.kstack)
                                                \cup StackWords(s.ustack, e.ustack) |->
                       CASE k = e.pid       -> s.pid
                         [] k = e.cpu_id    -> c
                         [] k = e.comm      -> s.comm
                         [] k = e.kstack_sz -> StackSize(s.kstack)
                         [] k = e.ustack_sz -> StackSize(s.ustack)
                         [] k \in e.kstack .. e.ustack - 1 ->
                              StackWord(s.kstack, e.kstack, k)
                         [] k >= e.ustack   -> StackWord(s.ustack, e.ustack, k)]
           N == MAX_STACK_DEPTH
<1>1. Fill(c, words) BY Zenon DEF FillSample
<1>2. N \in Nat /\ Size = 5 + 2 * N BY SamplesAssumption DEF Size, stacktrace_event
<1>3. s \in Samples /\ s.cpu = c
  BY <1>1 DEF RingOK, CpusOK, Live, Fill, ProfOK
<1>4. /\ s.kstack = [k \in 1 .. Len(s.kstack) |-> s.kstack[k]]
      /\ s.ustack = [k \in 1 .. Len(s.ustack) |-> s.ustack[k]]
      /\ Len(s.kstack) \in 0 .. N /\ Len(s.ustack) \in 0 .. N
  BY <1>3, SamplesAssumption
<1> DEFINE K == StackWords(s.kstack, 7)
           U == StackWords(s.ustack, 7 + N)
<1>5. K \subseteq 7 .. 6 + N /\ U \subseteq 7 + N .. 6 + 2 * N
  <2>1. K \subseteq 7 .. 7 + N - 1 BY <1>2, <1>4, StackWordsIn
  <2>2. 7 + N \in Nat BY <1>2
  <2>3. U \subseteq 7 + N .. 7 + N + N - 1 BY <1>2, <1>4, <2>2, StackWordsIn
  <2> HIDE DEF K, U
  <2> QED BY <1>2, <2>1, <2>3
<1>6. DOMAIN words = 2 .. 6 \cup K \cup U BY DEF stacktrace_event
<1>7. DOMAIN words \subseteq 2 .. Size + 1
  <2> HIDE DEF words, K, U
  <2> QED BY <1>2, <1>5, <1>6
<1>8. /\ words[2] = s.pid /\ words[3] = c /\ words[4] = s.comm
      /\ words[5] = StackSize(s.kstack) /\ words[6] = StackSize(s.ustack)
  BY <1>2 DEF stacktrace_event
<1>9. ASSUME NEW n \in 1 .. Len(s.kstack)
      PROVE  7 + n - 1 \in K /\ words[7 + n - 1] = s.kstack[n]
  <2>1. s.kstack # <<>> BY <1>4, <1>9
  <2>2. \A at \in Nat : /\ at + n - 1 \in StackWords(s.kstack, at)
                        /\ StackWord(s.kstack, at, at + n - 1) = s.kstack[n]
    BY <1>2, <1>4, <1>9, <2>1, StackWordsIn, Zenon
  <2>3. 7 \in Nat OBVIOUS
  <2>4. 7 + n - 1 \in K /\ StackWord(s.kstack, 7, 7 + n - 1) = s.kstack[n]
    BY <2>2, <2>3, Zenon
  <2>5. ASSUME NEW k \in K PROVE words[k] = StackWord(s.kstack, 7, k)
    <3>1. k \in 7 .. 6 + N BY <1>5
    <3> HIDE DEF K
    <3> QED BY <1>2, <1>6, <3>1 DEF stacktrace_event
  <2> HIDE DEF words, K
  <2> QED BY <2>4, <2>5
<1>10. ASSUME NEW n \in 1 .. Len(s.ustack)
       PROVE  7 + N + n - 1 \in U /\ words[7 + N + n - 1] = s.ustack[n]
  <2>1. s.ustack # <<>> /\ 7 + N \in Nat BY <1>2, <1>4, <1>10
  <2>2. /\ 7 + N + n - 1 \in U
        /\ StackWord(s.ustack, 7 + N, 7 + N + n - 1) = s.ustack[n]
    BY <1>2, <1>4, <1>10, <2>1, StackWordsIn, Zenon
  <2>3. words[7 + N + n - 1] = StackWord(s.ustack, 7 + N, 7 + N + n - 1)
    BY <1>2, <1>4, <1>10, <2>2 DEF stacktrace_event
  <2> HIDE DEF words, U
  <2> QED BY <2>2, <2>3
<1> HIDE DEF words, K, U
<1>11. /\ RingOK' /\ Live' = Live /\ p \in Live /\ Open(p)
       /\ \A q \in Live : \A j \in 0 .. Size + 1 :
            Load(q, j)' = IF q = p /\ j \in DOMAIN words THEN words[j] ELSE Load(q, j)
       /\ \A q : Open(q)' <=> Open(q) /\ q # p
  BY <1>1, <1>7, FillRing
<1>12. inputs' = inputs /\ mine' = mine /\ \A d \in Cpus : pc'[d] = "idle" <=> pc[d] = "idle"
  BY <1>1 DEF Fill, RingOK, CpusOK
<1>13. ASSUME NEW q \in Live, q # p, ~Open(q)' PROVE SampleAt(q)'
  <2>1. SampleAt(q) /\ inputs[q] \in Samples BY <1>11, <1>13 DEF ProfOK, Live
  <2>2. \A j \in 1 .. Size + 1 : Load(q, j)' = Load(q, j)
    <3>1. 1 .. Size + 1 \subseteq 0 .. Size + 1 BY <1>2
    <3> QED BY <1>11, <1>13, <3>1
  <2> QED BY <1>12, <2>1, <2>2, SampleKept
<1>14. ASSUME NEW q \in Live, q = p PROVE SampleAt(q)'
  <2>1. ASSUME NEW j \in DOMAIN words PROVE Load(q, j)' = words[j]
    <3>1. j \in 0 .. Size + 1 BY <1>2, <1>7
    <3> QED BY <1>11, <1>14, <3>1
  <2>2. /\ Load(q, 2)' = s.pid /\ Load(q, 3)' = s.cpu /\ Load(q, 4)' = s.comm
        /\ Load(q, 5)' = StackSize(s.kstack) /\ Load(q, 6)' = StackSize(s.ustack)
    <3>1. 2 .. 6 \subseteq DOMAIN words BY <1>6
    <3> QED BY <1>3, <1>8, <2>1, <3>1
  <2>3. ASSUME NEW n \in 1 .. Len(s.kstack) PROVE Load(q, 7 + n - 1)' = s.kstack[n]
    BY <1>6, <1>9, <2>1
  <2>4. ASSUME NEW n \in 1 .. Len(s.ustack) PROVE Load(q, 7 + N + n - 1)' = s.ustack[n]
    BY <1>6, <1>10, <2>1
  <2>5. inputs'[q] = s BY <1>12, <1>14
  <2> HIDE DEF s
  <2> QED BY <2>2, <2>3, <2>4, <2>5 DEF SampleAt, stacktrace_event
<1>15. ProfOK' BY <1>11, <1>12, <1>13, <1>14 DEF ProfOK
<1> QED BY <1>11, <1>15

\* profile.bpf.c and its callback keep the invariant.
LEMMA ProfStep ==
  ASSUME RingOK, LineOK, ProfOK, program = "profile", program' = program, ProfNext
  PROVE  RingOK' /\ LineOK' /\ ProfOK'
<1> USE DEF RingOK
<1>1. Size \in Nat BY SizeType
<1>2. ASSUME NEW c \in Cpus, NEW s \in Samples, profile(c, s)
      PROVE  RingOK' /\ LineOK' /\ ProfOK'
  <2>1. Reserve(c, Size, s) /\ s.cpu = c BY <1>2 DEF profile, Size
  <2>2. /\ RingOK' /\ prod \notin DOMAIN inputs /\ Live' = Live \cup {prod}
        /\ \A p \in Live : \A j \in 0 .. Size + 1 : Load(p, j)' = Load(p, j)
        /\ \A p \in Nat : Open(p)' <=> Open(p) \/ p = prod
    BY <2>1, ReserveRing DEF RingOK
  <2>3. /\ DOMAIN inputs' = DOMAIN inputs \cup {prod} /\ inputs'[prod] = s
        /\ \A p \in DOMAIN inputs : inputs'[p] = inputs[p]
        /\ mine' = [mine EXCEPT ![c] = prod] /\ pc' = [pc EXCEPT ![c] = "fill"]
        /\ line' = line
    BY <2>1, <2>2 DEF Reserve
  <2>4. LineOK' BY <2>3, LineKept
  <2>5. \A d \in Cpus : pc'[d] # "idle" => inputs'[mine'[d]].cpu = d
    <3> SUFFICES ASSUME NEW d \in Cpus, pc'[d] # "idle" PROVE inputs'[mine'[d]].cpu = d
      OBVIOUS
    <3>1. CASE d = c BY <2>1, <2>3, <3>1 DEF CpusOK
    <3>2. CASE d # c
      <4>1. mine'[d] = mine[d] /\ pc'[d] = pc[d] BY <2>3, <3>2 DEF CpusOK
      <4>2. mine[d] \in DOMAIN inputs BY <4>1 DEF CpusOK, Live
      <4> QED BY <2>3, <4>1, <4>2 DEF ProfOK
    <3> QED BY <3>1, <3>2
  <2>6. ASSUME NEW p \in Live', ~Open(p)' PROVE SampleAt(p)'
    <3>1. p \in Nat BY <2>2 DEF Live, RecordsOK
    <3>2. p \in Live /\ ~Open(p) BY <2>2, <2>6, <3>1
    <3>3. SampleAt(p) /\ inputs[p] \in Samples /\ inputs'[p] = inputs[p]
      BY <2>3, <3>2 DEF ProfOK, Live
    <3>4. \A j \in 1 .. Size + 1 : Load(p, j)' = Load(p, j) BY <1>1, <2>2, <3>2
    <3> QED BY <3>3, <3>4, SampleKept
  <2> QED BY <2>2, <2>3, <2>4, <2>5, <2>6 DEF ProfOK
<1>3. ASSUME NEW c \in Cpus, FillSample(c) PROVE RingOK' /\ LineOK' /\ ProfOK'
  <2>1. line' = line /\ inputs' = inputs BY <1>3 DEF FillSample, Fill
  <2>2. LineOK' BY <2>1, LineKept
  <2> QED BY <1>3, <2>2, SampleWritten DEF RingOK
<1>4. ASSUME NEW c \in Cpus, Submit(c) PROVE RingOK' /\ LineOK' /\ ProfOK'
  <2>1. /\ line' = line /\ inputs' = inputs /\ mine' = [mine EXCEPT ![c] = None]
        /\ pc' = [pc EXCEPT ![c] = "idle"]
    BY <1>4 DEF Submit
  <2>2. LineOK' BY <2>1, LineKept
  <2>3. /\ RingOK' /\ Live' = Live
        /\ \A p \in Live : \A j \in 1 .. Size + 1 : Load(p, j)' = Load(p, j)
        /\ \A p \in Nat : Open(p)' <=> Open(p)
    BY <1>4, SubmitRing DEF RingOK
  <2>4. \A d \in Cpus : pc'[d] # "idle" => pc[d] # "idle" /\ mine'[d] = mine[d]
    BY <2>1 DEF CpusOK
  <2>5. ASSUME NEW p \in Live', ~Open(p)' PROVE SampleAt(p)'
    <3>1. p \in Live /\ p \in Nat BY <2>3 DEF Live, RecordsOK
    <3>2. SampleAt(p) /\ inputs[p] \in Samples
      BY <2>3, <2>5, <3>1 DEF ProfOK, Live
    <3> QED BY <2>1, <2>3, <3>1, <3>2, SampleKept
  <2> QED BY <2>1, <2>2, <2>3, <2>4, <2>5 DEF ProfOK
<1>5. ASSUME event_handler PROVE RingOK' /\ LineOK' /\ ProfOK'
  <2> DEFINE e == stacktrace_event
             s == inputs[cons]
             ksz == Load(cons, e.kstack_sz)
             usz == Load(cons, e.ustack_sz)
             text(ksyms, usyms) ==
               IF ksz <= 0 /\ usz <= 0 THEN [of |-> "none"]
               ELSE [of |-> "trace", pos |-> cons,
                     pid |-> Load(cons, e.pid), cpu |-> Load(cons, e.cpu_id),
                     comm |-> Load(cons, e.comm),
                     kstack |-> show_stack_trace(e.kstack, ksz, ksyms),
                     ustack |-> show_stack_trace(e.ustack, usz, usyms),
                     ksyms |-> ksyms, usyms |-> usyms]
  <2>1. PICK ksyms \in BOOLEAN, usyms \in BOOLEAN : Consume(text(ksyms, usyms))
    BY <1>5 DEF event_handler
  <2> HIDE DEF text
  <2>2. /\ RingOK' /\ cons \in Live /\ Live' \subseteq Live /\ ~Busy(cons)
        /\ \A p : Open(p)' <=> Open(p)
    BY <2>1, ConsumeRing DEF RingOK
  <2>3. /\ mem' = mem /\ inputs' = inputs /\ mine' = mine /\ pc' = pc
        /\ line' = text(ksyms, usyms)
    BY <2>1 DEF Consume
  <2>4. SampleAt(cons) /\ s \in Samples /\ cons \in DOMAIN inputs
    BY <2>2 DEF ProfOK, Live, Open, Busy
  <2>5. /\ show_stack_trace(e.kstack, ksz, ksyms) = IF ksyms THEN s.kstack ELSE <<>>
        /\ show_stack_trace(e.ustack, usz, usyms) = IF usyms THEN s.ustack ELSE <<>>
    <3>1. /\ e.kstack \in Nat /\ e.ustack \in Nat
      BY SamplesAssumption DEF stacktrace_event
    <3>2. /\ ksz = StackSize(s.kstack) /\ usz = StackSize(s.ustack)
          /\ \A n \in 1 .. Len(s.kstack) : Load(cons, e.kstack + n - 1) = s.kstack[n]
          /\ \A n \in 1 .. Len(s.ustack) : Load(cons, e.ustack + n - 1) = s.ustack[n]
      BY <2>4 DEF SampleAt
    <3>3. /\ s.kstack = [k \in 1 .. Len(s.kstack) |-> s.kstack[k]]
          /\ s.ustack = [k \in 1 .. Len(s.ustack) |-> s.ustack[k]]
          /\ Len(s.kstack) \in Nat /\ Len(s.ustack) \in Nat
      BY <2>4, SamplesAssumption
    <3> HIDE DEF s, e, ksz, usz
    <3> QED BY <2>1, <3>1, <3>2, <3>3, ShownStack, ZenonT(30)
  <2>6. LineOK'
    <3>1. CASE line' = [of |-> "none"]
      BY <3>1 DEF LineOK, PrintedAsReceived, HostPacketsPrinted, TracesAreOwn
    <3>2. CASE line' # [of |-> "none"]
      <4>1. /\ line'.of = "trace" /\ line'.pos = cons
            /\ line'.pid = s.pid /\ line'.cpu = s.cpu /\ line'.comm = s.comm
            /\ line'.kstack = IF line'.ksyms THEN s.kstack ELSE <<>>
            /\ line'.ustack = IF line'.usyms THEN s.ustack ELSE <<>>
        BY <2>3, <2>4, <2>5, <3>2 DEF text, SampleAt
      <4>2. inputs'[line'.pos] = s BY <2>3, <4>1
      <4> HIDE DEF s
      <4>3. TracesAreOwn' BY <4>1, <4>2 DEF TracesAreOwn
      <4> QED BY <2>3, <2>4, <4>1, <4>3
              DEF LineOK, PrintedAsReceived, HostPacketsPrinted
    <3> QED BY <3>1, <3>2
  <2>7. ProfOK'
    <3>1. \A p : SampleAt(p)' <=> SampleAt(p) BY <2>3 DEF SampleAt, Load
    <3> QED BY <2>2, <2>3, <3>1 DEF ProfOK
  <2> QED BY <2>2, <2>6, <2>7
<1> QED BY <1>2, <1>3, <1>4, <1>5 DEF ProfNext
-----------------------------------------------------------------------------
\* Word k of the record at position pos in memory m
WordOf(m, pos, k) == m[(pos + k) % RingWords]

\* Writing into an aligned record changes the aligned places that are its own.
LEMMA StoredAtPlace ==
  ASSUME DOMAIN mem = 0 .. RingWords - 1, NEW words, DOMAIN words \subseteq 0 .. 7,
         NEW pos \in Nat, Aligned(pos), NEW x \in Nat, Aligned(x), NEW j \in 0 .. 7
  PROVE  WordOf(Stored(pos, words), x, j) =
           IF (x - pos) % RingWords = 0 /\ j \in DOMAIN words
           THEN words[j] ELSE Load(x, j)
<1> USE DEF WordOf
<1> DEFINE d == (x - pos) % RingWords
<1>1. d \in Nat /\ Aligned(d) /\ ((x + j) - pos) % RingWords = d + j
  <2>1. RingWords \in Nat \ {0} /\ RingWords % 8 = 0 BY RingAssumption, SizesAssumption
  <2>2. x - pos \in Int /\ (x - pos) % 8 = 0 BY DEF Aligned
  <2>3. d % 8 = 0 /\ ((x - pos) + j) % RingWords = d + j BY <2>1, <2>2, ModAligned, Zenon
  <2>4. d \in Nat BY <2>1, <2>2, DivMod
  <2>5. (x + j) - pos = (x - pos) + j OBVIOUS
  <2> QED BY <2>3, <2>4, <2>5 DEF Aligned
<1>2. \A k : ((x + j) - pos) % RingWords = k =>
        /\ k \in DOMAIN words => Stored(pos, words)[(x + j) % RingWords] = words[k]
        /\ k \notin DOMAIN words =>
             Stored(pos, words)[(x + j) % RingWords] = mem[(x + j) % RingWords]
  <2>1. x + j \in Int /\ pos \in Int OBVIOUS
  <2> QED BY <2>1, StoredAt
<1> HIDE DEF d
<1>3. CASE d = 0
  <2>1. d + j = j BY <1>3
  <2> QED BY <1>1, <1>2, <1>3, <2>1 DEF Load, d
<1>4. CASE d # 0
  <2>1. d + j \notin DOMAIN words BY <1>1, <1>4 DEF Aligned
  <2> QED BY <1>1, <1>2, <1>4, <2>1 DEF Load, d
<1> QED BY <1>3, <1>4

\* A place whose words and whose packets stay is as it was.
LEMMA PlaceKept ==
  ASSUME NEW x, PlaceOK(x), Seen(x)' = Seen(x),
         Load(x, 2)' = Load(x, 2), Load(x, 3)' = Load(x, 3), Load(x, 5)' = Load(x, 5),
         \A q \in Seen(x) : inputs'[q] = inputs[q]
  PROVE  PlaceOK(x)'
BY DEF PlaceOK, so_event

\* A record whose words stay is still that of its packet.
LEMMA PacketKept ==
  ASSUME NEW p, PacketAt(p), inputs'[p] = inputs[p],
         \A j \in 4 .. 7 : Load(p, j)' = Load(p, j)
  PROVE  PacketAt(p)'
BY SMTT(30) DEF PacketAt, so_event

\* Of the records at a place the one in the ring is the last.
LEMMA LastAtPlace ==
  ASSUME RecordsOK, NEW p \in Live, NEW x \in Nat, NEW q \in DOMAIN inputs,
         (x - p) % RingWords = 0, (x - q) % RingWords = 0
  PROVE  (p - q) % RingWords = 0 /\ q <= p
<1>1. RingWords \in Nat \ {0} /\ Size \in Nat BY RingAssumption, SizeType
<1>2. p \in Nat /\ q \in Nat /\ cons <= p /\ q + 2 + Size <= prod BY DEF Live, RecordsOK
<1>3. x - p \in Int /\ x - q \in Int BY <1>2
<1>4. ((x - p) - (x - q)) % RingWords = 0 /\ ((x - q) - (x - p)) % RingWords = 0
  BY <1>1, <1>3, ModDifference
<1>5. (x - p) - (x - q) = q - p /\ (x - q) - (x - p) = p - q BY <1>2
<1>6. q - p \in Int /\ q - p < RingWords BY <1>1, <1>2 DEF RecordsOK
<1>7. q - p <= 0 BY <1>1, <1>4, <1>5, <1>6, ModZero
<1> QED BY <1>2, <1>4, <1>5, <1>7

\* The byte that the probe writes is the whole of ip_proto.
LEMMA ProtocolWritten ==
  ASSUME NEW word \in 0 .. 255, NEW proto \in 0 .. 255
  PROVE  256 * (word \div 256) + proto = proto
<1>1. word \div 256 = 0 OBVIOUS
<1> QED BY <1>1

\* The packet is in its record once the probe has written it, and each place
\* holds the addresses of the last packet that has any.
LEMMA PacketWritten ==
  ASSUME RingOK, SockOK, program = "sockfilter", program' = program,
         NEW c \in Cpus, FillPacket(c)
  PROVE  RingOK' /\ SockOK'
<1> DEFINE p == mine[c]
           skb == inputs[p]
           ip_proto == 256 * (Load(p, so_event.ip_proto) \div 256) + skb.proto
           words == [k \in AddressWords(ip_proto) \cup so_event.ports .. so_event.ifindex |->
                       CASE k = so_event.src_addr -> skb.src
                         [] k = so_event.dst_addr -> skb.dst
                         [] k = so_event.ports    -> skb.ports
                         [] k = so_event.ip_proto -> ip_proto
                         [] k = so_event.pkt_type -> skb.pkt_type
                         [] k = so_event.ifindex  -> skb.ifindex]
<1>1. Fill(c, words) BY Zenon DEF FillPacket
<1>2. Size = 6 /\ RecordsOK BY DEF Size, so_event, RingOK
<1>3. /\ p \in Live /\ p \in DOMAIN inputs /\ p \in Nat
      /\ Aligned(p) /\ skb \in Packets /\ PlaceOK(p)
  BY <1>1 DEF RingOK, RecordsOK, CpusOK, Live, Fill, SockOK
<1>4. skb.proto \in 0 .. 255 BY <1>3, PacketsAssumption
<1>5. ip_proto = skb.proto
  <2> DEFINE old == Load(p, so_event.ip_proto)
             new == skb.proto
  <2>1. old \in 0 .. 255 /\ new \in 0 .. 255 BY <1>3, <1>4, Zenon DEF PlaceOK
  <2>2. ip_proto = 256 * (old \div 256) + new OBVIOUS
  <2> HIDE DEF old, new, ip_proto
  <2>3. ip_proto = new BY <2>1, <2>2, ProtocolWritten
  <2> QED BY <2>3 DEF new
<1>6. /\ DOMAIN words = AddressWords(skb.proto) \cup 4 .. 7
      /\ words[4] = skb.ports /\ words[5] = skb.proto
      /\ words[6] = skb.pkt_type /\ words[7] = skb.ifindex
      /\ skb.proto # IPPROTO_GRE => words[2] = skb.src /\ words[3] = skb.dst
  <2> HIDE DEF ip_proto, skb
  <2> QED BY <1>5 DEF so_event, AddressWords
<1>7. AddressWords(skb.proto) = IF skb.proto = IPPROTO_GRE THEN {} ELSE {2, 3}
  BY DEF AddressWords, so_event
<1> HIDE DEF words
<1>8. DOMAIN words \subseteq 2 .. Size + 1 /\ DOMAIN words \subseteq 0 .. 7
  <2>1. AddressWords(skb.proto) \subseteq {2, 3} BY <1>7
  <2> HIDE DEF skb
  <2> QED BY <1>2, <1>6, <2>1
<1>9. /\ RingOK' /\ Live' = Live /\ Open(p)
      /\ \A q \in Live : \A j \in 0 .. Size + 1 :
           Load(q, j)' = IF q = p /\ j \in DOMAIN words THEN words[j] ELSE Load(q, j)
      /\ \A q : Open(q)' <=> Open(q) /\ q # p
  BY <1>1, <1>8, FillRing
<1>10. prod' = prod /\ inputs' = inputs /\ mem' = Stored(p, words) BY <1>1 DEF Fill
<1>a. skb = inputs[p] OBVIOUS
<1> HIDE DEF p, skb, ip_proto
<1>11. ASSUME NEW x \in Nat, Aligned(x), NEW j \in 0 .. 7
       PROVE  Load(x, j)' = IF (x - p) % RingWords = 0 /\ j \in DOMAIN words
                            THEN words[j] ELSE Load(x, j)
  <2>1. Load(x, j)' = WordOf(mem', x, j) BY DEF Load, WordOf
  <2>2. DOMAIN mem = 0 .. RingWords - 1 BY <1>2 DEF RecordsOK
  <2>3. p \in Nat /\ Aligned(p) BY <1>3
  <2>4. WordOf(Stored(p, words), x, j) =
          IF (x - p) % RingWords = 0 /\ j \in DOMAIN words THEN words[j] ELSE Load(x, j)
    BY <1>8, <1>11, <2>2, <2>3, StoredAtPlace
  <2> QED BY <1>10, <2>1, <2>4
<1>12. ASSUME NEW q \in Live, ~Open(q)' PROVE PacketAt(q)'
  <2>1. 4 .. 7 \subseteq 0 .. Size + 1 /\ 4 .. 7 \subseteq DOMAIN words BY <1>2, <1>6
  <2>2. CASE q = p
    <3>1. \A j \in 4 .. 7 : Load(q, j)' = words[j] BY <1>9, <2>1, <2>2
    <3>2. inputs'[q] = skb BY <1>10, <1>a, <2>2
    <3> QED BY <1>6, <3>1, <3>2, SMTT(30) DEF PacketAt, so_event
  <2>3. CASE q # p
    <3>1. PacketAt(q) BY <1>9, <1>12, <2>3 DEF SockOK
    <3>2. \A j \in 4 .. 7 : Load(q, j)' = Load(q, j) BY <1>9, <2>1, <2>3
    <3> QED BY <1>10, <3>1, <3>2, PacketKept
  <2> QED BY <2>2, <2>3
<1>13. ASSUME NEW x \in Nat, Aligned(x) PROVE PlaceOK(x)'
  <2>1. PlaceOK(x) BY <1>13 DEF SockOK
  <2>2. CASE (x - p) % RingWords # 0
    <3>1. Load(x, 2)' = Load(x, 2) /\ Load(x, 3)' = Load(x, 3) /\ Load(x, 5)' = Load(x, 5)
      BY <1>11, <1>13, <2>2
    <3>2. Seen(x)' = Seen(x) BY <1>9, <1>10, <2>2 DEF Seen, IPPROTO_GRE
    <3> QED BY <1>10, <2>1, <3>1, <3>2, PlaceKept
  <2>3. CASE (x - p) % RingWords = 0
    <3>1. Load(x, 5)' \in 0 .. 255
      <4>1. 5 \in DOMAIN words /\ 5 \in 0 .. 7 BY <1>6
      <4> QED BY <1>4, <1>6, <1>11, <1>13, <2>3, <4>1
    <3>2. CASE skb.proto = IPPROTO_GRE
      <4>1. 2 \notin DOMAIN words /\ 3 \notin DOMAIN words BY <1>6, <1>7, <3>2
      <4>2. Load(x, 2)' = Load(x, 2) /\ Load(x, 3)' = Load(x, 3)
        BY <1>11, <1>13, <4>1
      <4>3. Seen(x)' = Seen(x) BY <1>9, <1>10, <1>a, <3>2 DEF Seen, IPPROTO_GRE
      <4> QED BY <1>10, <2>1, <3>1, <4>2, <4>3 DEF PlaceOK, so_event
    <3>3. CASE skb.proto # IPPROTO_GRE
      <4>1. 2 \in DOMAIN words /\ 3 \in DOMAIN words BY <1>6, <1>7, <3>3
      <4>2. Load(x, 2)' = skb.src /\ Load(x, 3)' = skb.dst
        BY <1>6, <1>11, <1>13, <2>3, <3>3, <4>1
      <4>3. Seen(x)' = Seen(x) \cup {p}
        BY <1>3, <1>9, <1>10, <1>a, <2>3, <3>3 DEF Seen, IPPROTO_GRE
      <4>4. ASSUME NEW q \in Seen(x)' PROVE q <= p
        <5>1. q \in DOMAIN inputs /\ (x - q) % RingWords = 0 BY <1>10 DEF Seen
        <5> QED BY <1>2, <1>3, <1>13, <2>3, <5>1, LastAtPlace
      <4>5. p \in Seen(x)' /\ inputs'[p].src = skb.src /\ inputs'[p].dst = skb.dst
        BY <1>10, <1>a, <4>3
      <4> QED BY <3>1, <4>2, <4>4, <4>5 DEF PlaceOK, so_event
    <3> QED BY <3>2, <3>3
  <2> QED BY <2>2, <2>3
<1>14. SockOK'
  <2>1. Aligned(prod)' /\ \A q \in DOMAIN inputs' : inputs'[q] \in Packets /\ Aligned(q)'
    BY <1>10 DEF SockOK, Aligned
  <2>2. \A x \in Nat : Aligned(x)' <=> Aligned(x) BY DEF Aligned
  <2> QED BY <1>9, <1>12, <1>13, <2>1, <2>2 DEF SockOK
<1> QED BY <1>9, <1>14

\* sockfilter.bpf.c and its callback keep the invariant.
LEMMA SockStep ==
  ASSUME RingOK, LineOK, SockOK, program = "sockfilter", program' = program, SockNext
  PROVE  RingOK' /\ LineOK' /\ SockOK'
<1> USE DEF RingOK
<1>1. Size = 6 BY DEF Size, so_event
<1>2. ASSUME NEW c \in Cpus, NEW skb \in Packets, socket_handler(c, skb)
      PROVE  RingOK' /\ LineOK' /\ SockOK'
  <2> DEFINE words == [k \in {0, 1} |-> IF k = 0 THEN BusyBit + Size ELSE 0]
  <2>1. Reserve(c, Size, skb) BY <1>2 DEF socket_handler, Size
  <2>2. /\ RingOK' /\ prod \notin DOMAIN inputs /\ Live' = Live \cup {prod}
        /\ \A p \in Live : \A j \in 0 .. Size + 1 : Load(p, j)' = Load(p, j)
        /\ \A p \in Nat : Open(p)' <=> Open(p) \/ p = prod
    BY <2>1, ReserveRing DEF RingOK
  <2>3. /\ DOMAIN inputs' = DOMAIN inputs \cup {prod} /\ inputs'[prod] = skb
        /\ \A p \in DOMAIN inputs : inputs'[p] = inputs[p]
        /\ mem' = Stored(prod, words) /\ prod' = prod + 2 + Size /\ line' = line
    BY <2>1, <2>2 DEF Reserve
  <2>4. LineOK' BY <2>3, LineKept
  <2>5. prod \in Nat /\ Aligned(prod) /\ DOMAIN inputs \subseteq Nat
    BY DEF RecordsOK, SockOK
  <2>6. ASSUME NEW p \in Live', ~Open(p)' PROVE PacketAt(p)'
    <3>1. p \in Nat BY <2>2, <2>5 DEF Live
    <3>2. p \in Live /\ ~Open(p) BY <2>2, <2>6, <3>1
    <3>3. PacketAt(p) /\ inputs'[p] = inputs[p] BY <2>3, <3>2 DEF SockOK, Live
    <3>4. 4 .. 7 \subseteq 0 .. Size + 1 BY <1>1
    <3> QED BY <2>2, <3>2, <3>3, <3>4, PacketKept
  <2>7. ASSUME NEW x \in Nat, Aligned(x) PROVE PlaceOK(x)'
    <3>1. PlaceOK(x) BY <2>7 DEF SockOK
    <3>2. Seen(x)' = Seen(x)
      <4>1. \A q \in DOMAIN inputs : Open(q)' <=> Open(q) BY <2>2, <2>5
      <4>2. Open(prod) => prod \in DOMAIN inputs
        BY DEF Open, CpusOK, Live
      <4>3. \A q \in DOMAIN inputs' : ~Open(q)' => q \in DOMAIN inputs /\ q # prod
        BY <2>2, <2>3, <2>5
      <4> QED BY <2>3, <4>1, <4>3 DEF Seen, IPPROTO_GRE
    <3>3. ASSUME NEW j \in 2 .. 7 PROVE Load(x, j)' = Load(x, j)
      <4>1. Load(x, j)' = WordOf(mem', x, j) BY DEF Load, WordOf
      <4>2. DOMAIN words \subseteq 0 .. 7 /\ j \notin DOMAIN words /\ j \in 0 .. 7 BY <3>3
      <4>3. DOMAIN mem = 0 .. RingWords - 1 BY DEF RecordsOK
      <4> HIDE DEF words
      <4>4. WordOf(Stored(prod, words), x, j) = Load(x, j)
        BY <2>5, <2>7, <4>2, <4>3, StoredAtPlace
      <4> QED BY <2>3, <4>1, <4>4
    <3>4. 2 \in 2 .. 7 /\ 3 \in 2 .. 7 /\ 5 \in 2 .. 7 OBVIOUS
    <3>5. \A q \in Seen(x) : inputs'[q] = inputs[q] BY <2>3 DEF Seen
    <3> QED BY <3>1, <3>2, <3>3, <3>4, <3>5, PlaceKept
  <2>8. Aligned(prod') BY <1>1, <2>3, <2>5, SMTT(30) DEF Aligned
  <2>9. SockOK'
    <3>1. \A p \in DOMAIN inputs' : inputs'[p] \in Packets /\ Aligned(p)'
      BY <2>3, <2>5 DEF SockOK, Aligned
    <3>2. Aligned(prod)' /\ \A x \in Nat : Aligned(x)' <=> Aligned(x)
      BY <2>8 DEF Aligned
    <3> QED BY <2>6, <2>7, <3>1, <3>2 DEF SockOK
  <2> QED BY <2>2, <2>4, <2>9
<1>3. ASSUME NEW c \in Cpus, FillPacket(c) PROVE RingOK' /\ LineOK' /\ SockOK'
  <2>1. line' = line /\ inputs' = inputs BY <1>3 DEF FillPacket, Fill
  <2>2. LineOK' BY <2>1, LineKept
  <2> QED BY <1>3, <2>2, PacketWritten DEF RingOK
<1>4. ASSUME NEW c \in Cpus, Submit(c) PROVE RingOK' /\ LineOK' /\ SockOK'
  <2> DEFINE p == mine[c]
             words == [k \in {0} |-> Load(p, 0) - BusyBit]
  <2>1. line' = line /\ inputs' = inputs /\ prod' = prod /\ mem' = Stored(p, words)
    BY <1>4 DEF Submit
  <2>2. LineOK' BY <2>1, LineKept
  <2>3. /\ RingOK' /\ Live' = Live /\ p \in Live
        /\ \A q \in Live : \A j \in 1 .. Size + 1 : Load(q, j)' = Load(q, j)
        /\ \A q \in Nat : Open(q)' <=> Open(q)
    BY <1>4, SubmitRing DEF RingOK
  <2>4. p \in Nat /\ Aligned(p) /\ DOMAIN inputs \subseteq Nat
    BY <2>3 DEF RecordsOK, SockOK, Live
  <2>5. ASSUME NEW q \in Live', ~Open(q)' PROVE PacketAt(q)'
    <3>1. q \in Live /\ q \in Nat BY <2>3, <2>4 DEF Live
    <3>2. PacketAt(q) BY <2>3, <2>5, <3>1 DEF SockOK
    <3>3. 4 .. 7 \subseteq 1 .. Size + 1 BY <1>1
    <3> QED BY <2>1, <2>3, <3>1, <3>2, <3>3, PacketKept
  <2>6. ASSUME NEW x \in Nat, Aligned(x) PROVE PlaceOK(x)'
    <3>1. PlaceOK(x) BY <2>6 DEF SockOK
    <3>2. Seen(x)' = Seen(x) BY <2>1, <2>3, <2>4 DEF Seen, IPPROTO_GRE
    <3>3. ASSUME NEW j \in 2 .. 7 PROVE Load(x, j)' = Load(x, j)
      <4>1. Load(x, j)' = WordOf(mem', x, j) BY DEF Load, WordOf
      <4>2. DOMAIN words \subseteq 0 .. 7 /\ j \notin DOMAIN words /\ j \in 0 .. 7 BY <3>3
      <4>3. DOMAIN mem = 0 .. RingWords - 1 BY DEF RecordsOK
      <4> HIDE DEF words, p
      <4>4. WordOf(Stored(p, words), x, j) = Load(x, j)
        BY <2>4, <2>6, <4>2, <4>3, StoredAtPlace, SMTT(30)
      <4> QED BY <2>1, <4>1, <4>4
    <3>4. 2 \in 2 .. 7 /\ 3 \in 2 .. 7 /\ 5 \in 2 .. 7 OBVIOUS
    <3> QED BY <2>1, <3>1, <3>2, <3>3, <3>4, PlaceKept
  <2>7. SockOK'
    <3>1. /\ Aligned(prod)'
          /\ \A q \in DOMAIN inputs' : inputs'[q] \in Packets /\ Aligned(q)'
          /\ \A x \in Nat : Aligned(x)' <=> Aligned(x)
      BY <2>1 DEF SockOK, Aligned
    <3> QED BY <2>5, <2>6, <3>1 DEF SockOK
  <2> QED BY <2>2, <2>3, <2>7
<1>5. ASSUME handle_event PROVE RingOK' /\ LineOK' /\ SockOK'
  <2> DEFINE e(k) == Load(cons, so_event[k])
             skb == inputs[cons]
             text(ifname) ==
               [of |-> "packet", pos |-> cons, ifname |-> ifname,
                printed |-> /\ e("pkt_type") = PACKET_HOST
                            /\ e("ip_proto") \in 0 .. IPPROTO_MAX - 1
                            /\ ifname,
                ip_proto |-> e("ip_proto"), ports |-> e("ports"),
                ifindex |-> e("ifindex"),
                src |-> e("src_addr"), dst |-> e("dst_addr")]
  <2>1. PICK ifname \in BOOLEAN : Consume(text(ifname)) BY <1>5, Zenon DEF handle_event
  <2> HIDE DEF text
  <2>2. /\ RingOK' /\ cons \in Live /\ Live' \subseteq Live /\ ~Busy(cons)
        /\ \A p : Open(p)' <=> Open(p)
    BY <2>1, ConsumeRing DEF RingOK
  <2>3. mem' = mem /\ inputs' = inputs /\ prod' = prod /\ line' = text(ifname)
    BY <2>1 DEF Consume
  <2>4. /\ cons \in DOMAIN inputs /\ cons \in Nat /\ Aligned(cons) /\ skb \in Packets
        /\ PacketAt(cons) /\ PlaceOK(cons)
    BY <2>2 DEF RecordsOK, SockOK, Live, Open, Busy
  <2>5. skb.proto \in 0 .. 255 BY <2>4, PacketsAssumption
  <2>6. /\ line'.of = "packet" /\ line'.pos = cons /\ line'.ifname = ifname
        /\ line'.printed = (skb.pkt_type = PACKET_HOST /\ ifname)
        /\ line'.ip_proto = skb.proto /\ line'.ports = skb.ports
        /\ line'.ifindex = skb.ifindex
        /\ line'.src = Load(cons, 2) /\ line'.dst = Load(cons, 3)
    <3>1. /\ e("ports") = skb.ports /\ e("ip_proto") = skb.proto
          /\ e("pkt_type") = skb.pkt_type /\ e("ifindex") = skb.ifindex
          /\ e("src_addr") = Load(cons, 2) /\ e("dst_addr") = Load(cons, 3)
      BY <2>4 DEF PacketAt, so_event
    <3> HIDE DEF e, skb
    <3>2. skb.proto \in 0 .. IPPROTO_MAX - 1 BY <2>5 DEF IPPROTO_MAX
    <3> QED BY <2>3, <3>1, <3>2, Zenon DEF text
  <2>7. Seen(cons) = SamePlace(cons)
    <3>1. ASSUME NEW q \in Seen(cons) PROVE q \in SamePlace(cons)
      <4>1. q \in DOMAIN inputs /\ (cons - q) % RingWords = 0
        BY DEF Seen
      <4>2. (cons - cons) % RingWords = 0
        <5>1. cons - cons = 0 /\ RingWords \in Nat \ {0} BY <2>4, RingAssumption
        <5>2. 0 % RingWords = 0 BY <5>1, ModNear
        <5> QED BY <5>1, <5>2
      <4>3. q <= cons BY <2>2, <2>4, <4>1, <4>2, LastAtPlace
      <4> QED BY <4>1, <4>3 DEF Seen, SamePlace
    <3>2. ASSUME NEW q \in SamePlace(cons) PROVE q \in Seen(cons)
      <4>1. q \in DOMAIN inputs /\ q <= cons /\ q \in Nat BY DEF SamePlace, RecordsOK
      <4>2. ~Open(q)
        <5>1. ASSUME NEW d \in Cpus, mine[d] = q, pc[d] = "fill" PROVE FALSE
          <6>1. q \in Live BY <5>1 DEF CpusOK
          <6>2. q = cons BY <2>4, <4>1, <6>1 DEF Live
          <6> QED BY <2>2, <5>1, <6>2 DEF Busy
        <5> QED BY <5>1 DEF Open
      <4> QED BY <4>2 DEF Seen, SamePlace
    <3> QED BY <3>1, <3>2, Zenon
  <2>9. PrintedAsReceived'
    <3>1. SamePlace(line.pos)' = SamePlace(cons) BY <2>6, <2>3 DEF SamePlace, IPPROTO_GRE
    <3>2. \/ SamePlace(cons) = {} /\ line'.src = 0 /\ line'.dst = 0
          \/ \E last \in SamePlace(cons) :
               /\ \A p \in SamePlace(cons) : p <= last
               /\ line'.src = inputs[last].src /\ line'.dst = inputs[last].dst
      BY <2>4, <2>6, <2>7 DEF PlaceOK, so_event
    <3> QED BY <2>3, <2>6, <3>1, <3>2 DEF PrintedAsReceived
  <2>10. HostPacketsPrinted' BY <2>3, <2>6, Zenon DEF HostPacketsPrinted, PACKET_HOST
  <2>11. LineOK' BY <2>3, <2>4, <2>6, <2>9, <2>10, Zenon DEF LineOK, TracesAreOwn
  <2>12. SockOK'
    <3>1. \A p : (PacketAt(p)' <=> PacketAt(p)) /\ (Aligned(p)' <=> Aligned(p))
      BY <2>3 DEF PacketAt, Load, Aligned
    <3>2. ASSUME NEW x \in Nat, Aligned(x) PROVE PlaceOK(x)'
      <4>1. Seen(x)' = Seen(x) BY <2>2, <2>3 DEF Seen, IPPROTO_GRE
      <4>2. \A j : Load(x, j)' = Load(x, j) BY <2>3 DEF Load
      <4>3. PlaceOK(x) BY <3>2 DEF SockOK
      <4> QED BY <2>3, <4>1, <4>2, <4>3, PlaceKept
    <3>3. Aligned(prod)' BY <2>3 DEF SockOK, Aligned
    <3> QED BY <2>2, <2>3, <3>1, <3>2, <3>3 DEF SockOK
  <2> QED BY <2>2, <2>11, <2>12
<1> QED BY <1>2, <1>3, <1>4, <1>5 DEF SockNext
-----------------------------------------------------------------------------
\* An empty ring of zeros
LEMMA InitInvariant == Init => IInv
<1> SUFFICES ASSUME Init PROVE IInv OBVIOUS
<1>1. /\ mem = [w \in 0 .. RingWords - 1 |-> 0] /\ prod = 0 /\ cons = 0
      /\ mine = [c \in Cpus |-> None] /\ pc = [c \in Cpus |-> "idle"]
      /\ inputs = <<>> /\ line = [of |-> "none"]
      /\ program \in {"sockfilter", "profile"}
  BY DEF Init, RingInit
<1>2. DOMAIN inputs = {} /\ Live = {} BY <1>1 DEF Live
<1>3. RingWords \in Nat \ {0} BY RingAssumption
<1>4. RecordsOK BY <1>1, <1>2, <1>3 DEF RecordsOK
<1>5. CpusOK BY <1>1 DEF CpusOK, None
<1>6. HeadersOK BY <1>2 DEF HeadersOK
<1>7. LineOK BY <1>1 DEF LineOK, PrintedAsReceived, HostPacketsPrinted, TracesAreOwn
<1>8. SockOK
  <2>1. Aligned(prod) BY <1>1 DEF Aligned
  <2>2. ASSUME NEW x \in Nat PROVE PlaceOK(x)
    <3>1. ASSUME NEW k \in Nat PROVE Load(x, k) = 0
      <4>1. x + k \in Int OBVIOUS
      <4>2. (x + k) % RingWords \in 0 .. RingWords - 1 BY <1>3, <4>1, DivMod
      <4> QED BY <1>1, <4>2 DEF Load
    <3>2. Load(x, 2) = 0 /\ Load(x, 3) = 0 /\ Load(x, 5) = 0
      <4>1. 2 \in Nat /\ 3 \in Nat /\ 5 \in Nat OBVIOUS
      <4> QED BY <3>1, <4>1, Zenon
    <3>3. Seen(x) = {} BY <1>2 DEF Seen
    <3> QED BY <3>2, <3>3, SMTT(30) DEF PlaceOK, so_event
  <2> QED BY <1>2, <2>1, <2>2 DEF SockOK
<1>9. ProfOK BY <1>1, <1>2 DEF ProfOK
<1> QED BY <1>1, <1>4, <1>5, <1>6, <1>7, <1>8, <1>9 DEF IInv, RingOK

LEMMA NextInvariant == IInv /\ [Next]_vars => IInv'
<1> SUFFICES ASSUME IInv, [Next]_vars PROVE IInv' OBVIOUS
<1> USE DEF IInv
<1>1. CASE program = "sockfilter" /\ SockNext /\ program' = program
  BY <1>1, SockStep
<1>2. CASE program = "profile" /\ ProfNext /\ program' = program
  BY <1>2, ProfStep
<1>3. CASE UNCHANGED vars
  <2>1. /\ mem' = mem /\ prod' = prod /\ cons' = cons /\ mine' = mine /\ pc' = pc
        /\ inputs' = inputs /\ line' = line /\ program' = program
    BY <1>3 DEF vars, ring
  <2>2. Size' = Size /\ Live' = Live BY <2>1 DEF Size, Live
  <2>3. \A p : (Busy(p)' <=> Busy(p)) /\ (Open(p)' <=> Open(p)) BY <2>1 DEF Busy, Open
  <2>4. \A p : \A k : Load(p, k)' = Load(p, k) BY <2>1 DEF Load
  <2>5. RingOK'
    BY <2>1, <2>2, <2>3, <2>4 DEF RingOK, RecordsOK, CpusOK, HeadersOK, None
  <2>6. LineOK' BY <2>1, LineKept DEF RingOK
  <2>7. SockOK => SockOK'
    <3>1. \A p : PacketAt(p)' <=> PacketAt(p) BY <2>1, <2>4 DEF PacketAt
    <3>2. \A x : Seen(x)' = Seen(x) BY <2>1, <2>3 DEF Seen, IPPROTO_GRE
    <3>3. \A x : PlaceOK(x) => PlaceOK(x)' BY <2>1, <2>4, <3>2, ZenonT(30) DEF PlaceOK, so_event
    <3> QED BY <2>1, <2>2, <2>3, <3>1, <3>3 DEF SockOK, Aligned
  <2>8. ProfOK => ProfOK'
    <3>1. \A p : SampleAt(p)' <=> SampleAt(p) BY <2>1 DEF SampleAt, Load
    <3> QED BY <2>1, <2>2, <2>3, <3>1, ZenonT(30) DEF ProfOK
  <2> QED BY <2>1, <2>5, <2>6, <2>7, <2>8
<1> QED BY <1>1, <1>2, <1>3 DEF Next

LEMMA Invariant == Spec => []IInv
BY InitInvariant, NextInvariant, PTL DEF Spec

\* Whatever packets the CPUs handle at a time and however often the ring went
\* round, what handle_event of sockfilter.c prints is the packet of the record,
\* the addresses of GRE packets apart.
THEOREM PacketsPrintedAsReceived == Spec => []PrintedAsReceived
<1>1. IInv => PrintedAsReceived BY DEF IInv, LineOK
<1> QED BY Invariant, <1>1, PTL

\* No packet for this host is dropped by the test of ip_proto in handle_event,
\* although socket_handler writes one byte of the four.
THEOREM NoHostPacketDropped == Spec => []HostPacketsPrinted
<1>1. IInv => HostPacketsPrinted BY DEF IInv, LineOK
<1> QED BY Invariant, <1>1, PTL

\* event_handler of profile.c shows the stacks of the sampled process to the last
\* frame, for every MAX_STACK_DEPTH and wherever a record lies in the ring.
THEOREM NoForeignFrames == Spec => []TracesAreOwn
<1>1. IInv => TracesAreOwn BY DEF IInv, LineOK
<1> QED BY Invariant, <1>1, PTL
=============================================================================
