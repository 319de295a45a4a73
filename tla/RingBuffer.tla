----------------------------- MODULE RingBuffer -----------------------------
(***************************************************************************)
(* A BPF ring buffer down to its memory, as the probes of sockfilter.bpf.c *)
(* and profile.bpf.c and ring_buffer__poll use it.  A reserved record is   *)
(* not cleared: what a probe does not write into it is what the memory     *)
(* held before.  Records are handed over in the order of reservation, so   *)
(* one that is still being written holds up those behind it.               *)
(*                                                                         *)
(* Memory is a circle of words; positions only grow.  A record has two     *)
(* words of header, the first of which is its length and the busy bit.     *)
(***************************************************************************)
EXTENDS Integers, FiniteSets

CONSTANTS
  Cpus,        \* numbers of the CPUs the probe runs on
  RingWords,   \* max_entries in words
  BusyBit,     \* above every length
  MaxRecords   \* bound on the records that are reserved

ASSUME RingAssumption == RingWords \in Nat \ {0} /\ BusyBit \in Nat

VARIABLES
  mem,         \* the words of the ring
  prod, cons,  \* the positions of producer and consumer
  mine,        \* where the record that a CPU has reserved is
  pc,          \* what the probe on a CPU does next
  inputs,      \* history: what the record at a position is about
  line         \* history: what was printed last

ring == <<mem, prod, cons, mine, pc, inputs>>

None == -1

RingInit ==
  /\ mem = [w \in 0 .. RingWords - 1 |-> 0]
  /\ prod = 0 /\ cons = 0
  /\ mine = [c \in Cpus |-> None]
  /\ pc = [c \in Cpus |-> "idle"]
  /\ inputs = <<>>
  /\ line = [of |-> "none"]

\* Word k of the record at position pos
Load(pos, k) == mem[(pos + k) % RingWords]

\* The memory after words (a function from offsets) are written at pos
Stored(pos, words) ==
  [w \in DOMAIN mem |-> LET k == (w - pos) % RingWords
                        IN  IF k \in DOMAIN words THEN words[k] ELSE mem[w]]

\* bpf_ringbuf_reserve of a record of size words for the input in.  There is
\* always one word left free; without room the probe returns.
Reserve(c, size, in) ==
  /\ pc[c] = "idle" /\ Cardinality(DOMAIN inputs) < MaxRecords
  /\ prod + 2 + size - cons < RingWords
  /\ mem' = Stored(prod, [k \in {0, 1} |-> IF k = 0 THEN BusyBit + size ELSE 0])
  /\ mine' = [mine EXCEPT ![c] = prod]
  /\ prod' = prod + 2 + size
  /\ inputs' = [p \in DOMAIN inputs \cup {prod} |->
                  IF p = prod THEN in ELSE inputs[p]]
  /\ pc' = [pc EXCEPT ![c] = "fill"]
  /\ UNCHANGED <<cons, line>>

\* The probe writes words into its record.
Fill(c, words) ==
  /\ pc[c] = "fill"
  /\ mem' = Stored(mine[c], words)
  /\ pc' = [pc EXCEPT ![c] = "submit"]
  /\ UNCHANGED <<prod, cons, mine, inputs, line>>

\* bpf_ringbuf_submit
Submit(c) ==
  /\ pc[c] = "submit"
  /\ mem' = Stored(mine[c], [k \in {0} |-> Load(mine[c], 0) - BusyBit])
  /\ mine' = [mine EXCEPT ![c] = None]
  /\ pc' = [pc EXCEPT ![c] = "idle"]
  /\ UNCHANGED <<prod, cons, inputs, line>>

\* ring_buffer__poll passes the record at cons to a callback, which prints text,
\* and then moves on by the length in the header.
Consume(text) ==
  /\ cons < prod /\ Load(cons, 0) < BusyBit
  /\ line' = text
  /\ cons' = cons + 2 + Load(cons, 0)
  /\ UNCHANGED <<mem, prod, mine, pc, inputs>>
=============================================================================
