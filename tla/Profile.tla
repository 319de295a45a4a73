------------------------------ MODULE Profile ------------------------------
(***************************************************************************)
(* profile.bpf.c and the callback of profile.c: a record with the kernel   *)
(* and the user stack of what a CPU was running when it was sampled.       *)
(***************************************************************************)
EXTENDS RingBuffer, Sequences

CONSTANTS
  Samples,          \* [pid, comm, cpu, kstack, ustack]; a stack is a sequence
  MAX_STACK_DEPTH

\* bpf_get_stack writes no more frames than the array has.
ASSUME SamplesAssumption ==
  /\ MAX_STACK_DEPTH \in Nat
  /\ \A s \in Samples : \A stack \in {s.kstack, s.ustack} :
       stack = [k \in 1 .. Len(stack) |-> stack[k]] /\ Len(stack) \in 0 .. MAX_STACK_DEPTH

EFAULT == 14
FrameSize == 8      \* sizeof(__u64)

\* The words of struct stacktrace_event; a name and a frame are a word each.
stacktrace_event ==
  [pid |-> 2, cpu_id |-> 3, comm |-> 4, kstack_sz |-> 5, ustack_sz |-> 6,
   kstack |-> 7, ustack |-> 7 + MAX_STACK_DEPTH, size |-> 5 + 2 * MAX_STACK_DEPTH]

\* bpf_get_stack: what it returns, the words it writes from word at on, and what
\* it writes into word k.  An error clears the whole array, otherwise what is
\* behind the frames stays.
StackSize(stack) == IF stack = <<>> THEN -EFAULT ELSE FrameSize * Len(stack)
StackWords(stack, at) ==
  at .. at + (IF stack = <<>> THEN MAX_STACK_DEPTH ELSE Len(stack)) - 1
StackWord(stack, at, k) == IF stack = <<>> THEN 0 ELSE stack[k - at + 1]

\* profile
profile(c, sample) ==
  c = sample.cpu /\ Reserve(c, stacktrace_event.size, sample)

FillSample(c) ==
  LET s == inputs[mine[c]]
      e == stacktrace_event
  IN  Fill(c, [k \in e.pid .. e.ustack_sz \cup StackWords(s.kstack, e.kstack)
                                          \cup StackWords(s.ustack, e.ustack) |->
                 CASE k = e.pid       -> s.pid
                   [] k = e.cpu_id    -> c
                   [] k = e.comm      -> s.comm
                   [] k = e.kstack_sz -> StackSize(s.kstack)
                   [] k = e.ustack_sz -> StackSize(s.ustack)
                   [] k \in e.kstack .. e.ustack - 1 -> StackWord(s.kstack, e.kstack, k)
                   [] k >= e.ustack   -> StackWord(s.ustack, e.ustack, k)])

\* Variant of StackDepth that takes the size for the number of frames.
StackDepthOfBytes(sz) == sz

\* event->kstack_sz / sizeof(__u64)
StackDepth(sz) == sz \div FrameSize

\* show_stack_trace of the stack at word at, if its size is positive; ok is
\* whether the symbolizer answers.  A frame without a symbol is shown as well.
show_stack_trace(at, sz, ok) ==
  IF sz > 0 /\ ok THEN [k \in 1 .. StackDepth(sz) |-> Load(cons, at + k - 1)]
  ELSE <<>>

\* event_handler
event_handler ==
  LET e == stacktrace_event
      ksz == Load(cons, e.kstack_sz)
      usz == Load(cons, e.ustack_sz)
  IN  \E ksyms, usyms \in BOOLEAN :
        Consume(IF ksz <= 0 /\ usz <= 0 THEN [of |-> "none"]
                ELSE [of |-> "trace", pos |-> cons,
                      pid |-> Load(cons, e.pid), cpu |-> Load(cons, e.cpu_id),
                      comm |-> Load(cons, e.comm),
                      kstack |-> show_stack_trace(e.kstack, ksz, ksyms),
                      ustack |-> show_stack_trace(e.ustack, usz, usyms),
                      ksyms |-> ksyms, usyms |-> usyms])

ProfNext ==
  \/ \E c \in Cpus : \/ \E s \in Samples : profile(c, s)
                     \/ FillSample(c) \/ Submit(c)
  \/ event_handler
-----------------------------------------------------------------------------
\* The trace that is printed is that of the sampled process to the last frame,
\* though the record was not cleared, its arrays are written in part and it lies
\* across earlier ones: no frame of another sample is shown.
TracesAreOwn ==
  LET s == inputs[line.pos]
  IN  line.of = "trace" =>
        /\ line.pid = s.pid /\ line.cpu = s.cpu /\ line.comm = s.comm
        /\ line.kstack = IF line.ksyms THEN s.kstack ELSE <<>>
        /\ line.ustack = IF line.usyms THEN s.ustack ELSE <<>>
=============================================================================
