----------------------------- MODULE Bootstrap -----------------------------
(***************************************************************************)
(* bootstrap: handlers at exec and exit (bootstrap.bpf.c) put records into *)
(* a BPF ring buffer, and main of bootstrap.c polls and prints them.       *)
(*                                                                         *)
(* A process has a leader, the thread whose tid is the pid, and maybe      *)
(* other threads; the leader may exit before them.  A handler runs on its  *)
(* own task, up to the reservation of a record and then to its submission; *)
(* other tasks run in between.  A record is what the consumer can tell,    *)
(* with a history field life: the time since the last exec, or -1.         *)
(***************************************************************************)
EXTENDS Integers, FiniteSets, Sequences, Functions

CONSTANTS
  Pids,
  MinDurations, \* values of --duration
  MaxStarts,    \* max_entries of exec_start
  RingSize,     \* records the ring buffer has room for
  MaxTime       \* bound on the clock

ASSUME MinDurationsAssumption == MinDurations \subseteq Nat
ASSUME SizesAssumption == MaxStarts \in Nat /\ RingSize \in Nat

VARIABLES
  min_duration_ns, \* set between open and load, read-only afterwards
  proc,         \* threads of each pid: a subset of {"leader", "other"}
  clock,        \* bpf_ktime_get_ns, in ticks
  exec_start,   \* the map, a function on the pids it holds
  rb,           \* the ring buffer: [busy, rec], oldest first
  handler,      \* pid -> "idle", or "submit" with a record reserved
  exec_time,    \* history: time of the last exec of the process, or -1
  exiting,
  main          \* "poll" or "done"

tasks == <<proc, exec_time>>
boot_vars == <<min_duration_ns, tasks, clock, exec_start, rb, handler,
               exiting, main>>

Event == [exit_event : BOOLEAN, pid : Pids, duration_ns : Nat,
          life : Nat \cup {-1}]

BootTypeOK ==
  /\ min_duration_ns \in MinDurations
  /\ proc \in [Pids -> SUBSET {"leader", "other"}]
  /\ clock \in Nat
  /\ DOMAIN exec_start \subseteq Pids
  /\ \A p \in DOMAIN exec_start : exec_start[p] \in 0 .. clock
  /\ Cardinality(DOMAIN exec_start) <= MaxStarts
  /\ rb \in Seq([busy : BOOLEAN, rec : Event]) /\ Len(rb) <= RingSize
  /\ handler \in [Pids -> {"idle", "submit"}]
  /\ exec_time \in [Pids -> Nat \cup {-1}]
  /\ exiting \in BOOLEAN
  /\ main \in {"poll", "done"}

BootInit ==
  /\ min_duration_ns \in MinDurations
  /\ proc = [p \in Pids |-> {}]
  /\ clock = 1
  /\ exec_start = <<>>
  /\ rb = <<>>
  /\ handler = [p \in Pids |-> "idle"]
  /\ exec_time = [p \in Pids |-> -1]
  /\ exiting = FALSE
  /\ main = "poll"
-----------------------------------------------------------------------------
\* bpf_ringbuf_reserve for a handler of pid p; a full buffer gives NULL.
Reserve(p, rec) ==
  IF Len(rb) < RingSize
  THEN /\ rb' = Append(rb, [busy |-> TRUE, rec |-> rec])
       /\ handler' = [handler EXCEPT ![p] = "submit"]
  ELSE UNCHANGED <<rb, handler>>

\* bpf_map_update_elem(&exec_start, &p, &ts, BPF_ANY)
UpdateStart(p, ts) ==
  IF p \in DOMAIN exec_start \/ Cardinality(DOMAIN exec_start) < MaxStarts
  THEN exec_start' = [q \in DOMAIN exec_start \cup {p} |->
                        IF q = p THEN ts ELSE exec_start[q]]
  ELSE UNCHANGED exec_start

Running(p) == main = "poll" /\ handler[p] = "idle"

\* fork, or the first thread besides the leader
Spawn(p) ==
  /\ Running(p)
  /\ proc' = [proc EXCEPT ![p] =
                IF @ = {} THEN {"leader"} ELSE @ \cup {"other"}]
  /\ exec_time' = IF proc[p] = {} THEN [exec_time EXCEPT ![p] = -1]
                  ELSE exec_time
  /\ UNCHANGED <<min_duration_ns, clock, exec_start, rb, handler, exiting,
                 main>>

\* handle_exec: exec by the leader, or by another thread after the leader has
\* gone, which takes over its tid.
Exec(p) ==
  /\ Running(p) /\ Cardinality(proc[p]) = 1
  /\ proc' = [proc EXCEPT ![p] = {"leader"}]
  /\ exec_time' = [exec_time EXCEPT ![p] = clock]
  /\ UpdateStart(p, clock)
  /\ IF min_duration_ns # 0
     THEN UNCHANGED <<rb, handler>>
     ELSE Reserve(p, [exit_event |-> FALSE, pid |-> p, duration_ns |-> 0,
                      life |-> 0])
  /\ UNCHANGED <<min_duration_ns, clock, exiting, main>>

\* Variant of Duration with the operands swapped.
DurationSwapped(p) == exec_start[p] - clock

\* bpf_ktime_get_ns() - *start_ts
Duration(p) == clock - exec_start[p]

\* Variant of StartDeleted without bpf_map_delete_elem.
StartDeletedNot(p) == exec_start

\* exec_start after bpf_map_delete_elem
StartDeleted(p) == Restrict(exec_start, DOMAIN exec_start \ {p})

\* handle_exit of the thread whose tid is the pid
ExitLeader(p) ==
  /\ Running(p) /\ "leader" \in proc[p]
  /\ proc' = [proc EXCEPT ![p] = @ \ {"leader"}]
  /\ LET known == p \in DOMAIN exec_start
         duration == IF known THEN Duration(p) ELSE 0
         life == IF exec_time[p] = -1 THEN -1 ELSE clock - exec_time[p]
     IN  IF ~known /\ min_duration_ns # 0
         THEN UNCHANGED <<exec_start, rb, handler>>
         ELSE /\ exec_start' = StartDeleted(p)
              /\ IF min_duration_ns # 0 /\ duration < min_duration_ns
                 THEN UNCHANGED <<rb, handler>>
                 ELSE Reserve(p, [exit_event |-> TRUE, pid |-> p,
                                  duration_ns |-> duration, life |-> life])
  /\ UNCHANGED <<min_duration_ns, clock, exec_time, exiting, main>>

\* handle_exit of another thread: ignored
ExitOther(p) ==
  /\ Running(p) /\ "other" \in proc[p]
  /\ proc' = [proc EXCEPT ![p] = @ \ {"other"}]
  /\ UNCHANGED <<min_duration_ns, exec_time, clock, exec_start, rb, handler,
                 exiting, main>>

\* Variant of Submitted: the handler returns without bpf_ringbuf_submit.
SubmittedNot(p) == rb

\* The buffer with the record of p no longer busy.
Submitted(p) ==
  [n \in DOMAIN rb |-> [rb[n] EXCEPT !.busy = @ /\ rb[n].rec.pid # p]]

\* bpf_ringbuf_submit of the record of p
Submit(p) ==
  /\ handler[p] = "submit" /\ main = "poll"
  /\ handler' = [handler EXCEPT ![p] = "idle"]
  /\ rb' = Submitted(p)
  /\ UNCHANGED <<min_duration_ns, tasks, clock, exec_start, exiting, main>>

Tick ==
  /\ clock < MaxTime
  /\ clock' = clock + 1
  /\ UNCHANGED <<min_duration_ns, tasks, exec_start, rb, handler, exiting,
                 main>>

\* ring_buffer__poll calls handle_event for the oldest record, if submitted.
HandleEvent ==
  /\ main = "poll" /\ rb # <<>> /\ ~Head(rb).busy
  /\ rb' = Tail(rb)
  /\ UNCHANGED <<min_duration_ns, tasks, clock, exec_start, handler, exiting,
                 main>>

SigHandler ==
  /\ ~exiting
  /\ exiting' = TRUE
  /\ UNCHANGED <<min_duration_ns, tasks, clock, exec_start, rb, handler, main>>

\* Variant of Leave that drains the buffer first.
LeaveWhenEmpty ==
  /\ main = "poll" /\ rb = <<>>
  /\ main' = "done"
  /\ UNCHANGED <<min_duration_ns, tasks, clock, exec_start, rb, handler,
                 exiting>>

\* The loop ends: -EINTR, exiting seen, or an error.  The handlers are detached.
Leave ==
  /\ main = "poll"
  /\ main' = "done"
  /\ UNCHANGED <<min_duration_ns, tasks, clock, exec_start, rb, handler,
                 exiting>>

BootNext ==
  \/ \E p \in Pids : Spawn(p) \/ Exec(p) \/ ExitLeader(p) \/ ExitOther(p)
                       \/ Submit(p)
  \/ Tick \/ HandleEvent \/ SigHandler \/ Leave

\* Handlers run to their end, and main polls and looks at exiting.
Fairness ==
  /\ \A p \in Pids : WF_boot_vars(Submit(p))
  /\ WF_boot_vars(HandleEvent)
  /\ WF_boot_vars(exiting /\ Leave)

BootSpec == BootInit /\ [][BootNext]_boot_vars /\ Fairness
-----------------------------------------------------------------------------
Records == {rb[n].rec : n \in DOMAIN rb}

\* A duration in an exit record is the time since the last exec of this very
\* process, and with a minimum duration only exits that lasted at least that
\* long come out: pids that are used again, execs without exit, leaders that
\* exit early and a full exec_start never leave a start behind for someone else.
DurationIsLifetime ==
  \A e \in Records :
    /\ e.exit_event /\ e.duration_ns # 0 => e.duration_ns = e.life
    /\ min_duration_ns # 0 => e.exit_event /\ e.life >= min_duration_ns

\* exec_start holds only processes whose leader runs, so that max_entries
\* bounds processes and not the history of the system.
StartsAreLive ==
  \A p \in DOMAIN exec_start :
    "leader" \in proc[p] /\ exec_start[p] = exec_time[p]

\* A full ring buffer does not stay full: a record reserved by a handler that
\* is slow to submit holds up the ones behind it, but not for ever.
FullBufferDrains ==
  Len(rb) = RingSize ~> Len(rb) < RingSize \/ main = "done"

\* Ctrl-C ends the loop, however many events keep arriving.
SignalEndsLoop == exiting ~> main = "done"
=============================================================================
