--------------------------- MODULE SkelLifecycle ---------------------------
(***************************************************************************)
(* How the main functions of the example programs acquire what they need,  *)
(* run, and give it back: the order of the calls, where each failure goes, *)
(* what cleanup releases and which status the process exits with.          *)
(*                                                                         *)
(* A program is the sequence of its calls, the loop it then runs and its   *)
(* cleanup.  One machine executes them.  Of err it keeps the sign.         *)
(***************************************************************************)
EXTENDS Integers, Sequences, FiniteSets

CONSTANT Programs  \* names of the programs to run

\* A call that needs some resources, gets others and assigns its result to
\* err; a failure goes to cleanup with a negative err.  A call that can be
\* passed over has the number of steps to move on then.
Call(name, needs, gets) ==
  [call |-> name, needs |-> needs, gets |-> gets, assigns |-> TRUE,
   fail |-> "cleanup", err |-> "neg", skip |-> 0]

\* A call whose result is a pointer or a descriptor and not err.
Get(name, needs, gets) == [Call(name, needs, gets) EXCEPT !.assigns = FALSE]

\* skel = ...__open() and ...__open_and_load(), which end main on failure
Open == [Get("open", {}, {"skel"}) EXCEPT !.fail = "return"]
OpenAndLoad == [Get("open", {}, {"skel", "loaded"}) EXCEPT !.fail = "return"]
Load == Call("load", {"skel"}, {"loaded"})
Attach == Call("attach", {"skel", "loaded"}, {"links"})

\* if (signal(SIGINT, ...) == SIG_ERR) goto cleanup; with err = errno or not
Signal == [Get("signal", {}, {}) EXCEPT !.err = "same"]
SignalErrno == [Get("signal", {}, {}) EXCEPT !.err = "pos"]

\* Variant of Ring without err = -1.
RingSilent == [Get("ring", {"loaded"}, {"ring"}) EXCEPT !.err = "same"]

\* rb = ring_buffer__new(...); if (!rb) { err = -1; ... }
Ring == Get("ring", {"loaded"}, {"ring"})

Skel == {"skel", "loaded", "links"}
-----------------------------------------------------------------------------
\* Variant of minimal without the load.
minimal_unloaded == [steps |-> <<Open, Attach>>, loop |-> "forever",
                     frees |-> Skel, exit |-> "negate"]

minimal == [steps |-> <<Open, Load, Attach>>, loop |-> "forever",
            frees |-> Skel, exit |-> "negate"]

minimal_legacy ==
  [minimal EXCEPT !.steps =
     <<OpenAndLoad, Call("update_map", {"loaded"}, {}), Attach>>]

minimal_ns ==
  [minimal EXCEPT !.steps =
     <<Open, [Get("stat", {}, {}) EXCEPT !.fail = "return"], Load, Attach>>]

lsm ==
  [minimal EXCEPT !.steps =
     <<[OpenAndLoad EXCEPT !.fail = "cleanup", !.err = "same"], Attach>>]

uprobe ==
  LET Link == Get("attach_uprobe", {"skel", "loaded"}, {"links"})
  IN  [minimal EXCEPT !.steps = <<OpenAndLoad, Link, Link, Attach>>]

fentry == [steps |-> <<OpenAndLoad, Attach, Signal>>, loop |-> "signal",
           frees |-> Skel, exit |-> "negate"]

ksyscall == fentry

\* The load is checked by testing skel once more: its failure is passed over.
usdt ==
  [fentry EXCEPT !.steps =
     <<Open, [Load EXCEPT !.fail = "ignore"],
       [Get("attach_usdt", {"skel", "loaded"}, {"links"}) EXCEPT !.err = "pos"],
       Attach, SignalErrno>>]

\* -EEXIST from bpf_tc_hook_create is no failure, but err keeps it for a while.
tc ==
  [steps |-> <<OpenAndLoad,
               [Call("hook_create", {}, {"hook"}) EXCEPT !.skip = 1],
               Call("tc_attach", {"loaded"}, {"filter"}), SignalErrno>>,
   loop |-> "detach", frees |-> Skel \cup {"hook"}, exit |-> "negate"]

\* The file the dump loop writes, and the thread main joins after it.
kprobe ==
  [steps |-> <<OpenAndLoad, Attach, Signal,
               [Get("thread", {"links"}, {"thread"}) EXCEPT !.err = "same"]>>,
   loop |-> "dump", frees |-> Skel, exit |-> "negate"]

task_iter ==
  [steps |-> <<[OpenAndLoad EXCEPT !.fail = "cleanup", !.err = "same"], Attach,
               Get("iter_create", {"links"}, {"iter_fd"})>>,
   loop |-> "read", frees |-> Skel \cup {"iter_fd"}, exit |-> "clip"]

\* err = argp_parse(...); if (err) return err;
Argp == [Call("argp", {}, {}) EXCEPT !.fail = "return"]

\* Variant of Polling that does not free the ring buffer.
PollingLeaky(steps, exit) ==
  [steps |-> <<Argp>> \o steps, loop |-> "poll", frees |-> Skel, exit |-> exit]

\* What bootstrap and sockfilter have in common.
Polling(steps, exit) ==
  [steps |-> <<Argp>> \o steps, loop |-> "poll",
   frees |-> Skel \cup {"ring"}, exit |-> exit]

bootstrap == Polling(<<Open, Load, Attach, Ring>>, "clip")

sockfilter ==
  Polling(<<OpenAndLoad, Ring, Get("socket", {}, {"sock"}),
            Get("setsockopt", {"sock", "loaded"}, {})>>, "negate")

\* On two processors, each of which may be offline.
profile ==
  LET OnCpu(perf, link) ==
        <<[Get("perf_event_open", {}, {perf}) EXCEPT !.skip = 2],
          Get("attach_perf", {"loaded", perf}, {link})>>
      Cleanup(name, gets) == Get(name, {}, gets)
  IN  [steps |-> <<Call("cpu_mask", {}, {"mask"}), Cleanup("num_cpus", {}),
                   [OpenAndLoad EXCEPT !.fail = "cleanup"],
                   Cleanup("symbolizer", {"symbolizer"}),
                   Ring>>
                 \o OnCpu("perf1", "link1") \o OnCpu("perf2", "link2"),
       loop |-> "poll_only",
       frees |-> Skel \cup {"mask", "symbolizer", "ring", "perf1", "perf2",
                            "link1", "link2"},
       exit |-> "negate"]

\* The file it writes and reads is unlinked only at the very end.
benchmark_cache ==
  [steps |-> <<[Get("malloc", {}, {"buffer"}) EXCEPT !.fail = "return"],
               Get("open", {}, {"fd", "temporary"}), Get("write", {"fd"}, {}),
               Get("read", {"fd"}, {})>>,
   loop |-> "unlink", frees |-> {"buffer", "fd"}, exit |-> "negate"]

\* The Rust programs leave main with an error or a panic where a call fails, and
\* what they hold is dropped; perf events are plain numbers, which are not.
Rust(steps, loop) ==
  [steps |-> steps, loop |-> loop, exit |-> "negate",
   frees |-> Skel \cup {"uprobe", "uretprobe", "kprobe", "kretprobe", "perf",
                        "ring", "link1", "link2"}]

xdp == Rust(<<Call("rlimit", {}, {}), Call("open", {}, {"skel"}), Load,
              Call("attach_xdp", {"loaded"}, {"links"}),
              Call("set_handler", {}, {})>>, "signal")

tracecon ==
  LET AttachProbe(link) == Call("attach_probe", {"loaded"}, {link})
  IN  Rust(<<Call("rlimit", {}, {}), Call("open", {}, {"skel"}), Load,
             Call("get_symbol_address", {}, {}),
             AttachProbe("uprobe"), AttachProbe("uretprobe"),
             AttachProbe("kprobe"), AttachProbe("kretprobe"),
             Call("perf_buffer", {"loaded"}, {"perf"}),
             Call("set_handler", {}, {})>>, "poll_or_err")

\* On two processors.  Nobody looks at the results of attach_perf_event.
profile_rs ==
  LET AttachCpu(perf, link) ==
        [Call("attach_perf", {"loaded", perf}, {link}) EXCEPT !.fail = "ignore"]
  IN  Rust(<<Call("open", {}, {"skel"}), Load,
             Call("perf_event_open", {}, {"perf1"}),
             Call("perf_event_open", {}, {"perf2"}),
             AttachCpu("perf1", "link1"), AttachCpu("perf2", "link2"),
             Call("ring", {"loaded"}, {"ring"})>>, "poll_close")

Table ==
  [minimal |-> minimal, minimal_legacy |-> minimal_legacy,
   minimal_ns |-> minimal_ns, lsm |-> lsm, uprobe |-> uprobe,
   fentry |-> fentry, ksyscall |-> ksyscall, usdt |-> usdt, tc |-> tc,
   kprobe |-> kprobe, task_iter |-> task_iter, bootstrap |-> bootstrap,
   sockfilter |-> sockfilter, profile |-> profile, xdp |-> xdp,
   tracecon |-> tracecon, profile_rs |-> profile_rs,
   benchmark_cache |-> benchmark_cache]
-----------------------------------------------------------------------------
VARIABLES
  prog,     \* the program
  pc,       \* "setup", "loop", "after", "cleanup" or "exited"
  at,       \* the next call
  held,     \* resources it has
  err,      \* "unset", "zero", "neg" or "pos"
  stop,     \* a signal has been handled
  status,   \* of the process: "zero", "nonzero", or "any" from an unset err
  failed,   \* history: calls that have failed
  misuse    \* history: a call was made without what it needs

vars == <<prog, pc, at, held, err, stop, status, failed, misuse>>

P == Table[prog]
step == P.steps[at]

\* profile initialises err, the others do not.
Init ==
  /\ prog \in Programs
  /\ pc = "setup" /\ at = 1
  /\ held = {}
  /\ err = IF prog = "profile" THEN "zero" ELSE "unset"
  /\ stop = FALSE
  /\ status = "running"
  /\ failed = {}
  /\ misuse = FALSE

Advance(n) ==
  /\ at' = at + n
  /\ pc' = IF at + n > Len(P.steps) THEN "loop" ELSE "setup"

\* A call without what it needs cannot succeed.
Succeed ==
  /\ pc = "setup" /\ step.needs \subseteq held
  /\ held' = held \cup step.gets
  /\ err' = IF step.assigns THEN "zero" ELSE err
  /\ Advance(1)
  /\ UNCHANGED <<prog, stop, status, failed, misuse>>

Skip ==
  /\ pc = "setup" /\ step.skip > 0
  /\ err' = IF step.assigns THEN step.err ELSE err
  /\ Advance(step.skip)
  /\ UNCHANGED <<prog, held, stop, status, failed, misuse>>

Fail ==
  /\ pc = "setup"
  /\ failed' = failed \cup {step.call}
  /\ err' = IF step.err = "same" THEN err ELSE step.err
  /\ misuse' = (misuse \/ ~(step.needs \subseteq held))
  /\ CASE step.fail = "cleanup" -> pc' = "cleanup" /\ UNCHANGED <<at, status>>
       [] step.fail = "return" ->
            pc' = "exited" /\ status' = "nonzero" /\ UNCHANGED at
       [] step.fail = "ignore" -> Advance(1) /\ UNCHANGED status
  /\ UNCHANGED <<prog, held, stop>>

\* SIGINT reaches a program that handles it: bootstrap and sockfilter from the
\* start, the others once signal has returned.
Interrupt ==
  /\ ~stop
  /\ \/ pc = "loop" /\ P.loop \in {"signal", "detach", "dump", "poll", "poll_or_err"}
     \/ pc = "setup" /\ P.loop = "poll" /\ at > 1
  /\ stop' = TRUE
  /\ UNCHANGED <<prog, pc, at, held, err, status, failed, misuse>>

\* One round of the loops that set err: ring_buffer__poll returns the number
\* of records or an error, -EINTR becomes 0; read ends with 0 or an error.
Poll(result) ==
  /\ pc = "loop" /\ P.loop \in {"poll", "read", "poll_or_err"} /\ ~stop
  /\ result = "pos" => P.loop = "poll"
  /\ err' = result
  /\ pc' = IF result = "neg" \/ P.loop = "read" THEN "cleanup" ELSE "loop"
  /\ failed' = IF result = "neg" THEN failed \cup {"poll"} ELSE failed
  /\ UNCHANGED <<prog, at, held, stop, status, misuse>>

\* The signal arrives within ring_buffer__poll, or within the poll of tracecon,
\* whose question mark returns EINTR as any other error.
PollInterrupted ==
  /\ pc = "loop" /\ P.loop \in {"poll", "poll_or_err"} /\ stop
  /\ err' = IF P.loop = "poll" THEN "zero" ELSE "neg"
  /\ pc' = "cleanup"
  /\ UNCHANGED <<prog, at, held, stop, status, failed, misuse>>

\* profile polls until an error and keeps err, in Rust it goes on to close.
PollFails ==
  /\ pc = "loop" /\ P.loop \in {"poll_only", "poll_close"}
  /\ failed' = failed \cup {"poll"}
  /\ pc' = IF P.loop = "poll_only" THEN "cleanup" ELSE "after"
  /\ UNCHANGED <<prog, at, held, err, stop, status, misuse>>

\* kprobe opens a file in every round and returns 1 at once if it cannot.
OpenFile ==
  /\ pc = "loop" /\ P.loop = "dump"
  /\ IF "file" \in held
     THEN held' = held \ {"file"} /\ UNCHANGED <<pc, status, failed>>
     ELSE /\ ~stop
          /\ \/ held' = held \cup {"file"} /\ UNCHANGED <<pc, status, failed>>
             \/ /\ failed' = failed \cup {"fopen"}
                /\ pc' = "exited" /\ status' = "nonzero" /\ UNCHANGED held
  /\ UNCHANGED <<prog, at, err, stop, misuse>>

\* benchmark_cache has no loop; the unlink is not checked.
Finish(ok) ==
  /\ pc = "loop" /\ P.loop = "unlink"
  /\ pc' = "cleanup"
  /\ err' = "zero"
  /\ held' = IF ok THEN held \ {"temporary"} ELSE held
  /\ failed' = IF ok THEN failed ELSE failed \cup {"unlink"}
  /\ UNCHANGED <<prog, at, stop, status, misuse>>

\* Variant of LoopEnds that tests stop the wrong way round.
LoopEndsAtOnce == ~stop

\* while (!stop)
LoopEnds == stop

\* The loop sees stop.
Leave ==
  /\ pc = "loop" /\ LoopEnds /\ "file" \notin held
  /\ pc' = IF P.loop = "detach" THEN "after" ELSE "cleanup"
  /\ held' = held \ {"thread"}
  /\ UNCHANGED <<prog, at, err, stop, status, failed, misuse>>

\* bpf_tc_detach
Detach(ok) ==
  /\ pc = "after" /\ P.loop = "detach"
  /\ pc' = "cleanup"
  /\ err' = IF ok THEN "zero" ELSE "neg"
  /\ held' = IF ok THEN held \ {"filter"} ELSE held
  /\ failed' = IF ok THEN failed ELSE failed \cup {"tc_detach"}
  /\ UNCHANGED <<prog, at, stop, status, misuse>>

\* for pefd in pefds: close releases a descriptor even if it reports an error,
\* which ends main before the next one.
ClosePerf(pefd, ok) ==
  /\ pc = "after" /\ P.loop = "poll_close"
  /\ pefd \in held /\ (pefd = "perf2" => "perf1" \notin held)
  /\ held' = held \ {pefd}
  /\ err' = IF ok THEN err ELSE "neg"
  /\ failed' = IF ok THEN failed ELSE failed \cup {"close"}
  /\ pc' = IF ok /\ pefd = "perf1" THEN pc ELSE "cleanup"
  /\ UNCHANGED <<prog, at, stop, status, misuse>>

\* Variant of ExitStatus that negates err in all programs.
ExitStatusNegated(e, exit) ==
  IF e = "unset" THEN "any" ELSE IF e = "zero" THEN "zero" ELSE "nonzero"

\* return -err, or return err < 0 ? -err : 0
ExitStatus(e, exit) ==
  CASE e = "unset" -> "any"
    [] e = "zero" \/ (e = "pos" /\ exit = "clip") -> "zero"
    [] OTHER -> "nonzero"

\* Destroying the hook this program made flushes the filters on it.
Cleanup ==
  /\ pc = "cleanup"
  /\ pc' = "exited"
  /\ held' = held \ (P.frees \cup (IF "hook" \in held THEN {"filter"} ELSE {}))
  /\ status' = ExitStatus(err, P.exit)
  /\ UNCHANGED <<prog, at, err, stop, failed, misuse>>

Next ==
  \/ Succeed \/ Skip \/ Fail
  \/ Interrupt
  \/ \E result \in {"zero", "neg", "pos"} : Poll(result)
  \/ PollInterrupted \/ PollFails \/ OpenFile \/ Leave
  \/ \E ok \in BOOLEAN : Detach(ok) \/ ClosePerf("perf1", ok) \/
                         ClosePerf("perf2", ok) \/ Finish(ok)
  \/ Cleanup

\* Calls return, and a program whose loop is to end comes to that point.
Fairness ==
  /\ WF_vars(Succeed \/ Skip \/ Fail)
  /\ WF_vars(Leave \/ PollInterrupted \/ OpenFile \/ Cleanup)
  /\ WF_vars(\E ok \in BOOLEAN : Detach(ok))

Spec == Init /\ [][Next]_vars /\ Fairness
-----------------------------------------------------------------------------
\* No call is made on something an earlier call failed to provide, except by
\* usdt, which takes the test of skel for a test of the load.
CallsHaveWhatTheyNeed == misuse => prog = "usdt" /\ "load" \in failed

\* A run without failures that is stopped by Ctrl-C exits with status 0, except
\* sockfilter's if its last poll returned a number of records, for it returns
\* -err, and tracecon's, whose poll reports the interruption as an error.
CleanStopIsSuccess ==
  pc = "exited" /\ failed = {} /\ status # "zero" =>
    \/ prog = "sockfilter" /\ err = "pos"
    \/ prog = "tracecon" /\ stop

\* A run that reaches cleanup leaves nothing behind, except sockfilter's socket,
\* a tc filter on someone else's hook if signal or the detach fails, the perf
\* events of the Rust profiler if it fails before or while it closes them, and
\* the file of benchmark_cache if it could not be written, read or unlinked.
CleanupReleasesAll ==
  pc = "exited" /\ failed \cap {"stat", "fopen"} = {} =>
    \A r \in held :
      \/ r = "sock" /\ prog = "sockfilter"
      \/ r = "filter" /\ failed \cap {"signal", "tc_detach"} # {}
      \/ /\ r \in {"perf1", "perf2"} /\ prog = "profile_rs"
         /\ failed \cap {"perf_event_open", "ring", "close"} # {}
      \/ r = "temporary" /\ failed \cap {"write", "read", "unlink"} # {}

\* A failure shows in the exit status, apart from the cases where the code
\* leaves err alone: signal or pthread_create in fentry, ksyscall and kprobe,
\* the open in lsm and task_iter, the polling of both profilers and the
\* attachment of the Rust one, which may run without sampling any processor.
\* benchmark_cache does not look at what unlink returns.
FailuresAreReported ==
  pc = "exited" /\ failed # {} /\ status # "nonzero" =>
    \/ /\ prog \in {"fentry", "ksyscall", "kprobe"}
       /\ failed \subseteq {"signal", "thread"}
    \/ prog \in {"lsm", "task_iter"} /\ failed = {"open"}
    \/ prog = "profile" /\ failed = {"poll"}
    \/ prog = "profile_rs" /\ failed \subseteq {"attach_perf", "poll"}
    \/ prog = "benchmark_cache" /\ failed = {"unlink"}

\* Ctrl-C ends every program that handles it.
InterruptEndsProgram == stop ~> pc = "exited"
=============================================================================
