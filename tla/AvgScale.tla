------------------------------ MODULE AvgScale ------------------------------
(***************************************************************************)
(* get_avgscale.py: for every dump it compares, per process, the pages it  *)
(* finds with those of the dump it processed before, and moves the         *)
(* kernel's watermark scale factor by a tenth.                             *)
(*                                                                         *)
(* The directory is taken as the channel that module TelWsf shows it to    *)
(* be within one run of kprobe: the second newest file has a number that   *)
(* never falls, and its contents are complete.                             *)
(***************************************************************************)
EXTENDS Integers, FiniteSets, Sequences

CONSTANTS
  Pids,         \* processes of the workload
  Pages,        \* values of the hash that names a page in a dump
  Dumps,        \* contents of dumps: sequences of [page, pid, count]
  KernelInit,   \* the kernel's factor when the script starts
  KernelMax,    \* the largest factor the kernel accepts
  MaxFiles      \* bound on the number of the second newest file

ASSUME DumpsAssumption ==
  \A s \in Dumps : /\ Len(s) \in Nat /\ DOMAIN s = 1 .. Len(s)
                   /\ \A n \in DOMAIN s : s[n].page \in Pages /\ s[n].count \in Nat
ASSUME MaxFilesAssumption == MaxFiles \in Nat
ASSUME KernelAssumption == KernelInit \in 1 .. KernelMax /\ KernelMax \in Nat

VARIABLES
  number, contents,        \* the second newest file; -1 when there is none
  pc,
  tracked_pids,
  current_file, text,      \* the file chosen and what it holds
  current, previous,       \* page_access_counts: pid -> page -> count
  todo,                    \* tracked pids not analysed yet
  last_processed_file,
  watermark_scale_factor,
  kernel,                  \* /proc/sys/vm/watermark_scale_factor
  outcome,                 \* history: how the last write ended
  latest                   \* history: the file of the last round

dir_vars == <<number, contents>>
vars == <<dir_vars, pc, tracked_pids, current_file, text, current, previous,
          todo, last_processed_file, watermark_scale_factor, kernel, outcome,
          latest>>

NoPages == [p \in Pids |-> <<>>]

TypeOK ==
  /\ number \in -1 .. MaxFiles /\ current_file \in -1 .. MaxFiles
  /\ last_processed_file \in -1 .. MaxFiles
  /\ pc \in {"top", "read", "adjust", "crashed"}
  /\ tracked_pids \subseteq Pids /\ todo \subseteq tracked_pids
  /\ \A t \in {current, previous} : \A p \in Pids :
       DOMAIN t[p] \subseteq Pages /\ \A g \in DOMAIN t[p] : t[p][g] \in Nat
  /\ watermark_scale_factor \in Nat
  /\ kernel \in 1 .. KernelMax
  /\ outcome \in {"none", "ok", "refused"}
  /\ latest \in -1 .. MaxFiles

Init ==
  /\ number = -1 /\ contents = <<>>
  /\ pc = "top"
  /\ tracked_pids = {} /\ todo = {}
  /\ current_file = -1 /\ text = <<>>
  /\ current = NoPages /\ previous = NoPages
  /\ last_processed_file = -1
  /\ watermark_scale_factor = 10
  /\ kernel = KernelInit
  /\ outcome = "none"
  /\ latest = -1
-----------------------------------------------------------------------------
\* The line of the dump that counts for a page of a process: the last one.
Parse(lines) ==
  [p \in Pids |->
     LET Of(g) == {n \in DOMAIN lines : lines[n].pid = p /\ lines[n].page = g}
     IN  [g \in {lines[n].page : n \in {m \in DOMAIN lines : lines[m].pid = p}}
            |-> lines[CHOOSE n \in Of(g) : \A m \in Of(g) : m <= n].count]]

NewPages(p) == DOMAIN current[p] \ DOMAIN previous[p]

\* Pages of both dumps whose count has grown.
RepeatedPages(p) ==
  {g \in DOMAIN current[p] \cap DOMAIN previous[p] :
     current[p][g] > previous[p][g]}

\* churn > 2; the churn is 0 if no page is repeated.
HighChurn(p) ==
  /\ RepeatedPages(p) # {}
  /\ Cardinality(NewPages(p)) > 2 * Cardinality(RepeatedPages(p))

\* Five times numpy's 80th percentile of the counts of the pages: the value at
\* position 0.8 * (n - 1), interpolated between its neighbours.
Percentile80(table, pages) ==
  LET n == Cardinality(pages)
      Below(v) == Cardinality({g \in pages : table[g] <= v})
      At(k) == CHOOSE v \in {table[g] : g \in pages} :
                 Below(v) >= k /\ Below(v - 1) < k
      q == (4 * (n - 1)) \div 5
      r == (4 * (n - 1)) % 5
  IN  IF r = 0 THEN 5 * At(q + 1) ELSE (5 - r) * At(q + 1) + r * At(q + 2)

\* Variant of Raise that rounds up.
RaiseUp(factor) == (10 * factor + 8) \div 9

Raise(factor) == (10 * factor) \div 9

Lower(factor) == (9 * factor) \div 10

\* The factors that can follow.  A ratio of exactly 1.2 or 0.8 may come out on
\* either side in doubles.
Adjusted(p) ==
  LET new == Percentile80(current[p], NewPages(p))
      repeated == Percentile80(current[p], RepeatedPages(p))
      w == watermark_scale_factor
  IN  (IF 5 * new >= 6 * repeated THEN {Raise(w)} ELSE {}) \cup
      (IF 5 * new <= 4 * repeated THEN {Lower(w)} ELSE {}) \cup
      (IF 5 * new \in 4 * repeated .. 6 * repeated THEN {w} ELSE {})
-----------------------------------------------------------------------------
\* kprobe closes the newest file, of contents s, and opens the next one.
Publish(s) ==
  /\ number < MaxFiles
  /\ number' = number + 1
  /\ contents' = s
  /\ UNCHANGED <<pc, tracked_pids, current_file, text, current, previous, todo,
                 last_processed_file, watermark_scale_factor, kernel, outcome,
                 latest>>

\* The head of the loop: the processes alive, the listing, the choice.
Choose(alive) ==
  /\ pc = "top"
  /\ IF alive = {} \/ number = -1 \/ number = last_processed_file
     THEN UNCHANGED <<pc, tracked_pids, current_file, text>>
     ELSE /\ pc' = "read"
          /\ tracked_pids' = alive
          /\ current_file' = number /\ text' = contents
  /\ UNCHANGED <<dir_vars, current, previous, todo, last_processed_file,
                 watermark_scale_factor, kernel, outcome, latest>>

Read ==
  /\ pc = "read"
  /\ current' = [p \in Pids |->
                   IF p \in tracked_pids THEN Parse(text)[p] ELSE <<>>]
  /\ todo' = tracked_pids
  /\ text' = <<>>
  /\ pc' = "adjust"
  /\ UNCHANGED <<dir_vars, tracked_pids, current_file, previous,
                 last_processed_file, watermark_scale_factor, kernel, outcome,
                 latest>>

\* cleanup.sh removed the file after it was listed: open() is not guarded.
ReadFails ==
  /\ pc = "read"
  /\ pc' = "crashed"
  /\ UNCHANGED <<dir_vars, tracked_pids, current_file, text, current, previous,
                 todo, last_processed_file, watermark_scale_factor, kernel,
                 outcome, latest>>

\* Variant of TooSmall that lets 0 pass.
TooSmallNegative(factor) == factor < 0

\* if scale_factor < 1: return
TooSmall(factor) == factor < 1

\* update_kernel_watermark_scale_factor.  Without root the open is refused;
\* the kernel answers EINVAL above KernelMax, which nothing catches.
UpdateKernel(factor, root) ==
  \/ TooSmall(factor) /\ UNCHANGED <<kernel, outcome, pc>>
  \/ ~TooSmall(factor) /\ ~root /\ outcome' = "refused" /\ UNCHANGED <<kernel, pc>>
  \/ ~TooSmall(factor) /\ factor <= KernelMax /\ root
       /\ kernel' = factor /\ outcome' = "ok" /\ UNCHANGED pc
  \/ factor > KernelMax /\ root
       /\ pc' = "crashed" /\ UNCHANGED <<kernel, outcome>>

\* Variant of Written: the factor from before the change.
WrittenBefore(new) == watermark_scale_factor

\* The factor that is passed on.
Written(new) == new

\* The analysis of one process.
Adjust(p, root) ==
  /\ pc = "adjust" /\ p \in todo
  /\ todo' = todo \ {p}
  /\ IF HighChurn(p)
     THEN /\ watermark_scale_factor' \in Adjusted(p)
          /\ UpdateKernel(Written(watermark_scale_factor'), root)
     ELSE UNCHANGED <<pc, watermark_scale_factor, kernel, outcome>>
  /\ UNCHANGED <<dir_vars, tracked_pids, current_file, text, current, previous,
                 last_processed_file, latest>>

\* Variant of Processed that does not remember the file.
ProcessedForgotten == last_processed_file

\* last_processed_file = current_file
Processed == current_file

\* The end of the round.  What it leaves in current_page_access_counts and
\* tracked_pids is not read again.
Finish ==
  /\ pc = "adjust" /\ todo = {}
  /\ previous' = current
  /\ current' = NoPages /\ tracked_pids' = {}
  /\ last_processed_file' = Processed
  /\ latest' = current_file
  /\ pc' = "top"
  /\ UNCHANGED <<dir_vars, current_file, text, todo, watermark_scale_factor,
                 kernel, outcome>>

Next ==
  \/ \E s \in Dumps : Publish(s)
  \/ \E alive \in SUBSET Pids : Choose(alive)
  \/ Read \/ ReadFails
  \/ \E p \in Pids, root \in BOOLEAN : Adjust(p, root)
  \/ Finish

Spec == Init /\ [][Next]_vars
-----------------------------------------------------------------------------
\* int(8 * 10/9) is 8: a factor that has fallen to 8 or below never rises
\* again, however the ratio of the percentiles develops.
SmallNeverGrows ==
  [][watermark_scale_factor <= 8 =>
       watermark_scale_factor' <= watermark_scale_factor]_vars

\* If the last write succeeded the kernel has the script's factor; when the
\* factor has collapsed to 0 the kernel stays at 1.
KernelFollows ==
  outcome = "ok" /\ pc # "crashed" =>
    kernel = IF watermark_scale_factor = 0 THEN 1 ELSE watermark_scale_factor

\* Within a run of kprobe no dump is processed twice, and none after a later one.
ProcessedInOrder ==
  [][pc = "adjust" /\ pc' = "top" => current_file > latest]_vars
=============================================================================
