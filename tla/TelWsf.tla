------------------------------- MODULE TelWsf -------------------------------
(***************************************************************************)
(* tel_wsf.py beside kprobe: every round it reads the memory statistics    *)
(* and the second newest dump, computes a watermark scale factor from them *)
(* and appends it to watermark_scale_factor.log.  A line of a dump is the  *)
(* access count on it.                                                     *)
(***************************************************************************)
EXTENDS SnapshotDir, WatermarkPolicy

CONSTANTS
  Total,       \* MemTotal in pages
  Free,        \* values of MemAvailable in pages
  StopNumber   \* the file that ends the script: 60 in the code

ASSUME LinesAssumption == Lines \subseteq Nat \ {0}
ASSUME TotalAssumption == Total \in Nat \ {0}
ASSUME StopNumberAssumption == StopNumber \in Nat
ASSUME FreeAssumption == Free \subseteq 0 .. Total

VARIABLES
  pc,
  free_pages, max_scale_factor,
  current_file,            \* the number of the file chosen, or -1
  watermark_scale_factor,
  logged,                  \* the value last appended to the log, or -1
  doubtful,                \* history: the listing is of an earlier run's files
  seen, got,               \* history: the file of this run last read, and what
                           \* was last read
  ahead,                   \* history: files opened since the last listing
  missed                   \* history: there were two at some listing, or
                           \* cleanup.sh removed the stop file

round == <<free_pages, max_scale_factor, current_file>>
policy == <<watermark_scale_factor, logged>>
history == <<doubtful, seen, got, ahead, missed>>
vars == <<dir_vars, pc, round, policy, history>>

TypeOK ==
  /\ DirTypeOK
  /\ pc \in {"top", "read", "stopped", "no_stats", "crashed"}
  /\ free_pages \in 0 .. Total
  /\ max_scale_factor \in Int /\ watermark_scale_factor \in Int
  /\ logged \in Int
  /\ current_file \in Nat \cup {-1} /\ seen \in Nat \cup {-1}
  /\ got \in Seq(Lines)
  /\ ahead \in 0 .. 2
  /\ {doubtful, missed} \subseteq BOOLEAN

Init ==
  /\ DirInit
  /\ pc = "top"
  /\ free_pages = 0 /\ max_scale_factor = 1000
  /\ current_file = -1
  /\ watermark_scale_factor = 10
  /\ logged = -1
  /\ doubtful = FALSE
  /\ seen = -1 /\ got = <<>>
  /\ ahead = 0 /\ missed = FALSE

\* A read may show something else than a dump of this run.
Behind == Leftover # {} \/ (pc = "read" /\ doubtful)
-----------------------------------------------------------------------------
\* Variant of Stops that ends one file later.
StopsLate(n) == n = StopNumber + 1 \/ \E k \in 1 .. n : n \div 10^k = StopNumber + 1

\* "time_60" in current_file, which is also true of time_600
Stops(n) == n = StopNumber \/ \E k \in 1 .. n : n \div 10^k = StopNumber

\* The head of the loop: statistics, listing, choice of the file.
Choose(free) ==
  /\ pc = "top"
  /\ free_pages' = free
  /\ max_scale_factor' \in MaxScaleFactors(free, Total)
  /\ \/ /\ \A n \in DOMAIN disk : ~SecondNewest(n)
        /\ UNCHANGED <<pc, current_file>>
     \/ \E n \in DOMAIN disk :
          /\ SecondNewest(n)
          /\ current_file' = n
          /\ pc' = IF Stops(n) THEN "stopped" ELSE "read"
  /\ doubtful' = (Leftover # {})
  /\ ahead' = 0 /\ missed' = (missed \/ ahead = 2)
  /\ UNCHANGED <<dir_vars, policy, seen, got>>

\* get_memory_stats finds no /proc/meminfo or no MemTotal.
NoStats ==
  /\ pc = "top"
  /\ pc' = "no_stats"
  /\ UNCHANGED <<dir_vars, round, policy, history>>

\* Reading the file, the new factor and its log line.  A complete file is no
\* longer written when it is opened, so reading it in one step loses nothing.
Read ==
  /\ pc = "read" /\ current_file \in DOMAIN disk
  /\ LET access_counts == SelectSeq(disk[current_file], Sampled)
     IN  IF access_counts = <<>>
         THEN UNCHANGED policy
         ELSE /\ watermark_scale_factor' =
                   NewFactor(watermark_scale_factor, max_scale_factor,
                             WorkingSetSize(access_counts), Len(access_counts))
              /\ logged' = Clamp(watermark_scale_factor')
  /\ seen' = IF Behind THEN seen ELSE current_file
  /\ got' = disk[current_file]
  /\ pc' = "top"
  /\ UNCHANGED <<dir_vars, round, doubtful, ahead, missed>>

\* open() of a file cleanup.sh has removed since it was listed: not handled.
ReadFails ==
  /\ pc = "read" /\ current_file \notin DOMAIN disk
  /\ pc' = "crashed"
  /\ UNCHANGED <<dir_vars, round, policy, history>>

TelNext == (\E free \in Free : Choose(free)) \/ NoStats \/ Read \/ ReadFails

DirNext ==
  \/ OpenFile
     /\ ahead' = (IF ahead < 2 THEN ahead + 1 ELSE 2)
     /\ UNCHANGED <<doubtful, seen, missed>>
  \/ /\ \/ \E line \in Lines, flushed \in 0 .. MaxLines : WriteLine(line, flushed)
        \/ CloseFile
     /\ UNCHANGED <<doubtful, seen, ahead, missed>>
  \/ Cleanup
     /\ missed' = (missed \/ StopNumber \in DOMAIN disk)
     /\ UNCHANGED <<doubtful, seen, ahead>>
  \/ Restart /\ doubtful' = TRUE /\ seen' = -1 /\ UNCHANGED <<ahead, missed>>

Next == TelNext \/ (DirNext /\ UNCHANGED <<pc, round, policy, got>>)

\* The script keeps running; kprobe and the user need not do anything.
Spec == Init /\ [][Next]_vars /\ WF_vars(TelNext)
-----------------------------------------------------------------------------
\* The second newest file is a channel of whole snapshots that never goes back,
\* although the reader takes no lock and files grow between the listing and the
\* open.  Only files that an earlier run of kprobe has left spoil it: until the
\* new run reaches the newest of them, the script reads old or partial dumps.
Channel == INSTANCE SnapshotChannel
             WITH published <- published, behind <- Behind, seen <- seen,
                  got <- got
ImplementsChannel == Channel!Spec

\* The stop file is never read, and a later one only if kprobe has opened two
\* files between two listings, or cleanup.sh has removed the stop file, so that
\* time_60 was not the second newest in any.
StopFileHonoured == pc = "read" /\ current_file >= StopNumber => missed

\* A dump that has a successor is read, or a later one is, unless the script
\* ends, cleanup.sh removes it or kprobe starts again first; after a restart
\* over old dumps this holds from when the new run has passed them.
SnapshotsReachController ==
  \A n \in 0 .. MaxFiles - 2 :
    n < i /\ {n, n + 1} \subseteq DOMAIN disk /\ Leftover = {} ~>
      seen >= n \/ pc \notin {"top", "read"} \/ n \notin DOMAIN disk \/ i <= n
=============================================================================
