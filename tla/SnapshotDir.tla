---------------------------- MODULE SnapshotDir ----------------------------
(***************************************************************************)
(* The directory lru_metrics between kprobe, which dumps the access counts *)
(* into time_0, time_1, ..., and the controllers tel_wsf.py and            *)
(* get_avgscale.py, which each read the second newest file.                *)
(*                                                                         *)
(* stdio buffers what kprobe prints: at any time the file on disk holds a  *)
(* prefix of what was printed, and all of it once it is closed.  A walk    *)
(* over the map (module MapDump) may print any lines.  kprobe may end or   *)
(* be killed and start again from time_0, over the files it left.          *)
(***************************************************************************)
EXTENDS Integers, Sequences

CONSTANTS
  Lines,        \* the lines a dump may hold
  MaxLines,     \* bound on the lines of a file
  MaxFiles,     \* bound on the number of files
  MaxCleanups,  \* bound on the number of runs of cleanup.sh
  MaxRuns       \* bound on the number of runs of kprobe

ASSUME MaxFilesAssumption == MaxFiles \in Nat

VARIABLES
  disk,         \* the files of the directory, by number
  i,            \* the number of the file kprobe writes, or will write next
  file,         \* whether it has that file open
  text,         \* what it has printed to it
  cleanups,     \* history: runs of cleanup.sh
  runs,         \* history: runs of kprobe
  published     \* history: what the files closed in this run held, time_0 first

dir_vars == <<disk, i, file, text, cleanups, runs, published>>

DirTypeOK ==
  /\ DOMAIN disk \subseteq 0 .. MaxFiles
  /\ \A n \in DOMAIN disk : disk[n] \in Seq(Lines)
  /\ i \in Nat /\ runs \in Nat /\ cleanups \in Nat
  /\ file \in BOOLEAN
  /\ text \in Seq(Lines)
  /\ published \in Seq(Seq(Lines)) /\ Len(published) = i

DirInit ==
  /\ disk = <<>>
  /\ i = 0 /\ file = FALSE /\ text = <<>>
  /\ cleanups = 0 /\ runs = 1
  /\ published = <<>>

\* Files of an earlier run that this one has not opened yet.
Leftover == {n \in DOMAIN disk : n > i \/ (n = i /\ ~file)}
-----------------------------------------------------------------------------
\* fopen(time_i, "w")
OpenFile ==
  /\ ~file /\ i < MaxFiles
  /\ file' = TRUE
  /\ text' = <<>>
  /\ disk' = [n \in DOMAIN disk \cup {i} |-> IF n = i THEN <<>> ELSE disk[n]]
  /\ UNCHANGED <<i, cleanups, runs, published>>

\* fprintf of one line.  It stays in the buffer, or the buffer is flushed up to
\* some line.  Once cleanup.sh has unlinked the file this is seen by no one.
WriteLine(line, flushed) ==
  /\ file /\ Len(text) < MaxLines
  /\ text' = Append(text, line)
  /\ IF i \in DOMAIN disk
     THEN /\ flushed \in Len(disk[i]) .. Len(text')
          /\ disk' = [disk EXCEPT ![i] = SubSeq(text', 1, flushed)]
     ELSE flushed = 0 /\ UNCHANGED disk
  /\ UNCHANGED <<i, file, cleanups, runs, published>>

\* Variant of NextNumber without the increment.
NextNumberSame == i

\* i++
NextNumber == i + 1

\* fclose, which writes what is left of the buffer
CloseFile ==
  /\ file
  /\ file' = FALSE
  /\ i' = NextNumber
  /\ disk' = IF i \in DOMAIN disk THEN [disk EXCEPT ![i] = text] ELSE disk
  /\ published' = Append(published, text)
  /\ UNCHANGED <<text, cleanups, runs>>

\* kprobe ends, by SIGINT after a CloseFile or killed with a file open, whose
\* buffer is lost, and is started again.
Restart ==
  /\ runs < MaxRuns
  /\ runs' = runs + 1
  /\ i' = 0 /\ file' = FALSE /\ text' = <<>>
  /\ published' = <<>>
  /\ UNCHANGED <<disk, cleanups>>

\* rm -rf ./lru_metrics/*
Cleanup ==
  /\ cleanups < MaxCleanups
  /\ cleanups' = cleanups + 1
  /\ disk' = <<>>
  /\ UNCHANGED <<i, file, text, runs, published>>

\* Variant of SecondNewest: the oldest file.
Oldest(n) ==
  /\ n \in DOMAIN disk /\ DOMAIN disk # {n}
  /\ \A m \in DOMAIN disk : n <= m

\* Variant of SecondNewest: the listing is not sorted.
AnyListed(n) ==
  n \in DOMAIN disk /\ \E m \in DOMAIN disk : m > n

\* Entry -2 of the listing sorted by number.
SecondNewest(n) ==
  /\ n \in DOMAIN disk
  /\ \E m \in DOMAIN disk : m > n /\ \A k \in DOMAIN disk : k <= n \/ k = m
=============================================================================
