---------------------------- MODULE PidReceiver ----------------------------
(***************************************************************************)
(* The feed of process ids: workload.sh truncates pids.txt and appends the *)
(* pids of the fio jobs it starts; the pid_receiver thread of kprobe.c     *)
(* polls the file from the position it last reached and registers what it  *)
(* reads in pid_map; cleanup.sh removes the file.                          *)
(*                                                                         *)
(* A line is the number on it, or Blank.  File positions are in bytes, so  *)
(* that a position kept across a truncation can fall inside a line, whose  *)
(* remaining digits sscanf then reads as another number.  The file stays   *)
(* below one stdio buffer, so a read returns the rest of the file.         *)
(***************************************************************************)
EXTENDS Integers, FiniteSets, Sequences, Functions, KprobeStop

CONSTANTS
  Pids,       \* pids the kernel may give to fio processes
  MaxPids,    \* max_entries of pid_map
  Jobs,       \* fio commands one workload.sh starts
  MaxRuns,    \* bound on the number of times workload.sh is started
  Leftover    \* what pids.txt may hold when kprobe starts: a set of files

ASSUME MaxPidsAssumption == MaxPids \in Nat \ {0}
ASSUME PidsAssumption == Pids \subseteq 0 .. 999
ASSUME JobsAssumption == Jobs \in Nat
ASSUME LeftoverAssumption == Leftover \subseteq Seq(-1 .. 999)

Blank == -1
NoFile == -1

VARIABLES
  inode,      \* the contents of every pids.txt there has been, as lines
  path,       \* the one the name pids.txt refers to, or NoFile
  runs,       \* workload.sh runs started
  jobs,       \* fio commands the current run has still to start
  main_pid,   \* the fio process whose children are not listed yet, or Blank
  rpc,        \* where pid_receiver is
  fd,         \* the file it has open
  offset,     \* the position of that file descriptor
  buf,        \* lines read and not yet parsed
  file_pos,
  pid_map,
  listed,     \* history: every pid written to the file
  refused,    \* history: every pid pid_map had no room for
  restarted   \* history: workload.sh has started a new list after the receiver
              \* had read of an older one, or while it had a removed one open

writer_vars == <<runs, jobs, main_pid, restarted>>
reader_vars == <<rpc, fd, offset, buf, file_pos, pid_map, refused>>
vars == <<inode, path, writer_vars, reader_vars, stop, listed>>

\* Bytes of the lines: a newline each, and the digits of the numbers.
Size(lines) ==
  LET AtLeast(n) == Cardinality({i \in DOMAIN lines : lines[i] >= n})
  IN  Len(lines) + AtLeast(0) + AtLeast(10) + AtLeast(100)

\* The position where line i ends
End(lines, i) == Size(SubSeq(lines, 1, i))

\* What is left of a line of which only the last n bytes are read.
Cut(line, n) == IF n = 1 THEN Blank ELSE line % (10^(n - 1))

\* Line i as it is read from byte position pos on
Rest(lines, pos, i) ==
  IF End(lines, i - 1) >= pos THEN lines[i] ELSE Cut(lines[i], End(lines, i) - pos)

\* The number of lines that end before byte position pos
Skipped(lines, pos) == Cardinality({i \in DOMAIN lines : End(lines, i) <= pos})

\* The lines fgets returns from byte position pos on.
LinesFrom(lines, pos) ==
  [i \in 1 .. Len(lines) - Skipped(lines, pos) |->
     Rest(lines, pos, i + Skipped(lines, pos))]

File == inode[path]

Init ==
  /\ \E f \in Leftover : inode = <<f>>
  /\ path = IF inode[1] = <<>> THEN NoFile ELSE 1
  /\ runs = 0 /\ jobs = 0 /\ main_pid = Blank
  /\ rpc = "open" /\ fd = NoFile /\ offset = 0 /\ buf = <<>> /\ file_pos = 0
  /\ pid_map = {} /\ refused = {}
  /\ stop = FALSE /\ restarted = FALSE
  /\ listed = Range(inode[1]) \ {Blank}
-----------------------------------------------------------------------------
(***************************************************************************)
(* workload.sh and cleanup.sh                                              *)
(***************************************************************************)

\* echo "" > pids.txt: truncates the file, or creates it.
StartWorkload ==
  /\ runs < MaxRuns /\ jobs = 0
  /\ runs' = runs + 1
  /\ jobs' = Jobs
  /\ restarted' = \/ restarted \/ file_pos > 0 \/ offset > 0
                   \/ fd \notin {NoFile, path}
  /\ IF path = NoFile
     THEN inode' = Append(inode, <<Blank>>) /\ path' = Len(inode) + 1
     ELSE inode' = [inode EXCEPT ![path] = <<Blank>>] /\ UNCHANGED path
  /\ UNCHANGED <<main_pid, reader_vars, stop, listed>>

\* echo "$fio_pid" >> pids.txt
ListMain(p) ==
  /\ jobs > 0 /\ main_pid = Blank
  /\ main_pid' = p
  /\ inode' = [inode EXCEPT ![path] = Append(@, p)]
  /\ listed' = listed \cup {p}
  /\ UNCHANGED <<path, runs, jobs, restarted, reader_vars, stop>>

\* echo "$fio_child_pids" >> pids.txt: a blank line when there is none.
ListChildren(children) ==
  /\ main_pid # Blank
  /\ main_pid' = Blank
  /\ jobs' = jobs - 1
  /\ inode' = [inode EXCEPT ![path] =
                 @ \o IF children = <<>> THEN <<Blank>> ELSE children]
  /\ listed' = listed \cup Range(children)
  /\ UNCHANGED <<path, runs, restarted, reader_vars, stop>>

\* rm ./vm_files/pids.txt, between workloads
Cleanup ==
  /\ jobs = 0 /\ path # NoFile
  /\ path' = NoFile
  /\ UNCHANGED <<inode, writer_vars, reader_vars, stop, listed>>

\* SIGINT reaches kprobe.
Interrupt ==
  /\ sig_int
  /\ UNCHANGED <<inode, path, writer_vars, reader_vars, listed>>
-----------------------------------------------------------------------------
(***************************************************************************)
(* pid_receiver                                                            *)
(***************************************************************************)

\* Variant of SeekTo that seeks one byte too far.
SeekToPast == file_pos + 1

\* fseek(file, file_pos, SEEK_SET)
SeekTo == file_pos

\* fopen and fseek.  Without a file the thread sleeps and tries again.
Open ==
  /\ rpc = "open" /\ ~stop /\ path # NoFile
  /\ rpc' = "read"
  /\ fd' = path
  /\ offset' = SeekTo
  /\ UNCHANGED <<inode, path, writer_vars, buf, file_pos, pid_map, refused,
                 stop, listed>>

\* fgets on an empty buffer: read the rest of the file.
Fill ==
  /\ rpc = "read" /\ buf = <<>> /\ offset < Size(inode[fd])
  /\ buf' = LinesFrom(inode[fd], offset)
  /\ offset' = Size(inode[fd])
  /\ UNCHANGED <<inode, path, writer_vars, rpc, fd, file_pos, pid_map, refused,
                 stop, listed>>

\* sscanf of the next line and bpf_map__update_elem.
AddPid ==
  /\ rpc = "read" /\ buf # <<>>
  /\ buf' = Tail(buf)
  /\ LET p == Head(buf)
         room == p \in pid_map \/ Cardinality(pid_map) < MaxPids
     IN  /\ pid_map' = IF p # Blank /\ room THEN pid_map \cup {p} ELSE pid_map
         /\ refused' = IF p = Blank \/ room THEN refused ELSE refused \cup {p}
  /\ UNCHANGED <<inode, path, writer_vars, rpc, fd, offset, file_pos, stop,
                 listed>>

\* Variant of AfterEof that ends the thread at the first end of file.
AfterEofDone == "done"

AfterEof == "open"

\* End of file: ftell, fclose, usleep.
Eof ==
  /\ rpc = "read" /\ buf = <<>> /\ offset >= Size(inode[fd])
  /\ file_pos' = offset
  /\ rpc' = AfterEof
  /\ fd' = NoFile
  /\ offset' = 0
  /\ UNCHANGED <<inode, path, writer_vars, buf, pid_map, refused, stop, listed>>

\* Variant of Stopped that looks at stop only when the file is there.
StoppedWithFile == stop /\ path # NoFile

\* while (!stop)
Stopped == stop

Exit ==
  /\ rpc = "open" /\ Stopped
  /\ rpc' = "done"
  /\ UNCHANGED <<inode, path, writer_vars, fd, offset, buf, file_pos, pid_map,
                 refused, stop, listed>>

Receiver == Open \/ Fill \/ AddPid \/ Eof \/ Exit

Next ==
  \/ StartWorkload
  \/ \E p \in Pids : ListMain(p)
  \/ \E children \in {<<>>} \cup {<<p>> : p \in Pids} : ListChildren(children)
  \/ Cleanup
  \/ Interrupt
  \/ Receiver

\* The thread is scheduled: it is never starved for ever.
Spec == Init /\ [][Next]_vars /\ WF_vars(Receiver)
-----------------------------------------------------------------------------
\* The receiver registers only pids that were listed in the file: the position
\* it keeps never makes it read a part of a line as another number, unless
\* workload.sh truncated or recreated the file while it had an older one.
TrackedWereListed == ~restarted => pid_map \subseteq listed

\* "Read any new lines that were added": a pid in the file is registered sooner
\* or later, unless the map is full, the program is stopped, the list is removed
\* or it was begun anew under the position saved from an older one.
ListedBecomesTracked ==
  \A p \in Pids : path # NoFile /\ p \in Range(File) ~>
    \/ p \in pid_map \cup refused
    \/ stop \/ restarted
    \/ path = NoFile \/ p \notin Range(File)

\* After SIGINT the thread ends, so pthread_join in main returns.
ShutdownCompletes == stop ~> rpc = "done"
=============================================================================
