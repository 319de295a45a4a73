----------------------------- MODULE BenchFiles -----------------------------
(***************************************************************************)
(* The bursts of benchmark_file.c: generate_files creates and maps a row   *)
(* of files and then unmaps, closes and deletes them.  Each system call    *)
(* may fail; the loop goes on with the next file.  Descriptors are small   *)
(* numbers the kernel gives out again, lowest first, once they are closed. *)
(***************************************************************************)
EXTENDS BenchStats

CONSTANTS
  FILES_PER_ITERATION, BURSTS, ITERATIONS,
  MaxFds   \* descriptors the process may have

ASSUME FilesAssumption == FILES_PER_ITERATION \in Nat /\ MaxFds \in Nat

Files == 1 .. FILES_PER_ITERATION

VARIABLES
  burst, file_index,
  fds, mmaps,     \* the local arrays fds and buffers, the latter as # NULL
  open,           \* the kernel's descriptors: number -> file
  mapped,         \* files mapped
  dir,            \* files in the directory
  stuck,          \* history: files whose munmap has failed
  kept,           \* history: files whose creation or deletion failed last time
  foreign         \* history: a descriptor of another file was closed

kernel == <<open, mapped, dir>>
history == <<stuck, kept, foreign>>
files == <<burst, file_index, fds, mmaps, kernel, history>>

\* The array fds is not initialised: every slot is written before it is read.
FilesInit ==
  /\ burst = 0 /\ file_index = 1
  /\ fds = [f \in Files |-> -1] /\ mmaps = [f \in Files |-> FALSE]
  /\ open = <<>> /\ mapped = {} /\ dir = {}
  /\ stuck = {} /\ kept = {} /\ foreign = FALSE
-----------------------------------------------------------------------------
FreeFds == (0 .. MaxFds - 1) \ DOMAIN open

\* open() of the next file fails.
OpenFails ==
  /\ pc = "create" /\ file_index <= FILES_PER_ITERATION
  /\ fds' = [fds EXCEPT ![file_index] = -1]
  /\ file_index' = file_index + 1
  /\ UNCHANGED <<results, pc, burst, mmaps, kernel, history>>

\* Variant of FdAfterFailure that leaves the closed descriptor in the array.
FdAfterFailureKept == Min(FreeFds)

\* fds[file_index] = -1 behind close()
FdAfterFailure == -1

\* ftruncate() or mmap() fails: the descriptor is closed, the file stays.
CreateFails ==
  /\ pc = "create" /\ file_index <= FILES_PER_ITERATION /\ FreeFds # {}
  /\ fds' = [fds EXCEPT ![file_index] = FdAfterFailure]
  /\ dir' = dir \cup {file_index}
  /\ kept' = kept \cup {file_index}
  /\ file_index' = file_index + 1
  /\ UNCHANGED <<results, pc, burst, mmaps, open, mapped, stuck, foreign>>

Create ==
  /\ pc = "create" /\ file_index <= FILES_PER_ITERATION /\ FreeFds # {}
  /\ fds' = [fds EXCEPT ![file_index] = Min(FreeFds)]
  /\ mmaps' = [mmaps EXCEPT ![file_index] = TRUE]
  /\ open' = [fd \in DOMAIN open \cup {Min(FreeFds)} |->
               IF fd = Min(FreeFds) THEN file_index ELSE open[fd]]
  /\ mapped' = mapped \cup {file_index}
  /\ dir' = dir \cup {file_index}
  /\ file_index' = file_index + 1
  /\ UNCHANGED <<results, pc, burst, history>>

\* The second loop follows the first.
Created ==
  /\ pc = "create" /\ file_index = FILES_PER_ITERATION + 1
  /\ pc' = "release" /\ file_index' = 1
  /\ UNCHANGED <<results, burst, fds, mmaps, kernel,
                 history>>

\* Variant of Closes for a descriptor that is closed only after the munmap.
ClosesUnmapped(f, munmap_ok) == fds[f] # -1 /\ munmap_ok

\* if (fds[file_index] != -1)
Closes(f, munmap_ok) == fds[f] # -1

\* munmap, close and unlink of the next file.  A close of a number that is not
\* in use does nothing.
Release(munmap_ok, unlink_ok) ==
  /\ pc = "release" /\ file_index <= FILES_PER_ITERATION
  /\ LET f == file_index
         fd == fds[f]
         closes == Closes(f, munmap_ok)
     IN  /\ mapped' = IF mmaps[f] /\ munmap_ok THEN mapped \ {f} ELSE mapped
         /\ stuck' = IF mmaps[f] /\ ~munmap_ok THEN stuck \cup {f} ELSE stuck
         /\ open' = IF closes THEN Restrict(open, DOMAIN open \ {fd}) ELSE open
         /\ dir' = IF closes /\ unlink_ok THEN dir \ {f} ELSE dir
         /\ kept' = IF ~closes THEN kept
                    ELSE IF unlink_ok THEN kept \ {f} ELSE kept \cup {f}
         /\ foreign' = (foreign \/ (fd \in DOMAIN open /\ open[fd] # f))
  /\ file_index' = file_index + 1
  /\ UNCHANGED <<results, pc, burst, fds, mmaps>>

\* generate_files returns: its arrays are gone.  main calls it again, and takes
\* the time after BURSTS calls.
Return(latency) ==
  /\ pc = "release" /\ file_index = FILES_PER_ITERATION + 1
  /\ file_index' = 1
  /\ fds' = [f \in Files |-> -1] /\ mmaps' = [f \in Files |-> FALSE]
  /\ IF burst + 1 < BURSTS
     THEN burst' = burst + 1 /\ UNCHANGED results
     ELSE burst' = 0 /\ Measure(latency)
  /\ pc' = IF Len(latencies') = ITERATIONS THEN "average" ELSE "create"
  /\ UNCHANGED <<kernel, history>>

ReportAverage ==
  /\ pc = "average"
  /\ average' = calculate_average(latencies)
  /\ pc' = "averaged"
  /\ UNCHANGED <<latencies, samples, std_dev, median, p75, p99, files>>

FilesNext ==
  \/ OpenFails \/ CreateFails \/ Create \/ Created
  \/ \E munmap_ok, unlink_ok \in BOOLEAN : Release(munmap_ok, unlink_ok)
  \/ \E l \in Latencies : Return(l)
  \/ ReportAverage
-----------------------------------------------------------------------------
\* Whatever calls failed, a burst starts with all descriptors free, no file
\* mapped but those munmap failed for, and no file in the directory but those
\* that could not be set up or deleted when they were last tried: failures of
\* one burst do not add up over the sixty.
BurstsStartClean ==
  pc = "create" /\ file_index = 1 =>
    DOMAIN open = {} /\ mapped \subseteq stuck /\ dir \subseteq kept

\* A descriptor is closed by the file it was opened for, although the numbers
\* of files whose setup failed are given out again within the burst.
ClosesOwnDescriptors == ~foreign
=============================================================================
