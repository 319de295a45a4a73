---------------------------- MODULE TelWsfProofs ----------------------------
(***************************************************************************)
(* The directory of dumps, read by tel_wsf.py, implements SnapshotChannel, *)
(* for any number of dumps, lines, runs of kprobe and of cleanup.sh.       *)
(*                                                                         *)
(* Two facts carry the argument.  What lies below i was closed in this run *)
(* and holds what was published.  And a dump that was read keeps being     *)
(* guarded: there are two files at or above it, or no file below it, so    *)
(* the second newest is never an older one.                                *)
(***************************************************************************)
EXTENDS TelWsf, SequenceTheorems, TLAPS

\* The second newest file cannot be one before n.
Guarded(n) ==
  \/ \A a \in DOMAIN disk : a >= n
  \/ \E a, b \in DOMAIN disk : a # b /\ a >= n /\ b >= n

DirOK ==
  /\ i \in Nat /\ file \in BOOLEAN
  /\ text \in Seq(Lines)
  /\ DOMAIN disk \subseteq Nat
  /\ \A n \in DOMAIN disk : disk[n] \in Seq(Lines)
  /\ published \in Seq(Seq(Lines)) /\ Len(published) = i
  /\ \A n \in DOMAIN disk : n < i => disk[n] = published[n + 1]

ReaderOK ==
  /\ got \in Seq(Lines)
  /\ doubtful \in BOOLEAN
  /\ seen \in Int /\ seen < i /\ Guarded(seen)
  /\ pc = "read" => current_file \in Nat
  /\ pc = "read" /\ ~doubtful =>
       /\ Leftover = {}
       /\ seen <= current_file /\ current_file < i
       /\ Guarded(current_file)

IInv == DirOK /\ ReaderOK
-----------------------------------------------------------------------------
\* No files, nothing read.
LEMMA InitIInv == Init => IInv
<1> SUFFICES ASSUME Init PROVE IInv
  OBVIOUS
<1>1. DOMAIN disk = {}
  BY DEF Init, DirInit
<1>2. <<>> \in Seq(Lines) /\ <<>> \in Seq(Seq(Lines)) /\ Len(<<>>) = 0
  OBVIOUS
<1>3. DirOK
  <2>1. /\ i = 0 /\ file = FALSE /\ text = <<>> /\ published = <<>>
    BY DEF Init, DirInit
  <2> QED
    BY <1>1, <1>2, <2>1, Zenon DEF DirOK
<1>4. ReaderOK
  <2>1. /\ i = 0 /\ got = <<>> /\ doubtful = FALSE /\ seen = -1 /\ pc = "top"
    BY DEF Init, DirInit
  <2>2. Guarded(seen)
    BY <1>1 DEF Guarded
  <2>3. doubtful \in BOOLEAN
    BY <2>1, Zenon
  <2>4. seen \in Int /\ seen < i
    BY <2>1
  <2> QED
    BY <1>2, <2>1, <2>2, <2>3, <2>4 DEF ReaderOK
<1> QED
  BY <1>3, <1>4 DEF IInv

\* The second newest file is not before one that is guarded, and is guarded.
LEMMA SecondNewestGuarded ==
  ASSUME DirOK, NEW s \in Int, Guarded(s),
         NEW n \in DOMAIN disk, SecondNewest(n)
  PROVE  n \in Nat /\ s <= n /\ Guarded(n)
<1>1. PICK m \in DOMAIN disk : m > n /\ \A k \in DOMAIN disk : k <= n \/ k = m
  BY DEF SecondNewest
<1>2. DOMAIN disk \subseteq Nat
  BY DEF DirOK
<1>3. Guarded(n)
  BY <1>1, <1>2 DEF Guarded
<1>4. CASE \A a \in DOMAIN disk : a >= s
  BY <1>2, <1>3, <1>4
<1>5. CASE \E a, b \in DOMAIN disk : a # b /\ a >= s /\ b >= s
  <2>1. PICK a, b \in DOMAIN disk : a # b /\ a >= s /\ b >= s
    BY <1>5
  <2>2. a <= n \/ b <= n
    BY <1>1, <2>1
  <2> QED
    BY <1>2, <1>3, <2>1, <2>2
<1> QED
  BY <1>4, <1>5 DEF Guarded
-----------------------------------------------------------------------------
\* What a step of kprobe or cleanup.sh that is not a restart does to the
\* directory: what is left over shrinks, numbers grow, guards stay.
DirStep ==
  /\ DirOK'
  /\ Leftover' \subseteq Leftover
  /\ i <= i'
  /\ \A n \in Int : n < i /\ Guarded(n) => Guarded(n)'

\* kprobe starts a file.
LEMMA OpenFileOK == ASSUME DirOK, OpenFile PROVE DirStep
<1>1. DOMAIN disk' = DOMAIN disk \cup {i}
  BY DEF OpenFile
<1>2. DirOK'
  BY <1>1 DEF OpenFile, DirOK
<1> QED
  BY <1>1, <1>2 DEF OpenFile, DirOK, Leftover, Guarded, DirStep

\* kprobe prints a line.
LEMMA WriteLineOK ==
  ASSUME DirOK, NEW line \in Lines, NEW flushed \in Nat, WriteLine(line, flushed)
  PROVE  DirStep
<1>1. DOMAIN disk' = DOMAIN disk
  BY DEF WriteLine
<1>2. text' \in Seq(Lines) /\ Len(text') = Len(text) + 1
  BY DEF WriteLine, DirOK
<1>3. ASSUME NEW n \in DOMAIN disk
      PROVE  disk'[n] \in Seq(Lines) /\ (n < i => disk'[n] = disk[n])
  <2>1. CASE i \in DOMAIN disk /\ n = i
    <3>1. flushed \in Len(disk[i]) .. Len(text') /\ disk'[n] = SubSeq(text', 1, flushed)
      BY <2>1 DEF WriteLine
    <3>2. \A k \in 1 .. flushed : text'[k] \in Lines
      BY <1>2, <3>1
    <3>3. disk'[n] \in Seq(Lines)
      BY <1>2, <3>1, <3>2
    <3> QED
      BY <2>1, <3>3 DEF DirOK
  <2>2. CASE ~(i \in DOMAIN disk /\ n = i)
    BY <2>2 DEF WriteLine, DirOK
  <2> QED
    BY <2>1, <2>2
<1>4. DirOK'
  BY <1>1, <1>2, <1>3 DEF WriteLine, DirOK
<1> QED
  BY <1>1, <1>4 DEF WriteLine, DirOK, Leftover, Guarded, DirStep

\* kprobe closes a file: it holds what is published.
LEMMA CloseFileOK ==
  ASSUME DirOK, CloseFile
  PROVE  DirStep /\ Leftover' = Leftover
<1>1. DOMAIN disk' = DOMAIN disk
  BY DEF CloseFile
<1>2. /\ i' = i + 1 /\ file /\ ~file' /\ text' = text
      /\ published' = Append(published, text)
  BY DEF CloseFile, NextNumber
<1>3. /\ published' \in Seq(Seq(Lines)) /\ Len(published') = i'
      /\ published'[i + 1] = text
      /\ \A n \in Nat : n < i => published'[n + 1] = published[n + 1]
  BY <1>2 DEF DirOK
<1>4. \A n \in DOMAIN disk : disk'[n] = IF n = i THEN text ELSE disk[n]
  BY DEF CloseFile
<1>5. DirOK'
  <2>1. ASSUME NEW n \in DOMAIN disk
        PROVE  /\ disk'[n] \in Seq(Lines)
               /\ n < i' => disk'[n] = published'[n + 1]
    <3>1. n \in Nat /\ i \in Nat /\ (n < i' => n = i \/ n < i)
      BY <1>2 DEF DirOK
    <3> QED
      BY <1>3, <1>4, <3>1 DEF DirOK
  <2>2. i' \in Nat /\ text' \in Seq(Lines)
    BY <1>2 DEF DirOK
  <2>3. file' \in BOOLEAN
    BY Zenon DEF CloseFile
  <2> QED
    BY <1>1, <1>3, <2>1, <2>2, <2>3 DEF DirOK
<1>6. Leftover' = Leftover
  BY <1>1, <1>2 DEF Leftover, DirOK
<1> QED
  BY <1>1, <1>2, <1>5, <1>6, SMTT(30) DEF DirOK, Guarded, DirStep

\* cleanup.sh removes the files.
LEMMA CleanupOK == ASSUME DirOK, Cleanup PROVE DirStep
<1>1. DOMAIN disk' = {}
  BY DEF Cleanup
<1> QED
  BY <1>1 DEF Cleanup, DirOK, Leftover, Guarded, DirStep
-----------------------------------------------------------------------------
\* A step of the directory that is not a restart keeps what the reader relies on.
LEMMA DirStepIInv ==
  ASSUME IInv, DirStep, UNCHANGED <<pc, current_file, got, doubtful, seen>>
  PROVE  IInv'
<1>1. seen < i' /\ Guarded(seen)'
  BY DEF IInv, ReaderOK, DirOK, DirStep
<1>2. ASSUME pc = "read", ~doubtful
      PROVE  Leftover' = {} /\ current_file < i' /\ Guarded(current_file)'
  BY <1>2 DEF IInv, ReaderOK, DirOK, DirStep
<1> QED
  BY <1>1, <1>2 DEF IInv, ReaderOK, DirStep

\* kprobe starts again.
LEMMA RestartIInv ==
  ASSUME IInv, Restart, doubtful' = TRUE, seen' = -1,
         UNCHANGED <<pc, current_file, got>>
  PROVE  IInv'
<1>1. DirOK'
  <2>1. i' = 0 /\ text' = <<>> /\ published' = <<>> /\ disk' = disk
    BY DEF Restart
  <2>2. file' \in BOOLEAN
    BY Zenon DEF Restart
  <2> QED
    BY <2>1, <2>2 DEF IInv, DirOK
<1>2. seen' \in Int /\ seen' < i' /\ Guarded(seen)'
  BY DEF Restart, IInv, DirOK, Guarded
<1>3. doubtful' \in BOOLEAN /\ doubtful'
  OBVIOUS
<1> QED
  BY <1>1, <1>2, <1>3 DEF IInv, ReaderOK

\* tel_wsf.py picks a file.
LEMMA ChooseIInv ==
  ASSUME IInv, NEW free, Choose(free)
  PROVE  IInv'
<1>1. DirOK' /\ Leftover' = Leftover /\ i' = i /\ seen' = seen
  BY DEF Choose, dir_vars, IInv, DirOK, Leftover
<1>2. \A n : Guarded(n)' <=> Guarded(n)
  BY DEF Choose, dir_vars, Guarded
<1>3. doubtful' \in BOOLEAN /\ (~doubtful' => Leftover = {})
  BY Zenon DEF Choose
<1>4. ASSUME pc' = "read"
      PROVE  /\ current_file' \in Nat /\ Guarded(current_file')
             /\ seen <= current_file'
             /\ Leftover = {} => current_file' < i
  <2>1. PICK n \in DOMAIN disk : SecondNewest(n) /\ current_file' = n
    BY <1>4 DEF Choose
  <2>2. n \in Nat /\ seen <= n /\ Guarded(n)
    BY <2>1, SecondNewestGuarded DEF IInv, ReaderOK
  <2>3. Leftover = {} => n < i
    BY <2>1 DEF SecondNewest, Leftover, IInv, DirOK
  <2> QED
    BY <2>1, <2>2, <2>3
<1>5. Guarded(current_file)' <=> Guarded(current_file')
  BY DEF Choose, dir_vars, Guarded
<1>6. got' \in Seq(Lines) /\ seen' \in Int /\ seen' < i' /\ Guarded(seen)'
  BY <1>1, <1>2 DEF Choose, IInv, ReaderOK, dir_vars, Guarded
<1> QED
  BY <1>1, <1>3, <1>4, <1>5, <1>6 DEF IInv, ReaderOK

\* tel_wsf.py reads the file it picked.
LEMMA ReadIInv == ASSUME IInv, Read PROVE IInv'
<1>1. DirOK' /\ i' = i /\ pc' = "top"
  BY DEF Read, dir_vars, IInv, DirOK
<1>2. \A n : Guarded(n)' <=> Guarded(n)
  BY DEF Read, dir_vars, Guarded
<1>3. got' \in Seq(Lines)
  BY DEF Read, IInv, DirOK
<1>4. doubtful' \in BOOLEAN
  BY DEF Read, IInv, ReaderOK
<1>5. seen' \in Int /\ seen' < i' /\ Guarded(seen)'
  <2>1. CASE Behind
    <3>1. seen' = seen
      BY <2>1 DEF Read
    <3> QED
      BY <1>1, <3>1 DEF IInv, ReaderOK, Guarded, Read, dir_vars
  <2>2. CASE ~Behind
    <3>1. seen' = current_file /\ pc = "read" /\ ~doubtful
      BY <2>2 DEF Read, Behind
    <3> QED
      BY <1>1, <3>1 DEF IInv, ReaderOK, Guarded, Read, dir_vars
  <2> QED
    BY <2>1, <2>2
<1> QED
  BY <1>1, <1>3, <1>4, <1>5 DEF IInv, ReaderOK

\* No step breaks the invariant.
LEMMA NextIInv == IInv /\ [Next]_vars => IInv'
<1> SUFFICES ASSUME IInv, [Next]_vars PROVE IInv'
  OBVIOUS
<1> USE DEF round, policy, history
<1>1. ASSUME NEW free \in Free, Choose(free) PROVE IInv'
  BY <1>1, ChooseIInv
<1>2. CASE Read
  BY <1>2, ReadIInv
<1>3. CASE NoStats \/ ReadFails
  BY <1>3, Zenon DEF NoStats, ReadFails, dir_vars, IInv, DirOK, ReaderOK, Guarded, Leftover
<1>4. CASE DirNext /\ UNCHANGED <<pc, round, policy, got>>
  <2>1. CASE OpenFile /\ UNCHANGED <<doubtful, seen>>
    BY <1>4, <2>1, OpenFileOK, DirStepIInv DEF IInv
  <2>2. CASE (CloseFile \/ Cleanup) /\ UNCHANGED <<doubtful, seen>>
    BY <1>4, <2>2, CloseFileOK, CleanupOK, DirStepIInv DEF IInv
  <2>3. ASSUME NEW line \in Lines, NEW flushed \in 0 .. MaxLines,
               WriteLine(line, flushed), UNCHANGED <<doubtful, seen>>
        PROVE  IInv'
    BY <1>4, <2>3, WriteLineOK, DirStepIInv DEF IInv
  <2>4. CASE Restart /\ doubtful' = TRUE /\ seen' = -1
    BY <1>4, <2>4, RestartIInv
  <2> QED
    BY <1>4, <2>1, <2>2, <2>3, <2>4, Zenon DEF DirNext
<1>5. CASE UNCHANGED vars
  BY <1>5 DEF vars, dir_vars, IInv, DirOK, ReaderOK, Guarded, Leftover
<1> QED
  BY <1>1, <1>2, <1>3, <1>4, <1>5 DEF Next, TelNext

\* The invariant holds in every reachable state.
LEMMA IInvHolds == Spec => []IInv
BY InitIInv, NextIInv, PTL DEF Spec
-----------------------------------------------------------------------------
\* A step of the directory that is not a restart publishes a file, lets the
\* reader catch up, or is not seen by it.
LEMMA DirStepMapped ==
  ASSUME IInv, DirStep, UNCHANGED <<pc, doubtful, seen, got>>,
         \/ UNCHANGED published
         \/ /\ Leftover' = Leftover
            /\ published' = Append(published, text)
  PROVE  [Channel!Next]_(Channel!vars)
<1>1. CASE UNCHANGED published
  <2>1. Behind' => Behind
    BY DEF DirStep, Behind
  <2>2. CASE Behind' = Behind
    BY <1>1, <2>2 DEF Channel!vars
  <2>3. CASE Behind /\ ~Behind'
    <3>1. Behind' = FALSE
      BY <2>3
    <3> QED
      BY <1>1, <2>3, <3>1 DEF Channel!CatchUp, Channel!Next
  <2> QED
    BY <2>1, <2>2, <2>3 DEF Behind
<1>2. CASE Leftover' = Leftover /\ published' = Append(published, text)
  <2>1. Behind' = Behind
    BY <1>2 DEF Behind
  <2>2. published \in Seq(Seq(Lines)) /\ text \in Seq(Lines)
    BY DEF IInv, DirOK
  <2>3. /\ published' \in Seq(Seq(Lines))
        /\ Len(published') = Len(published) + 1
    BY <1>2, <2>2
  <2>4. SubSeq(published', 1, Len(published)) = published
    BY <1>2, <2>2, <2>3
  <2> QED
    BY <2>1, <2>3, <2>4 DEF Channel!Publish, Channel!Next
<1> QED
  BY <1>1, <1>2

\* What Read shows is a published dump not before the last one, unless the
\* reader is behind.
LEMMA ReadMapped == ASSUME IInv, Read PROVE Channel!Next
<1>1. /\ published' = published
      /\ got' = disk[current_file] /\ got' \in Seq(Lines)
      /\ Behind' = (Leftover # {})
  BY DEF Read, dir_vars, IInv, DirOK, Behind, Leftover
<1>2. CASE Behind
  <2>1. seen' = seen /\ Behind' \in BOOLEAN
    BY <1>1, <1>2 DEF Read
  <2> QED
    BY <1>1, <1>2, <2>1 DEF Channel!ShowOld, Channel!Next
<1>3. CASE ~Behind
  <2>1. /\ seen' = current_file /\ Leftover = {}
        /\ pc = "read" /\ ~doubtful /\ current_file \in DOMAIN disk
    BY <1>3 DEF Read, Behind
  <2>2. /\ current_file \in 0 .. Len(published) - 1
        /\ current_file >= seen
        /\ got' = published[current_file + 1]
    BY <1>1, <2>1 DEF IInv, DirOK, ReaderOK
  <2>3. Behind' = Behind
    BY <1>1, <1>3, <2>1 DEF Behind
  <2> QED
    BY <1>1, <1>3, <2>1, <2>2, <2>3 DEF Channel!Show, Channel!Next
<1> QED
  BY <1>2, <1>3

\* Every step is a step of the channel, or one it does not show.
LEMMA NextMapped == IInv /\ [Next]_vars => [Channel!Next]_(Channel!vars)
<1> SUFFICES ASSUME IInv, [Next]_vars PROVE [Channel!Next]_(Channel!vars)
  OBVIOUS
<1> USE DEF round, policy, history
<1>1. ASSUME NEW free \in Free, Choose(free) PROVE UNCHANGED Channel!vars
  <2>1. Behind' = Behind
    BY <1>1, Zenon DEF Choose, dir_vars, Behind, Leftover
  <2> QED
    BY <1>1, <2>1 DEF Choose, dir_vars, Channel!vars
<1>2. CASE Read
  BY <1>2, ReadMapped
<1>3. CASE NoStats
  <2>1. Behind' = Behind
    BY <1>3 DEF NoStats, dir_vars, Behind, Leftover
  <2> QED
    BY <1>3, <2>1 DEF NoStats, dir_vars, Channel!vars
<1>4. CASE ReadFails
  <2>1. Behind' = (Leftover # {}) /\ UNCHANGED <<published, seen, got>>
    BY <1>4 DEF ReadFails, dir_vars, Behind, Leftover
  <2>2. CASE Behind' = Behind
    BY <2>1, <2>2 DEF Channel!vars
  <2>3. CASE Behind /\ Behind' = FALSE
    BY <2>1, <2>3 DEF Channel!CatchUp, Channel!Next
  <2> QED
    BY <2>1, <2>2, <2>3, Zenon DEF Behind
<1>5. CASE DirNext /\ UNCHANGED <<pc, round, policy, got>>
  <2>1. CASE OpenFile /\ UNCHANGED <<doubtful, seen>>
    BY <1>5, <2>1, OpenFileOK, DirStepMapped DEF IInv, OpenFile
  <2>2. CASE CloseFile /\ UNCHANGED <<doubtful, seen>>
    BY <1>5, <2>2, CloseFileOK, DirStepMapped, Zenon DEF IInv, CloseFile
  <2>3. CASE Cleanup /\ UNCHANGED <<doubtful, seen>>
    BY <1>5, <2>3, CleanupOK, DirStepMapped DEF IInv, Cleanup
  <2>4. ASSUME NEW line \in Lines, NEW flushed \in 0 .. MaxLines,
               WriteLine(line, flushed), UNCHANGED <<doubtful, seen>>
        PROVE  [Channel!Next]_(Channel!vars)
    BY <1>5, <2>4, WriteLineOK, DirStepMapped DEF IInv, WriteLine
  <2>5. CASE Restart /\ doubtful' = TRUE /\ seen' = -1
    <3>1. Behind' \in BOOLEAN
      BY DEF Behind
    <3> QED
      BY <1>5, <2>5, <3>1 DEF Restart, Channel!Restart, Channel!Next
  <2> QED
    BY <1>5, <2>1, <2>2, <2>3, <2>4, <2>5, Zenon DEF DirNext
<1>6. CASE UNCHANGED vars
  <2>1. Behind' = Behind
    BY <1>6 DEF vars, dir_vars, Behind, Leftover
  <2> QED
    BY <1>6, <2>1 DEF vars, dir_vars, Channel!vars
<1> QED
  BY <1>1, <1>2, <1>3, <1>4, <1>5, <1>6 DEF Next, TelNext

\* tel_wsf.py, which lists the directory and opens the second newest file
\* without a lock, is shown whole dumps of the current run of kprobe in their
\* order, whatever kprobe and cleanup.sh do meanwhile, unless it is behind.
THEOREM DirectoryIsChannel == Spec => ImplementsChannel
<1>1. Init => Channel!Init
  <2>1. ASSUME Init PROVE Behind = FALSE
    <3>1. Leftover = {}
      BY <2>1 DEF Init, DirInit, Leftover
    <3> QED
      BY <2>1, <3>1 DEF Init, Behind
  <2> QED
    BY <2>1, ZenonT(30) DEF Init, DirInit, Channel!Init
<1> QED
  BY <1>1, NextMapped, IInvHolds, PTL DEF Spec, ImplementsChannel, Channel!Spec
-----------------------------------------------------------------------------
(***************************************************************************)
(* The stop file                                                           *)
(***************************************************************************)

\* Until the stop file is there, all files are before it; then those from it up
\* to kprobe's are there, and are no more than were opened since the listing.
StopOK ==
  pc \in {"top", "read"} /\ ~missed =>
    /\ ahead \in 0 .. 2
    /\ StopNumber \notin DOMAIN disk =>
         /\ \A n \in DOMAIN disk : n < StopNumber
         /\ i <= StopNumber /\ (file => i < StopNumber)
    /\ StopNumber \in DOMAIN disk =>
         \A n \in StopNumber .. i : n < i \/ file => n \in DOMAIN disk
    /\ StopNumber \in DOMAIN disk /\ ahead < 2 =>
         \A n \in DOMAIN disk : n <= StopNumber + ahead
    /\ pc = "read" => current_file < StopNumber

\* A listing that misses nothing stops at the stop file, or does not have a file
\* after it.
LEMMA ChooseStopOK ==
  ASSUME DirOK, StopOK, NEW free \in Free, Choose(free)
  PROVE  StopOK'
<1> USE StopNumberAssumption
<1> SUFFICES ASSUME pc' \in {"top", "read"}, ~missed' PROVE StopOK'
  BY DEF StopOK
<1>1. /\ UNCHANGED <<disk, i, file>> /\ ahead' = 0
      /\ pc = "top" /\ ~missed /\ ahead # 2
  BY Zenon DEF Choose, dir_vars
<1>2. ahead \in {0, 1} BY <1>1 DEF StopOK
<1>3. i \in Nat /\ DOMAIN disk \subseteq Nat BY DEF DirOK
<1>4. StopNumber \in DOMAIN disk => \A n \in DOMAIN disk : n <= StopNumber + 1
  BY <1>1, <1>2, <1>3 DEF StopOK
<1>5. StopNumber \in DOMAIN disk /\ StopNumber + 1 \in DOMAIN disk =>
        \A n \in DOMAIN disk : SecondNewest(n) <=> n = StopNumber
  BY <1>3, <1>4 DEF SecondNewest
<1>6. ~(StopNumber \in DOMAIN disk /\ StopNumber + 1 \in DOMAIN disk)
  BY <1>1, <1>5 DEF Choose, Stops
<1>7. \A n \in DOMAIN disk : n <= StopNumber
  BY <1>1, <1>3, <1>4, <1>6 DEF StopOK
<1>8. pc' = "read" => current_file' < StopNumber
  <2> SUFFICES ASSUME pc' = "read" PROVE current_file' < StopNumber OBVIOUS
  <2>1. PICK n \in DOMAIN disk : SecondNewest(n) /\ current_file' = n
    BY <1>1 DEF Choose
  <2>2. PICK m \in DOMAIN disk : m > n BY <2>1 DEF SecondNewest
  <2> QED BY <1>3, <1>7, <2>1, <2>2
<1>9. StopNumber \in DOMAIN disk =>
         \A n \in StopNumber .. i : n < i \/ file => n \in DOMAIN disk
  BY <1>1 DEF StopOK
<1>10. StopNumber \notin DOMAIN disk =>
         /\ \A n \in DOMAIN disk : n < StopNumber
         /\ i <= StopNumber /\ (file => i < StopNumber)
  BY <1>1 DEF StopOK
<1> QED BY <1>1, <1>3, <1>7, <1>8, <1>9, <1>10 DEF StopOK

\* fopen: a file after the stop file follows the one before it.
LEMMA OpenStopOK ==
  ASSUME DirOK, StopOK, OpenFile, ahead' = (IF ahead < 2 THEN ahead + 1 ELSE 2),
         UNCHANGED <<pc, round, missed>>
  PROVE  StopOK'
<1> USE StopNumberAssumption
<1> SUFFICES ASSUME pc \in {"top", "read"}, ~missed PROVE StopOK'
  BY DEF StopOK
<1>1. /\ DOMAIN disk' = DOMAIN disk \cup {i} /\ i' = i /\ ~file /\ file'
      /\ UNCHANGED <<pc, missed, current_file>>
  BY DEF OpenFile, round
<1>2. i \in Nat /\ DOMAIN disk \subseteq Nat /\ ahead \in 0 .. 2 BY DEF DirOK, StopOK
<1>3. ahead' \in 0 .. 2 BY <1>2
<1>4. CASE StopNumber \notin DOMAIN disk
  BY <1>1, <1>2, <1>3, <1>4 DEF StopOK
<1>5. CASE StopNumber \in DOMAIN disk
  <2>1. \A n \in StopNumber .. i : n \in DOMAIN disk'
    BY <1>1, <1>2, <1>5 DEF StopOK
  <2>2. ASSUME ahead' < 2, NEW n \in DOMAIN disk' PROVE n <= StopNumber + ahead'
    <3>1. ahead' = ahead + 1 /\ ahead < 2 BY <1>2, <2>2
    <3>2. \A k \in DOMAIN disk : k <= StopNumber + ahead BY <1>5, <3>1 DEF StopOK
    <3>3. CASE n \in DOMAIN disk BY <1>2, <3>1, <3>2, <3>3
    <3>4. CASE n = i /\ i > StopNumber
      <4>1. i - 1 \in StopNumber .. i /\ i - 1 < i BY <1>2, <3>4
      <4>2. i - 1 \in DOMAIN disk BY <1>5, <4>1 DEF StopOK
      <4> QED BY <1>2, <3>1, <3>2, <3>4, <4>2
    <3>5. CASE n = i /\ i <= StopNumber BY <1>2, <3>1, <3>5
    <3> QED BY <1>1, <1>2, <3>3, <3>4, <3>5
  <2>3. pc = "read" => current_file < StopNumber BY DEF StopOK
  <2> QED BY <1>1, <1>3, <1>5, <2>1, <2>2, <2>3 DEF StopOK
<1> QED BY <1>4, <1>5

\* The other steps of kprobe, and cleanup.sh
LEMMA DirStopOK ==
  ASSUME DirOK, StopOK, UNCHANGED <<pc, round, ahead>>,
         \/ CloseFile /\ UNCHANGED missed
         \/ Restart /\ UNCHANGED missed
         \/ Cleanup /\ missed' = (missed \/ StopNumber \in DOMAIN disk)
         \/ /\ \E line \in Lines, flushed \in 0 .. MaxLines : WriteLine(line, flushed)
            /\ UNCHANGED missed
  PROVE  StopOK'
<1> USE StopNumberAssumption
<1> SUFFICES ASSUME pc \in {"top", "read"}, ~missed' PROVE StopOK'
  BY DEF StopOK
<1>1. UNCHANGED <<pc, current_file, ahead>> BY DEF round
<1>2. i \in Nat /\ DOMAIN disk \subseteq Nat BY DEF DirOK
<1>3. CASE CloseFile /\ UNCHANGED missed
  <2>1. DOMAIN disk' = DOMAIN disk /\ i' = i + 1 /\ file /\ ~file'
    BY <1>3 DEF CloseFile, NextNumber
  <2> QED BY <1>1, <1>2, <1>3, <2>1 DEF StopOK
<1>4. CASE Restart /\ UNCHANGED missed
  BY <1>1, <1>2, <1>4 DEF StopOK, Restart
<1>5. CASE Cleanup /\ missed' = (missed \/ StopNumber \in DOMAIN disk)
  <2>1. ~missed /\ StopNumber \notin DOMAIN disk BY <1>5, Zenon
  <2>2. DOMAIN disk' = {} /\ UNCHANGED <<i, file>> BY <1>5 DEF Cleanup
  <2> QED BY <1>1, <1>2, <2>1, <2>2 DEF StopOK
<1>6. ASSUME NEW line \in Lines, NEW flushed \in 0 .. MaxLines,
             WriteLine(line, flushed), UNCHANGED missed
      PROVE  StopOK'
  <2>1. DOMAIN disk' = DOMAIN disk /\ UNCHANGED <<i, file>> BY <1>6 DEF WriteLine
  <2> QED BY <1>1, <1>6, <2>1 DEF StopOK
<1> QED BY <1>3, <1>4, <1>5, <1>6

LEMMA NextStopOK == IInv /\ StopOK /\ [Next]_vars => StopOK'
<1> SUFFICES ASSUME IInv, StopOK, [Next]_vars PROVE StopOK' OBVIOUS
<1>0. DirOK BY DEF IInv
<1>1. ASSUME NEW free \in Free, Choose(free) PROVE StopOK'
  BY <1>0, <1>1, ChooseStopOK
<1>2. CASE NoStats \/ Read \/ ReadFails \/ UNCHANGED vars
  <2>1. UNCHANGED <<disk, i, file, current_file, ahead, missed>>
    BY <1>2 DEF NoStats, Read, ReadFails, vars, dir_vars, round, history
  <2>2. pc' = pc \/ (pc \in {"top", "read"} /\ pc' # "read")
    BY <1>2 DEF NoStats, Read, ReadFails, vars
  <2> QED BY <2>1, <2>2 DEF StopOK
<1>3. CASE DirNext /\ UNCHANGED <<pc, round, policy, got>>
  BY <1>0, <1>3, OpenStopOK, DirStopOK DEF DirNext
<1> QED BY <1>1, <1>2, <1>3 DEF Next, TelNext

\* tel_wsf.py does not read time_60, or a dump after it, before it has stopped,
\* whatever kprobe and cleanup.sh do, unless time_60 was second newest at no
\* listing.
THEOREM StopFileStops == Spec => []StopFileHonoured
<1>1. Init => StopOK
  BY StopNumberAssumption DEF Init, DirInit, StopOK
<1>2. IInv /\ StopOK => StopFileHonoured
  <2> SUFFICES ASSUME IInv, StopOK, pc = "read", ~missed
               PROVE  ~(current_file >= StopNumber)
    BY DEF StopFileHonoured
  <2>1. current_file \in Nat /\ current_file < StopNumber
    BY DEF IInv, ReaderOK, StopOK
  <2> QED BY <2>1, StopNumberAssumption
<1> QED BY <1>1, <1>2, NextStopOK, IInvHolds, PTL DEF Spec
-----------------------------------------------------------------------------
(***************************************************************************)
(* Types                                                                   *)
(***************************************************************************)

Typed ==
  /\ DOMAIN disk \subseteq 0 .. MaxFiles
  /\ runs \in Nat /\ cleanups \in Nat
  /\ pc \in {"top", "read", "stopped", "no_stats", "crashed"}
  /\ free_pages \in 0 .. Total
  /\ max_scale_factor \in Int /\ watermark_scale_factor \in Int
  /\ logged \in Int
  /\ current_file \in Nat \cup {-1} /\ seen \in Nat \cup {-1}
  /\ ahead \in 0 .. 2
  /\ missed \in BOOLEAN

\* The bound of the scale factor is a number; Total is not 0.
LEMMA MaxScaleFactorsType ==
  ASSUME NEW free \in Free PROVE MaxScaleFactors(free, Total) \subseteq Int
BY TotalAssumption, FreeAssumption DEF MaxScaleFactors

\* The factor after the loop over the buckets is a number.
LEMMA NewFactorType ==
  ASSUME NEW factor \in Int, NEW max \in Int, NEW size, NEW n
  PROVE  NewFactor(factor, max, size, n) \in Int
<1> DEFINE hits == {k \in 0 .. 6 : InBucket(k, size, n)}
<1>1. \A x \in hits : x \in {0, 1, 2, 3, 4, 5, 6}
  <2>1. 0 .. 6 = {0, 1, 2, 3, 4, 5, 6} OBVIOUS
  <2> QED BY <2>1
<1> HIDE DEF hits
<1>2. CASE hits = {} BY <1>2 DEF NewFactor, hits
<1>3. CASE hits # {}
  <2>1. \E x \in hits : \A y \in hits : x <= y
    <3>1. 0 \in hits \/ 1 \in hits \/ 2 \in hits \/ 3 \in hits \/ 4 \in hits
          \/ 5 \in hits \/ 6 \in hits
      BY <1>1, <1>3
    <3>2. \A x \in hits : x \in Int BY <1>1
    <3> QED BY <1>1, <3>1, <3>2
  <2>2. Min(hits) \in hits BY <2>1 DEF Min
  <2>3. Min(hits) \in Int BY <1>1, <2>2
  <2>4. NewFactor(factor, max, size, n) = Threshold(max, Min(hits))
    BY <1>3 DEF NewFactor, hits
  <2> QED BY <2>3, <2>4 DEF Threshold
<1> QED BY <1>2, <1>3

LEMMA NextTyped == IInv /\ Typed /\ [Next]_vars => Typed'
<1> SUFFICES ASSUME IInv, Typed, [Next]_vars PROVE Typed' OBVIOUS
<1> USE DEF Typed, round, policy, history, dir_vars
<1>0. i \in Nat BY DEF IInv, DirOK
<1>1. ASSUME NEW free \in Free, Choose(free) PROVE Typed'
  <2>1. max_scale_factor' \in Int BY <1>1, MaxScaleFactorsType DEF Choose
  <2>2. missed' \in BOOLEAN BY <1>1 DEF Choose
  <2>3. current_file' \in Nat \cup {-1}
    BY <1>1 DEF Choose, IInv, DirOK
  <2>4. pc' \in {"top", "read", "stopped", "no_stats", "crashed"}
    BY <1>1 DEF Choose
  <2> QED BY <1>1, <2>1, <2>2, <2>3, <2>4, FreeAssumption DEF Choose
<1>2. CASE Read
  <2>1. watermark_scale_factor' \in Int /\ logged' \in Int
    BY <1>2, NewFactorType DEF Read, Clamp
  <2>2. seen' \in Nat \cup {-1} BY <1>2 DEF Read, IInv, ReaderOK
  <2>3. missed' \in BOOLEAN BY <1>2, Zenon DEF Read
  <2> QED BY <1>2, <2>1, <2>2, <2>3 DEF Read
<1>3. CASE NoStats BY <1>3 DEF NoStats
<1>4. CASE ReadFails BY <1>4 DEF ReadFails
<1>5. CASE DirNext /\ UNCHANGED <<pc, round, policy, got>>
  <2>1. CASE OpenFile /\ ahead' = (IF ahead < 2 THEN ahead + 1 ELSE 2)
             /\ UNCHANGED <<doubtful, seen, missed>>
    <3>1. DOMAIN disk' \subseteq 0 .. MaxFiles
      BY <1>0, <2>1, MaxFilesAssumption DEF OpenFile
    <3> QED BY <1>5, <2>1, <3>1, SMTT(30) DEF OpenFile
  <2>2. ASSUME NEW line \in Lines, NEW flushed \in 0 .. MaxLines,
               WriteLine(line, flushed), UNCHANGED <<doubtful, seen, ahead, missed>>
        PROVE  Typed'
    <3>1. DOMAIN disk' = DOMAIN disk BY <2>2 DEF WriteLine
    <3> QED BY <1>5, <2>2, <3>1 DEF WriteLine
  <2>3. CASE CloseFile /\ UNCHANGED <<doubtful, seen, ahead, missed>>
    <3>1. DOMAIN disk' = DOMAIN disk BY <2>3 DEF CloseFile
    <3> QED BY <1>5, <2>3, <3>1 DEF CloseFile
  <2>4. CASE Cleanup /\ missed' = (missed \/ StopNumber \in DOMAIN disk)
             /\ UNCHANGED <<doubtful, seen, ahead>>
    <3>1. DOMAIN disk' = {} /\ missed' \in BOOLEAN BY <2>4 DEF Cleanup
    <3> QED BY <1>5, <2>4, <3>1 DEF Cleanup
  <2>5. CASE Restart /\ doubtful' = TRUE /\ seen' = -1 /\ UNCHANGED <<ahead, missed>>
    BY <1>5, <2>5 DEF Restart
  <2> QED BY <1>5, <2>1, <2>2, <2>3, <2>4, <2>5, Zenon DEF DirNext
<1>6. CASE UNCHANGED vars BY <1>6 DEF vars
<1> QED BY <1>1, <1>2, <1>3, <1>4, <1>5, <1>6 DEF Next, TelNext

\* Everything that tel_wsf.py computes and the directory holds is of its type,
\* for any statistics and dumps; no bucket leaves the factor undefined.
THEOREM TypeCorrect == Spec => []TypeOK
<1>1. Init => Typed
  <2> SUFFICES ASSUME Init PROVE Typed OBVIOUS
  <2>1. DOMAIN disk = {} BY DEF Init, DirInit
  <2>2. missed \in BOOLEAN BY Zenon DEF Init
  <2> QED BY <2>1, <2>2, TotalAssumption DEF Init, DirInit, Typed
<1>2. IInv /\ Typed => TypeOK
  <2> SUFFICES ASSUME IInv, Typed PROVE TypeOK OBVIOUS
  <2>1. {doubtful, missed} \subseteq BOOLEAN
    BY Zenon DEF IInv, ReaderOK, Typed
  <2>2. DirTypeOK BY DEF IInv, DirOK, Typed, DirTypeOK
  <2> QED BY <2>1, <2>2 DEF IInv, ReaderOK, Typed, TypeOK
<1> QED BY <1>1, <1>2, NextTyped, IInvHolds, PTL DEF Spec
=============================================================================
