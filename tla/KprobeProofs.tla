---------------------------- MODULE KprobeProofs ----------------------------
(***************************************************************************)
(* The two threads of kprobe.c: pid_receiver and the dump loop of main.    *)
(***************************************************************************)
EXTENDS PidReceiver, MapDump, FiniteSetTheorems, TLAPS
-----------------------------------------------------------------------------
(***************************************************************************)
(* pid_receiver registers no number that is not in the list, for any pids, *)
(* any list and any number of workloads.                                   *)
(*                                                                         *)
(* The point is that every position kept is the end of a line, of the file *)
(* it will be used on: a file only grows at its end, and when it does not  *)
(* (restarted) the position was 0 or nothing is claimed.                   *)
(***************************************************************************)

\* pos is the start of the file or the end of a line.
Boundary(file, pos) == pos = 0 \/ \E m \in 0 .. Len(file) : pos = End(file, m)

\* What a line may be
Line == listed \cup {Blank}

FilesOK ==
  /\ inode \in Seq(Seq(Line))
  /\ path \in {NoFile} \cup DOMAIN inode
  /\ jobs > 0 => path # NoFile

WriterOK ==
  /\ Blank \notin listed
  /\ jobs \in Nat
  /\ main_pid # Blank => jobs > 0

\* The receiver has the current file open, or one that was removed.
ReaderOK ==
  /\ rpc \in {"open", "read", "done"}
  /\ buf \in Seq(Line)
  /\ rpc = "read" => fd \in DOMAIN inode /\ Boundary(inode[fd], offset)
  /\ rpc = "read" => path \in {NoFile, fd}
  /\ rpc # "read" => fd = NoFile /\ offset = 0
  /\ path = NoFile \/ Boundary(inode[path], file_pos)
  /\ offset \in Nat /\ file_pos \in Nat

Good == FilesOK /\ WriterOK /\ ReaderOK /\ pid_map \subseteq listed

IInv == restarted \in BOOLEAN /\ (~restarted => Good)
-----------------------------------------------------------------------------
(***************************************************************************)
(* Sizes and positions                                                     *)
(***************************************************************************)

\* The first lines of a file
LEMMA Prefix ==
  ASSUME NEW S, NEW file \in Seq(S), NEW m \in 0 .. Len(file)
  PROVE  /\ SubSeq(file, 1, m) \in Seq(S)
         /\ Len(SubSeq(file, 1, m)) = m
         /\ DOMAIN SubSeq(file, 1, m) = 1 .. m
         /\ \A x \in 1 .. m : SubSeq(file, 1, m)[x] = file[x]
OBVIOUS

\* The lines with numbers from n on, among the first p
Count(file, p, n) ==
  Cardinality({x \in DOMAIN SubSeq(file, 1, p) : SubSeq(file, 1, p)[x] >= n})

\* The lines with numbers from n on are finitely many, and no fewer in a longer
\* part of the file.
LEMMA CountMonotone ==
  ASSUME NEW S, NEW file \in Seq(S), NEW k \in 0 .. Len(file), NEW m \in 0 .. Len(file),
         k <= m, NEW n \in Int
  PROVE  /\ Count(file, k, n) \in Nat /\ Count(file, m, n) \in Nat
         /\ Count(file, k, n) <= Count(file, m, n)
<1> DEFINE F(p) == {x \in DOMAIN SubSeq(file, 1, p) : SubSeq(file, 1, p)[x] >= n}
<1>1. F(k) = {x \in 1 .. k : file[x] >= n} /\ F(m) = {x \in 1 .. m : file[x] >= n}
  BY Prefix
<1>2. IsFiniteSet(1 .. m) BY FS_Interval
<1>3. F(m) \in SUBSET (1 .. m) /\ F(k) \in SUBSET F(m) BY <1>1
<1> HIDE DEF F
<1>4. IsFiniteSet(F(m)) BY <1>2, <1>3, FS_Subset
<1>5. IsFiniteSet(F(k)) /\ Cardinality(F(k)) <= Cardinality(F(m))
  BY <1>3, <1>4, FS_Subset
<1>6. Cardinality(F(k)) \in Nat /\ Cardinality(F(m)) \in Nat
  BY <1>4, <1>5, FS_CardinalityType
<1> QED BY <1>5, <1>6, Zenon DEF F, Count

\* Lines end one after the other.
LEMMA EndMonotone ==
  ASSUME NEW S, NEW file \in Seq(S), NEW k \in 0 .. Len(file), NEW m \in 0 .. Len(file),
         k <= m
  PROVE  End(file, k) \in Nat /\ End(file, m) \in Nat /\ End(file, k) <= End(file, m)
<1>0. 0 \in Int /\ 10 \in Int /\ 100 \in Int OBVIOUS
<1>1. \A n \in Int : /\ Count(file, k, n) \in Nat /\ Count(file, m, n) \in Nat
                     /\ Count(file, k, n) <= Count(file, m, n)
  BY CountMonotone, Zenon
<1>2. \A p \in 0 .. Len(file) :
        End(file, p) = p + Count(file, p, 0) + Count(file, p, 10) + Count(file, p, 100)
  BY Prefix, Zenon DEF End, Size, Count
<1>3. k \in Nat /\ m \in Nat OBVIOUS
<1>4. \A p \in {k, m} : /\ p \in Nat /\ Count(file, p, 0) \in Nat
                        /\ Count(file, p, 10) \in Nat /\ Count(file, p, 100) \in Nat
  BY <1>0, <1>1, <1>3, Zenon
<1>5. /\ Count(file, k, 0) <= Count(file, m, 0)
      /\ Count(file, k, 10) <= Count(file, m, 10)
      /\ Count(file, k, 100) <= Count(file, m, 100)
  BY <1>0, <1>1, Zenon
<1>6. /\ End(file, k) = k + Count(file, k, 0) + Count(file, k, 10) + Count(file, k, 100)
      /\ End(file, m) = m + Count(file, m, 0) + Count(file, m, 10) + Count(file, m, 100)
  BY <1>2
<1> HIDE DEF Count
<1>7. End(file, k) \in Nat /\ End(file, m) \in Nat /\ End(file, k) <= End(file, m)
  <2> DEFINE a == Count(file, k, 0)  b == Count(file, k, 10)  c == Count(file, k, 100)
             d == Count(file, m, 0)  e == Count(file, m, 10)  f == Count(file, m, 100)
  <2>1. /\ a \in Nat /\ b \in Nat /\ c \in Nat /\ d \in Nat /\ e \in Nat /\ f \in Nat
        /\ a <= d /\ b <= e /\ c <= f
    BY <1>4, <1>5
  <2>2. End(file, k) = k + a + b + c /\ End(file, m) = m + d + e + f
    BY <1>6
  <2> HIDE DEF a, b, c, d, e, f
  <2> QED BY <1>3, <2>1, <2>2
<1> QED BY <1>7

\* The size of a file is the end of its last line.
LEMMA SizeIsBoundary ==
  ASSUME NEW S, NEW file \in Seq(S)
  PROVE  Size(file) \in Nat /\ Boundary(file, Size(file))
<1>1. SubSeq(file, 1, Len(file)) = file OBVIOUS
<1>2. Len(file) \in 0 .. Len(file) OBVIOUS
<1>3. End(file, Len(file)) = Size(file) BY <1>1, Zenon DEF End
<1>4. End(file, Len(file)) \in Nat BY <1>2, EndMonotone
<1> QED BY <1>2, <1>3, <1>4 DEF Boundary

\* Where a line ends does not change when lines are appended to the file.
LEMMA BoundaryStays ==
  ASSUME NEW S, NEW file \in Seq(S), NEW more \in Seq(S), NEW pos, Boundary(file, pos)
  PROVE  Boundary(file \o more, pos)
<1>1. CASE pos = 0 BY <1>1 DEF Boundary
<1>2. ASSUME NEW m \in 0 .. Len(file), pos = End(file, m)
      PROVE  Boundary(file \o more, pos)
  <2>1. SubSeq(file \o more, 1, m) = SubSeq(file, 1, m) OBVIOUS
  <2>2. m \in 0 .. Len(file \o more) OBVIOUS
  <2> QED BY <1>2, <2>1, <2>2, Zenon DEF Boundary, End
<1> QED BY <1>1, <1>2 DEF Boundary

\* From the end of a line on fgets returns whole lines of the file.
LEMMA WholeLines ==
  ASSUME NEW S, NEW file \in Seq(S), NEW pos, Boundary(file, pos)
  PROVE  LinesFrom(file, pos) \in Seq(S)
<1> DEFINE Read == {x \in DOMAIN file : End(file, x) <= pos}
           past == Skipped(file, pos)
<1>1. PICK m \in 0 .. Len(file) :
        /\ pos <= End(file, m)
        /\ \A x \in 1 .. m : x \in Read
  <2>1. CASE pos = 0
    <3>1. 0 \in 0 .. Len(file) /\ End(file, 0) >= 0 BY EndMonotone
    <3> QED BY <2>1, <3>1
  <2>2. ASSUME NEW m \in 0 .. Len(file), pos = End(file, m)
        PROVE  /\ pos <= End(file, m)
               /\ \A x \in 1 .. m : x \in Read
    BY <2>2, EndMonotone
  <2> QED BY <2>1, <2>2 DEF Boundary
<1>2. past \in Nat /\ past <= Len(file) /\ m <= past
  <2>1. /\ Len(file) \in Nat /\ IsFiniteSet(1 .. Len(file))
        /\ Cardinality(1 .. Len(file)) = Len(file) /\ Cardinality(1 .. m) = m
    BY FS_Interval
  <2>2. Read \in SUBSET (1 .. Len(file)) /\ 1 .. m \in SUBSET Read BY <1>1
  <2> HIDE DEF Read
  <2>3. IsFiniteSet(Read) /\ Cardinality(Read) <= Len(file)
    BY <2>1, <2>2, FS_Subset, Zenon
  <2>4. m <= Cardinality(Read) BY <2>1, <2>2, <2>3, FS_Subset
  <2>5. Cardinality(Read) \in Nat BY <2>3, FS_CardinalityType
  <2>6. past = Cardinality(Read) BY DEF Read, Skipped
  <2> QED BY <2>3, <2>4, <2>5, <2>6
<1> HIDE DEF past
<1>3. \A x \in 1 .. Len(file) - past :
        /\ x + past \in 1 .. Len(file)
        /\ pos <= End(file, x + past - 1)
  <2> TAKE x \in 1 .. Len(file) - past
  <2>1. x + past \in 1 .. Len(file) /\ x + past - 1 \in 0 .. Len(file)
    BY <1>2
  <2>2. m <= x + past - 1 BY <1>2
  <2>3. End(file, m) <= End(file, x + past - 1)
        /\ End(file, m) \in Nat /\ End(file, x + past - 1) \in Nat
    BY <2>1, <2>2, EndMonotone
  <2>4. pos \in Nat BY EndMonotone DEF Boundary
  <2> QED BY <1>1, <2>1, <2>3, <2>4
<1>4. \A x \in 1 .. Len(file) - past : Rest(file, pos, x + past) = file[x + past]
  <2> TAKE x \in 1 .. Len(file) - past
  <2>1. pos <= End(file, x + past - 1) BY <1>3
  <2>2. pos \in Int /\ End(file, x + past - 1) \in Int
    <3>1. x + past - 1 \in 0 .. Len(file) BY <1>2
    <3> QED BY <3>1, EndMonotone DEF Boundary
  <2>3. x + past - 1 = (x + past) - 1 BY <1>2
  <2> QED BY <2>1, <2>2, <2>3 DEF Rest
<1>5. LinesFrom(file, pos) = [x \in 1 .. Len(file) - past |-> file[x + past]]
  BY <1>4, Zenon DEF LinesFrom, past
<1> QED BY <1>2, <1>3, <1>5
-----------------------------------------------------------------------------
(***************************************************************************)
(* The steps of the scripts                                                *)
(***************************************************************************)

LEMMA IsSeq ==
  ASSUME NEW S, NEW n \in Nat, NEW s, s = [x \in 1 .. n |-> s[x]],
         \A x \in 1 .. n : s[x] \in S
  PROVE  s \in Seq(S)
OBVIOUS

LEMMA SeqMonotone ==
  ASSUME NEW S, NEW T, S \subseteq T, NEW s \in Seq(S)
  PROVE  s \in Seq(T)
<1>1. Len(s) \in Nat /\ s = [x \in 1 .. Len(s) |-> s[x]] /\ \A x \in 1 .. Len(s) : s[x] \in S
  OBVIOUS
<1> QED BY <1>1, IsSeq

\* workload.sh appends lines to the list, which the receiver may have open.
LEMMA AppendGood ==
  ASSUME Good, path \in DOMAIN inode, NEW more \in Seq(Line'),
         inode' = [inode EXCEPT ![path] = @ \o more],
         listed \subseteq listed', Blank \notin listed',
         jobs' \in Nat, main_pid' # Blank => jobs' > 0,
         UNCHANGED <<path, reader_vars>>
  PROVE  Good'
<1>1. UNCHANGED <<rpc, fd, offset, buf, file_pos, pid_map>> BY DEF reader_vars
<1>2. Line \subseteq Line' BY DEF Line
<1>3. inode \in Seq(Seq(Line)) BY DEF Good, FilesOK
<1>4. \A f \in DOMAIN inode : inode[f] \in Seq(Line) BY <1>3
<1>5. \A f \in DOMAIN inode : inode[f] \in Seq(Line') BY <1>2, <1>4, SeqMonotone
<1>6. DOMAIN inode' = DOMAIN inode
      /\ \A f \in DOMAIN inode : inode'[f] = IF f = path THEN inode[f] \o more ELSE inode[f]
  BY <1>3
<1>7. path # NoFile BY <1>3 DEF NoFile
<1>8. FilesOK'
  <2>1. inode[path] \o more \in Seq(Line') BY <1>5
  <2>2. \A f \in DOMAIN inode' : inode'[f] \in Seq(Line') BY <1>5, <1>6, <2>1
  <2>3. inode' \in Seq(Seq(Line'))
    <3>1. Len(inode) \in Nat /\ DOMAIN inode = 1 .. Len(inode) BY <1>3
    <3>2. inode' = [f \in 1 .. Len(inode) |-> inode'[f]] BY <1>6, <3>1, Zenon
    <3>3. \A f \in 1 .. Len(inode) : inode'[f] \in Seq(Line') BY <1>6, <2>2, <3>1
    <3>4. Len(inode) \in Nat BY <3>1
    <3> QED BY <3>2, <3>3, <3>4, IsSeq, Zenon
  <2> QED BY <1>6, <1>7, <2>3 DEF FilesOK
<1>9. \A f \in DOMAIN inode : \A pos : Boundary(inode[f], pos) => Boundary(inode'[f], pos)
  BY <1>5, <1>6, BoundaryStays
<1>10. ReaderOK'
  <2>1. buf' \in Seq(Line') BY <1>1, <1>2, SeqMonotone DEF Good, ReaderOK
  <2>2. rpc' = "read" => fd' \in DOMAIN inode' /\ Boundary(inode'[fd'], offset')
    BY <1>1, <1>6, <1>9 DEF Good, ReaderOK
  <2>3. Boundary(inode'[path'], file_pos')
    BY <1>1, <1>7, <1>9 DEF Good, ReaderOK
  <2> QED BY <1>1, <2>1, <2>2, <2>3 DEF Good, ReaderOK
<1> QED BY <1>1, <1>8, <1>10 DEF Good, WriterOK

LEMMA ListMainIInv == ASSUME IInv, NEW p \in Pids, ListMain(p) PROVE IInv'
<1> SUFFICES ASSUME ~restarted PROVE Good'
  BY DEF IInv, ListMain
<1>1. Good BY DEF IInv
<1>2. path \in DOMAIN inode BY <1>1 DEF ListMain, Good, FilesOK
<1>3. inode' = [inode EXCEPT ![path] = @ \o <<p>>]
  <2>1. inode[path] \in Seq(Line) BY <1>1, <1>2 DEF Good, FilesOK
  <2>2. Append(inode[path], p) = inode[path] \o <<p>> BY <2>1
  <2> QED BY <2>2 DEF ListMain
<1>4. p # Blank BY PidsAssumption DEF Blank
<1>5. <<p>> \in Seq(Line') BY DEF ListMain, Line
<1>6. listed \subseteq listed' /\ Blank \notin listed'
  BY <1>1, <1>4 DEF ListMain, Good, WriterOK
<1>7. jobs' \in Nat /\ jobs' > 0 BY <1>1 DEF ListMain, Good, WriterOK
<1> QED BY <1>1, <1>2, <1>3, <1>5, <1>6, <1>7, AppendGood, Zenon DEF ListMain

LEMMA ListChildrenIInv ==
  ASSUME IInv, NEW children \in {<<>>} \cup {<<p>> : p \in Pids}, ListChildren(children)
  PROVE  IInv'
<1> SUFFICES ASSUME ~restarted PROVE Good'
  BY DEF IInv, ListChildren
<1>1. Good BY DEF IInv
<1>2. jobs \in Nat /\ jobs > 0 BY <1>1 DEF ListChildren, Good, WriterOK
<1>3. path \in DOMAIN inode BY <1>1, <1>2 DEF Good, FilesOK
<1> DEFINE more == IF children = <<>> THEN <<Blank>> ELSE children
<1>4. more \in Seq(Line') /\ Blank \notin Range(children)
  <2>1. CASE children = <<>> BY <2>1 DEF Line, Range
  <2>2. ASSUME NEW p \in Pids, children = <<p>>
        PROVE  more \in Seq(Line') /\ Blank \notin Range(children)
    <3>1. Range(<<p>>) = {p} BY DEF Range
    <3>2. p # Blank BY PidsAssumption DEF Blank
    <3>3. p \in Line' BY <2>2, <3>1 DEF Line, ListChildren
    <3>4. more = <<p>> BY <2>2
    <3> QED BY <2>2, <3>1, <3>2, <3>3, <3>4
  <2> QED BY <2>1, <2>2
<1>5. inode' = [inode EXCEPT ![path] = @ \o more] BY DEF ListChildren
<1>6. listed \subseteq listed' /\ Blank \notin listed'
  BY <1>1, <1>4 DEF ListChildren, Good, WriterOK
<1>7. jobs' \in Nat /\ main_pid' = Blank BY <1>2 DEF ListChildren
<1> HIDE DEF more
<1> QED BY <1>1, <1>3, <1>4, <1>5, <1>6, <1>7, AppendGood, Zenon DEF ListChildren

\* workload.sh begins a new list: at another position than 0 it is restarted.
LEMMA StartWorkloadIInv == IInv /\ StartWorkload => IInv'
<1> SUFFICES ASSUME IInv, StartWorkload PROVE IInv' OBVIOUS
<1>1. restarted' \in BOOLEAN BY DEF StartWorkload
<1> SUFFICES ASSUME ~restarted' PROVE Good' BY <1>1 DEF IInv
<1>2. Good BY DEF IInv, StartWorkload
<1>3. /\ file_pos = 0 /\ offset = 0 /\ fd \in {NoFile, path}
      /\ UNCHANGED <<rpc, fd, offset, buf, file_pos, pid_map, listed, main_pid>>
  BY <1>2 DEF StartWorkload, reader_vars, Good, ReaderOK
<1>4. Line' = Line BY <1>3 DEF Line
<1>5. inode \in Seq(Seq(Line)) /\ <<Blank>> \in Seq(Line)
  BY <1>2 DEF Good, FilesOK, Line
<1>6. /\ inode' \in Seq(Seq(Line)) /\ path' \in DOMAIN inode'
      /\ DOMAIN inode \subseteq DOMAIN inode'
      /\ path # NoFile => path' = path
  <2>1. CASE path = NoFile
    <3> DEFINE T == Seq(Line)
    <3>1. inode \in Seq(T) /\ <<Blank>> \in T BY <1>5
    <3>2. inode' = Append(inode, <<Blank>>) /\ path' = Len(inode) + 1
      BY <2>1 DEF StartWorkload
    <3> HIDE DEF T
    <3>3. inode' \in Seq(T) /\ path' \in DOMAIN inode' /\ DOMAIN inode \subseteq DOMAIN inode'
      BY <3>1, <3>2
    <3> QED BY <2>1, <3>3 DEF T
  <2>2. CASE path # NoFile
    <3> DEFINE T == Seq(Line)
               b == <<Blank>>
    <3>1. inode \in Seq(T) /\ b \in T BY <1>5
    <3>2. inode' = [inode EXCEPT ![path] = b] /\ path' = path
      BY <2>2 DEF StartWorkload
    <3>3. path \in DOMAIN inode BY <1>2, <2>2 DEF Good, FilesOK
    <3> HIDE DEF T, b
    <3>4. inode' \in Seq(T) /\ DOMAIN inode' = DOMAIN inode
      BY <3>1, <3>2, <3>3
    <3> QED BY <3>2, <3>3, <3>4 DEF T
  <2> QED BY <2>1, <2>2
<1>7. path' # NoFile BY <1>6 DEF NoFile
<1>8. FilesOK' BY <1>4, <1>6, <1>7 DEF FilesOK
<1>9. WriterOK'
  <2>1. main_pid = Blank
    BY <1>2 DEF StartWorkload, Good, WriterOK
  <2> QED BY <1>2, <1>3, <2>1, JobsAssumption DEF StartWorkload, Good, WriterOK
<1>10. ReaderOK'
  <2>1. rpc = "read" => fd \in DOMAIN inode' /\ path' = fd
    BY <1>2, <1>3, <1>5, <1>6 DEF Good, ReaderOK, NoFile
  <2>2. \A file : Boundary(file, 0) BY DEF Boundary
  <2>3. rpc' = "read" => Boundary(inode'[fd'], offset')
    BY <1>2, <1>3, <1>4, <2>1, <2>2 DEF Good, ReaderOK
  <2>4. Boundary(inode'[path'], file_pos') BY <1>2, <1>3, <1>4, <2>2
  <2> QED BY <1>2, <1>3, <1>4, <2>1, <2>3, <2>4 DEF Good, ReaderOK
<1> QED BY <1>2, <1>3, <1>8, <1>9, <1>10 DEF Good
-----------------------------------------------------------------------------
(***************************************************************************)
(* The steps of pid_receiver                                               *)
(***************************************************************************)

\* What the receiver leaves alone stays right.
LEMMA ReceiverFrame ==
  ASSUME Good, UNCHANGED <<inode, path, writer_vars, listed>>
  PROVE  FilesOK' /\ WriterOK' /\ Line' = Line
BY DEF Good, FilesOK, WriterOK, Line, writer_vars

LEMMA ReceiverIInv == IInv /\ Receiver => IInv'
<1> SUFFICES ASSUME IInv, Receiver PROVE IInv' OBVIOUS
<1>1. UNCHANGED <<inode, path, writer_vars, listed, restarted>>
  BY DEF Receiver, Open, Fill, AddPid, Eof, Exit, writer_vars
<1> SUFFICES ASSUME ~restarted PROVE Good' BY <1>1 DEF IInv
<1>2. Good BY DEF IInv
<1>3. FilesOK' /\ WriterOK' /\ Line' = Line BY <1>1, <1>2, ReceiverFrame
<1>4. UNCHANGED <<inode, path, listed>> BY <1>1
<1>5. rpc = "read" => fd \in DOMAIN inode /\ inode[fd] \in Seq(Line)
  BY <1>2 DEF Good, ReaderOK, FilesOK
<1> SUFFICES ReaderOK' /\ pid_map' \subseteq listed
  BY <1>3, <1>4 DEF Good
<1>6. CASE Open
  <2>1. path \in DOMAIN inode BY <1>2, <1>6 DEF Open, Good, FilesOK
  <2> QED BY <1>2, <1>3, <1>4, <1>6, <2>1 DEF Open, SeekTo, Good, ReaderOK
<1>7. CASE Fill
  <2>1. LinesFrom(inode[fd], offset) \in Seq(Line)
    BY <1>2, <1>5, <1>7, WholeLines DEF Fill, Good, ReaderOK
  <2>2. Size(inode[fd]) \in Nat /\ Boundary(inode[fd], Size(inode[fd]))
    BY <1>5, <1>7, SizeIsBoundary DEF Fill
  <2> QED BY <1>2, <1>3, <1>4, <1>7, <2>1, <2>2 DEF Fill, Good, ReaderOK
<1>8. CASE AddPid
  <2>1. buf \in Seq(Line) /\ buf # <<>> BY <1>2, <1>8 DEF AddPid, Good, ReaderOK
  <2>2. Head(buf) \in Line /\ Tail(buf) \in Seq(Line) BY <2>1
  <2>3. pid_map' \subseteq listed
    BY <1>2, <1>8, <2>2 DEF AddPid, Good, Line
  <2> QED BY <1>2, <1>3, <1>4, <1>8, <2>2, <2>3 DEF AddPid, Good, ReaderOK
<1>9. CASE Eof
  <2>1. path = NoFile \/ Boundary(inode[path], offset)
    BY <1>2, <1>9 DEF Eof, Good, ReaderOK
  <2> QED BY <1>2, <1>3, <1>4, <1>9, <2>1 DEF Eof, AfterEof, Good, ReaderOK
<1>10. CASE Exit BY <1>2, <1>3, <1>4, <1>10 DEF Exit, Good, ReaderOK
<1> QED BY <1>6, <1>7, <1>8, <1>9, <1>10 DEF Receiver
-----------------------------------------------------------------------------
(***************************************************************************)
(* The theorem                                                             *)
(***************************************************************************)

LEMMA InitIInv == Init => IInv
<1> SUFFICES ASSUME Init PROVE IInv OBVIOUS
<1> PICK f \in Leftover : inode = <<f>> BY DEF Init
<1>1. f \in Seq(-1 .. 999) BY LeftoverAssumption
<1>2. inode[1] = f /\ DOMAIN inode = {1} OBVIOUS
<1>3. Blank \notin listed /\ f \in Seq(Line)
  <2>1. listed = Range(f) \ {Blank} BY <1>2 DEF Init
  <2>2. \A x \in 1 .. Len(f) : f[x] \in Line
    BY <1>1, <2>1 DEF Line, Range
  <2>3. Len(f) \in Nat /\ f = [x \in 1 .. Len(f) |-> f[x]] BY <1>1
  <2> QED BY <2>1, <2>2, <2>3, IsSeq
<1>4. FilesOK
  <2> DEFINE T == Seq(Line)
  <2>1. f \in T BY <1>3
  <2> HIDE DEF T
  <2>2. <<f>> \in Seq(T) BY <2>1
  <2> QED BY <1>2, <2>2 DEF FilesOK, Init, T
<1>5. WriterOK BY <1>3 DEF WriterOK, Init
<1>6. ReaderOK BY DEF ReaderOK, Init, Boundary
<1> QED BY <1>4, <1>5, <1>6, ZenonT(30) DEF IInv, Good, Init

LEMMA NextIInv == IInv /\ [Next]_vars => IInv'
<1> SUFFICES ASSUME IInv, [Next]_vars PROVE IInv' OBVIOUS
<1>1. CASE StartWorkload BY <1>1, StartWorkloadIInv
<1>2. CASE \E p \in Pids : ListMain(p) BY <1>2, ListMainIInv
<1>3. CASE \E children \in {<<>>} \cup {<<p>> : p \in Pids} : ListChildren(children)
  BY <1>3, ListChildrenIInv
<1>4. CASE Cleanup \/ Interrupt \/ UNCHANGED vars
  <2>1. UNCHANGED <<inode, jobs, main_pid, restarted, listed, rpc, fd, offset, buf, file_pos, pid_map>>
    BY <1>4 DEF Cleanup, Interrupt, vars, writer_vars, reader_vars
  <2>2. path' = path \/ (path' = NoFile /\ jobs = 0)
    BY <1>4 DEF Cleanup, Interrupt, vars
  <2>3. Line' = Line BY <2>1 DEF Line
  <2> SUFFICES ASSUME ~restarted PROVE Good' BY <2>1 DEF IInv
  <2>4. Good BY DEF IInv
  <2>5. FilesOK' BY <2>1, <2>2, <2>3, <2>4 DEF Good, FilesOK, WriterOK
  <2>6. WriterOK' BY <2>1, <2>4 DEF Good, WriterOK
  <2>7. ReaderOK' BY <2>1, <2>2, <2>3, <2>4 DEF Good, ReaderOK
  <2> QED BY <2>1, <2>4, <2>5, <2>6, <2>7 DEF Good
<1>5. CASE Receiver BY <1>5, ReceiverIInv
<1> QED BY <1>1, <1>2, <1>3, <1>4, <1>5 DEF Next

\* pid_receiver registers only numbers that stood in the list as a line, for any
\* pids, lists and workloads: fseek never puts it into the middle of a line,
\* unless workload.sh began a new list under it.
THEOREM OnlyListedPids == Spec => []TrackedWereListed
<1>1. IInv => TrackedWereListed BY DEF IInv, Good, TrackedWereListed
<1> QED BY <1>1, InitIInv, NextIInv, PTL DEF Spec
-----------------------------------------------------------------------------
(***************************************************************************)
(* The walk of the dump loop, for any keys, any hash chains and any number *)
(* of changes under it.                                                    *)
(*                                                                         *)
(* The walk has only a key to remember where it is.  What makes that       *)
(* enough is OpenEntries: every entry it still owes a line comes after     *)
(* that key, or the key is gone and the walk starts over.                  *)
(***************************************************************************)

Places == {"top", "next", "lookup", "sleep", "failed", "done"}

Typed ==
  /\ entries \subseteq Keys
  /\ pc \in Places
  /\ lines \in Seq(Keys)
  /\ changes \in Nat
  /\ skipped \in BOOLEAN
  /\ kept \subseteq entries

\* A chain is a strict total order of the entries of its bucket.
ChainsOK ==
  /\ ahead \subseteq entries \X entries
  /\ \A j, k \in entries : <<j, k>> \in ahead => Bucket[j] = Bucket[k] /\ j # k
  /\ \A j, k \in entries :
       Bucket[j] = Bucket[k] /\ j # k => <<j, k>> \in ahead \/ <<k, j>> \in ahead
  /\ \A j, k, m \in entries :
       <<j, k>> \in ahead /\ <<k, m>> \in ahead => <<j, m>> \in ahead

\* next_key says where the walk is: between two keys it is also in key.
PlaceOK ==
  /\ pc \notin {"next", "lookup"} => next_key = NoKey
  /\ next_key # NoKey => next_key \in Keys
  /\ pc = "lookup" => next_key \in Keys
  /\ pc = "next" => key = (IF next_key = NoKey THEN ZeroKey ELSE next_key)

\* The walk will get to entry k from next_key.
Reaches(k) ==
  \/ pc = "lookup" /\ k = next_key
  \/ Bucket[next_key] < Bucket[k]
  \/ /\ Bucket[next_key] = Bucket[k] /\ k # next_key
     /\ next_key \in entries => <<next_key, k>> \in ahead

\* An entry kept in its place has its line, or the walk will get to it.
OpenEntries ==
  ~skipped =>
    /\ pc \in {"next", "lookup"} /\ next_key # NoKey =>
         \A k \in kept \ moved : k \in Range(lines) \/ Reaches(k)
    /\ pc = "sleep" => kept \ moved \subseteq Range(lines)

\* As long as nothing is deleted or moved the lines follow the chains, up to
\* next_key.
InOrder ==
  changes = 0 =>
    /\ \A m \in 1 .. Len(lines) : lines[m] \in entries
    /\ \A m, n \in 1 .. Len(lines) : m < n => Precedes(lines[m], lines[n])
    /\ next_key # NoKey => next_key \in entries
    /\ pc = "next" /\ next_key = NoKey => lines = <<>>
    /\ next_key # NoKey => \A m \in 1 .. Len(lines) :
         Precedes(lines[m], next_key) \/ (pc = "next" /\ lines[m] = next_key)

DumpIInv == Typed /\ ChainsOK /\ PlaceOK /\ OpenEntries /\ InOrder

\* No key has two lines in one file, unless an entry was deleted or moved.
LinesDiffer ==
  changes = 0 => \A m, n \in 1 .. Len(lines) : lines[m] = lines[n] => m = n
-----------------------------------------------------------------------------
(***************************************************************************)
(* Sequences and chains                                                    *)
(***************************************************************************)

\* A line is appended: Append adds one element to the set.
LEMMA RangeAppend ==
  ASSUME NEW S, NEW s \in Seq(S), NEW x \in S
  PROVE  Range(Append(s, x)) = Range(s) \cup {x}
<1>1. DOMAIN s = 1 .. Len(s) /\ DOMAIN Append(s, x) = 1 .. (Len(s) + 1)
  OBVIOUS
<1>2. /\ \A m \in 1 .. Len(s) : Append(s, x)[m] = s[m]
      /\ Append(s, x)[Len(s) + 1] = x
      /\ Len(s) \in Nat
  OBVIOUS
<1> QED BY <1>1, <1>2 DEF Range

\* The chains after bpf_map_update_elem: key k comes before its neighbours,
\* the others are as they were.
LEMMA PutAhead ==
  ASSUME NEW k \in Keys, Put(k)
  PROVE  \A j, m : <<j, m>> \in ahead' <=>
           \/ j # k /\ m # k /\ <<j, m>> \in ahead
           \/ j = k /\ m \in entries \ {k} /\ Bucket[m] = Bucket[k]
BY DEF Put, Unlinked

\* The chains after bpf_map_delete_elem: without key k.
LEMMA DeleteAhead ==
  ASSUME NEW k \in Keys, Delete(k)
  PROVE  \A j, m : <<j, m>> \in ahead' <=> j # k /\ m # k /\ <<j, m>> \in ahead
BY DEF Delete, Unlinked

\* bpf_map_update_elem keeps the chains ordered.
LEMMA PutChains ==
  ASSUME Typed, ChainsOK, NEW k \in Keys, Put(k)
  PROVE  ChainsOK'
<1>1. entries' = entries \cup {k} BY DEF Put
<1>2. ahead' \subseteq entries' \X entries'
  BY <1>1 DEF Put, Unlinked, ChainsOK
<1>3. \A j, m \in entries' : <<j, m>> \in ahead' => Bucket[j] = Bucket[m] /\ j # m
  BY <1>1, PutAhead DEF ChainsOK
<1>4. \A j, m \in entries' :
        Bucket[j] = Bucket[m] /\ j # m => <<j, m>> \in ahead' \/ <<m, j>> \in ahead'
  BY <1>1, PutAhead DEF ChainsOK
<1>5. \A j, m, n \in entries' :
        <<j, m>> \in ahead' /\ <<m, n>> \in ahead' => <<j, n>> \in ahead'
  BY <1>1, PutAhead DEF ChainsOK
<1> QED BY <1>2, <1>3, <1>4, <1>5 DEF ChainsOK

\* bpf_map_delete_elem keeps the chains ordered.
LEMMA DeleteChains ==
  ASSUME Typed, ChainsOK, NEW k \in Keys, Delete(k)
  PROVE  ChainsOK'
<1>1. entries' = entries \ {k} BY DEF Delete
<1>2. ahead' \subseteq entries' \X entries'
  BY <1>1 DEF Delete, Unlinked, ChainsOK
<1> QED BY <1>1, <1>2, DeleteAhead DEF ChainsOK
-----------------------------------------------------------------------------
(***************************************************************************)
(* The steps of the probes                                                 *)
(***************************************************************************)

LEMMA PutIInv ==
  ASSUME DumpIInv, NEW k \in Keys, Put(k)
  PROVE  DumpIInv'
<1> USE BucketAssumption
<1>1. UNCHANGED <<pc, key, next_key, i, lines, skipped, kept>>
  BY DEF Put, main_vars
<1>2. entries' = entries \cup {k} BY DEF Put
<1>3. Typed'
  <2>1. changes' \in Nat BY DEF Put, DumpIInv, Typed
  <2>2. skipped' \in BOOLEAN BY <1>1, Zenon DEF DumpIInv, Typed
  <2> QED BY <1>1, <1>2, <2>1, <2>2 DEF DumpIInv, Typed
<1>4. ChainsOK' BY PutChains DEF DumpIInv
<1>5. PlaceOK' BY <1>1 DEF DumpIInv, PlaceOK
<1>6. ASSUME NEW j \in kept \ moved', Reaches(j), next_key \in Keys
      PROVE  Reaches(j)'
  <2>1. j \in entries /\ j \in Keys BY <1>6 DEF DumpIInv, Typed
  <2>2. CASE Bucket[next_key] = Bucket[j] /\ j # next_key /\ next_key \in entries'
    <3>1. CASE next_key = k BY <1>1, <2>1, <2>2, <3>1, PutAhead DEF Reaches
    <3>2. CASE next_key # k
      <4>1. <<next_key, j>> \in ahead
        BY <1>2, <1>6, <2>1, <2>2, <3>2 DEF Reaches
      <4>2. j # k
        BY <1>2, <1>6, <2>1, <2>2, <3>2, <4>1, Zenon DEF Put
      <4> QED BY <1>1, <2>2, <3>2, <4>1, <4>2, PutAhead DEF Reaches
    <3> QED BY <3>1, <3>2
  <2> QED BY <1>1, <1>6, <2>2 DEF Reaches
<1>7. OpenEntries'
  <2>1. kept \ moved' \subseteq kept \ moved BY Zenon DEF Put
  <2> QED BY <1>1, <1>6, <2>1 DEF OpenEntries, DumpIInv, PlaceOK
<1>8. InOrder'
  <2> SUFFICES ASSUME changes' = 0 PROVE InOrder' BY DEF InOrder
  <2>1. changes = 0 BY DEF Put, DumpIInv, Typed
  <2>2. \A j \in entries : k \in entries => <<j, k>> \notin ahead
    <3> SUFFICES ASSUME NEW j \in entries, k \in entries, <<j, k>> \in ahead
                 PROVE  FALSE
      OBVIOUS
    <3>1. Bucket[j] = Bucket[k] /\ j # k BY DEF DumpIInv, ChainsOK
    <3>2. changes' = changes + 1 BY <3>1 DEF Put
    <3> QED BY <2>1, <3>2
  <2>3. \A j, m \in entries : Precedes(j, m) => Precedes(j, m)'
    <3>1. ASSUME NEW j \in entries, NEW m \in entries, <<j, m>> \in ahead
          PROVE  <<j, m>> \in ahead'
      BY <2>2, <3>1, PutAhead DEF DumpIInv, ChainsOK
    <3> QED BY <3>1 DEF Precedes
  <2> QED BY <1>1, <1>2, <2>1, <2>3 DEF InOrder, DumpIInv
<1> QED BY <1>3, <1>4, <1>5, <1>7, <1>8 DEF DumpIInv

LEMMA DeleteIInv ==
  ASSUME DumpIInv, NEW k \in Keys, Delete(k)
  PROVE  DumpIInv'
<1>1. UNCHANGED <<pc, key, next_key, i, lines, skipped, moved>>
  BY DEF Delete, main_vars
<1>2. entries' = entries \ {k} /\ kept' = kept \ {k} BY DEF Delete
<1>3. Typed'
  <2>1. changes' \in Nat BY DEF Delete, DumpIInv, Typed
  <2>2. skipped' \in BOOLEAN BY <1>1, Zenon DEF DumpIInv, Typed
  <2> QED BY <1>1, <1>2, <2>1, <2>2 DEF DumpIInv, Typed
<1>4. ChainsOK' BY DeleteChains DEF DumpIInv
<1>5. PlaceOK' BY <1>1 DEF DumpIInv, PlaceOK
<1>6. \A j \in kept' : Reaches(j) => Reaches(j)'
  BY <1>1, <1>2, DeleteAhead DEF Reaches
<1>7. OpenEntries'
  BY <1>1, <1>2, <1>6 DEF OpenEntries, DumpIInv
<1>8. InOrder' BY DEF InOrder, Delete, DumpIInv, Typed
<1> QED BY <1>3, <1>4, <1>5, <1>7, <1>8 DEF DumpIInv
-----------------------------------------------------------------------------
(***************************************************************************)
(* The steps of main                                                       *)
(***************************************************************************)

LEMMA OpenFileIInv == DumpIInv /\ OpenFile => DumpIInv'
<1> SUFFICES ASSUME DumpIInv, OpenFile PROVE DumpIInv' OBVIOUS
<1>1. /\ pc' = "next" /\ key' = ZeroKey /\ next_key' = NoKey
      /\ lines' = <<>> /\ kept' = entries /\ changes' = 0
      /\ UNCHANGED <<entries, ahead>>
  BY DEF OpenFile, StartKey, DumpIInv, PlaceOK
<1>2. Typed'
  <2>1. skipped' \in BOOLEAN BY Zenon DEF OpenFile
  <2> QED BY <1>1, <2>1 DEF DumpIInv, Typed, Places
<1>3. ChainsOK' BY <1>1 DEF DumpIInv, ChainsOK
<1>4. PlaceOK' BY <1>1 DEF PlaceOK
<1>5. OpenEntries' BY <1>1 DEF OpenEntries
<1>6. InOrder'
  <2>1. Len(lines') = 0 BY <1>1
  <2> QED BY <1>1, <2>1 DEF InOrder
<1> QED BY <1>2, <1>3, <1>4, <1>5, <1>6 DEF DumpIInv

\* get_next_key finds no key: every kept entry has its line.
LEMMA WalkEndsIInv ==
  ASSUME DumpIInv, Next_key, Following(key) = {}, next_key' = NoKey, pc' = "sleep"
  PROVE  DumpIInv'
<1> USE BucketAssumption, NoKeyAssumption
<1>1. UNCHANGED <<entries, ahead, kept, moved, changes, key, i, lines>>
  BY DEF Next_key, map_vars
<1>2. Typed'
  <2>1. skipped' \in BOOLEAN BY Zenon DEF Next_key
  <2> QED BY <1>1, <2>1 DEF DumpIInv, Typed, Places
<1>3. ChainsOK' BY <1>1 DEF DumpIInv, ChainsOK
<1>4. PlaceOK' BY DEF PlaceOK
<1>5. OpenEntries'
  <2> SUFFICES ASSUME ~skipped', NEW k \in kept \ moved
               PROVE  k \in Range(lines)
    BY <1>1 DEF OpenEntries
  <2>1. ~skipped /\ ~(next_key = NoKey /\ key = ZeroKey /\ key \in entries)
    BY Zenon DEF Next_key
  <2>2. k \in entries BY DEF DumpIInv, Typed
  <2>3. key \in entries /\ ~Precedes(key, k) BY <2>2 DEF Following
  <2>4. next_key # NoKey /\ key = next_key
    BY <2>1, <2>3 DEF DumpIInv, PlaceOK, Next_key
  <2>5. k \in Range(lines) \/ Reaches(k)
    BY <2>1, <2>4 DEF DumpIInv, OpenEntries, Next_key
  <2>6. ~Reaches(k)
    BY <2>3, <2>4 DEF Reaches, Precedes, Next_key
  <2> QED BY <2>5, <2>6
<1>6. InOrder'
  <2>1. \A j, m : Precedes(j, m)' = Precedes(j, m) BY <1>1 DEF Precedes
  <2> QED BY <1>1, <2>1 DEF DumpIInv, InOrder
<1> QED BY <1>2, <1>3, <1>4, <1>5, <1>6 DEF DumpIInv

\* get_next_key finds n: what was to come after key, comes after n or is n.
LEMMA WalkGoesOnIInv ==
  ASSUME DumpIInv, Next_key, NEW n \in Keys, GetNextKey(key, n),
         next_key' = n, pc' = "lookup"
  PROVE  DumpIInv'
<1> USE BucketAssumption, NoKeyAssumption
<1>1. UNCHANGED <<entries, ahead, kept, moved, changes, key, i, lines>>
  BY DEF Next_key, map_vars
<1>2. n # NoKey /\ n \in entries
  BY DEF GetNextKey, Following
<1>3. Typed'
  <2>1. skipped' \in BOOLEAN BY Zenon DEF Next_key
  <2> QED BY <1>1, <2>1 DEF DumpIInv, Typed, Places
<1>4. ChainsOK' BY <1>1 DEF DumpIInv, ChainsOK
<1>5. PlaceOK' BY <1>2 DEF PlaceOK
<1>6. OpenEntries'
  <2> SUFFICES ASSUME ~skipped', NEW k \in kept \ moved, k \notin Range(lines)
               PROVE  Reaches(k)'
    BY <1>1 DEF OpenEntries
  <2>1. ~skipped /\ ~(next_key = NoKey /\ key = ZeroKey /\ key \in entries)
    BY Zenon DEF Next_key
  <2>2. k \in entries /\ k \in Keys BY DEF DumpIInv, Typed
  <2>3. k \in Following(key)
    <3>1. CASE key \notin entries BY <2>2, <3>1 DEF Following
    <3>2. CASE key \in entries
      <4>1. next_key # NoKey /\ key = next_key
        BY <2>1, <3>2 DEF DumpIInv, PlaceOK, Next_key
      <4>2. Reaches(k)
        BY <2>1, <4>1 DEF DumpIInv, OpenEntries, Next_key
      <4>3. Precedes(key, k)
        BY <3>2, <4>1, <4>2 DEF Reaches, Precedes, Next_key
      <4> QED BY <2>2, <3>2, <4>3 DEF Following
    <3> QED BY <3>1, <3>2
  <2>4. CASE k = n BY <2>4 DEF Reaches
  <2>5. CASE k # n
    <3>1. Precedes(n, k) BY <2>3, <2>5 DEF GetNextKey
    <3>2. Bucket[n] < Bucket[k] \/ (Bucket[n] = Bucket[k] /\ <<n, k>> \in ahead)
      BY <1>2, <2>2, <3>1 DEF Precedes, DumpIInv, ChainsOK
    <3> QED BY <1>1, <2>5, <3>2 DEF Reaches
  <2> QED BY <2>4, <2>5
<1>7. InOrder'
  <2> SUFFICES ASSUME changes = 0 PROVE InOrder' BY <1>1 DEF InOrder
  <2>1. \A j, m : Precedes(j, m)' = Precedes(j, m) BY <1>1 DEF Precedes
  <2>2. CASE next_key = NoKey
    <3>1. lines = <<>> BY <2>2 DEF DumpIInv, InOrder, Next_key
    <3>2. Len(lines) = 0 BY <3>1
    <3> QED BY <1>1, <1>2, <3>2 DEF InOrder
  <2>3. CASE next_key # NoKey
    <3>1. key = next_key /\ key \in entries /\ key \in Keys
      BY <2>3 DEF DumpIInv, PlaceOK, InOrder, Next_key
    <3>2. Precedes(key, n) BY <3>1 DEF GetNextKey, Following
    <3>3. \A m \in 1 .. Len(lines) : lines[m] \in entries /\ lines[m] \in Keys
      BY DEF DumpIInv, InOrder, Typed
    <3>4. \A m \in 1 .. Len(lines) : Precedes(lines[m], key) \/ lines[m] = key
      BY <2>3, <3>1 DEF DumpIInv, InOrder
    <3>5. \A j \in entries : Precedes(j, key) => Precedes(j, n)
      <4> SUFFICES ASSUME NEW j \in entries, Precedes(j, key) PROVE Precedes(j, n)
        OBVIOUS
      <4>1. Bucket[j] \in Int /\ Bucket[key] \in Int /\ Bucket[n] \in Int
        BY <3>1 DEF DumpIInv, Typed
      <4>2. CASE <<j, key>> \in ahead /\ <<key, n>> \in ahead
        BY <1>2, <3>1, <4>2 DEF Precedes, DumpIInv, ChainsOK
      <4>3. CASE Bucket[j] < Bucket[key] \/ Bucket[key] < Bucket[n]
        <5>1. Bucket[j] <= Bucket[key] /\ Bucket[key] <= Bucket[n]
          BY <1>2, <3>1, <3>2, <4>1 DEF Precedes, DumpIInv, ChainsOK
        <5> QED BY <4>1, <4>3, <5>1 DEF Precedes
      <4> QED BY <3>2, <4>2, <4>3 DEF Precedes
    <3>6. \A m \in 1 .. Len(lines) : Precedes(lines[m], n)
      BY <3>2, <3>3, <3>4, <3>5
    <3> QED BY <1>1, <1>2, <2>1, <3>3, <3>6 DEF InOrder, DumpIInv
  <2> QED BY <2>2, <2>3
<1> QED BY <1>3, <1>4, <1>5, <1>6, <1>7 DEF DumpIInv

LEMMA LookupIInv == DumpIInv /\ Lookup => DumpIInv'
<1> SUFFICES ASSUME DumpIInv, Lookup PROVE DumpIInv' OBVIOUS
<1> USE NoKeyAssumption
<1>1. UNCHANGED <<entries, ahead, kept, moved, changes, next_key, i, skipped>>
  BY DEF Lookup, map_vars
<1>2. /\ pc = "lookup" /\ pc' = "next" /\ key' = next_key
      /\ next_key \in Keys /\ next_key # NoKey
  BY DEF Lookup, DumpIInv, PlaceOK
<1>3. lines \in Seq(Keys) BY DEF DumpIInv, Typed
<1>4. Typed'
  <2>1. lines' \in Seq(Keys) BY <1>2, <1>3 DEF Lookup
  <2>2. skipped' \in BOOLEAN BY <1>1, Zenon DEF DumpIInv, Typed
  <2> QED BY <1>1, <1>2, <2>1, <2>2 DEF DumpIInv, Typed, Places
<1>5. ChainsOK' BY <1>1 DEF DumpIInv, ChainsOK
<1>6. PlaceOK' BY <1>1, <1>2 DEF PlaceOK
<1>7. OpenEntries'
  <2> SUFFICES ASSUME ~skipped, NEW k \in kept \ moved, k \notin Range(lines')
               PROVE  Reaches(k)'
    BY <1>1, <1>2 DEF OpenEntries
  <2>1. k \in entries BY DEF DumpIInv, Typed
  <2>2. k \notin Range(lines) /\ k # next_key
    BY <1>2, <1>3, <2>1, RangeAppend DEF Lookup
  <2>3. Reaches(k) BY <1>2, <2>2 DEF DumpIInv, OpenEntries
  <2> QED BY <1>1, <2>2, <2>3 DEF Reaches
<1>8. InOrder'
  <2> SUFFICES ASSUME changes = 0 PROVE InOrder' BY <1>1 DEF InOrder
  <2>1. \A j, m : Precedes(j, m)' = Precedes(j, m) BY <1>1 DEF Precedes
  <2>2. next_key \in entries /\ lines' = Append(lines, next_key)
    BY <1>2 DEF DumpIInv, InOrder, Lookup
  <2>3. /\ Len(lines') = Len(lines) + 1 /\ Len(lines) \in Nat
        /\ lines'[Len(lines) + 1] = next_key
        /\ \A m \in 1 .. Len(lines) : lines'[m] = lines[m]
    BY <1>2, <1>3, <2>2
  <2>4. \A m \in 1 .. Len(lines) : lines[m] \in entries /\ Precedes(lines[m], next_key)
    BY <1>2 DEF DumpIInv, InOrder
  <2>5. \A m, n \in 1 .. Len(lines) : m < n => Precedes(lines[m], lines[n])
    BY DEF DumpIInv, InOrder
  <2>6. \A m, n \in 1 .. Len(lines') : m < n => Precedes(lines'[m], lines'[n])
    BY <2>3, <2>4, <2>5
  <2>7. \A m \in 1 .. Len(lines') : lines'[m] \in entries
    BY <2>2, <2>3, <2>4
  <2>8. \A m \in 1 .. Len(lines') :
          Precedes(lines'[m], next_key) \/ lines'[m] = next_key
    BY <2>3, <2>4
  <2> QED BY <1>1, <1>2, <2>1, <2>2, <2>6, <2>7, <2>8 DEF InOrder
<1> QED BY <1>4, <1>5, <1>6, <1>7, <1>8 DEF DumpIInv

\* The steps that touch neither the map nor the walk
LEMMA OutsideIInv ==
  ASSUME DumpIInv, UNCHANGED <<map_vars, skipped, key, next_key, lines>>,
         \/ UNCHANGED pc
         \/ pc \in {"top", "sleep"} /\ pc' \in {"top", "failed", "done"}
  PROVE  DumpIInv'
<1>1. UNCHANGED <<entries, ahead, kept, moved, changes, skipped, key, next_key, lines>>
  BY DEF map_vars
<1>2. Typed'
  <2>1. skipped' \in BOOLEAN BY <1>1, Zenon DEF DumpIInv, Typed
  <2> QED BY <1>1, <2>1 DEF DumpIInv, Typed, Places
<1>3. ChainsOK' BY <1>1 DEF DumpIInv, ChainsOK
<1>4. PlaceOK' BY <1>1 DEF DumpIInv, PlaceOK
<1>5. OpenEntries'
  <2>1. CASE UNCHANGED pc
    <3>1. \A k : Reaches(k)' = Reaches(k) BY <1>1, <2>1 DEF Reaches
    <3> QED BY <1>1, <2>1, <3>1 DEF DumpIInv, OpenEntries
  <2>2. CASE pc' \in {"top", "failed", "done"} BY <2>2 DEF OpenEntries
  <2> QED BY <2>1, <2>2
<1>6. InOrder'
  <2>1. \A j, m : Precedes(j, m)' = Precedes(j, m) BY <1>1 DEF Precedes
  <2>2. CASE UNCHANGED pc BY <1>1, <2>1, <2>2 DEF DumpIInv, InOrder
  <2>3. CASE pc \in {"top", "sleep"} /\ pc' \in {"top", "failed", "done"}
    <3>1. next_key = NoKey BY <2>3 DEF DumpIInv, PlaceOK
    <3> QED BY <1>1, <2>1, <2>3, <3>1 DEF DumpIInv, InOrder
  <2> QED BY <2>2, <2>3
<1> QED BY <1>2, <1>3, <1>4, <1>5, <1>6 DEF DumpIInv

LEMMA InitDumpIInv == DumpInit => DumpIInv
<1> SUFFICES ASSUME DumpInit PROVE DumpIInv OBVIOUS
<1>1. Typed
  <2>1. skipped \in BOOLEAN BY ZenonT(30) DEF DumpInit
  <2> QED BY <2>1 DEF DumpInit, Typed, Places
<1>2. ChainsOK BY DEF DumpInit, ChainsOK
<1>3. PlaceOK BY DEF DumpInit, PlaceOK
<1>4. OpenEntries BY DEF DumpInit, OpenEntries
<1>5. InOrder
  <2>1. Len(lines) = 0 BY DEF DumpInit
  <2> QED BY <2>1 DEF DumpInit, InOrder
<1> QED BY <1>1, <1>2, <1>3, <1>4, <1>5 DEF DumpIInv

LEMMA NextDumpIInv == DumpIInv /\ [DumpNext]_dump_vars => DumpIInv'
<1> SUFFICES ASSUME DumpIInv, [DumpNext]_dump_vars PROVE DumpIInv' OBVIOUS
<1>1. CASE OpenFile BY <1>1, OpenFileIInv
<1>2. CASE OpenFails BY <1>2, OutsideIInv DEF OpenFails
<1>3. CASE Next_key
  <2>1. CASE Following(key) = {} /\ next_key' = NoKey /\ pc' = "sleep"
    BY <1>3, <2>1, WalkEndsIInv
  <2>2. CASE \E n \in Keys : GetNextKey(key, n) /\ next_key' = n /\ pc' = "lookup"
    BY <1>3, <2>2, WalkGoesOnIInv
  <2> QED BY <1>3, <2>1, <2>2 DEF Next_key
<1>4. CASE Lookup BY <1>4, LookupIInv
<1>5. CASE CloseFile BY <1>5, OutsideIInv DEF CloseFile, AfterFile
<1>6. CASE LeaveLoop BY <1>6, OutsideIInv DEF LeaveLoop
<1>7. CASE InterruptDump BY <1>7, OutsideIInv DEF InterruptDump, main_vars
<1>8. CASE \E k \in Keys : Put(k) \/ Delete(k)
  BY <1>8, PutIInv, DeleteIInv
<1>9. CASE UNCHANGED dump_vars BY <1>9, OutsideIInv DEF dump_vars, main_vars
<1> QED BY <1>1, <1>2, <1>3, <1>4, <1>5, <1>6, <1>7, <1>8, <1>9 DEF DumpNext, Main
-----------------------------------------------------------------------------
(***************************************************************************)
(* The theorems                                                            *)
(***************************************************************************)

LEMMA DumpIInvHolds == DumpSpec => []DumpIInv
BY InitDumpIInv, NextDumpIInv, PTL DEF DumpSpec

\* The walk with get_next_key misses no entry that stays where it is: for any
\* keys and hash chains, and whatever the probes insert, replace and delete
\* while main writes the file.
THEOREM WalkMissesNothingKept == DumpSpec => []KeptEntriesDumped
<1>1. DumpIInv => KeptEntriesDumped
  BY DEF DumpIInv, OpenEntries, KeptEntriesDumped
<1> QED BY <1>1, DumpIInvHolds, PTL

\* No two pages of one file have the same name: index ^ mapping gives the index
\* back.
LEMMA NamesOfOneFile ==
  ASSUME NEW j \in Keys, NEW k \in Keys, j[1] = k[1], Name(j) = Name(k)
  PROVE  j = k
<1> USE KeysAssumption
<1>1. \A b : b \in j[2] <=> b \in k[2]
  BY DEF Name, hash_index_mapping
<1>2. j[2] = k[2] BY <1>1
<1> QED BY <1>2

\* main writes no second line for a key into one file, as long as the probes
\* only insert: the lines follow the hash chains.
LEMMA InsertionsRepeatNothing == DumpIInv => LinesDiffer
<1> USE BucketAssumption
<1> SUFFICES ASSUME DumpIInv, changes = 0, NEW m \in 1 .. Len(lines),
                    NEW n \in 1 .. Len(lines), lines[m] = lines[n], m < n
             PROVE  FALSE
  BY DEF LinesDiffer, DumpIInv, Typed
<1>1. lines[m] \in entries /\ lines[m] \in Keys BY DEF DumpIInv, InOrder, Typed
<1>2. Precedes(lines[m], lines[m]) BY DEF DumpIInv, InOrder
<1> QED BY <1>1, <1>2 DEF Precedes, DumpIInv, ChainsOK

\* main writes no name twice for pages of one file, as long as the probes only
\* insert: a key has one line, and the names of one file's pages differ.
THEOREM NamesRepeatOnlyAfterChange == DumpSpec => []RepeatsNeedChange
<1>1. ASSUME DumpIInv PROVE RepeatsNeedChange
  <2> SUFFICES ASSUME changes = 0, NEW m \in DOMAIN lines, NEW n \in DOMAIN lines,
                      Name(lines[m]) = Name(lines[n]), lines[m][1] = lines[n][1]
               PROVE  m = n
    BY DEF RepeatsNeedChange
  <2>1. lines \in Seq(Keys) /\ LinesDiffer
    BY <1>1, InsertionsRepeatNothing DEF DumpIInv, Typed
  <2>2. lines[m] = lines[n] BY <2>1, NamesOfOneFile
  <2> QED BY <2>1, <2>2 DEF LinesDiffer
<1> QED BY <1>1, DumpIInvHolds, PTL
=============================================================================
