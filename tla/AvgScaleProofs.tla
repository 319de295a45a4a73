--------------------------- MODULE AvgScaleProofs ---------------------------
(***************************************************************************)
(* The loop of get_avgscale.py processes dumps in order and keeps its      *)
(* factor and the kernel's together, for any processes and dumps and any   *)
(* range of factors the kernel accepts.                                    *)
(*                                                                         *)
(* A file is chosen only if it is not the last one processed, and the      *)
(* second newest file never goes back: OrderOK.  The factor is truncated   *)
(* towards zero: it reaches 0 only from 0 or 1, where the kernel has 1.    *)
(***************************************************************************)
EXTENDS AvgScale, WellFoundedInduction, TLAPS

OrderOK ==
  /\ {number, current_file, latest} \subseteq Int
  /\ last_processed_file = latest
  /\ latest <= number
  /\ pc \in {"read", "adjust"} => latest < current_file /\ current_file <= number

IInv ==
  /\ OrderOK
  /\ watermark_scale_factor \in Nat
  /\ KernelFollows
-----------------------------------------------------------------------------
\* The three factors that can follow are within a ninth and a tenth.
LEMMA AdjustedBound ==
  ASSUME watermark_scale_factor \in Nat, NEW p \in Pids, NEW w \in Adjusted(p)
  PROVE  /\ w \in Nat
         /\ watermark_scale_factor <= 8 => w <= watermark_scale_factor
         /\ w = 0 => watermark_scale_factor <= 1
<1>1. w \in {Raise(watermark_scale_factor), Lower(watermark_scale_factor),
             watermark_scale_factor}
  BY DEF Adjusted
<1> QED
  BY <1>1 DEF Raise, Lower

\* The invariant holds at the start.
LEMMA InitIInv == Init => IInv
BY DEF Init, IInv, OrderOK, KernelFollows

\* The analysis of a process keeps script and kernel together.
LEMMA AdjustIInv ==
  ASSUME IInv, NEW p \in Pids, NEW root \in BOOLEAN, Adjust(p, root)
  PROVE  IInv'
<1>1. OrderOK'
  BY DEF IInv, OrderOK, Adjust, UpdateKernel, dir_vars
<1>2. CASE ~HighChurn(p)
  BY <1>1, <1>2 DEF IInv, KernelFollows, Adjust
<1>3. CASE HighChurn(p)
  <2>1. /\ watermark_scale_factor' \in Nat
        /\ watermark_scale_factor' = 0 => watermark_scale_factor <= 1
    BY <1>3, AdjustedBound DEF IInv, Adjust
  <2>2. UpdateKernel(watermark_scale_factor', root) /\ pc = "adjust"
    BY <1>3 DEF Adjust, Written
  <2>3. KernelFollows'
    BY <2>1, <2>2 DEF IInv, KernelFollows, UpdateKernel, TooSmall
  <2> QED
    BY <1>1, <2>1, <2>3 DEF IInv
<1> QED
  BY <1>2, <1>3

\* No step breaks the invariant.
LEMMA NextIInv == IInv /\ [Next]_vars => IInv'
<1> SUFFICES ASSUME IInv, [Next]_vars PROVE IInv'
  OBVIOUS
<1> USE DEF IInv, OrderOK, KernelFollows, dir_vars
<1>1. ASSUME NEW s \in Dumps, Publish(s) PROVE IInv'
  BY <1>1 DEF Publish
<1>2. ASSUME NEW alive \in SUBSET Pids, Choose(alive) PROVE IInv'
  BY <1>2 DEF Choose
<1>3. CASE Read
  BY <1>3 DEF Read
<1>4. CASE ReadFails
  BY <1>4 DEF ReadFails
<1>5. ASSUME NEW p \in Pids, NEW root \in BOOLEAN, Adjust(p, root) PROVE IInv'
  BY <1>5, AdjustIInv
<1>6. CASE Finish
  BY <1>6 DEF Finish, Processed
<1>7. CASE UNCHANGED vars
  BY <1>7 DEF vars
<1> QED
  BY <1>1, <1>2, <1>3, <1>4, <1>5, <1>6, <1>7 DEF Next

\* The invariant holds in every reachable state.
LEMMA IInvHolds == Spec => []IInv
BY InitIInv, NextIInv, PTL DEF Spec
-----------------------------------------------------------------------------
\* After a write that update_kernel_watermark_scale_factor reports as a success
\* the kernel has the factor of the script, or 1 when that has fallen to 0.
THEOREM KernelHasFactor == Spec => []KernelFollows
<1>1. IInv => KernelFollows
  BY DEF IInv
<1> QED
  BY <1>1, IInvHolds, PTL

\* last_processed_file keeps the loop from processing a dump twice, or one after
\* a later one.
THEOREM DumpsInOrder == Spec => ProcessedInOrder
<1>1. IInv /\ [Next]_vars =>
        [pc = "adjust" /\ pc' = "top" => current_file > latest]_vars
  BY DEF IInv, OrderOK
<1> QED
  BY <1>1, IInvHolds, PTL DEF Spec, ProcessedInOrder

\* int(factor * 10/9) does not raise a factor of 8 or less, so one that has
\* fallen that far only falls.
THEOREM SmallFactorsOnlyFall == Spec => SmallNeverGrows
<1> DEFINE A == watermark_scale_factor <= 8 =>
                  watermark_scale_factor' <= watermark_scale_factor
<1>1. IInv /\ [Next]_vars => [A]_vars
  <2> SUFFICES ASSUME IInv, Next PROVE A
    OBVIOUS
  <2>1. ASSUME NEW p \in Pids, NEW root \in BOOLEAN, Adjust(p, root) PROVE A
    BY <2>1, AdjustedBound DEF IInv, Adjust
  <2>2. CASE UNCHANGED watermark_scale_factor
    BY <2>2 DEF IInv
  <2> QED
    BY <2>1, <2>2 DEF Next, Publish, Choose, Read, ReadFails, Finish
<1> QED
  BY <1>1, IInvHolds, PTL DEF Spec, SmallNeverGrows
-----------------------------------------------------------------------------
(***************************************************************************)
(* Types: what the script makes of a dump                                  *)
(***************************************************************************)

\* A set of natural numbers has a least one.
LEMMA Least ==
  ASSUME NEW T \in SUBSET Nat, T # {}
  PROVE  \E x \in T : \A y \in T : x <= y
<1> DEFINE R == OpToRel(<, Nat)
<1>1. IsWellFoundedOn(R, Nat) BY NatLessThanWellFounded, Zenon
<1>2. \A a, b \in Nat : <<a, b>> \in R <=> a < b BY DEF OpToRel
<1>3. \A a, b \in Nat : ~(a < b) => b <= a OBVIOUS
<1> HIDE DEF R
<1>4. \E x \in T : \A y \in T : ~(<<y, x>> \in R) BY <1>1, WFMin, Zenon
<1>5. \E x \in T : \A y \in T : ~(y < x) BY <1>2, <1>4, Zenon
<1> QED BY <1>3, <1>5

\* Of some lines of a file there is a last one.
LEMMA LastLine ==
  ASSUME NEW n \in Nat, NEW T \in SUBSET (1 .. n), T # {}
  PROVE  \E x \in T : \A y \in T : y <= x
<1> DEFINE U == {n - x : x \in T}
<1>0. \A x \in T : x \in 1 .. n BY Zenon
<1>1. U \in SUBSET Nat /\ U # {}
  <2>1. \A x \in T : n - x \in Nat BY <1>0
  <2> QED BY <2>1, Zenon
<1> HIDE DEF U
<1>2. PICK u \in U : \A v \in U : u <= v BY <1>1, Least
<1>3. PICK x \in T : u = n - x BY DEF U
<1>4. \A y \in T : n - x <= n - y BY <1>2, <1>3, Zenon DEF U
<1> QED BY <1>0, <1>4

\* A dump or nothing
IsText(s) ==
  /\ Len(s) \in Nat /\ DOMAIN s = 1 .. Len(s)
  /\ \A n \in DOMAIN s : s[n].page \in Pages /\ s[n].count \in Nat

Table(t) == DOMAIN t \subseteq Pages /\ \A g \in DOMAIN t : t[g] \in Nat

\* Every page of a process in a dump gets a count: that of its last line.
LEMMA ParseType ==
  ASSUME NEW s, IsText(s), NEW p \in Pids
  PROVE  Table(Parse(s)[p])
<1> DEFINE Of(g) == {n \in DOMAIN s : s[n].pid = p /\ s[n].page = g}
           mine == {s[n].page : n \in {m \in DOMAIN s : s[m].pid = p}}
           last(g) == CHOOSE n \in Of(g) : \A m \in Of(g) : m <= n
<1>1. Parse(s)[p] = [g \in mine |-> s[last(g)].count] BY DEF Parse
<1>2. mine \subseteq Pages BY DEF IsText
<1>3. ASSUME NEW g \in mine PROVE last(g) \in DOMAIN s
  <2>1. Of(g) \in SUBSET (1 .. Len(s)) /\ Of(g) # {} BY <1>3 DEF IsText
  <2> HIDE DEF Of
  <2>2. \E n \in Of(g) : \A m \in Of(g) : m <= n BY <2>1, LastLine, Zenon DEF IsText
  <2>3. last(g) \in Of(g) BY <2>2
  <2> QED BY <2>3 DEF Of
<1> HIDE DEF mine, last
<1> QED BY <1>1, <1>2, <1>3 DEF Table, IsText

Typed ==
  /\ number \in -1 .. MaxFiles /\ current_file \in -1 .. MaxFiles
  /\ latest \in -1 .. MaxFiles
  /\ pc \in {"top", "read", "adjust", "crashed"}
  /\ IsText(contents) /\ IsText(text)
  /\ tracked_pids \subseteq Pids /\ todo \subseteq tracked_pids
  /\ pc \in {"top", "read"} => todo = {}
  /\ \A p \in Pids : Table(current[p]) /\ Table(previous[p])
  /\ kernel \in 1 .. KernelMax
  /\ outcome \in {"none", "ok", "refused"}

LEMMA NextTyped == IInv /\ Typed /\ [Next]_vars => Typed'
<1> SUFFICES ASSUME IInv, Typed, [Next]_vars PROVE Typed' OBVIOUS
<1> USE DEF Typed, dir_vars
<1>1. ASSUME NEW s \in Dumps, Publish(s) PROVE Typed'
  <2>1. IsText(s) BY DumpsAssumption DEF IsText
  <2>2. number' \in -1 .. MaxFiles BY <1>1, MaxFilesAssumption DEF Publish
  <2> QED BY <1>1, <2>1, <2>2 DEF Publish
<1>2. ASSUME NEW alive \in SUBSET Pids, Choose(alive) PROVE Typed'
  <2>1. todo \subseteq tracked_pids' /\ tracked_pids' \subseteq Pids
    BY <1>2 DEF Choose
  <2> QED BY <1>2, <2>1 DEF Choose
<1>3. CASE Read
  <2>1. \A p \in Pids : Table(current'[p])
    <3> TAKE p \in Pids
    <3>1. current'[p] = IF p \in tracked_pids THEN Parse(text)[p] ELSE <<>>
      BY <1>3 DEF Read
    <3>2. Table(<<>>) BY DEF Table
    <3> QED BY <3>1, <3>2, ParseType
  <2>2. IsText(<<>>) BY DEF IsText
  <2> QED BY <1>3, <2>1, <2>2 DEF Read
<1>4. CASE ReadFails BY <1>4 DEF ReadFails
<1>5. ASSUME NEW p \in Pids, NEW root \in BOOLEAN, Adjust(p, root) PROVE Typed'
  <2>1. /\ kernel' \in 1 .. KernelMax /\ outcome' \in {"none", "ok", "refused"}
        /\ pc' \in {"adjust", "crashed"}
    <3>1. CASE ~HighChurn(p) BY <1>5, <3>1 DEF Adjust
    <3>2. CASE HighChurn(p)
      <4>1. watermark_scale_factor' \in Nat
        BY <1>5, <3>2, AdjustedBound DEF IInv, Adjust
      <4>2. UpdateKernel(watermark_scale_factor', root) /\ pc = "adjust"
        BY <1>5, <3>2 DEF Adjust, Written
      <4> QED BY <4>1, <4>2, KernelAssumption DEF UpdateKernel, TooSmall
    <3> QED BY <3>1, <3>2
  <2> QED BY <1>5, <2>1 DEF Adjust
<1>6. CASE Finish
  <2>1. \A p \in Pids : Table(NoPages[p]) BY DEF NoPages, Table
  <2> QED BY <1>6, <2>1 DEF Finish
<1>7. CASE UNCHANGED vars BY <1>7 DEF vars
<1> QED BY <1>1, <1>2, <1>3, <1>4, <1>5, <1>6, <1>7 DEF Next

\* get_avgscale.py has a count for every page it compares, and what it writes to
\* the kernel is within the range the kernel accepts, for any dumps.
THEOREM TypeCorrect == Spec => []TypeOK
<1>1. Init => Typed
  <2> SUFFICES ASSUME Init PROVE Typed OBVIOUS
  <2>1. \A p \in Pids : Table(NoPages[p]) BY DEF NoPages, Table
  <2>2. IsText(<<>>) BY DEF IsText
  <2> QED BY <2>1, <2>2, MaxFilesAssumption, KernelAssumption DEF Init, Typed
<1>2. IInv /\ Typed => TypeOK
  BY DEF IInv, OrderOK, Typed, Table, TypeOK
<1> QED BY <1>1, <1>2, NextTyped, IInvHolds, PTL DEF Spec
=============================================================================
