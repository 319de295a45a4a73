---------------------------- MODULE SplitProofs ----------------------------
(***************************************************************************)
(* The loops of process_logs in tel_wsf.py, for any number of lines: the   *)
(* split they find is that of the smallest working set, and the factor they*)
(* end with is the one of the policy.  The lemmas on SumTo are those of the*)
(* benchmarks.                                                             *)
(***************************************************************************)
EXTENDS BenchProofs, SplitLoop
-----------------------------------------------------------------------------
(***************************************************************************)
(* The loops of process_logs                                               *)
(***************************************************************************)

\* The thresholds before the one at j have not matched.
NoneBefore(j) == \A h \in 0 .. j - 1 : ~InBucket(h, WorkingSet, Len(access_counts))

\* The loop over the counts has added up those before i, too few so far; the
\* loop over the thresholds stops at the first that matches.
SplitIInv ==
  /\ access_counts \in Seq(Nat \ {0}) /\ Len(access_counts) > 0
  /\ Descending(access_counts)
  /\ loop \in {"split", "bucket", "done"}
  /\ loop = "split" =>
       /\ i \in 0 .. Len(access_counts) - 1
       /\ cumulative_sum = SumTo(access_counts, i)
       /\ \A k \in 0 .. i : ~Enough(SumTo(access_counts, k))
       /\ watermark_scale_factor = Old
  /\ loop # "split" =>
       /\ split_index \in 0 .. Len(access_counts) - 1
       /\ Enough(SumTo(access_counts, split_index + 1))
       /\ \A k \in 0 .. split_index : ~Enough(SumTo(access_counts, k))
  /\ loop = "bucket" => i \in 0 .. 7 /\ NoneBefore(i) /\ watermark_scale_factor = Old
  /\ loop = "done" =>
       \/ NoneBefore(7) /\ watermark_scale_factor = Old
       \/ \E j \in 0 .. 6 : /\ NoneBefore(j)
                            /\ InBucket(j, WorkingSet, Len(access_counts))
                            /\ watermark_scale_factor = Threshold(max_scale_factor, j)

\* The counts of the pages in S, and nothing for the others.
Mask(c, S, n) == [k \in 1 .. n |-> IF k \in S THEN c[k] ELSE 0]

\* The pages up to m have the accesses that the loop has added up for them.
LEMMA PrefixSum ==
  ASSUME NEW n \in Nat, NEW c, NEW m \in 0 .. n, \A k \in 1 .. n : c[k] \in Nat
  PROVE  SumTo(Mask(c, 1 .. m, n), n) = SumTo(c, m)
<1> DEFINE u == Mask(c, 1 .. m, n)
           T == {k \in Nat : k <= n => SumTo(u, k) = SumTo(c, IF k <= m THEN k ELSE m)}
<1>1. \A k \in 1 .. n : u[k] = IF k <= m THEN c[k] ELSE 0 BY DEF Mask
<1>2. \A k \in 0 .. n : SumTo(c, k) \in Nat BY SumNat
<1> HIDE DEF u
<1>3. 0 \in T BY SumStep
<1>4. ASSUME NEW k \in Nat, k \in T PROVE k + 1 \in T
  <2> SUFFICES ASSUME k + 1 <= n
               PROVE  SumTo(u, k + 1) = SumTo(c, IF k + 1 <= m THEN k + 1 ELSE m)
    OBVIOUS
  <2>1. SumTo(u, k + 1) = SumTo(u, k) + u[k + 1] BY SumStep
  <2>2. SumTo(u, k) = SumTo(c, IF k <= m THEN k ELSE m) BY <1>4
  <2>3. CASE k + 1 <= m
    <3>1. SumTo(c, k + 1) = SumTo(c, k) + c[k + 1] BY SumStep
    <3>2. u[k + 1] = c[k + 1] BY <1>1, <2>3
    <3> QED BY <2>1, <2>2, <2>3, <3>1, <3>2
  <2>4. CASE ~(k + 1 <= m)
    <3>1. u[k + 1] = 0 BY <1>1, <2>4
    <3>2. SumTo(u, k) = SumTo(c, m) BY <2>2, <2>4
    <3>3. SumTo(c, m) \in Nat BY <1>2
    <3> QED BY <2>1, <2>4, <3>1, <3>2, <3>3
  <2> QED BY <2>3, <2>4
<1>5. Nat \subseteq T BY <1>3, <1>4, Induction, Zenon
<1>6. n \in T BY <1>5
<1>7. n <= m => n = m OBVIOUS
<1> QED BY <1>6, <1>7 DEF u

\* No set of pages has more accesses than as many of the most accessed ones.
LEMMA GreedyIsBest ==
  ASSUME NEW n \in Nat, NEW c, \A k \in 1 .. n : c[k] \in Nat,
         \A a, b \in 1 .. n : a <= b => c[a] >= c[b],
         NEW S \in SUBSET (1 .. n)
  PROVE  Cardinality(S) \in 0 .. n /\ SumTo(Mask(c, S, n), n) <= SumTo(c, Cardinality(S))
<1> DEFINE u == Mask(c, S, n)
           Upto(m) == S \cap (1 .. m)
           T == {m \in Nat : m <= n => /\ IsFiniteSet(Upto(m)) /\ Cardinality(Upto(m)) \in 0 .. m
                                       /\ SumTo(u, m) <= SumTo(c, Cardinality(Upto(m)))}
<1>1. \A k \in 1 .. n : u[k] = (IF k \in S THEN c[k] ELSE 0) /\ u[k] \in Nat BY DEF Mask
<1>2. \A k \in 0 .. n : SumTo(c, k) \in Nat BY SumNat
<1>3. \A k \in 0 .. n : SumTo(u, k) \in Nat
  <2>1. \A k \in 1 .. n : u[k] \in Nat BY <1>1
  <2> HIDE DEF u
  <2> QED BY <2>1, SumNat
<1> HIDE DEF u
<1>4. 0 \in T
  <2>1. Upto(0) = {} OBVIOUS
  <2>2. IsFiniteSet({}) /\ Cardinality({}) = 0 BY FS_EmptySet
  <2> QED BY <2>1, <2>2, SumStep
<1>5. ASSUME NEW m \in Nat, m \in T PROVE m + 1 \in T
  <2> SUFFICES ASSUME m + 1 <= n
               PROVE  /\ IsFiniteSet(Upto(m + 1)) /\ Cardinality(Upto(m + 1)) \in 0 .. m + 1
                      /\ SumTo(u, m + 1) <= SumTo(c, Cardinality(Upto(m + 1)))
    OBVIOUS
  <2>1. SumTo(u, m + 1) = SumTo(u, m) + u[m + 1] BY SumStep
  <2>2. /\ IsFiniteSet(Upto(m)) /\ Cardinality(Upto(m)) \in 0 .. m
        /\ SumTo(u, m) <= SumTo(c, Cardinality(Upto(m)))
    BY <1>5
  <2>3. SumTo(u, m) \in Nat BY <1>3
  <2>4. CASE m + 1 \in S
    <3>1. Upto(m + 1) = Upto(m) \cup {m + 1} /\ m + 1 \notin Upto(m) BY <2>4
    <3> DEFINE q == Cardinality(Upto(m))
    <3> HIDE DEF Upto
    <3>2. IsFiniteSet(Upto(m + 1)) /\ Cardinality(Upto(m + 1)) = q + 1
      BY <2>2, <3>1, FS_AddElement
    <3>3. q \in 0 .. m /\ SumTo(u, m) <= SumTo(c, q) BY <2>2
    <3> HIDE DEF q
    <3>4. q + 1 \in 1 .. n /\ m + 1 \in 1 .. n /\ q + 1 <= m + 1 /\ q \in 0 .. n BY <3>3
    <3>5. c[q + 1] >= c[m + 1] /\ c[q + 1] \in Nat /\ c[m + 1] \in Nat BY <3>4
    <3>6. SumTo(c, q + 1) = SumTo(c, q) + c[q + 1] BY <3>3, SumStep
    <3>7. u[m + 1] = c[m + 1] BY <1>1, <2>4, <3>4
    <3>8. SumTo(c, q) \in Nat BY <1>2, <3>4
    <3>9. SumTo(u, m + 1) <= SumTo(c, q + 1) BY <2>1, <2>3, <3>3, <3>5, <3>6, <3>7, <3>8
    <3> QED BY <3>2, <3>3, <3>9
  <2>5. CASE m + 1 \notin S
    <3>1. Upto(m + 1) = Upto(m) BY <2>5
    <3>2. u[m + 1] = 0 BY <1>1, <2>5
    <3> HIDE DEF Upto
    <3> QED BY <2>1, <2>2, <2>3, <3>1, <3>2
  <2> QED BY <2>4, <2>5
<1>6. Nat \subseteq T BY <1>4, <1>5, Induction, Zenon
<1>7. n \in T BY <1>6
<1>8. Upto(n) = S BY Zenon
<1> QED BY <1>7, <1>8 DEF u

\* Elements that do not ascend from neighbour to neighbour do not at any distance.
LEMMA NeighboursDescend ==
  ASSUME NEW n \in Nat, NEW c, \A k \in 1 .. n : c[k] \in Nat,
         \A k \in 1 .. n - 1 : c[k] >= c[k + 1]
  PROVE  \A a, b \in 1 .. n : a <= b => c[a] >= c[b]
<1> SUFFICES ASSUME NEW a \in 1 .. n PROVE \A b \in 1 .. n : a <= b => c[a] >= c[b]
  OBVIOUS
<1> DEFINE T == {b \in Nat : b \in 1 .. n /\ a <= b => c[a] >= c[b]}
<1>1. 0 \in T OBVIOUS
<1>2. ASSUME NEW b \in Nat, b \in T PROVE b + 1 \in T
  <2> SUFFICES ASSUME b + 1 \in 1 .. n, a <= b + 1 PROVE c[a] >= c[b + 1] OBVIOUS
  <2>1. CASE a = b + 1 BY <2>1
  <2>2. CASE a # b + 1
    <3>1. b \in 1 .. n - 1 /\ b \in 1 .. n /\ a <= b BY <2>2
    <3>2. c[a] >= c[b] BY <1>2, <3>1
    <3>3. c[b] >= c[b + 1] BY <3>1
    <3>4. c[a] \in Nat /\ c[b] \in Nat /\ c[b + 1] \in Nat BY <3>1
    <3> QED BY <3>2, <3>3, <3>4
  <2> QED BY <2>1, <2>2
<1>3. Nat \subseteq T BY <1>1, <1>2, Induction, Zenon
<1> QED BY <1>3

\* The least number of a set
LEMMA MinIs ==
  ASSUME NEW T, NEW x \in T, x \in Nat, \A y \in T : y \in Nat /\ x <= y
  PROVE  Min(T) = x
<1> DEFINE m == Min(T)
<1>1. m \in T /\ \A y \in T : m <= y BY Zenon DEF Min
<1> HIDE DEF m
<1>2. m \in Nat /\ m <= x /\ x <= m BY <1>1
<1>3. m = x BY <1>2
<1> QED BY <1>3 DEF m

\* The first prefix of the descending counts that has 70% of the accesses is a
\* smallest working set.
LEMMA FirstPrefixIsSmallest ==
  ASSUME NEW c \in Seq(Nat), Descending(c), NEW size \in 1 .. Len(c),
         10 * SumTo(c, size) >= 7 * SumTo(c, Len(c)),
         \A k \in 0 .. size - 1 : ~(10 * SumTo(c, k) >= 7 * SumTo(c, Len(c)))
  PROVE  WorkingSetSize(c) = size
<1> DEFINE n == Len(c)
           enough == {S \in SUBSET (1 .. n) :
                        10 * SumTo(Mask(c, S, n), n) >= 7 * SumTo(c, n)}
           sizes == {Cardinality(S) : S \in enough}
<1>1. WorkingSetSize(c) = Min(sizes) BY Zenon DEF WorkingSetSize, Mask
<1>2. n \in Nat /\ \A k \in 1 .. n : c[k] \in Nat OBVIOUS
<1>3. \A a, b \in 1 .. n : a <= b => c[a] >= c[b]
  <2>1. \A k \in 1 .. n - 1 : c[k] >= c[k + 1] BY DEF Descending
  <2> HIDE DEF n
  <2> QED BY <1>2, <2>1, NeighboursDescend, Zenon
<1>4. /\ size \in 1 .. n /\ 10 * SumTo(c, size) >= 7 * SumTo(c, n)
      /\ \A k \in 0 .. size - 1 : ~(10 * SumTo(c, k) >= 7 * SumTo(c, n))
  OBVIOUS
<1> HIDE DEF n
<1>5. \A k \in 0 .. n : SumTo(c, k) \in Nat BY <1>2, SumNat
<1>6. size \in sizes
  <2>1. 1 .. size \in SUBSET (1 .. n) /\ size \in 0 .. n BY <1>2, <1>4
  <2>2. SumTo(Mask(c, 1 .. size, n), n) = SumTo(c, size) BY <1>2, <2>1, PrefixSum
  <2>3. Cardinality(1 .. size) = size
    <3>1. 1 \in Int /\ size \in Int BY <1>4
    <3>2. Cardinality(1 .. size) = IF 1 > size THEN 0 ELSE size - 1 + 1 BY <3>1, FS_Interval
    <3>3. ~(1 > size) /\ size - 1 + 1 = size BY <1>2, <1>4
    <3> QED BY <3>2, <3>3
  <2>4. 1 .. size \in enough BY <1>4, <2>1, <2>2
  <2> QED BY <2>3, <2>4
<1>7. ASSUME NEW q \in sizes PROVE q \in Nat /\ size <= q
  <2>1. PICK S \in enough : q = Cardinality(S) BY <1>7
  <2>2. q \in 0 .. n /\ SumTo(Mask(c, S, n), n) <= SumTo(c, q)
    BY <1>2, <1>3, <2>1, GreedyIsBest
  <2>3. SumTo(Mask(c, S, n), n) \in Nat
    <3>1. \A k \in 1 .. n : Mask(c, S, n)[k] \in Nat BY <1>2 DEF Mask
    <3>2. n \in 0 .. n BY <1>2
    <3> DEFINE u == Mask(c, S, n)
    <3> HIDE DEF u
    <3>3. \A k \in 1 .. n : u[k] \in Nat BY <3>1 DEF u
    <3>4. SumTo(u, n) \in Nat BY <1>2, <3>2, <3>3, SumNat, Zenon
    <3> QED BY <3>4 DEF u
  <2>4. SumTo(c, q) \in Nat /\ SumTo(c, n) \in Nat BY <1>2, <1>5, <2>2
  <2>5. 10 * SumTo(Mask(c, S, n), n) >= 7 * SumTo(c, n) BY <2>1
  <2>6. 10 * SumTo(c, q) >= 7 * SumTo(c, n) BY <2>2, <2>3, <2>4, <2>5
  <2>7. q \notin 0 .. size - 1 BY <1>4, <2>6
  <2> QED BY <1>2, <1>4, <2>2, <2>7
<1> HIDE DEF sizes
<1>8. size \in Nat BY <1>2, <1>4
<1>9. Min(sizes) = size BY <1>6, <1>7, <1>8, MinIs, Zenon
<1> QED BY <1>1, <1>9

LEMMA InitSplitIInv == SplitInit => SplitIInv
<1> SUFFICES ASSUME SplitInit PROVE SplitIInv OBVIOUS
<1>1. PICK n \in 1 .. MaxLen : access_counts \in {s \in [1 .. n -> Counts] : Descending(s)}
  BY DEF SplitInit
<1>2. n \in Nat /\ n > 0 BY CountsAssumption
<1>3. access_counts \in [1 .. n -> Nat \ {0}]
  <2>1. access_counts \in [1 .. n -> Counts] BY <1>1, Zenon
  <2>2. Counts \subseteq Nat \ {0} BY CountsAssumption
  <2> QED BY <2>1, <2>2, Zenon
<1>4. access_counts \in Seq(Nat \ {0}) /\ Len(access_counts) = n BY <1>2, <1>3
<1>5. Descending(access_counts) BY <1>1
<1>6. loop = "split" /\ i = 0 /\ cumulative_sum = 0 /\ watermark_scale_factor = Old
  BY DEF SplitInit
<1>7. ~Enough(SumTo(access_counts, 0))
  <2>1. SumTo(access_counts, n) \in Nat /\ SumTo(access_counts, n) > 0
    <3>1. n - 1 \in Nat /\ n - 1 + 1 = n /\ n - 1 \in 0 .. n BY <1>2
    <3>2. SumTo(access_counts, n) = SumTo(access_counts, n - 1) + access_counts[n]
      BY <3>1, SumStep
    <3>3. \A k \in 1 .. n : access_counts[k] \in Nat BY <1>3
    <3>4. SumTo(access_counts, n - 1) \in Nat BY <1>2, <3>1, <3>3, SumNat
    <3>5. access_counts[n] \in Nat \ {0} BY <1>2, <1>3
    <3> QED BY <3>2, <3>4, <3>5
  <2> QED BY <1>4, <2>1, SumStep DEF Enough, TotalAccesses
<1>8. SumTo(access_counts, 0) = 0 BY SumStep
<1> QED BY <1>2, <1>4, <1>5, <1>6, <1>7, <1>8 DEF SplitIInv

\* One round of the loop over the counts
LEMMA AccumulateIInv == SplitIInv /\ Accumulate => SplitIInv'
<1> SUFFICES ASSUME SplitIInv, Accumulate PROVE SplitIInv' OBVIOUS
<1>1. /\ loop = "split" /\ i \in Nat /\ i < Len(access_counts)
      /\ cumulative_sum = SumTo(access_counts, i)
      /\ \A k \in 0 .. i : ~Enough(SumTo(access_counts, k))
      /\ watermark_scale_factor = Old
      /\ access_counts \in Seq(Nat \ {0}) /\ Len(access_counts) > 0
      /\ Descending(access_counts)
  BY DEF SplitIInv, Accumulate
<1>2. /\ cumulative_sum' = cumulative_sum + access_counts[i + 1]
      /\ UNCHANGED <<access_counts, max_scale_factor, watermark_scale_factor>>
  BY DEF Accumulate
<1>3. cumulative_sum' = SumTo(access_counts, i + 1) BY <1>1, <1>2, SumStep
<1>4. CASE Enough(cumulative_sum')
  <2>1. loop' = "bucket" /\ split_index' = i /\ i' = 0 BY <1>4 DEF Accumulate
  <2>2. split_index' \in 0 .. Len(access_counts) - 1 BY <1>1, <2>1
  <2>3. Enough(SumTo(access_counts, split_index + 1))' BY <1>2, <1>3, <1>4, <2>1 DEF Enough, TotalAccesses
  <2>4. (\A k \in 0 .. split_index : ~Enough(SumTo(access_counts, k)))'
    BY <1>1, <1>2, <2>1 DEF Enough, TotalAccesses
  <2>5. NoneBefore(i)' BY <2>1 DEF NoneBefore
  <2> QED BY <1>1, <1>2, <2>1, <2>2, <2>3, <2>4, <2>5 DEF SplitIInv, Descending
<1>5. CASE ~Enough(cumulative_sum')
  <2>1. i' = i + 1 /\ loop' = "split" /\ split_index' = split_index
    BY <1>1, <1>5 DEF Accumulate
  <2>2. i + 1 # Len(access_counts)
    <3> SUFFICES ASSUME i + 1 = Len(access_counts) PROVE FALSE OBVIOUS
    <3>1. \A k \in 1 .. Len(access_counts) : access_counts[k] \in Nat BY <1>1
    <3>2. Len(access_counts) \in Nat /\ Len(access_counts) \in 0 .. Len(access_counts)
      BY <1>1
    <3>3. SumTo(access_counts, Len(access_counts)) \in Nat BY <3>1, <3>2, SumNat
    <3> QED BY <1>3, <1>5, <3>3 DEF Enough, TotalAccesses
  <2>3. i' \in 0 .. Len(access_counts) - 1 BY <1>1, <2>1, <2>2
  <2>4. \A k \in 0 .. i + 1 : ~Enough(SumTo(access_counts, k))
    <3> TAKE k \in 0 .. i + 1
    <3>1. k \in 0 .. i \/ k = i + 1 BY <1>1
    <3> QED BY <1>1, <1>3, <1>5, <3>1
  <2>5. (\A k \in 0 .. i : ~Enough(SumTo(access_counts, k)))'
    BY <1>2, <2>1, <2>4 DEF Enough, TotalAccesses
  <2> QED BY <1>1, <1>2, <1>3, <2>1, <2>3, <2>5 DEF SplitIInv, Descending
<1> QED BY <1>4, <1>5

\* One round of the loop over the thresholds, or its end
LEMMA BucketIInv == SplitIInv /\ (TryBucket \/ NoBucket) => SplitIInv'
<1> SUFFICES ASSUME SplitIInv, TryBucket \/ NoBucket PROVE SplitIInv' OBVIOUS
<1>1. /\ loop = "bucket" /\ i \in 0 .. 7 /\ NoneBefore(i) /\ watermark_scale_factor = Old
      /\ access_counts \in Seq(Nat \ {0}) /\ Len(access_counts) > 0
      /\ Descending(access_counts)
      /\ split_index \in 0 .. Len(access_counts) - 1
      /\ Enough(SumTo(access_counts, split_index + 1))
      /\ \A k \in 0 .. split_index : ~Enough(SumTo(access_counts, k))
  BY DEF SplitIInv, TryBucket, NoBucket
<1>2. UNCHANGED <<access_counts, max_scale_factor, split_index>> BY DEF TryBucket, NoBucket
<1>3. /\ Descending(access_counts)' /\ Enough(SumTo(access_counts, split_index + 1))'
      /\ (\A k \in 0 .. split_index : ~Enough(SumTo(access_counts, k)))'
  BY <1>1, <1>2 DEF Descending, Enough, TotalAccesses
<1>4. loop' \in {"bucket", "done"} BY <1>1 DEF TryBucket, NoBucket
<1>5. ASSUME NEW j \in 0 .. 7, NoneBefore(j) PROVE NoneBefore(j)'
  BY <1>2, <1>5 DEF NoneBefore, WorkingSet, InBucket
<1>6. loop' = "bucket" => (i \in 0 .. 7 /\ NoneBefore(i) /\ watermark_scale_factor = Old)'
  <2> SUFFICES ASSUME loop' = "bucket"
               PROVE  (i \in 0 .. 7 /\ NoneBefore(i) /\ watermark_scale_factor = Old)'
    OBVIOUS
  <2>1. /\ i < 7 /\ i' = i + 1 /\ watermark_scale_factor' = watermark_scale_factor
        /\ ~InBucket(i, WorkingSet, Len(access_counts))
    BY <1>1 DEF TryBucket, NoBucket
  <2>2. NoneBefore(i + 1)
    <3> SUFFICES ASSUME NEW h \in 0 .. i
                 PROVE  ~InBucket(h, WorkingSet, Len(access_counts))
      BY <1>1 DEF NoneBefore
    <3>1. h = i \/ h \in 0 .. i - 1 BY <1>1
    <3> QED BY <1>1, <2>1, <3>1 DEF NoneBefore
  <2>3. (i + 1) \in 0 .. 7 BY <1>1, <2>1
  <2>4. NoneBefore(i)' BY <1>2, <2>1, <2>2, <2>3 DEF NoneBefore, WorkingSet, InBucket
  <2> QED BY <1>1, <2>1, <2>3, <2>4
<1>7. loop' = "done" =>
        (\/ NoneBefore(7) /\ watermark_scale_factor = Old
         \/ \E j \in 0 .. 6 : /\ NoneBefore(j)
                              /\ InBucket(j, WorkingSet, Len(access_counts))
                              /\ watermark_scale_factor = Threshold(max_scale_factor, j))'
  <2> SUFFICES ASSUME loop' = "done"
               PROVE  (\/ NoneBefore(7) /\ watermark_scale_factor = Old
                       \/ \E j \in 0 .. 6 :
                            /\ NoneBefore(j)
                            /\ InBucket(j, WorkingSet, Len(access_counts))
                            /\ watermark_scale_factor = Threshold(max_scale_factor, j))'
    OBVIOUS
  <2>1. CASE NoBucket
    <3>1. i = 7 /\ watermark_scale_factor' = watermark_scale_factor BY <2>1 DEF NoBucket
    <3>2. NoneBefore(7)' BY <1>1, <1>5, <3>1
    <3> QED BY <1>1, <3>1, <3>2
  <2>2. CASE TryBucket
    <3>1. /\ i \in 0 .. 6 /\ InBucket(i, WorkingSet, Len(access_counts))
          /\ watermark_scale_factor' = Threshold(max_scale_factor, i)
      BY <1>1, <2>2 DEF TryBucket
    <3>2. \E j \in 0 .. 6 : /\ NoneBefore(j)'
                            /\ InBucket(j, WorkingSet, Len(access_counts))'
                            /\ watermark_scale_factor' = Threshold(max_scale_factor', j)
      <4>1. NoneBefore(i)
        BY <1>1
      <4>2. PICK j \in 0 .. 6 : j = i BY <3>1
      <4>3. NoneBefore(j)' BY <1>5, <4>1, <4>2
      <4>4. InBucket(j, WorkingSet, Len(access_counts))'
        BY <1>2, <3>1, <4>2 DEF InBucket, WorkingSet
      <4>5. watermark_scale_factor' = Threshold(max_scale_factor', j) BY <1>2, <3>1, <4>2
      <4> QED BY <4>3, <4>4, <4>5
    <3> QED BY <3>2 DEF Threshold
  <2> QED BY <2>1, <2>2
<1> QED BY <1>1, <1>2, <1>3, <1>4, <1>6, <1>7 DEF SplitIInv

LEMMA SplitInvariance == SplitSpec => []SplitIInv
<1>1. SplitIInv /\ [SplitNext]_split_vars => SplitIInv'
  <2> SUFFICES ASSUME SplitIInv, [SplitNext]_split_vars PROVE SplitIInv' OBVIOUS
  <2>1. CASE SplitNext BY <2>1, AccumulateIInv, BucketIInv, SMTT(20) DEF SplitNext
  <2>2. CASE UNCHANGED split_vars
    BY <2>2, Zenon DEF split_vars, SplitIInv, NoneBefore, Descending, Enough, TotalAccesses,
                WorkingSet, InBucket, Threshold
  <2> QED BY <2>1, <2>2
<1> QED BY <1>1, InitSplitIInv, PTL DEF SplitSpec

\* process_logs always finds the smallest set of pages that has 70% of the
\* accesses, whatever the number of lines of the dump and their counts.
THEOREM GreedySplitIsSmallest == SplitSpec => []SplitIsSmallestWorkingSet
<1>1. SplitIInv => SplitIsSmallestWorkingSet
  <2> SUFFICES ASSUME SplitIInv PROVE SplitIsSmallestWorkingSet OBVIOUS
  <2>1. CASE loop = "split"
    <3>1. i < Len(access_counts) BY <2>1 DEF SplitIInv
    <3> QED BY <2>1, <3>1 DEF SplitIsSmallestWorkingSet
  <2>2. CASE loop # "split"
    <3> DEFINE size == split_index + 1
    <3>1. access_counts \in Seq(Nat) /\ Descending(access_counts)
      BY DEF SplitIInv
    <3>2. size \in 1 .. Len(access_counts) /\ size - 1 = split_index BY <2>2 DEF SplitIInv
    <3>3. /\ 10 * SumTo(access_counts, size) >= 7 * SumTo(access_counts, Len(access_counts))
          /\ \A k \in 0 .. size - 1 :
               ~(10 * SumTo(access_counts, k) >= 7 * SumTo(access_counts, Len(access_counts)))
      BY <2>2, <3>2 DEF SplitIInv, Enough, TotalAccesses
    <3> HIDE DEF size
    <3>4. WorkingSetSize(access_counts) = size BY <3>1, <3>2, <3>3, FirstPrefixIsSmallest
    <3> QED BY <2>2, <3>4 DEF SplitIsSmallestWorkingSet, size
  <2> QED BY <2>1, <2>2
<1> QED BY <1>1, SplitInvariance, PTL

\* A quotient from its bounds
LEMMA QuotientIs ==
  ASSUME NEW x \in Nat, NEW n \in Nat \ {0}, NEW q \in Nat, q * n <= x, x < (q + 1) * n
  PROVE  x \div n = q
<1>1. x = n * (x \div n) + (x % n) /\ x \div n \in Nat /\ x % n \in 0 .. n - 1
  OBVIOUS
<1> DEFINE d == x \div n
           y == x % n
<1>2. d \in Nat /\ y \in 0 .. n - 1 /\ x = n * d + y BY <1>1
<1> HIDE DEF d, y
<1>3. ~(d < q)
  <2> SUFFICES ASSUME d < q PROVE FALSE OBVIOUS
  <2>1. q - d - 1 \in Nat BY <1>2
  <2>2. n * (q - d - 1) >= 0 BY <2>1
  <2> QED BY <1>2, <2>2
<1>4. ~(d > q)
  <2> SUFFICES ASSUME d > q PROVE FALSE OBVIOUS
  <2>1. d - q - 1 \in Nat BY <1>2
  <2>2. n * (d - q - 1) >= 0 BY <2>1
  <2> QED BY <1>2, <2>2
<1>5. d = q BY <1>2, <1>3, <1>4
<1> QED BY <1>5 DEF d

\* The bucket of a split of ten times split / n, or -1 if there is none
BucketOf(split, n) ==
  LET bucket == IF split = 7 * n THEN 3 ELSE (split \div n) - 3
  IN  IF bucket < 0 \/ split \in {6 * n, 9 * n} THEN -1 ELSE bucket

\* The first threshold that matches a split is its bucket.
LEMMA FirstMatch ==
  ASSUME NEW n \in Nat \ {0}, NEW size \in 1 .. n
  PROVE  LET b == BucketOf(10 * (n - size), n)
         IN  /\ b \in -1 .. 6
             /\ \A h \in 0 .. 6 : h < b \/ b = -1 => ~InBucket(h, size, n)
             /\ b # -1 => InBucket(b, size, n)
<1> DEFINE split == 10 * (n - size)
           b == BucketOf(split, n)
<1>1. split \in Nat /\ split < 10 * n OBVIOUS
<1>2. /\ InBucket(0, size, n) <=> split >= 3 * n /\ split < 4 * n
      /\ InBucket(1, size, n) <=> split >= 4 * n /\ split < 5 * n
      /\ InBucket(2, size, n) <=> split >= 5 * n /\ split < 6 * n
      /\ InBucket(3, size, n) <=> split > 6 * n /\ split <= 7 * n
      /\ InBucket(4, size, n) <=> split >= 7 * n /\ split < 8 * n
      /\ InBucket(5, size, n) <=> split >= 8 * n /\ split < 9 * n
      /\ InBucket(6, size, n) <=> split > 9 * n /\ split < 10 * n
  BY DEF InBucket
<1> HIDE DEF split
<1>3. b = IF split = 7 * n THEN 3
          ELSE IF (split \div n) - 3 < 0 \/ split \in {6 * n, 9 * n} THEN -1
          ELSE (split \div n) - 3
  BY <1>1 DEF BucketOf
<1> HIDE DEF b
<1>4. PICK q \in 0 .. 9 : q * n <= split /\ split < (q + 1) * n
  <2>1. \/ 0 * n <= split /\ split < (0 + 1) * n
        \/ 1 * n <= split /\ split < (1 + 1) * n
        \/ 2 * n <= split /\ split < (2 + 1) * n
        \/ 3 * n <= split /\ split < (3 + 1) * n
        \/ 4 * n <= split /\ split < (4 + 1) * n
        \/ 5 * n <= split /\ split < (5 + 1) * n
        \/ 6 * n <= split /\ split < (6 + 1) * n
        \/ 7 * n <= split /\ split < (7 + 1) * n
        \/ 8 * n <= split /\ split < (8 + 1) * n
        \/ 9 * n <= split /\ split < (9 + 1) * n
    BY <1>1
  <2>2. /\ 0 \in 0 .. 9 /\ 1 \in 0 .. 9 /\ 2 \in 0 .. 9 /\ 3 \in 0 .. 9 /\ 4 \in 0 .. 9
        /\ 5 \in 0 .. 9 /\ 6 \in 0 .. 9 /\ 7 \in 0 .. 9 /\ 8 \in 0 .. 9 /\ 9 \in 0 .. 9
    OBVIOUS
  <2> QED BY <2>1, <2>2, Zenon
<1>5. split \div n = q BY <1>1, <1>4, QuotientIs, SMTT(20)
<1>6. /\ b \in -1 .. 6
      /\ \A h \in 0 .. 6 : h < b \/ b = -1 => ~InBucket(h, size, n)
      /\ b # -1 => InBucket(b, size, n)
  <2> USE <1>1, <1>2, <1>3, <1>4, <1>5
  <2>1. CASE q \in {0, 1, 2}
    <3>1. split < 3 * n /\ b = -1 BY <2>1
    <3> QED BY <3>1
  <2>2. CASE q = 3
    <3>1. split >= 3 * n /\ split < 4 * n /\ b = 0 BY <2>2
    <3> QED BY <3>1
  <2>3. CASE q = 4
    <3>1. split >= 4 * n /\ split < 5 * n /\ b = 1 BY <2>3
    <3> QED BY <3>1
  <2>4. CASE q = 5
    <3>1. split >= 5 * n /\ split < 6 * n /\ b = 2 BY <2>4
    <3> QED BY <3>1
  <2>5. CASE q = 6
    <3>1. split >= 6 * n /\ split < 7 * n BY <2>5
    <3>2. b = IF split = 6 * n THEN -1 ELSE 3 BY <2>5
    <3> QED BY <3>1, <3>2
  <2>6. CASE q = 7
    <3>1. split >= 7 * n /\ split < 8 * n BY <2>6
    <3>2. b = IF split = 7 * n THEN 3 ELSE 4 BY <2>6
    <3> QED BY <3>1, <3>2
  <2>7. CASE q = 8
    <3>1. split >= 8 * n /\ split < 9 * n /\ b = 5 BY <2>7
    <3> QED BY <3>1
  <2>8. CASE q = 9
    <3>1. split >= 9 * n /\ split < 10 * n BY <2>8
    <3>2. b = IF split = 9 * n THEN -1 ELSE 6 BY <2>8
    <3> QED BY <3>1, <3>2
  <2>9. q \in {0, 1, 2} \/ q = 3 \/ q = 4 \/ q = 5 \/ q = 6 \/ q = 7 \/ q = 8 \/ q = 9
    OBVIOUS
  <2> QED BY <2>1, <2>2, <2>3, <2>4, <2>5, <2>6, <2>7, <2>8, <2>9
<1> QED BY <1>6, Zenon DEF b, split

\* A split gets the threshold of the tenth it lies in, with the exceptions that
\* the doubles of calculate_dynamic_buckets make, whatever the number of lines.
THEOREM BucketsMatchSplits == SplitSpec => []SplitsGetTheirBucket
<1>1. SplitIInv => SplitsGetTheirBucket
  <2> DEFINE n == Len(access_counts)
             size == split_index + 1
             b == BucketOf(10 * (n - size), n)
  <2> SUFFICES ASSUME SplitIInv, loop = "done"
               PROVE  watermark_scale_factor =
                        IF b = -1 THEN Old ELSE Threshold(max_scale_factor, b)
    <3>1. ASSUME SplitIInv
          PROVE  10 * (n - split_index - 1) = 10 * (n - size) \/ loop # "done"
      BY <3>1 DEF SplitIInv
    <3> DEFINE split == 10 * (n - split_index - 1)
               bucket == IF split = 7 * n THEN 3 ELSE split \div n - 3
    <3>2. SplitsGetTheirBucket <=>
            (loop = "done" => watermark_scale_factor =
                                IF bucket < 0 \/ split \in {6 * n, 9 * n} THEN Old
                                ELSE Threshold(max_scale_factor, bucket))
      BY Zenon DEF SplitsGetTheirBucket
    <3>3. ASSUME SplitIInv, loop = "done"
          PROVE  b = IF bucket < 0 \/ split \in {6 * n, 9 * n} THEN -1 ELSE bucket
      <4>1. 10 * (n - size) = split BY <3>1, <3>3
      <4> QED BY <4>1, Zenon DEF BucketOf
    <3>4. bucket # -1 \/ bucket < 0 OBVIOUS
    <3> HIDE DEF bucket, split, b
    <3> QED BY <3>2, <3>3, <3>4
  <2>1. n \in Nat \ {0} /\ size \in 1 .. n BY DEF SplitIInv
  <2>2. \/ /\ \A h \in 0 .. 6 : ~InBucket(h, size, n)
           /\ watermark_scale_factor = Old
        \/ \E j \in 0 .. 6 : /\ \A h \in 0 .. j - 1 : ~InBucket(h, size, n)
                             /\ InBucket(j, size, n)
                             /\ watermark_scale_factor = Threshold(max_scale_factor, j)
    BY DEF SplitIInv, NoneBefore, WorkingSet
  <2> HIDE DEF n, size
  <2>3. /\ b \in -1 .. 6
        /\ \A h \in 0 .. 6 : h < b \/ b = -1 => ~InBucket(h, size, n)
        /\ b # -1 => InBucket(b, size, n)
    BY <2>1, FirstMatch, Zenon
  <2> HIDE DEF b
  <2>4. CASE b = -1
    <3>1. \A h \in 0 .. 6 : ~InBucket(h, size, n) BY <2>3, <2>4
    <3> QED BY <2>2, <2>4, <3>1
  <2>5. CASE b # -1
    <3>1. b \in 0 .. 6 /\ InBucket(b, size, n) BY <2>3, <2>5
    <3>2. PICK j \in 0 .. 6 : /\ \A h \in 0 .. j - 1 : ~InBucket(h, size, n)
                              /\ InBucket(j, size, n)
                              /\ watermark_scale_factor = Threshold(max_scale_factor, j)
      BY <2>2, <3>1
    <3>3. ~(j < b) BY <2>3, <3>2
    <3>4. ~(b < j)
      <4>1. b < j => b \in 0 .. j - 1 BY <3>1
      <4> QED BY <3>1, <3>2, <4>1
    <3>5. j = b BY <3>1, <3>3, <3>4
    <3> QED BY <2>5, <3>2, <3>5
  <2> QED BY <2>4, <2>5
<1> QED BY <1>1, SplitInvariance, PTL
-----------------------------------------------------------------------------
(***************************************************************************)
(* The loops compute the policy that TelWsf applies to a dump              *)
(***************************************************************************)

\* s has the elements of raw in some order.
Arranges(s, raw) ==
  /\ Len(s) = Len(raw)
  /\ \E p : Reorders(p, Len(s)) /\ \A k \in 1 .. Len(s) : s[k] = raw[p[k]]

\* t has the numbers of s in the order that p gives, and U are the places that
\* the places S have in t.
Follows(t, s, p, n) ==
  Reorders(p, n) /\ \A k \in 1 .. n : s[k] \in Nat /\ t[k] = s[p[k]]
Along(U, S, p, n) ==
  U \in SUBSET (1 .. n) /\ S \in SUBSET (1 .. n) /\ \A k \in 1 .. n : k \in U <=> p[k] \in S

\* The same pages of two arrangements are as many and have as many accesses.
LEMMA SamePages ==
  ASSUME NEW n \in Nat, NEW s, NEW t, NEW p, NEW U, NEW S,
         Follows(t, s, p, n), Along(U, S, p, n)
  PROVE  Cardinality(U) = Cardinality(S) /\ SumTo(Mask(t, U, n), n) = SumTo(Mask(s, S, n), n)
<1> USE DEF Follows, Along
<1>1. IsFiniteSet(S) /\ IsFiniteSet(U)
  <2>1. IsFiniteSet(1 .. n) BY FS_Interval
  <2> QED BY <2>1, FS_Subset, Zenon
<1>2. Cardinality(U) = Cardinality(S)
  <2> DEFINE f == [k \in U |-> p[k]]
  <2>1. f \in [U -> S] OBVIOUS
  <2>2. \A a, b \in U : f[a] = f[b] => a = b BY DEF Reorders
  <2>3. \A c \in S : \E a \in U : f[a] = c BY DEF Reorders
  <2>4. f \in Bijection(U, S)
    BY <2>1, <2>2, <2>3, Zenon DEF Bijection, Injection, Surjection, IsInjective
  <2>5. ExistsBijection(U, S) BY <2>4, Zenon DEF ExistsBijection
  <2> QED BY <1>1, <2>5, FS_Bijection
<1>3. SumTo(Mask(t, U, n), n) = SumTo(Mask(s, S, n), n)
  <2> DEFINE x == Mask(s, S, n)
             y == Mask(t, U, n)
  <2>1. \A k \in 1 .. n : x[k] \in Nat BY DEF Mask
  <2>2. \A k \in 1 .. n : y[k] = x[p[k]] BY SMTT(20) DEF Mask, Reorders
  <2> HIDE DEF x, y
  <2>3. SumTo(y, n) = SumTo(x, n) BY <2>1, <2>2, SumReordered
  <2> QED BY <2>3 DEF x, y
<1> QED BY <1>2, <1>3

\* The size of the working set does not depend on the order of the counts.
LEMMA WorkingSetInAnyOrder ==
  ASSUME NEW s \in Seq(Nat), NEW raw \in Seq(Nat), Arranges(s, raw)
  PROVE  WorkingSetSize(raw) = WorkingSetSize(s)
<1> DEFINE Sizes(c, n) == {Cardinality(S) : S \in {V \in SUBSET (1 .. n) :
                             10 * SumTo(Mask(c, V, n), n) >= 7 * SumTo(c, n)}}
<1>1. WorkingSetSize(raw) = Min(Sizes(raw, Len(raw))) BY Zenon DEF WorkingSetSize, Mask
<1>2. WorkingSetSize(s) = Min(Sizes(s, Len(s))) BY Zenon DEF WorkingSetSize, Mask
<1>3. PICK p : Reorders(p, Len(s)) /\ \A k \in 1 .. Len(s) : s[k] = raw[p[k]]
  BY DEF Arranges
<1> SUFFICES ASSUME NEW n \in Nat, n = Len(s), n = Len(raw)
             PROVE  Sizes(raw, n) = Sizes(s, n)
  <2>1. Len(s) \in Nat OBVIOUS
  <2> QED BY <1>1, <1>2, <2>1, Zenon DEF Arranges
<1>4. n \in Nat /\ Reorders(p, n) /\ \A k \in 1 .. n : s[k] = raw[p[k]] BY <1>3, Zenon
<1>5. \A k \in 1 .. n : raw[k] \in Nat BY <1>4
<1> Follows(s, raw, p, n) BY <1>4, <1>5 DEF Follows
<1>6. SumTo(s, n) = SumTo(raw, n) BY <1>4, <1>5, SumReordered, Zenon
<1>7. ASSUME NEW S \in SUBSET (1 .. n)
      PROVE  \E U \in SUBSET (1 .. n) : /\ Cardinality(U) = Cardinality(S)
                                        /\ SumTo(Mask(s, U, n), n) = SumTo(Mask(raw, S, n), n)
  <2> DEFINE U == {k \in 1 .. n : p[k] \in S}
  <2>1. U \in SUBSET (1 .. n) /\ Along(U, S, p, n) BY DEF Along
  <2> HIDE DEF U
  <2>2. Cardinality(U) = Cardinality(S) /\ SumTo(Mask(s, U, n), n) = SumTo(Mask(raw, S, n), n)
    BY <2>1, SamePages
  <2> QED BY <2>1, <2>2
<1>8. ASSUME NEW U \in SUBSET (1 .. n)
      PROVE  \E S \in SUBSET (1 .. n) : /\ Cardinality(U) = Cardinality(S)
                                        /\ SumTo(Mask(s, U, n), n) = SumTo(Mask(raw, S, n), n)
  <2> DEFINE S == {p[k] : k \in U}
  <2>1. S \in SUBSET (1 .. n)
    <3>1. \A k \in 1 .. n : p[k] \in 1 .. n BY <1>4, Zenon DEF Reorders
    <3>2. \A k \in U : k \in 1 .. n OBVIOUS
    <3> QED BY <3>1, <3>2, Zenon
  <2>2. \A k \in 1 .. n : k \in U <=> p[k] \in S
    <3> TAKE k \in 1 .. n
    <3>1. k \in U => p[k] \in S OBVIOUS
    <3>2. ASSUME p[k] \in S PROVE k \in U
      <4>1. PICK h \in U : p[k] = p[h] BY <3>2
      <4>2. h = k BY <1>4, <4>1 DEF Reorders
      <4> QED BY <4>2
    <3> QED BY <3>1, <3>2, Zenon
  <2> HIDE DEF S
  <2>3. Cardinality(U) = Cardinality(S) /\ SumTo(Mask(s, U, n), n) = SumTo(Mask(raw, S, n), n)
    <3>1. Along(U, S, p, n) BY <2>1, <2>2 DEF Along
    <3> QED BY <3>1, SamePages
  <2> QED BY <2>1, <2>3
<1>9. ASSUME NEW q PROVE q \in Sizes(raw, n) => q \in Sizes(s, n) BY <1>6, <1>7
<1>10. ASSUME NEW q PROVE q \in Sizes(s, n) => q \in Sizes(raw, n) BY <1>6, <1>8
<1> QED BY <1>9, <1>10, Zenon

\* The loops of process_logs give the factor that NewFactor gives for the counts
\* of a dump, in whatever order its lines are and however many there are: the
\* step Read of TelWsf is what the loops do.
THEOREM LoopsComputePolicy ==
  SplitSpec => [](loop = "done" =>
                    \A raw \in Seq(Nat) : Arranges(access_counts, raw) =>
                      watermark_scale_factor =
                        NewFactor(Old, max_scale_factor, WorkingSetSize(raw), Len(raw)))
<1>1. ASSUME SplitIInv, SplitIsSmallestWorkingSet, loop = "done",
             NEW raw \in Seq(Nat), Arranges(access_counts, raw)
      PROVE  watermark_scale_factor =
               NewFactor(Old, max_scale_factor, WorkingSetSize(raw), Len(raw))
  <2> DEFINE n == Len(access_counts)
             size == split_index + 1
             hits == {j \in 0 .. 6 : InBucket(j, size, n)}
  <2>1. access_counts \in Seq(Nat) BY <1>1 DEF SplitIInv
  <2>2. WorkingSetSize(raw) = size
    <3>1. WorkingSetSize(raw) = WorkingSetSize(access_counts)
      BY <1>1, <2>1, WorkingSetInAnyOrder
    <3>2. size = WorkingSetSize(access_counts) BY <1>1 DEF SplitIsSmallestWorkingSet
    <3> QED BY <3>1, <3>2
  <2>3. Len(raw) = n BY <1>1 DEF Arranges
  <2>4. \/ /\ \A h \in 0 .. 6 : ~InBucket(h, size, n)
           /\ watermark_scale_factor = Old
        \/ \E j \in 0 .. 6 : /\ \A h \in 0 .. j - 1 : ~InBucket(h, size, n)
                             /\ InBucket(j, size, n)
                             /\ watermark_scale_factor = Threshold(max_scale_factor, j)
    BY <1>1 DEF SplitIInv, NoneBefore, WorkingSet
  <2>5. NewFactor(Old, max_scale_factor, WorkingSetSize(raw), Len(raw)) =
          IF hits = {} THEN Old ELSE Threshold(max_scale_factor, Min(hits))
    BY <2>2, <2>3, Zenon DEF NewFactor
  <2> HIDE DEF n, size
  <2>6. CASE \A h \in 0 .. 6 : ~InBucket(h, size, n)
    <3>1. hits = {} BY <2>6
    <3>2. watermark_scale_factor = Old BY <2>4, <2>6
    <3> QED BY <2>5, <3>1, <3>2
  <2>7. CASE \E h \in 0 .. 6 : InBucket(h, size, n)
    <3>1. PICK j \in 0 .. 6 : /\ \A h \in 0 .. j - 1 : ~InBucket(h, size, n)
                              /\ InBucket(j, size, n)
                              /\ watermark_scale_factor = Threshold(max_scale_factor, j)
      BY <2>4, <2>7
    <3>2. j \in hits /\ j \in Nat BY <3>1
    <3>3. \A h \in hits : h \in Nat /\ j <= h
      <4> TAKE h \in hits
      <4>1. h \in 0 .. 6 /\ InBucket(h, size, n) OBVIOUS
      <4>2. h < j => h \in 0 .. j - 1 BY <4>1
      <4> QED BY <3>1, <4>1, <4>2
    <3> HIDE DEF hits
    <3>4. Min(hits) = j BY <3>2, <3>3, MinIs, Zenon
    <3> QED BY <2>5, <3>1, <3>2, <3>4
  <2> QED BY <2>6, <2>7
<1>2. SplitIInv /\ SplitIsSmallestWorkingSet =>
        (loop = "done" =>
           \A raw \in Seq(Nat) : Arranges(access_counts, raw) =>
             watermark_scale_factor =
               NewFactor(Old, max_scale_factor, WorkingSetSize(raw), Len(raw)))
  BY <1>1
<1> QED BY <1>2, SplitInvariance, GreedySplitIsSmallest, PTL
=============================================================================
