-------------------------- MODULE WatermarkPolicy --------------------------
(***************************************************************************)
(* The arithmetic of tel_wsf.py: from the memory statistics and the access *)
(* counts of one dump to a watermark scale factor.                         *)
(*                                                                         *)
(* The script computes with doubles.  The operators are the same functions *)
(* in integers; where a rounding error of the doubles shows, they say so.  *)
(***************************************************************************)
EXTENDS Integers, FiniteSets, FiniteSetsExt, Sequences, Sums

\* Lines whose access_count passes the filter of process_logs.
Sampled(access_count) == access_count < 1000

\* max_scale_factor for free available pages out of total (free_pages is
\* scaled by 0.03 first).  When the quotient is exact the doubles may come out
\* just below it, and int() then gives one less.
MaxScaleFactors(free, total) ==
  LET exact == 1000 * total - 594 * free
  IN  IF 5 * total > 3 * free
      THEN {exact \div total} \cup
           (IF exact % total = 0 /\ free > 0
            THEN {exact \div total - 1} ELSE {})
      ELSE {10}

\* int() of entry i of calculate_dynamic_buckets(max): the eight points of
\* linspace(10, max, num=8) without the first.
Threshold(max, i) == 10 + ((i + 1) * (max - 10)) \div 7

\* bucket_start <= split < bucket_end for the split (n - size) / n.  In doubles
\* 0.3 + 3 * 0.1 > 0.6, 0.3 + 6 * 0.1 > 0.9 and 0.3 + 3 * 0.1 + 0.1 > 0.7.
InBucket(i, size, n) ==
  LET split == 10 * (n - size)
  IN  /\ IF i \in {3, 6} THEN split > (3 + i) * n ELSE split >= (3 + i) * n
      /\ IF i = 3 THEN split <= 7 * n ELSE split < (4 + i) * n

\* The factor after the loop over the buckets: unchanged if none matches.
NewFactor(factor, max, size, n) ==
  LET hits == {i \in 0 .. 6 : InBucket(i, size, n)}
  IN  IF hits = {} THEN factor ELSE Threshold(max, Min(hits))

\* scale_factor as update_kernel_watermark_scale_factor logs it
Clamp(factor) ==
  IF factor < 10 THEN 10 ELSE IF factor > 1000 THEN 1000 ELSE factor

\* The size of the smallest set of pages that has 70% of the accesses.
WorkingSetSize(counts) ==
  LET n == Len(counts)
      Sum(S) == SumTo([k \in 1 .. n |-> IF k \in S THEN counts[k] ELSE 0], n)
      enough == {S \in SUBSET (1 .. n) : 10 * Sum(S) >= 7 * SumTo(counts, n)}
  IN  Min({Cardinality(S) : S \in enough})
=============================================================================
