----------------------------- MODULE SplitLoop -----------------------------
(***************************************************************************)
(* The two loops of process_logs in tel_wsf.py, step by step: the one that *)
(* finds split_index in the counts sorted in descending order, and the one *)
(* that looks for the bucket of the resulting split, for the maximum that  *)
(* the memory statistics of the round gave.  They are checked against the  *)
(* declarative WorkingSetSize and the intended buckets.                    *)
(***************************************************************************)
EXTENDS WatermarkPolicy

CONSTANTS
  Counts,   \* access counts below 1000, as dumps may hold them
  MaxLen,   \* bound on the lines of a dump
  MemTotal, \* MemTotal in pages
  Free,     \* values of MemAvailable in pages
  Old       \* the factor of the previous round

ASSUME CountsAssumption == Counts \subseteq 1 .. 999 /\ MaxLen \in Nat

VARIABLES
  access_counts,     \* the list, sorted in descending order
  max_scale_factor,
  loop, i,
  cumulative_sum, split_index,
  watermark_scale_factor

split_vars == <<access_counts, max_scale_factor, loop, i, cumulative_sum,
                split_index, watermark_scale_factor>>

TotalAccesses(s) == SumTo(s, Len(s))

\* What sorted(access_counts, reverse=True) makes of any list
Descending(s) == \A k \in 1 .. Len(s) - 1 : s[k] >= s[k + 1]

SplitInit ==
  /\ \E n \in 1 .. MaxLen : access_counts \in {s \in [1 .. n -> Counts] : Descending(s)}
  /\ \E free \in Free : max_scale_factor \in MaxScaleFactors(free, MemTotal)
  /\ loop = "split"
  /\ i = 0
  /\ cumulative_sum = 0
  /\ split_index = 0
  /\ watermark_scale_factor = Old

\* Variant of Enough that asks for more than 70%.
EnoughStrictly(sum) == 10 * sum > 7 * TotalAccesses(access_counts)

\* cumulative_sum >= 0.7 * total_accesses
Enough(sum) == 10 * sum >= 7 * TotalAccesses(access_counts)

\* One round of the loop over the sorted counts.
Accumulate ==
  /\ loop = "split"
  /\ i < Len(access_counts)
  /\ cumulative_sum' = cumulative_sum + access_counts[i + 1]
  /\ IF Enough(cumulative_sum')
     THEN loop' = "bucket" /\ split_index' = i /\ i' = 0
     ELSE i' = i + 1 /\ UNCHANGED <<loop, split_index>>
  /\ UNCHANGED <<access_counts, max_scale_factor, watermark_scale_factor>>

\* Variant of WorkingSet without the 1 added to split_index.
WorkingSetIndex == split_index

\* The pages that working_set_split counts, before the division.
WorkingSet == split_index + 1

\* One round of the loop over the thresholds.
TryBucket ==
  /\ loop = "bucket"
  /\ i < 7
  /\ IF InBucket(i, WorkingSet, Len(access_counts))
     THEN /\ watermark_scale_factor' = Threshold(max_scale_factor, i)
          /\ loop' = "done" /\ UNCHANGED i
     ELSE i' = i + 1 /\ UNCHANGED <<loop, watermark_scale_factor>>
  /\ UNCHANGED <<access_counts, max_scale_factor, cumulative_sum, split_index>>

NoBucket ==
  /\ loop = "bucket"
  /\ i = 7
  /\ loop' = "done"
  /\ UNCHANGED <<access_counts, max_scale_factor, i, cumulative_sum,
                 split_index, watermark_scale_factor>>

SplitNext == Accumulate \/ TryBucket \/ NoBucket

SplitSpec == SplitInit /\ [][SplitNext]_split_vars
-----------------------------------------------------------------------------
\* The greedy loop over the sorted counts always ends before the counts do, with
\* the smallest set of pages that has 70% of the accesses, whatever ties the
\* sort resolved; split_index is never left at its initial value.
SplitIsSmallestWorkingSet ==
  IF loop = "split" THEN i < Len(access_counts)
  ELSE split_index + 1 = WorkingSetSize(access_counts)

\* "Generates dynamic bucket thresholds starting from 0.3": a split of 0.3 or
\* more selects the threshold of the tenth it lies in, a smaller one leaves the
\* factor alone.  The borders where the sums of doubles are not the tenth are
\* the exceptions: 0.6 and 0.9 lie in no bucket, 0.7 in the one below.
SplitsGetTheirBucket ==
  LET n == Len(access_counts)
      split == 10 * (n - split_index - 1)
      bucket == IF split = 7 * n THEN 3 ELSE split \div n - 3
  IN  loop = "done" =>
        watermark_scale_factor =
          IF bucket < 0 \/ split \in {6 * n, 9 * n} THEN Old
          ELSE Threshold(max_scale_factor, bucket)
=============================================================================
