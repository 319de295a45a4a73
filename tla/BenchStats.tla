----------------------------- MODULE BenchStats -----------------------------
(***************************************************************************)
(* The measurements of the benchmarks and what benchmark.c computes from   *)
(* them.  The latencies are 64 bit numbers; compare, by which qsort orders *)
(* them, reads only the lower half of each as an int, and the difference   *)
(* of two ints wraps.                                                      *)
(***************************************************************************)
EXTENDS Integers, FiniteSets, Sequences, FiniteSetsExt, Functions, Sums

CONSTANTS
  Latencies,  \* the latencies a cycle may have
  IntHalf     \* half the range of int: 2^31 in the code

ASSUME LatenciesAssumption == Latencies \subseteq Nat
ASSUME IntAssumption == IntHalf \in Nat \ {0}

VARIABLES
  pc,
  latencies,  \* the array, as far as it is filled
  samples,    \* history: the latencies that are to be reported
  average, std_dev, median, p75, p99

stats == <<average, std_dev, median, p75, p99>>
results == <<latencies, samples, stats>>

BenchInit ==
  /\ latencies = <<>> /\ samples = <<>>
  /\ average = 0 /\ std_dev = 0 /\ median = 0 /\ p75 = 0 /\ p99 = 0
-----------------------------------------------------------------------------
\* The value of x in an int.
ToInt(x) == ((x + IntHalf) % (2 * IntHalf)) - IntHalf

compare(a, b) == ToInt(ToInt(a) - ToInt(b))

\* qsort, a merge sort: neighbours in its result have been compared, whether or
\* not the comparison is an order.
Sorted(result, s) ==
  /\ \A k \in 1 .. Len(s) - 1 : compare(result[k], result[k + 1]) <= 0
  /\ \A v \in Range(s) :
       Cardinality({k \in DOMAIN s : result[k] = v}) =
       Cardinality({k \in DOMAIN s : s[k] = v})

calculate_average(s) == SumTo(s, Len(s)) \div Len(s)

calculate_median(s) ==
  LET n == Len(s)
  IN  IF n % 2 = 0 THEN (s[n \div 2] + s[n \div 2 + 1]) \div 2
      ELSE s[n \div 2 + 1]

calculate_standard_deviation(s, mean) ==
  LET squares == [k \in DOMAIN s |-> (s[k] - mean)^2]
      variance == SumTo(squares, Len(s)) \div Len(s)
  IN  Max({r \in 0 .. variance : r * r <= variance})

\* Variant of calculate_percentile that takes the rank from n.
calculate_percentile_of_n(s, percentile) ==
  LET rank == percentile * Len(s)
      lower == rank \div 100 + 1
      weight == rank % 100
  IN  IF lower + 1 > Len(s) THEN {s[Min({lower, Len(s)})]}
      ELSE {(s[lower] * (100 - weight) + s[lower + 1] * weight) \div 100}

\* The values calculate_percentile may return.  The interpolation is done in
\* doubles: where it should give a whole number between two different samples
\* it may end up just below.
calculate_percentile(s, percentile) ==
  LET rank == percentile * (Len(s) - 1)
      lower == rank \div 100 + 1
      weight == rank % 100
      scaled == s[lower] * (100 - weight) + s[lower + 1] * weight
  IN  IF lower + 1 > Len(s) THEN {s[lower]}
      ELSE {scaled \div 100} \cup
           (IF weight # 0 /\ scaled % 100 = 0 /\ s[lower] # s[lower + 1]
            THEN {scaled \div 100 - 1} ELSE {})
-----------------------------------------------------------------------------
\* latencies[i] = latency_ns
Measure(latency) ==
  /\ latencies' = Append(latencies, latency)
  /\ samples' = Append(samples, latency)
  /\ UNCHANGED stats

Sort ==
  /\ pc = "measured"
  /\ latencies' \in [DOMAIN samples -> Range(samples)]
  /\ Sorted(latencies', samples)
  /\ pc' = "sorted"
  /\ UNCHANGED <<samples, stats>>

Report ==
  /\ pc = "sorted"
  /\ average' = calculate_average(latencies)
  /\ std_dev' = calculate_standard_deviation(latencies, average')
  /\ median' = calculate_median(latencies)
  /\ p75' \in calculate_percentile(latencies, 75)
  /\ p99' \in calculate_percentile(latencies, 99)
  /\ pc' = "done"
  /\ UNCHANGED <<latencies, samples>>
-----------------------------------------------------------------------------
\* All cycles were short enough for compare to see them whole.
Fits == \A k \in DOMAIN samples : samples[k] < IntHalf

\* If the cycles fit into an int, a percentile splits them as measured, in
\* whatever order they came: at least the share it names took no longer, and
\* the others at least as long.
QuantilesSplit ==
  LET N == Len(samples)
      NoLonger(v) == Cardinality({k \in 1 .. N : samples[k] <= v})
      NoShorter(v) == Cardinality({k \in 1 .. N : samples[k] >= v})
      Splits(v, rank) == NoLonger(v) >= rank + 1 /\ NoShorter(v) >= N - rank - 1
  IN  pc = "done" /\ Fits =>
        /\ Splits(median, (N - 1) \div 2)
        /\ Splits(p75, (75 * (N - 1)) \div 100)
        /\ Splits(p99, (99 * (N - 1)) \div 100)

\* The average a benchmark prints is that of the rounds it is about and of no
\* other, a warm-up included, in whatever order qsort left them.
AverageOfMeasured ==
  pc \in {"done", "averaged"} =>
    average = SumTo(samples, Len(samples)) \div Len(samples)
=============================================================================
