-------------------------------- MODULE Sums --------------------------------
EXTENDS Integers

\* s[1] + ... + s[n], as a loop over an array adds them up.
SumTo(s, n) ==
  LET sum[k \in Nat] == IF k = 0 THEN 0 ELSE sum[k - 1] + s[k] IN sum[n]
=============================================================================
