---------------------------- MODULE BenchProofs ----------------------------
(***************************************************************************)
(* The statistics and the file bursts of the benchmarks, for arrays of any *)
(* length and any latencies.  The theorems rest on what SumTo computes,    *)
(* which is shown by induction over the positions.                         *)
(***************************************************************************)
EXTENDS Benchmarks, FiniteSetTheorems, TLAPS
-----------------------------------------------------------------------------
(***************************************************************************)
(* Induction                                                               *)
(***************************************************************************)

\* A set of natural numbers has a least one.
LEMMA LeastNumber ==
  ASSUME NEW T \in SUBSET Nat, T # {}
  PROVE  \E x \in T : \A y \in T : x <= y
<1> DEFINE R == OpToRel(<, Nat)
<1>1. IsWellFoundedOn(R, Nat) BY NatLessThanWellFounded, Zenon
<1>2. \A a, b \in Nat : <<a, b>> \in R <=> a < b BY DEF OpToRel
<1>3. \A a, b \in Nat : ~(a < b) => b <= a OBVIOUS
<1> HIDE DEF R
<1>4. \E x \in T : \A y \in T : ~(<<y, x>> \in R) BY <1>1, WFMin, Zenon
<1>5. \E x \in T : \A y \in T : ~(y < x) BY <1>2, <1>4, Zenon
<1> QED BY <1>3, <1>5

\* The numbers that have a property are all there are, if 0 is one of them and
\* the successor of each.
LEMMA Induction ==
  ASSUME NEW T, 0 \in T, \A n \in Nat : n \in T => n + 1 \in T
  PROVE  Nat \subseteq T
<1> DEFINE U == Nat \ T
<1> SUFFICES ASSUME U # {} PROVE FALSE OBVIOUS
<1>1. PICK x \in U : \A y \in U : x <= y BY LeastNumber, Zenon
<1>2. x # 0 BY <1>1
<1>3. x - 1 \in Nat /\ x - 1 \notin U /\ (x - 1) + 1 = x BY <1>1, <1>2
<1> QED BY <1>1, <1>3
-----------------------------------------------------------------------------
(***************************************************************************)
(* What SumTo computes                                                     *)
(***************************************************************************)

\* f holds the sums of s up to position n.
SumsUpTo(f, s, n) ==
  f = [k \in 0 .. n |-> IF k = 0 THEN 0 ELSE f[k - 1] + s[k]]

\* There are such sums for every n, and they agree where they overlap.
LEMMA SumsExist ==
  ASSUME NEW s
  PROVE  \A n \in Nat : \E f : SumsUpTo(f, s, n)
<1> DEFINE T == {n \in Nat : \E f : SumsUpTo(f, s, n)}
<1>1. 0 \in T
  <2>1. SumsUpTo([k \in 0 .. 0 |-> 0], s, 0) BY DEF SumsUpTo
  <2> QED BY <2>1
<1>2. ASSUME NEW n \in Nat, n \in T PROVE n + 1 \in T
  <2>1. PICK f : SumsUpTo(f, s, n) BY <1>2
  <2> DEFINE g == [k \in 0 .. n + 1 |-> IF k = n + 1 THEN f[n] + s[k] ELSE f[k]]
             h == [k \in 0 .. n + 1 |-> IF k = 0 THEN 0 ELSE g[k - 1] + s[k]]
  <2>2. ASSUME NEW k \in 0 .. n + 1 PROVE g[k] = h[k]
    <3>1. CASE k = 0
      <4>1. f[0] = 0 BY <2>1 DEF SumsUpTo
      <4> QED BY <3>1, <4>1
    <3>2. CASE k \in 1 .. n
      <4>1. f[k] = f[k - 1] + s[k] BY <2>1, <3>2 DEF SumsUpTo
      <4>2. g[k] = f[k] /\ g[k - 1] = f[k - 1] BY <3>2
      <4> QED BY <3>2, <4>1, <4>2
    <3>3. CASE k = n + 1
      <4>1. g[k - 1] = f[n] /\ k # 0 /\ g[k] = f[n] + s[k] BY <3>3
      <4> QED BY <3>3, <4>1
    <3> QED BY <3>1, <3>2, <3>3
  <2>3. g = h BY <2>2
  <2>4. SumsUpTo(g, s, n + 1) BY <2>3, Zenon DEF SumsUpTo
  <2> QED BY <2>4
<1> HIDE DEF T
<1>3. Nat \subseteq T BY <1>1, <1>2, Induction
<1> QED BY <1>3 DEF T

LEMMA SumsAgree ==
  ASSUME NEW s, NEW f, NEW g, NEW m \in Nat, NEW n \in Nat,
         SumsUpTo(f, s, m), SumsUpTo(g, s, n), m <= n
  PROVE  f[m] = g[m]
<1> DEFINE T == {k \in Nat : k <= m => f[k] = g[k]}
<1>1. 0 \in T BY DEF SumsUpTo
<1>2. ASSUME NEW k \in Nat, k \in T PROVE k + 1 \in T
  <2> SUFFICES ASSUME k + 1 <= m PROVE f[k + 1] = g[k + 1] OBVIOUS
  <2>1. f[k] = g[k] BY <1>2
  <2>2. f[k + 1] = f[k] + s[k + 1]
    <3>1. k + 1 \in 0 .. m /\ k + 1 # 0 /\ (k + 1) - 1 = k OBVIOUS
    <3> QED BY <3>1 DEF SumsUpTo
  <2>3. g[k + 1] = g[k] + s[k + 1]
    <3>1. k + 1 \in 0 .. n /\ k + 1 # 0 /\ (k + 1) - 1 = k OBVIOUS
    <3> QED BY <3>1 DEF SumsUpTo
  <2> QED BY <2>1, <2>2, <2>3
<1> HIDE DEF T
<1>3. Nat \subseteq T BY <1>1, <1>2, Induction
<1> QED BY <1>3 DEF T

\* SumTo(s, n) is defined, and as the loop over the array computes it.
LEMMA SumStep ==
  ASSUME NEW s
  PROVE  /\ SumTo(s, 0) = 0
         /\ \A n \in Nat : SumTo(s, n + 1) = SumTo(s, n) + s[n + 1]
<1> DEFINE Upto(n) == CHOOSE f : SumsUpTo(f, s, n)
           F == [k \in Nat |-> Upto(k)[k]]
           G == [k \in Nat |-> IF k = 0 THEN 0 ELSE F[k - 1] + s[k]]
           IsSum(f) == f = [k \in Nat |-> IF k = 0 THEN 0 ELSE f[k - 1] + s[k]]
           sum == CHOOSE f : IsSum(f)
<1>1. \A n \in Nat : SumsUpTo(Upto(n), s, n) BY SumsExist
<1> HIDE DEF Upto
<1>2. ASSUME NEW k \in Nat PROVE F[k] = G[k]
  <2>1. CASE k = 0
    <3>1. Upto(0)[0] = 0 BY <1>1 DEF SumsUpTo
    <3> QED BY <2>1, <3>1
  <2>2. CASE k # 0
    <3>1. k - 1 \in Nat /\ k - 1 <= k /\ k \in 0 .. k BY <2>2
    <3>2. Upto(k)[k] = Upto(k)[k - 1] + s[k]
      BY <1>1, <2>2, <3>1 DEF SumsUpTo
    <3>3. Upto(k - 1)[k - 1] = Upto(k)[k - 1] BY <1>1, <3>1, SumsAgree
    <3>4. F[k] = Upto(k)[k] /\ F[k - 1] = Upto(k - 1)[k - 1] BY <3>1
    <3> QED BY <2>2, <3>2, <3>3, <3>4
  <2> QED BY <2>1, <2>2
<1>3. IsSum(F)
  <2>1. F = G BY <1>2
  <2> QED BY <2>1, Zenon
<1>4. IsSum(sum)
  <2> HIDE DEF F, IsSum
  <2> QED BY <1>3, Zenon
<1>5. \A n : SumTo(s, n) = sum[n] BY Zenon DEF SumTo
<1> HIDE DEF sum
<1>6. sum[0] = 0 BY <1>4
<1>7. ASSUME NEW n \in Nat PROVE sum[n + 1] = sum[n] + s[n + 1]
  <2>1. n + 1 \in Nat /\ n + 1 # 0 /\ (n + 1) - 1 = n OBVIOUS
  <2> QED BY <1>4, <2>1
<1> QED BY <1>5, <1>6, <1>7, Zenon

\* Sums of natural numbers are such, and grow with the number of them.
LEMMA SumNat ==
  ASSUME NEW s, NEW n \in Nat, \A k \in 1 .. n : s[k] \in Nat
  PROVE  \A m \in 0 .. n : SumTo(s, m) \in Nat
<1> DEFINE T == {m \in Nat : m <= n => SumTo(s, m) \in Nat}
<1>1. 0 \in T BY SumStep
<1>2. ASSUME NEW m \in Nat, m \in T PROVE m + 1 \in T
  <2> SUFFICES ASSUME m + 1 <= n PROVE SumTo(s, m + 1) \in Nat OBVIOUS
  <2>1. SumTo(s, m) \in Nat /\ s[m + 1] \in Nat BY <1>2
  <2>2. SumTo(s, m + 1) = SumTo(s, m) + s[m + 1] BY SumStep
  <2> QED BY <2>1, <2>2
<1> HIDE DEF T
<1>3. Nat \subseteq T BY <1>1, <1>2, Induction
<1> QED BY <1>3 DEF T

\* SumTo(s, n) depends on the first n entries only.
LEMMA SumSame ==
  ASSUME NEW s, NEW t, NEW n \in Nat, \A k \in 1 .. n : s[k] = t[k]
  PROVE  SumTo(s, n) = SumTo(t, n)
<1> DEFINE T == {m \in Nat : m <= n => SumTo(s, m) = SumTo(t, m)}
<1>1. 0 \in T BY SumStep
<1>2. ASSUME NEW m \in Nat, m \in T PROVE m + 1 \in T
  <2> SUFFICES ASSUME m + 1 <= n PROVE SumTo(s, m + 1) = SumTo(t, m + 1) OBVIOUS
  <2>1. SumTo(s, m) = SumTo(t, m) /\ s[m + 1] = t[m + 1] BY <1>2
  <2>2. SumTo(s, m + 1) = SumTo(s, m) + s[m + 1] BY SumStep
  <2>3. SumTo(t, m + 1) = SumTo(t, m) + t[m + 1] BY SumStep
  <2> QED BY <2>1, <2>2, <2>3
<1> HIDE DEF T
<1>3. Nat \subseteq T BY <1>1, <1>2, Induction
<1> QED BY <1>3 DEF T

\* Changing one entry changes the sum by the difference.
LEMMA SumUpdate ==
  ASSUME NEW s, NEW t, NEW n \in Nat, NEW j \in 1 .. n,
         \A k \in 1 .. n : s[k] \in Nat /\ t[k] \in Nat,
         \A k \in 1 .. n : k # j => s[k] = t[k]
  PROVE  SumTo(s, n) + t[j] = SumTo(t, n) + s[j]
<1> DEFINE T == {m \in Nat : m <= n => IF m < j THEN SumTo(s, m) = SumTo(t, m)
                                      ELSE SumTo(s, m) + t[j] = SumTo(t, m) + s[j]}
<1>1. 0 \in T BY SumStep
<1>2. ASSUME NEW m \in Nat, m \in T PROVE m + 1 \in T
  <2> SUFFICES ASSUME m + 1 <= n PROVE m + 1 \in T OBVIOUS
  <2>1. SumTo(s, m + 1) = SumTo(s, m) + s[m + 1] BY SumStep
  <2>2. SumTo(t, m + 1) = SumTo(t, m) + t[m + 1] BY SumStep
  <2>3. SumTo(s, m) \in Nat /\ SumTo(t, m) \in Nat
    BY SumNat
  <2>4. s[m + 1] \in Nat /\ t[m + 1] \in Nat /\ s[j] \in Nat /\ t[j] \in Nat
        /\ (m + 1 # j => s[m + 1] = t[m + 1])
    OBVIOUS
  <2> QED BY <1>2, <2>1, <2>2, <2>3, <2>4
<1> HIDE DEF T
<1>3. Nat \subseteq T BY <1>1, <1>2, Induction
<1> QED BY <1>3 DEF T

\* p orders the first n entries of an array anew.
Reorders(p, n) ==
  /\ p \in [1 .. n -> 1 .. n]
  /\ \A a, b \in 1 .. n : p[a] = p[b] => a = b
  /\ \A c \in 1 .. n : \E a \in 1 .. n : p[a] = c

\* The sum does not depend on the order.
LEMMA SumReordered ==
  \A n \in Nat : \A s, t, p :
    /\ Reorders(p, n)
    /\ \A k \in 1 .. n : s[k] \in Nat
    /\ \A k \in 1 .. n : t[k] = s[p[k]]
    => SumTo(t, n) = SumTo(s, n)
<1> DEFINE P(n, s, t, p) == /\ Reorders(p, n)
                            /\ \A k \in 1 .. n : s[k] \in Nat
                            /\ \A k \in 1 .. n : t[k] = s[p[k]]
           T == {n \in Nat : \A s, t, p : P(n, s, t, p) => SumTo(t, n) = SumTo(s, n)}
<1>1. 0 \in T BY SumStep
<1>2. ASSUME NEW n \in Nat, n \in T PROVE n + 1 \in T
  <2> SUFFICES ASSUME NEW s, NEW t, NEW p, P(n + 1, s, t, p)
               PROVE  SumTo(t, n + 1) = SumTo(s, n + 1)
    OBVIOUS
  <2>0. /\ Reorders(p, n + 1)
        /\ \A k \in 1 .. n + 1 : s[k] \in Nat
        /\ \A k \in 1 .. n + 1 : t[k] = s[p[k]]
    OBVIOUS
  <2> HIDE DEF P
  <2>1. n + 1 \in 1 .. n + 1 OBVIOUS
  <2>2. PICK j \in 1 .. n + 1 : p[j] = n + 1 BY <2>0, <2>1 DEF Reorders
  <2> DEFINE q == [k \in 1 .. n |-> IF k = j THEN p[n + 1] ELSE p[k]]
             u == [k \in 1 .. n |-> s[q[k]]]
  <2>3. ASSUME NEW k \in 1 .. n + 1
        PROVE  p[k] \in 1 .. n + 1 /\ (k # j => p[k] \in 1 .. n)
    <3>1. p[k] \in 1 .. n + 1 BY <2>0, Zenon DEF Reorders
    <3>2. k # j => p[k] # n + 1 BY <2>0, <2>2 DEF Reorders
    <3> QED BY <3>1, <3>2
  <2>4. Reorders(q, n)
    <3>1. q \in [1 .. n -> 1 .. n] BY <2>1, <2>2, <2>3
    <3>2. ASSUME NEW a \in 1 .. n, NEW b \in 1 .. n, q[a] = q[b] PROVE a = b
      <4>1. /\ a \in 1 .. n + 1 /\ b \in 1 .. n + 1 /\ a # n + 1 /\ b # n + 1
        OBVIOUS
      <4> QED BY <3>2, <4>1, <2>0, <2>1, Zenon DEF Reorders
    <3>3. ASSUME NEW c \in 1 .. n PROVE \E a \in 1 .. n : q[a] = c
      <4>1. PICK a \in 1 .. n + 1 : p[a] = c BY <2>0 DEF Reorders
      <4>2. a # j BY <2>2, <4>1
      <4>3. CASE a \in 1 .. n
        <5>1. q[a] = c BY <4>1, <4>2, <4>3
        <5> QED BY <4>3, <5>1
      <4>4. CASE a = n + 1
        <5>1. j \in 1 .. n BY <4>2, <4>4
        <5>2. q[j] = c BY <4>1, <4>4, <5>1
        <5> QED BY <5>1, <5>2
      <4> QED BY <4>3, <4>4
    <3> QED BY <3>1, <3>2, <3>3 DEF Reorders
  <2> HIDE DEF q
  <2>5. \A k \in 1 .. n : q[k] \in 1 .. n /\ s[k] \in Nat
    <3>1. \A k \in 1 .. n : q[k] \in 1 .. n BY <2>4 DEF Reorders
    <3> QED BY <2>0, <3>1
  <2>6. SumTo(u, n) = SumTo(s, n)
    <3>1. \A k \in 1 .. n : u[k] = s[q[k]] OBVIOUS
    <3>2. P(n, s, u, q) BY <2>4, <2>5, <3>1 DEF P
    <3> HIDE DEF u
    <3> QED BY <1>2, <3>2
  <2>7. SumTo(t, n + 1) = SumTo(t, n) + t[n + 1] BY SumStep
  <2>8. SumTo(s, n + 1) = SumTo(s, n) + s[n + 1] BY SumStep
  <2>9. \A k \in 1 .. n + 1 : t[k] \in Nat BY <2>0, <2>3
  <2>10. CASE j = n + 1
    <3>1. \A k \in 1 .. n : t[k] = u[k]
      <4> TAKE k \in 1 .. n
      <4>1. q[k] = p[k] BY <2>10 DEF q
      <4> QED BY <4>1, <2>0
    <3>2. SumTo(t, n) = SumTo(u, n) BY <3>1, SumSame
    <3>3. t[n + 1] = s[n + 1] BY <2>0, <2>1, <2>2, <2>10
    <3> QED BY <2>6, <2>7, <2>8, <3>2, <3>3
  <2>11. CASE j \in 1 .. n
    <3>1. \A k \in 1 .. n : u[k] \in Nat /\ t[k] \in Nat BY <2>5, <2>9
    <3>2. \A k \in 1 .. n : k # j => t[k] = u[k]
      <4> TAKE k \in 1 .. n
      <4> SUFFICES ASSUME k # j PROVE t[k] = u[k] OBVIOUS
      <4>1. q[k] = p[k] BY DEF q
      <4> QED BY <4>1, <2>0
    <3>3. t[j] = s[n + 1]
      BY <2>0, <2>2
    <3>4. u[j] = t[n + 1]
      <4>1. q[j] = p[n + 1] BY <2>11 DEF q
      <4>2. u[j] = s[q[j]] BY <2>11
      <4> QED BY <2>0, <2>1, <4>1, <4>2
    <3> HIDE DEF u
    <3>5. SumTo(t, n) + u[j] = SumTo(u, n) + t[j] BY <2>11, <3>1, <3>2, SumUpdate
    <3> QED BY <2>6, <2>7, <2>8, <3>3, <3>4, <3>5
  <2> QED BY <2>10, <2>11
<1> HIDE DEF T
<1>3. Nat \subseteq T BY <1>1, <1>2, Induction
<1> QED BY <1>3 DEF T

\* The array that qsort returns has the entries of the one it got, in some order.
LEMMA SortReorders ==
  ASSUME NEW s, NEW n \in Nat, DOMAIN s = 1 .. n,
         NEW r \in [1 .. n -> Range(s)],
         \A v \in Range(s) : Cardinality({k \in 1 .. n : r[k] = v}) =
                             Cardinality({k \in 1 .. n : s[k] = v})
  PROVE  \E p : Reorders(p, n) /\ \A k \in 1 .. n : r[k] = s[p[k]]
<1> DEFINE In(v) == {k \in 1 .. n : r[k] = v}
           Out(v) == {k \in 1 .. n : s[k] = v}
           b(v) == CHOOSE f : f \in Bijection(In(v), Out(v))
           p == [k \in 1 .. n |-> b(r[k])[k]]
<1>1. IsFiniteSet(1 .. n)
  BY FS_Interval
<1>2. ASSUME NEW v \in Range(s)
      PROVE  b(v) \in Bijection(In(v), Out(v))
  <2>1. IsFiniteSet(In(v)) /\ IsFiniteSet(Out(v)) BY <1>1, FS_Subset
  <2>2. Cardinality(In(v)) = Cardinality(Out(v)) BY <1>2
  <2> HIDE DEF In, Out
  <2>3. ExistsBijection(In(v), Out(v)) BY <2>1, <2>2, FS_SameCardinalityBij
  <2> QED BY <2>3, Zenon DEF ExistsBijection
<1> HIDE DEF b
<1>3. ASSUME NEW k \in 1 .. n
      PROVE  p[k] \in 1 .. n /\ s[p[k]] = r[k]
  <2>1. r[k] \in Range(s) /\ k \in In(r[k]) OBVIOUS
  <2>2. b(r[k]) \in [In(r[k]) -> Out(r[k])]
    BY <1>2, <2>1, Zenon DEF Bijection, Injection
  <2>3. p[k] \in Out(r[k]) BY <2>1, <2>2
  <2> QED BY <2>3
<1>4. ASSUME NEW c \in 1 .. n, NEW d \in 1 .. n, p[c] = p[d] PROVE c = d
  <2>1. r[c] = r[d] BY <1>3, <1>4
  <2>2. r[c] \in Range(s) /\ c \in In(r[c]) /\ d \in In(r[c]) BY <2>1
  <2>3. IsInjective(b(r[c])) /\ DOMAIN b(r[c]) = In(r[c])
    BY <1>2, <2>2, Zenon DEF Bijection, Injection
  <2>4. b(r[c])[c] = b(r[c])[d] BY <1>4, <2>1
  <2> QED BY <2>2, <2>3, <2>4, Zenon DEF IsInjective
<1> HIDE DEF p
<1>5. p \in [1 .. n -> 1 .. n] BY <1>3 DEF p
<1>6. p \in Injection(1 .. n, 1 .. n) BY <1>4, <1>5 DEF Injection, IsInjective
<1>7. p \in Surjection(1 .. n, 1 .. n) BY <1>1, <1>6, FS_Injection
<1> QED BY <1>3, <1>4, <1>5, <1>7, Zenon DEF Reorders, Surjection
-----------------------------------------------------------------------------
(***************************************************************************)
(* The order that compare gives                                            *)
(***************************************************************************)

\* A number below the modulus is its own remainder.
LEMMA SmallRemainder ==
  ASSUME NEW m \in Nat \ {0}, NEW x \in 0 .. m - 1
  PROVE  x % m = x
OBVIOUS

\* compare is the difference, and so an order, on latencies that fit an int.
LEMMA CompareFits ==
  ASSUME NEW x \in Nat, NEW y \in Nat, x < IntHalf, y < IntHalf
  PROVE  compare(x, y) = x - y
<1> USE IntAssumption
<1>1. ASSUME NEW z \in Int, -IntHalf <= z, z < IntHalf PROVE ToInt(z) = z
  <2>1. z + IntHalf \in 0 .. (2 * IntHalf) - 1 /\ 2 * IntHalf \in Nat \ {0}
    BY <1>1
  <2>2. (z + IntHalf) % (2 * IntHalf) = z + IntHalf BY <2>1, SmallRemainder
  <2> QED BY <2>2 DEF ToInt
<1>2. ToInt(x) = x /\ ToInt(y) = y BY <1>1
<1>3. ToInt(x - y) = x - y
  <2>1. x - y \in Int /\ -IntHalf <= x - y /\ x - y < IntHalf OBVIOUS
  <2> QED BY <1>1, <2>1
<1> QED BY <1>2, <1>3 DEF compare

\* An array whose neighbours are in order is in order.
LEMMA NeighboursAscend ==
  ASSUME NEW n \in Nat, NEW r, \A k \in 1 .. n : r[k] \in Nat,
         \A k \in 1 .. n - 1 : r[k] <= r[k + 1]
  PROVE  \A c, d \in 1 .. n : c <= d => r[c] <= r[d]
<1> SUFFICES ASSUME NEW c \in 1 .. n
             PROVE  \A d \in 1 .. n : c <= d => r[c] <= r[d]
  OBVIOUS
<1> DEFINE T == {d \in Nat : c <= d /\ d <= n => r[c] <= r[d]}
<1>1. 0 \in T OBVIOUS
<1>2. ASSUME NEW d \in Nat, d \in T PROVE d + 1 \in T
  <2> SUFFICES ASSUME c <= d + 1, d + 1 <= n PROVE r[c] <= r[d + 1] OBVIOUS
  <2>1. CASE c = d + 1 BY <2>1
  <2>2. CASE c <= d
    <3>1. d \in 1 .. n - 1 /\ d \in 1 .. n /\ d + 1 \in 1 .. n BY <2>2
    <3>2. r[c] <= r[d] BY <1>2, <2>2, <3>1
    <3>3. r[d] <= r[d + 1] BY <3>1
    <3> QED BY <3>1, <3>2, <3>3
  <2> QED BY <2>1, <2>2
<1> HIDE DEF T
<1>3. Nat \subseteq T BY <1>1, <1>2, Induction
<1> QED BY <1>3 DEF T
-----------------------------------------------------------------------------
(***************************************************************************)
(* The benchmarks: the inductive invariant                                 *)
(***************************************************************************)

\* The array r is s as qsort leaves it.
SortOf(r, s) == r \in [DOMAIN s -> Range(s)] /\ Sorted(r, s)

\* What is in the arrays, and what the statistics were computed from.
StatsOK ==
  /\ samples \in Seq(Nat)
  /\ pc \in {"arrays", "passive", "bursts", "free", "measured", "create",
             "release", "average"} => latencies = samples
  /\ pc \in {"measured", "sorted", "done"} => Len(samples) > 0
  /\ pc \in {"sorted", "done"} => SortOf(latencies, samples)
  /\ pc = "done" =>
       /\ average = calculate_average(latencies)
       /\ median = calculate_median(latencies)
       /\ p75 \in calculate_percentile(latencies, 75)
       /\ p99 \in calculate_percentile(latencies, 99)
  /\ pc = "averaged" => average = calculate_average(samples)

\* simulate_workload has added up the latencies of the current call.
WorkloadOK ==
  /\ total_iterations \in {WarmUp, NUM_ITERATIONS}
  /\ pc \in {"open", "mmap", "munmap", "close"} =>
       /\ Len(samples) = iteration
       /\ total_latency = SumTo(samples, Len(samples))

\* The files that generate_files has set up and not yet released.
Held == {f \in Files : IF pc = "create" THEN f < file_index ELSE f >= file_index}

\* The open descriptors are those in the array of the files held, one each.
HeldOK ==
  /\ file_index \in 1 .. FILES_PER_ITERATION + 1
  /\ fds \in [Files -> Int] /\ mmaps \in [Files -> BOOLEAN]
  /\ \A fd \in DOMAIN open : fd \in Nat /\ open[fd] \in Held /\ fds[open[fd]] = fd
  /\ \A f \in Held : fds[f] # -1 => fds[f] \in DOMAIN open /\ open[fds[f]] = f
  /\ \A f \in mapped : f \in stuck \/ (f \in Held /\ mmaps[f])
  /\ \A f \in dir : f \in kept \/ (f \in Held /\ fds[f] # -1)

FilesOK == ~foreign /\ (pc \in {"create", "release"} => HeldOK)

BenchIInv == StatsOK /\ WorkloadOK /\ FilesOK

LEMMA InitBenchIInv == Init => BenchIInv
<1> SUFFICES ASSUME Init PROVE BenchIInv OBVIOUS
<1> USE DEF Init, BenchInit, MemoryInit, FilesInit, WorkloadInit
<1>1. samples = <<>> /\ latencies = <<>> /\ Len(samples) = 0 OBVIOUS
<1>2. StatsOK BY <1>1 DEF StatsOK
<1>3. WorkloadOK BY <1>1, SumStep DEF WorkloadOK
<1>4. FilesOK
  <2>1. DOMAIN open = {} OBVIOUS
  <2>2. file_index \in 1 .. FILES_PER_ITERATION + 1 BY FilesAssumption
  <2>3. fds \in [Files -> Int] /\ mmaps \in [Files -> BOOLEAN] OBVIOUS
  <2>4. \A f \in Files : fds[f] = -1 OBVIOUS
  <2>5. ~foreign BY Zenon
  <2>6. mapped = {} /\ dir = {} OBVIOUS
  <2> HIDE DEF Init, BenchInit, MemoryInit, FilesInit, WorkloadInit
  <2> QED BY <2>1, <2>2, <2>3, <2>4, <2>5, <2>6 DEF FilesOK, HeldOK, Held
<1> QED BY <1>2, <1>3, <1>4 DEF BenchIInv

\* A latency is measured: it is appended to both arrays.
LEMMA MeasureStats ==
  ASSUME samples \in Seq(Nat), latencies = samples, NEW l \in Latencies, Measure(l)
  PROVE  samples' \in Seq(Nat) /\ latencies' = samples' /\ Len(samples') > 0
BY LatenciesAssumption DEF Measure

\* The steps of benchmark.c
LEMMA MemoryIInv == BenchIInv /\ MemoryNext /\ UNCHANGED <<files, workload>> => BenchIInv'
<1> SUFFICES ASSUME BenchIInv, MemoryNext, UNCHANGED <<files, workload>> PROVE BenchIInv'
  OBVIOUS
<1>1. StatsOK BY DEF BenchIInv
<1>2. StatsOK' /\ pc' \in {"arrays", "passive", "bursts", "free", "measured", "sorted",
                           "done", "exited"}
  <2>1. CASE AllocateArrays \/ AllocatePassive \/ AllocateBurst
    BY <1>1, <2>1 DEF StatsOK, AllocateArrays, AllocatePassive, AllocateBurst, results, stats
  <2>2. CASE \E l \in Latencies : ReleaseMemory(l)
    <3>1. PICK l \in Latencies : ReleaseMemory(l) BY <2>2
    <3>2. samples' \in Seq(Nat) /\ latencies' = samples' /\ Len(samples') > 0
      BY <1>1, <3>1, MeasureStats DEF StatsOK, ReleaseMemory
    <3>3. pc' \in {"measured", "arrays"} BY <3>1 DEF ReleaseMemory
    <3> QED BY <3>2, <3>3 DEF StatsOK
  <2>3. CASE Sort
    BY <1>1, <2>3 DEF StatsOK, Sort, SortOf
  <2>4. CASE Report
    BY <1>1, <2>4 DEF StatsOK, Report
  <2> QED BY <2>1, <2>2, <2>3, <2>4 DEF MemoryNext
<1>3. WorkloadOK' BY <1>2 DEF BenchIInv, WorkloadOK, workload
<1>4. FilesOK'
  <2>1. ~foreign /\ foreign' = foreign BY DEF BenchIInv, FilesOK, files, history
  <2>2. ~foreign' BY <2>1, Zenon
  <2> QED BY <1>2, <2>2 DEF FilesOK
<1> QED BY <1>2, <1>3, <1>4 DEF BenchIInv

\* The steps of benchmark_wmhigh.c
LEMMA WorkloadIInv == BenchIInv /\ WorkloadNext /\ UNCHANGED files => BenchIInv'
<1> SUFFICES ASSUME BenchIInv, WorkloadNext, UNCHANGED files PROVE BenchIInv' OBVIOUS
<1>1. StatsOK /\ WorkloadOK BY DEF BenchIInv
<1>2. /\ StatsOK' /\ WorkloadOK'
      /\ pc' \in {"open", "mmap", "munmap", "close", "averaged", "exited"}
  <2>1. CASE Operation("open", "mmap") \/ Operation("mmap", "munmap")
             \/ Operation("munmap", "close")
    BY <1>1, <2>1 DEF StatsOK, WorkloadOK, Operation, results, stats, workload
  <2>2. CASE Close
    BY <1>1, <2>2 DEF StatsOK, WorkloadOK, Close, results, stats
  <2>3. CASE \E l \in Latencies : EndIteration(l)
    <3>1. PICK l \in Latencies : EndIteration(l) BY <2>3
    <3>2. /\ pc = "open" /\ pc' = "open" /\ total_iterations' = total_iterations
          /\ iteration' = iteration + 1 /\ total_latency' = total_latency + l
          /\ samples' = Append(samples, l)
      BY <3>1 DEF EndIteration
    <3>3. samples \in Seq(Nat) /\ Len(samples) = iteration
          /\ total_latency = SumTo(samples, Len(samples))
      BY <1>1, <3>2 DEF StatsOK, WorkloadOK
    <3>4. l \in Nat BY LatenciesAssumption
    <3>5. /\ samples' \in Seq(Nat) /\ Len(samples') = Len(samples) + 1
          /\ samples'[Len(samples) + 1] = l
          /\ \A k \in 1 .. Len(samples) : samples'[k] = samples[k]
      BY <3>2, <3>3, <3>4
    <3>6. SumTo(samples', Len(samples')) = total_latency'
      <4>1. Len(samples) \in Nat BY <3>3
      <4>2. SumTo(samples', Len(samples)) = SumTo(samples, Len(samples))
        BY <3>5, <4>1, SumSame, Zenon
      <4>3. SumTo(samples', Len(samples) + 1) =
              SumTo(samples', Len(samples)) + samples'[Len(samples) + 1]
        BY <4>1, SumStep
      <4> QED BY <3>2, <3>3, <3>5, <4>2, <4>3
    <3>7. StatsOK' BY <3>2, <3>5 DEF StatsOK
    <3>8. WorkloadOK' BY <1>1, <3>2, <3>3, <3>5, <3>6 DEF WorkloadOK
    <3> QED BY <3>2, <3>7, <3>8
  <2>4. CASE ReturnAverage
    <3>1. CASE total_iterations = WarmUp
      <4>1. /\ pc' = "open" /\ total_iterations' = NUM_ITERATIONS /\ iteration' = 0
            /\ total_latency' = 0 /\ samples' = <<>>
        BY <2>4, <3>1 DEF ReturnAverage, TotalAtCall
      <4>2. StatsOK' BY <4>1 DEF StatsOK
      <4>3. WorkloadOK' BY <4>1, SumStep DEF WorkloadOK
      <4> QED BY <4>1, <4>2, <4>3
    <3>2. CASE total_iterations # WarmUp
      <4>1. /\ pc = "open" /\ pc' = "averaged" /\ samples' = samples
            /\ iteration = total_iterations /\ total_iterations' = total_iterations
            /\ average' = total_latency \div NUM_ITERATIONS
        BY <2>4, <3>2 DEF ReturnAverage, workload
      <4>2. Len(samples) = NUM_ITERATIONS /\ total_latency = SumTo(samples, Len(samples))
        BY <1>1, <3>2, <4>1 DEF WorkloadOK
      <4>3. average' = calculate_average(samples')
        BY <4>1, <4>2 DEF calculate_average
      <4>4. StatsOK' BY <1>1, <4>1, <4>3 DEF StatsOK
      <4>5. WorkloadOK' BY <1>1, <4>1 DEF WorkloadOK
      <4> QED BY <4>1, <4>4, <4>5
    <3> QED BY <3>1, <3>2
  <2> QED BY <2>1, <2>2, <2>3, <2>4 DEF WorkloadNext
<1>3. FilesOK'
  <2>1. ~foreign /\ foreign' = foreign BY DEF BenchIInv, FilesOK, files, history
  <2>2. ~foreign' BY <2>1, Zenon
  <2> QED BY <1>2, <2>2 DEF FilesOK
<1> QED BY <1>2, <1>3 DEF BenchIInv

\* The lowest free descriptor
LEMMA FreeFd == FreeFds # {} => Min(FreeFds) \in Nat /\ Min(FreeFds) \notin DOMAIN open
<1> SUFFICES ASSUME FreeFds # {} PROVE Min(FreeFds) \in FreeFds
  BY FilesAssumption DEF FreeFds
<1>1. FreeFds \subseteq Nat BY FilesAssumption DEF FreeFds
<1>2. PICK x \in FreeFds : \A y \in FreeFds : x <= y BY <1>1, LeastNumber
<1> QED BY <1>2 DEF Min

\* generate_files, first loop
LEMMA CreateIInv ==
  ASSUME FilesOK, OpenFails \/ CreateFails \/ Create
  PROVE  FilesOK'
<1>1. /\ pc = "create" /\ pc' = pc /\ file_index \in Files /\ file_index' = file_index + 1
      /\ file_index \in Int /\ Files \subseteq Int
  BY FilesAssumption DEF FilesOK, HeldOK, OpenFails, CreateFails, Create, Files
<1>2. file_index' \in 1 .. FILES_PER_ITERATION + 1 BY <1>1, FilesAssumption DEF Files
<1>3. Held' = Held \cup {file_index} /\ Held \subseteq Files BY <1>1 DEF Held, Files
<1>4. file_index \notin Held BY <1>1 DEF Held
<1>5. ~foreign' 
  <2>1. ~foreign /\ foreign' = foreign BY DEF FilesOK, OpenFails, CreateFails, Create, history
  <2> QED BY <2>1, Zenon
<1>6. HeldOK BY <1>1 DEF FilesOK
<1>7. CASE OpenFails
  <2>1. /\ fds' = [fds EXCEPT ![file_index] = -1] /\ mmaps' = mmaps /\ open' = open
        /\ mapped' = mapped /\ dir' = dir /\ stuck' = stuck /\ kept' = kept
    BY <1>7 DEF OpenFails, kernel, history
  <2> QED BY <1>1, <1>2, <1>3, <1>4, <1>5, <1>6, <2>1 DEF FilesOK, HeldOK
<1>8. CASE CreateFails
  <2>1. /\ fds' = [fds EXCEPT ![file_index] = -1] /\ mmaps' = mmaps /\ open' = open
        /\ mapped' = mapped /\ dir' = dir \cup {file_index} /\ stuck' = stuck
        /\ kept' = kept \cup {file_index}
    BY <1>8 DEF CreateFails, FdAfterFailure
  <2> QED BY <1>1, <1>2, <1>3, <1>4, <1>5, <1>6, <2>1 DEF FilesOK, HeldOK
<1>9. CASE Create
  <2> DEFINE new == Min(FreeFds)
  <2>1. /\ fds' = [fds EXCEPT ![file_index] = new]
        /\ mmaps' = [mmaps EXCEPT ![file_index] = TRUE]
        /\ open' = [fd \in DOMAIN open \cup {new} |-> IF fd = new THEN file_index ELSE open[fd]]
        /\ mapped' = mapped \cup {file_index} /\ dir' = dir \cup {file_index}
        /\ stuck' = stuck /\ kept' = kept
    BY <1>9 DEF Create, history
  <2>2. new \in Nat /\ new \notin DOMAIN open /\ new # -1 BY <1>9, FreeFd DEF Create
  <2> HIDE DEF new
  <2>3. fds' \in [Files -> Int]
    <3>1. fds \in [Files -> Int] /\ new \in Int BY <1>6, <2>2 DEF HeldOK
    <3> QED BY <2>1, <3>1, Zenon
  <2>4. mmaps' \in [Files -> BOOLEAN] BY <1>6, <2>1, Zenon DEF HeldOK
  <2>5. \A fd \in DOMAIN open' : fd \in Nat /\ open'[fd] \in Held' /\ fds'[open'[fd]] = fd
    <3> TAKE fd \in DOMAIN open'
    <3>1. CASE fd = new
      <4>1. open'[fd] = file_index BY <2>1, <3>1
      <4> QED BY <1>1, <1>3, <1>6, <2>1, <2>2, <3>1, <4>1 DEF HeldOK
    <3>2. CASE fd # new
      <4>1. fd \in DOMAIN open /\ open'[fd] = open[fd] BY <2>1, <3>2
      <4>2. fd \in Nat /\ open[fd] \in Held /\ fds[open[fd]] = fd BY <1>6, <4>1 DEF HeldOK
      <4>3. open[fd] # file_index /\ open[fd] \in Files BY <1>3, <1>4, <4>2
      <4> QED BY <1>3, <1>6, <2>1, <4>1, <4>2, <4>3 DEF HeldOK
    <3> QED BY <3>1, <3>2
  <2>6. \A f \in Held' : fds'[f] # -1 =>
          fds'[f] \in DOMAIN open' /\ open'[fds'[f]] = f
    <3> SUFFICES ASSUME NEW f \in Held', fds'[f] # -1
                 PROVE  fds'[f] \in DOMAIN open' /\ open'[fds'[f]] = f
      OBVIOUS
    <3>1. CASE f = file_index BY <1>1, <1>6, <2>1, <3>1 DEF HeldOK
    <3>2. CASE f # file_index
      <4>1. f \in Held /\ fds'[f] = fds[f] BY <1>3, <1>6, <2>1, <3>2 DEF HeldOK
      <4>2. fds[f] \in DOMAIN open /\ open[fds[f]] = f BY <1>6, <4>1 DEF HeldOK
      <4> QED BY <2>1, <2>2, <4>1, <4>2
    <3> QED BY <3>1, <3>2
  <2>7. \A f \in mapped' : f \in stuck' \/ (f \in Held' /\ mmaps'[f])
    <3> TAKE f \in mapped'
    <3>1. CASE f = file_index BY <1>1, <1>3, <1>6, <2>1, <3>1 DEF HeldOK
    <3>2. CASE f # file_index
      <4>1. f \in stuck \/ (f \in Held /\ mmaps[f]) BY <1>6, <2>1, <3>2 DEF HeldOK
      <4>2. f \in Held => f \in Files BY <1>3
      <4>3. f \in Files => mmaps'[f] = mmaps[f] BY <1>6, <2>1, <3>2 DEF HeldOK
      <4> QED BY <1>3, <2>1, <4>1, <4>2, <4>3
    <3> QED BY <3>1, <3>2
  <2>8. \A f \in dir' : f \in kept' \/ (f \in Held' /\ fds'[f] # -1)
    <3> TAKE f \in dir'
    <3>1. CASE f = file_index BY <1>1, <1>3, <1>6, <2>1, <2>2, <3>1 DEF HeldOK
    <3>2. CASE f # file_index
      <4>1. f \in kept \/ (f \in Held /\ fds[f] # -1) BY <1>6, <2>1, <3>2 DEF HeldOK
      <4> QED BY <1>3, <1>6, <2>1, <3>2, <4>1 DEF HeldOK
    <3> QED BY <3>1, <3>2
  <2> QED BY <1>1, <1>2, <1>5, <2>3, <2>4, <2>5, <2>6, <2>7, <2>8 DEF FilesOK, HeldOK
<1> QED BY <1>7, <1>8, <1>9

\* generate_files, second loop: the next file is released.
LEMMA ReleaseIInv ==
  ASSUME FilesOK, NEW munmap_ok \in BOOLEAN, NEW unlink_ok \in BOOLEAN,
         Release(munmap_ok, unlink_ok)
  PROVE  FilesOK'
<1> DEFINE me == file_index
           own == fds[me]
<1>1. /\ pc = "release" /\ pc' = pc /\ me \in Files /\ file_index' = me + 1
      /\ me \in Int /\ Files \subseteq Int
  BY FilesAssumption DEF FilesOK, HeldOK, Release, Files
<1>2. HeldOK BY <1>1 DEF FilesOK
<1>3. file_index' \in 1 .. FILES_PER_ITERATION + 1 BY <1>1, FilesAssumption DEF Files
<1>4. Held' = Held \ {me} /\ me \in Held /\ Held \subseteq Files BY <1>1 DEF Held, Files
<1>5. /\ fds' = fds /\ mmaps' = mmaps
      /\ mapped' = IF mmaps[me] /\ munmap_ok THEN mapped \ {me} ELSE mapped
      /\ stuck' = IF mmaps[me] /\ ~munmap_ok THEN stuck \cup {me} ELSE stuck
      /\ open' = IF own # -1 THEN Restrict(open, DOMAIN open \ {own}) ELSE open
      /\ dir' = IF own # -1 /\ unlink_ok THEN dir \ {me} ELSE dir
      /\ kept' = IF own = -1 THEN kept
                 ELSE IF unlink_ok THEN kept \ {me} ELSE kept \cup {me}
  BY DEF Release, Closes
<1>6. foreign' = (foreign \/ (own \in DOMAIN open /\ open[own] # me)) BY DEF Release
<1> HIDE DEF me, own
<1>7. own = fds[me] BY DEF own
<1>8. ~foreign'
  <2>1. own \in DOMAIN open => open[own] = me BY <1>2, <1>4, <1>7 DEF HeldOK
  <2>2. ~foreign BY DEF FilesOK
  <2> QED BY <1>6, <2>1, <2>2, Zenon
<1>9. /\ DOMAIN open' \subseteq DOMAIN open
      /\ \A fd \in DOMAIN open' : open'[fd] = open[fd]
      /\ \A fd \in DOMAIN open : fd # own => fd \in DOMAIN open'
      /\ own # -1 => own \notin DOMAIN open'
  BY <1>5 DEF Restrict
<1>10. \A fd \in DOMAIN open' : fd \in Nat /\ open'[fd] \in Held' /\ fds'[open'[fd]] = fd
  <2> TAKE fd \in DOMAIN open'
  <2>1. fd \in DOMAIN open /\ open'[fd] = open[fd] BY <1>9
  <2>2. fd \in Nat /\ open[fd] \in Held /\ fds[open[fd]] = fd BY <1>2, <2>1 DEF HeldOK
  <2>3. open[fd] # me
    <3>1. open[fd] = me => fd = own BY <1>7, <2>2
    <3> QED BY <1>9, <2>2, <3>1
  <2> QED BY <1>4, <1>5, <2>1, <2>2, <2>3
<1>11. \A f \in Held' : fds'[f] # -1 => fds'[f] \in DOMAIN open' /\ open'[fds'[f]] = f
  <2> SUFFICES ASSUME NEW f \in Held', fds'[f] # -1
               PROVE  fds'[f] \in DOMAIN open' /\ open'[fds'[f]] = f
    OBVIOUS
  <2>1. f \in Held /\ f # me /\ fds'[f] = fds[f] BY <1>4, <1>5
  <2>2. fds[f] \in DOMAIN open /\ open[fds[f]] = f BY <1>2, <2>1 DEF HeldOK
  <2>3. fds[f] # own
    <3> SUFFICES ASSUME fds[f] = own PROVE FALSE OBVIOUS
    <3>1. own # -1 BY <2>1
    <3>2. open[own] = me BY <1>2, <1>4, <1>7, <3>1 DEF HeldOK
    <3> QED BY <2>1, <2>2, <3>2
  <2> QED BY <1>9, <2>1, <2>2, <2>3
<1>12. \A f \in mapped' : f \in stuck' \/ (f \in Held' /\ mmaps'[f])
  <2> TAKE f \in mapped'
  <2>1. f \in stuck \/ (f \in Held /\ mmaps[f]) BY <1>2, <1>5 DEF HeldOK
  <2>2. CASE f \in stuck BY <1>5, <2>2
  <2>3. CASE f \notin stuck /\ f # me BY <1>4, <1>5, <2>1, <2>3
  <2>4. CASE f \notin stuck /\ f = me
    <3>1. mmaps[me] BY <2>1, <2>4
    <3>2. ~munmap_ok BY <1>5, <2>4, <3>1
    <3> QED BY <1>5, <2>4, <3>1, <3>2
  <2> QED BY <2>2, <2>3, <2>4
<1>13. \A f \in dir' : f \in kept' \/ (f \in Held' /\ fds'[f] # -1)
  <2> TAKE f \in dir'
  <2>1. f \in kept \/ (f \in Held /\ fds[f] # -1) BY <1>2, <1>5 DEF HeldOK
  <2>2. CASE f # me BY <1>4, <1>5, <2>1, <2>2
  <2>3. CASE f = me BY <1>5, <1>7, <2>1, <2>3
  <2> QED BY <2>2, <2>3
<1>14. HeldOK' BY <1>2, <1>3, <1>5, <1>10, <1>11, <1>12, <1>13, Zenon DEF HeldOK
<1> QED BY <1>8, <1>14 DEF FilesOK

\* generate_files goes on to its second loop, or returns.
LEMMA TurnIInv ==
  ASSUME FilesOK, Created \/ \E l \in Latencies : Return(l)
  PROVE  FilesOK'
<1>1. ~foreign'
  <2>1. ~foreign /\ foreign' = foreign BY DEF FilesOK, Created, Return, history
  <2> QED BY <2>1, Zenon
<1>2. HeldOK /\ file_index' = 1 /\ file_index = FILES_PER_ITERATION + 1
  BY DEF FilesOK, Created, Return
<1>3. UNCHANGED <<open, mapped, dir, stuck, kept>> BY DEF Created, Return, kernel, history
<1>4. file_index' \in 1 .. FILES_PER_ITERATION + 1 BY <1>2, FilesAssumption
<1>5. CASE Created
  <2>1. Held = Files /\ Held' = Files BY <1>2, <1>5, FilesAssumption DEF Held, Files, Created
  <2>2. UNCHANGED <<fds, mmaps>> BY <1>5 DEF Created
  <2> QED BY <1>1, <1>2, <1>3, <1>4, <2>1, <2>2 DEF FilesOK, HeldOK
<1>6. CASE \E l \in Latencies : Return(l)
  <2>1. PICK l \in Latencies : Return(l) BY <1>6
  <2>2. Held = {} BY <1>2, <2>1, FilesAssumption DEF Held, Files, Return
  <2>3. fds' \in [Files -> Int] /\ mmaps' \in [Files -> BOOLEAN] BY <2>1 DEF Return
  <2>4. pc' # "release" BY <2>1 DEF Return
  <2>5. Held' = {} \/ pc' # "create"
    BY <1>2, FilesAssumption DEF Held, Files
  <2>6. DOMAIN open = {} /\ mapped \subseteq stuck /\ dir \subseteq kept
    BY <1>2, <2>2, Zenon DEF HeldOK
  <2> QED BY <1>1, <1>3, <1>4, <2>3, <2>4, <2>5, <2>6 DEF FilesOK, HeldOK
<1> QED BY <1>5, <1>6

\* The steps of benchmark_file.c
LEMMA FilesIInv == BenchIInv /\ FilesNext /\ UNCHANGED workload => BenchIInv'
<1> SUFFICES ASSUME BenchIInv, FilesNext, UNCHANGED workload PROVE BenchIInv' OBVIOUS
<1>1. StatsOK /\ WorkloadOK /\ FilesOK BY DEF BenchIInv
<1>2. StatsOK' /\ pc' \in {"create", "release", "average", "averaged"}
  <2>1. CASE OpenFails \/ CreateFails \/ Create \/ Created
             \/ \E munmap_ok, unlink_ok \in BOOLEAN : Release(munmap_ok, unlink_ok)
    BY <1>1, <2>1, Zenon DEF StatsOK, OpenFails, CreateFails, Create, Created, Release, results, stats
  <2>2. CASE \E l \in Latencies : Return(l)
    <3>1. PICK l \in Latencies : Return(l) BY <2>2
    <3>2. samples \in Seq(Nat) /\ latencies = samples BY <1>1, <3>1 DEF StatsOK, Return
    <3>3. Measure(l) \/ UNCHANGED results BY <3>1 DEF Return
    <3>4. samples' \in Seq(Nat) /\ latencies' = samples'
      BY <3>2, <3>3, MeasureStats DEF results
    <3>5. pc' \in {"create", "average"} BY <3>1 DEF Return
    <3> QED BY <3>4, <3>5 DEF StatsOK
  <2>3. CASE ReportAverage
    BY <1>1, <2>3 DEF StatsOK, ReportAverage
  <2> QED BY <2>1, <2>2, <2>3 DEF FilesNext
<1>3. WorkloadOK' BY <1>1, <1>2 DEF WorkloadOK, workload
<1>4. FilesOK'
  <2>1. CASE ReportAverage
    <3>1. ~foreign /\ foreign' = foreign BY <1>1, <2>1 DEF FilesOK, ReportAverage, files, history
    <3>2. ~foreign' BY <3>1, Zenon
    <3>3. pc' = "averaged" BY <2>1 DEF ReportAverage
    <3> QED BY <3>2, <3>3 DEF FilesOK
  <2> QED BY <1>1, <2>1, CreateIInv, ReleaseIInv, TurnIInv DEF FilesNext
<1> QED BY <1>2, <1>3, <1>4 DEF BenchIInv

LEMMA BenchInvariance == Spec => []BenchIInv
<1>1. BenchIInv /\ [Next]_vars => BenchIInv'
  <2> SUFFICES ASSUME BenchIInv, [Next]_vars PROVE BenchIInv' OBVIOUS
  <2>1. CASE MemoryNext /\ UNCHANGED <<files, workload>> BY <2>1, MemoryIInv
  <2>2. CASE FilesNext /\ UNCHANGED <<memory, workload>> BY <2>2, FilesIInv
  <2>3. CASE WorkloadNext /\ UNCHANGED <<memory, files>> BY <2>3, WorkloadIInv
  <2>4. CASE UNCHANGED vars
    <3>1. ~foreign /\ foreign' = foreign
      BY <2>4 DEF BenchIInv, FilesOK, vars, files, history
    <3>2. ~foreign' BY <3>1, Zenon
    <3>3. /\ UNCHANGED <<pc, latencies, samples, average, median, p75, p99>>
          /\ UNCHANGED <<total_iterations, iteration, total_latency>>
          /\ UNCHANGED <<file_index, fds, mmaps, open, mapped, dir, stuck, kept>>
      BY <2>4 DEF vars, results, stats, files, kernel, history, workload
    <3>4. StatsOK' BY <3>3 DEF BenchIInv, StatsOK
    <3>5. WorkloadOK' BY <3>3 DEF BenchIInv, WorkloadOK
    <3>6. HeldOK => HeldOK' BY <3>3 DEF HeldOK, Held
    <3> QED BY <3>2, <3>3, <3>4, <3>5, <3>6 DEF BenchIInv, FilesOK
  <2> QED BY <2>1, <2>2, <2>3, <2>4 DEF Next
<1> QED BY <1>1, InitBenchIInv, PTL DEF Spec

\* Whatever calls fail, generate_files leaves no descriptor open and nothing
\* mapped or in the directory but what could not be undone, for every number of
\* files, bursts and descriptors.
THEOREM BurstsLeaveNothing == Spec => []BurstsStartClean
<1>1. BenchIInv => BurstsStartClean
  <2> SUFFICES ASSUME BenchIInv, pc = "create", file_index = 1
               PROVE  DOMAIN open = {} /\ mapped \subseteq stuck /\ dir \subseteq kept
    BY DEF BurstsStartClean
  <2>1. HeldOK BY DEF BenchIInv, FilesOK
  <2>2. Held = {} BY FilesAssumption DEF Held, Files
  <2> QED BY <2>1, <2>2, Zenon DEF HeldOK
<1> QED BY <1>1, BenchInvariance, PTL

\* generate_files never closes a descriptor that belongs to another of its
\* files, however many there are and however the numbers are reused.
THEOREM ClosesItsOwn == Spec => []ClosesOwnDescriptors
<1>1. BenchIInv => ClosesOwnDescriptors BY DEF BenchIInv, FilesOK, ClosesOwnDescriptors
<1> QED BY <1>1, BenchInvariance, PTL
-----------------------------------------------------------------------------
(***************************************************************************)
(* What the statistics of the sorted array say about the samples           *)
(***************************************************************************)

\* What qsort leaves is a rearrangement of the samples.
LEMMA SortKeepsSamples ==
  ASSUME NEW s \in Seq(Nat), NEW r, SortOf(r, s)
  PROVE  /\ r \in Seq(Nat) /\ Len(r) = Len(s)
         /\ \E p : Reorders(p, Len(s)) /\ \A k \in 1 .. Len(s) : r[k] = s[p[k]]
<1>1. DOMAIN s = 1 .. Len(s) /\ Len(s) \in Nat OBVIOUS
<1>2. r \in [1 .. Len(s) -> Range(s)] BY <1>1 DEF SortOf
<1>3. Range(s) \subseteq Nat BY DEF Range
<1>4. r \in [1 .. Len(s) -> Nat] BY <1>2, <1>3
<1>5. r \in Seq(Nat) /\ Len(r) = Len(s) BY <1>1, <1>4
<1>6. \A v \in Range(s) : Cardinality({k \in 1 .. Len(s) : r[k] = v}) =
                          Cardinality({k \in 1 .. Len(s) : s[k] = v})
  BY <1>1 DEF SortOf, Sorted
<1> QED BY <1>1, <1>2, <1>5, <1>6, SortReorders, Zenon

\* At least as many indices map into U as there are in the interval a .. b.
LEMMA IntervalInto ==
  ASSUME NEW n \in Nat, NEW p, Reorders(p, n), NEW a \in Nat, NEW b \in 0 .. n,
         0 < a, a <= b + 1,
         NEW U \in SUBSET (1 .. n), \A k \in a .. b : p[k] \in U
  PROVE  Cardinality(U) >= b - a + 1
<1> DEFINE f == [k \in a .. b |-> p[k]]
<1>1. IsFiniteSet(1 .. n) BY FS_Interval
<1>2. IsFiniteSet(U) BY <1>1, FS_Subset, Zenon
<1>3. a .. b \subseteq 1 .. n OBVIOUS
<1>4. f \in [a .. b -> U] OBVIOUS
<1>5. \A c, d \in a .. b : f[c] = f[d] => c = d BY <1>3 DEF Reorders
<1>6. f \in Injection(a .. b, U) BY <1>4, <1>5, Zenon DEF Injection, IsInjective
<1> HIDE DEF f
<1>7. Cardinality(a .. b) <= Cardinality(U) BY <1>2, <1>6, FS_Injection
<1>8. Cardinality(a .. b) = b - a + 1
  <2>1. a \in Int /\ b \in Int OBVIOUS
  <2>2. Cardinality(a .. b) = IF a > b THEN 0 ELSE b - a + 1 BY <2>1, FS_Interval
  <2>3. a > b => b - a + 1 = 0 OBVIOUS
  <2> QED BY <2>2, <2>3
<1>9. Cardinality(U) \in Nat BY <1>2, FS_CardinalityType
<1> QED BY <1>7, <1>8, <1>9

\* v is between the element at lower of the array and the next, if there is one.
Between(r, lower, v) ==
  lower \in 1 .. Len(r) /\ v \in Int /\ r[lower] <= v /\ (lower < Len(r) => v <= r[lower + 1])

\* The first n elements of the array do not descend.
Ascends(r, n) == \A c, d \in 1 .. n : c <= d => r[c] <= r[d]

\* The number of samples up to v, and from v on.
NoLonger(s, n, v) == Cardinality({k \in 1 .. n : s[k] <= v})
NoShorter(s, n, v) == Cardinality({k \in 1 .. n : s[k] >= v})

\* A value between neighbours of the sorted array splits the samples there.
LEMMA SplitsAtRank ==
  ASSUME NEW n \in Nat, NEW s, NEW r, NEW p, Reorders(p, n),
         \A k \in 1 .. n : s[k] \in Nat,
         \A k \in 1 .. n : r[k] = s[p[k]],
         \A c, d \in 1 .. n : c <= d => r[c] <= r[d],
         NEW lower \in 1 .. n, NEW v \in Int,
         r[lower] <= v, lower < n => v <= r[lower + 1]
  PROVE  NoLonger(s, n, v) >= lower /\ NoShorter(s, n, v) >= n - lower
<1> DEFINE Low == {k \in 1 .. n : s[k] <= v}
           High == {k \in 1 .. n : s[k] >= v}
<1>1. \A k \in 1 .. n : p[k] \in 1 .. n /\ r[k] \in Nat BY Zenon DEF Reorders
<1>2. ASSUME NEW k \in 1 .. lower PROVE p[k] \in Low
  <2>1. k \in 1 .. n /\ k <= lower OBVIOUS
  <2>2. r[k] <= r[lower] /\ r[k] \in Nat /\ r[lower] \in Nat BY <1>1, <2>1
  <2> QED BY <1>1, <2>1, <2>2
<1>3. ASSUME NEW k \in lower + 1 .. n PROVE p[k] \in High
  <2>1. k \in 1 .. n /\ lower + 1 <= k /\ lower + 1 \in 1 .. n OBVIOUS
  <2>2. r[lower + 1] <= r[k] /\ r[k] \in Nat /\ r[lower + 1] \in Nat BY <1>1, <2>1
  <2> QED BY <1>1, <2>1, <2>2
<1>4. Low \in SUBSET (1 .. n) /\ High \in SUBSET (1 .. n) OBVIOUS
<1> HIDE DEF Low, High
<1>5. Cardinality(Low) >= lower - 1 + 1
  <2>1. 1 \in Nat /\ 0 < 1 /\ 1 <= lower + 1 /\ lower \in 0 .. n OBVIOUS
  <2> QED BY <1>2, <1>4, <2>1, IntervalInto, Zenon
<1>6. Cardinality(High) >= n - (lower + 1) + 1
  <2>1. lower + 1 \in Nat /\ 0 < lower + 1 /\ lower + 1 <= n + 1 /\ n \in 0 .. n OBVIOUS
  <2> QED BY <1>3, <1>4, <2>1, IntervalInto, Zenon
<1>7. Cardinality(Low) >= lower BY <1>5
<1>8. Cardinality(High) >= n - lower BY <1>6
<1> QED BY <1>7, <1>8 DEF Low, High, NoLonger, NoShorter

\* The interpolation of calculate_percentile, in hundredths, stays between the
\* two samples.
Blend(a, b, w) == a * (100 - w) + b * w

LEMMA Interpolates ==
  ASSUME NEW a \in Nat, NEW b \in Nat, a <= b, NEW w \in 0 .. 99
  PROVE  /\ Blend(a, b, w) \in Nat
         /\ a <= Blend(a, b, w) \div 100 /\ Blend(a, b, w) \div 100 <= b
         /\ w # 0 /\ a # b /\ Blend(a, b, w) % 100 = 0 => a <= (Blend(a, b, w) \div 100) - 1
<1> DEFINE e == (b - a) * w
<1>1. b - a \in Nat /\ w \in Nat /\ 100 - w \in Nat OBVIOUS
<1>2. e \in Nat BY <1>1
<1>3. e <= (b - a) * 100 BY <1>1
<1>4. w # 0 /\ a # b => e > 0 BY <1>1
<1>5. Blend(a, b, w) = 100 * a + e BY <1>1 DEF Blend
<1> HIDE DEF e
<1>6. e <= 100 * b - 100 * a BY <1>1, <1>2, <1>3
<1> QED BY <1>2, <1>4, <1>5, <1>6

\* The median is the middle sample, or between the two middle ones.
LEMMA MedianBetween ==
  ASSUME NEW r \in Seq(Nat), NEW n \in Nat, n = Len(r), 0 < n, Ascends(r, n),
         NEW lower, lower = ((n - 1) \div 2) + 1,
         NEW v, v = calculate_median(r)
  PROVE  Between(r, lower, v)
<1> USE DEF Ascends
<1> SUFFICES lower \in 1 .. n /\ v \in Int /\ r[lower] <= v /\ (lower < n => v <= r[lower + 1])
  BY DEF Between
<1>1. \A k \in 1 .. n : r[k] \in Nat OBVIOUS
<1>2. lower \in 1 .. n OBVIOUS
<1>3. v = IF n % 2 = 0 THEN (r[n \div 2] + r[(n \div 2) + 1]) \div 2
          ELSE r[(n \div 2) + 1]
  BY DEF calculate_median
<1>4. CASE n % 2 = 0
  <2>1. n \div 2 = lower /\ lower < n BY <1>4
  <2>2. lower + 1 \in 1 .. n BY <1>2, <2>1
  <2>3. r[lower] \in Nat /\ r[lower + 1] \in Nat /\ r[lower] <= r[lower + 1]
    BY <1>1, <1>2, <2>2
  <2>4. v = (r[lower] + r[lower + 1]) \div 2 BY <1>3, <1>4, <2>1
  <2> QED BY <1>2, <2>3, <2>4
<1>5. CASE n % 2 # 0
  <2>1. (n \div 2) + 1 = lower BY <1>5
  <2>2. v = r[lower] BY <1>3, <1>5, <2>1
  <2>3. lower < n => lower + 1 \in 1 .. n BY <1>2
  <2>4. lower < n => r[lower] <= r[lower + 1] BY <1>2, <2>3
  <2> QED BY <1>1, <1>2, <2>2, <2>4
<1> QED BY <1>4, <1>5

\* A percentile is between the samples next to its rank.
LEMMA PercentileBetween ==
  ASSUME NEW r \in Seq(Nat), 0 < Len(r), Ascends(r, Len(r)),
         NEW percentile \in {75, 99}, NEW v \in calculate_percentile(r, percentile)
  PROVE  Between(r, ((percentile * (Len(r) - 1)) \div 100) + 1, v)
<1> DEFINE n == Len(r)
           rank == percentile * (n - 1)
           lower == (rank \div 100) + 1
           weight == rank % 100
           scaled == r[lower] * (100 - weight) + r[lower + 1] * weight
<1> SUFFICES lower \in 1 .. n /\ v \in Int /\ r[lower] <= v
             /\ (lower < n => v <= r[lower + 1])
  BY Zenon DEF Between
<1>1. \A k \in 1 .. n : r[k] \in Nat OBVIOUS
<1>2. rank \in Nat /\ rank <= 99 * (n - 1)
  <2>1. CASE percentile = 75 BY <2>1
  <2>2. CASE percentile = 99 BY <2>2
  <2> QED BY <2>1, <2>2
<1>3. v \in IF lower + 1 > n THEN {r[lower]}
            ELSE {scaled \div 100} \cup
                 (IF weight # 0 /\ scaled % 100 = 0 /\ r[lower] # r[lower + 1]
                  THEN {(scaled \div 100) - 1} ELSE {})
  BY Zenon DEF calculate_percentile
<1>4. n \in Nat /\ 0 < n /\ \A c, d \in 1 .. n : c <= d => r[c] <= r[d] BY DEF Ascends
<1> HIDE DEF n, rank
<1>5. lower \in 1 .. n BY <1>2, <1>4
<1>6. weight \in 0 .. 99 BY <1>2
<1> HIDE DEF lower, weight
<1>7. CASE lower = n
  <2>1. v = r[lower] BY <1>3, <1>4, <1>5, <1>7
  <2> QED BY <1>1, <1>4, <1>5, <1>7, <2>1
<1>8. CASE lower < n
  <2>1. lower + 1 \in 1 .. n BY <1>4, <1>5, <1>8
  <2>2. r[lower] \in Nat /\ r[lower + 1] \in Nat /\ r[lower] <= r[lower + 1]
    BY <1>1, <1>4, <1>5, <2>1
  <2>5. scaled = r[lower] * (100 - weight) + r[lower + 1] * weight OBVIOUS
  <2> HIDE DEF scaled
  <2>3. /\ scaled \in Nat
        /\ r[lower] <= scaled \div 100 /\ scaled \div 100 <= r[lower + 1]
        /\ weight # 0 /\ r[lower] # r[lower + 1] /\ scaled % 100 = 0 =>
             r[lower] <= (scaled \div 100) - 1
    <3> DEFINE a == r[lower]
               b == r[lower + 1]
    <3>1. a \in Nat /\ b \in Nat /\ a <= b BY <2>2
    <3>2. scaled = Blend(a, b, weight) BY <2>5 DEF Blend
    <3> HIDE DEF a, b
    <3>3. /\ scaled \in Nat
          /\ a <= scaled \div 100 /\ scaled \div 100 <= b
          /\ weight # 0 /\ a # b /\ scaled % 100 = 0 => a <= (scaled \div 100) - 1
      <4>1. /\ Blend(a, b, weight) \in Nat
            /\ a <= Blend(a, b, weight) \div 100 /\ Blend(a, b, weight) \div 100 <= b
            /\ weight # 0 /\ a # b /\ Blend(a, b, weight) % 100 = 0 =>
                 a <= (Blend(a, b, weight) \div 100) - 1
        BY <1>6, <3>1, Interpolates, Zenon
      <4> QED BY <3>2, <4>1
    <3> QED BY <3>3 DEF a, b
  <2>4. \/ v = scaled \div 100
        \/ /\ v = (scaled \div 100) - 1
           /\ weight # 0 /\ scaled % 100 = 0 /\ r[lower] # r[lower + 1]
    BY <1>3, <1>4, <1>5, <1>8
  <2> QED BY <1>5, <1>8, <2>2, <2>3, <2>4
<1> QED BY <1>4, <1>5, <1>7, <1>8

\* Sorting by compare leaves an ascending array if all samples fit an int.
LEMMA SortAscends ==
  ASSUME NEW s \in Seq(Nat), NEW r, SortOf(r, s), \A k \in 1 .. Len(s) : s[k] < IntHalf
  PROVE  \A c, d \in 1 .. Len(s) : c <= d => r[c] <= r[d]
<1>1. PICK p : Reorders(p, Len(s)) /\ \A k \in 1 .. Len(s) : r[k] = s[p[k]]
  BY SortKeepsSamples
<1>2. \A k \in 1 .. Len(s) : r[k] \in Nat /\ r[k] < IntHalf
  <2> TAKE k \in 1 .. Len(s)
  <2>1. p[k] \in 1 .. Len(s) BY <1>1, Zenon DEF Reorders
  <2>2. s[p[k]] \in Nat /\ s[p[k]] < IntHalf BY <2>1
  <2> QED BY <1>1, <2>2
<1>3. ASSUME NEW k \in 1 .. Len(s) - 1 PROVE r[k] <= r[k + 1]
  <2>1. k \in 1 .. Len(s) /\ k + 1 \in 1 .. Len(s) OBVIOUS
  <2>2. r[k] \in Nat /\ r[k + 1] \in Nat /\ r[k] < IntHalf /\ r[k + 1] < IntHalf
    BY <1>2, <2>1
  <2>3. compare(r[k], r[k + 1]) = r[k] - r[k + 1] BY <2>2, CompareFits
  <2>4. compare(r[k], r[k + 1]) <= 0 BY <1>3 DEF SortOf, Sorted
  <2> QED BY <2>2, <2>3, <2>4
<1>4. Len(s) \in Nat OBVIOUS
<1> QED BY <1>2, <1>3, <1>4, NeighboursAscend, Zenon

\* The median and the percentiles that benchmark.c reports split the samples at
\* their rank if these fit an int: for every number of cycles, every order they
\* were measured in and every result of qsort.
THEOREM PercentilesSplit == Spec => []QuantilesSplit
<1>1. BenchIInv => QuantilesSplit
  <2> DEFINE N == Len(samples)
             Splits(v, rank) == /\ NoLonger(samples, N, v) >= rank + 1
                                /\ NoShorter(samples, N, v) >= N - rank - 1
  <2> SUFFICES ASSUME BenchIInv, pc = "done", Fits
               PROVE  /\ Splits(median, (N - 1) \div 2)
                      /\ Splits(p75, (75 * (N - 1)) \div 100)
                      /\ Splits(p99, (99 * (N - 1)) \div 100)
    BY Zenon DEF QuantilesSplit, NoLonger, NoShorter
  <2>1. /\ samples \in Seq(Nat) /\ N \in Nat /\ N > 0 /\ SortOf(latencies, samples)
        /\ median = calculate_median(latencies)
        /\ p75 \in calculate_percentile(latencies, 75)
        /\ p99 \in calculate_percentile(latencies, 99)
    BY DEF BenchIInv, StatsOK
  <2>2. latencies \in Seq(Nat) /\ Len(latencies) = N BY <2>1, SortKeepsSamples, Zenon
  <2>3. PICK p : Reorders(p, N) /\ \A k \in 1 .. N : latencies[k] = samples[p[k]]
    BY <2>1, SortKeepsSamples
  <2>4. \A k \in 1 .. N : samples[k] \in Nat BY <2>1
  <2>5. \A c, d \in 1 .. N : c <= d => latencies[c] <= latencies[d]
    <3>1. \A k \in 1 .. Len(samples) : samples[k] < IntHalf BY <2>1 DEF Fits
    <3> QED BY <2>1, <3>1, SortAscends, Zenon
  <2> HIDE DEF N
  <2>6. ASSUME NEW v, NEW rank \in Int, Between(latencies, rank + 1, v)
        PROVE  Splits(v, rank)
    <3> DEFINE lower == rank + 1
    <3>1. /\ lower \in 1 .. N /\ v \in Int /\ latencies[lower] <= v
          /\ lower < N => v <= latencies[lower + 1]
      BY <2>2, <2>6 DEF Between
    <3> HIDE DEF lower
    <3>2. NoLonger(samples, N, v) >= lower /\ NoShorter(samples, N, v) >= N - lower
      BY <2>1, <2>5, <2>3, <2>4, <3>1, SplitsAtRank, Zenon
    <3>3. N - lower = N - rank - 1 /\ lower = rank + 1 BY <2>1 DEF lower
    <3> QED BY <3>2, <3>3
  <2> HIDE DEF Splits
  <2>7. Splits(median, (N - 1) \div 2)
    <3>1. (N - 1) \div 2 \in Int BY <2>1
    <3>2. Between(latencies, ((N - 1) \div 2) + 1, median)
      <4>1. Ascends(latencies, N) BY <2>5, Zenon DEF Ascends
      <4>2. 0 < N BY <2>1
      <4> QED BY <2>1, <2>2, <4>1, <4>2, MedianBetween, ZenonT(30)
    <3> QED BY <2>6, <3>1, <3>2
  <2>8. ASSUME NEW percentile \in {75, 99},
               NEW v \in calculate_percentile(latencies, percentile)
        PROVE  Splits(v, (percentile * (N - 1)) \div 100)
    <3>1. (percentile * (N - 1)) \div 100 \in Int
      <4>1. CASE percentile = 75 BY <2>1, <4>1
      <4>2. CASE percentile = 99 BY <2>1, <4>2
      <4> QED BY <4>1, <4>2
    <3>2. Between(latencies, ((percentile * (N - 1)) \div 100) + 1, v)
      <4>1. 0 < Len(latencies) BY <2>1, <2>2
      <4>2. Ascends(latencies, Len(latencies))
        <5>1. Ascends(latencies, N) BY <2>5, Zenon DEF Ascends
        <5> QED BY <2>2, <5>1, Zenon
      <4>3. Between(latencies, ((percentile * (Len(latencies) - 1)) \div 100) + 1, v)
        BY <2>2, <4>1, <4>2, PercentileBetween, ZenonT(30)
      <4> QED BY <2>2, <4>3, Zenon
    <3> QED BY <2>6, <3>1, <3>2, ZenonT(30)
  <2>9. 75 \in {75, 99} /\ 99 \in {75, 99} OBVIOUS
  <2> QED BY <2>1, <2>7, <2>8, <2>9, ZenonT(30)
<1> QED BY <1>1, BenchInvariance, PTL

\* The average that the benchmarks report is that of the samples, however many
\* there are: qsort only rearranges them, and the warm-up's sum is dropped.
THEOREM AverageIsOfSamples == Spec => []AverageOfMeasured
<1>1. BenchIInv => AverageOfMeasured
  <2> SUFFICES ASSUME BenchIInv, pc \in {"done", "averaged"}
               PROVE  average = SumTo(samples, Len(samples)) \div Len(samples)
    BY DEF AverageOfMeasured
  <2>1. StatsOK BY DEF BenchIInv
  <2>2. CASE pc = "averaged" BY <2>1, <2>2 DEF StatsOK, calculate_average
  <2>3. CASE pc = "done"
    <3>1. /\ samples \in Seq(Nat) /\ SortOf(latencies, samples)
          /\ average = calculate_average(latencies)
      BY <2>1, <2>3 DEF StatsOK
    <3>2. Len(latencies) = Len(samples) BY <3>1, SortKeepsSamples
    <3>3. PICK p : /\ Reorders(p, Len(samples))
                   /\ \A k \in 1 .. Len(samples) : latencies[k] = samples[p[k]]
      BY <3>1, SortKeepsSamples
    <3>4. Len(samples) \in Nat /\ \A k \in 1 .. Len(samples) : samples[k] \in Nat BY <3>1
    <3>5. SumTo(latencies, Len(samples)) = SumTo(samples, Len(samples))
      BY <3>3, <3>4, SumReordered
    <3> QED BY <3>1, <3>2, <3>5 DEF calculate_average
  <2> QED BY <2>2, <2>3
<1> QED BY <1>1, BenchInvariance, PTL
=============================================================================
