---------------------------- MODULE ReportProofs -----------------------------
(***************************************************************************)
(* The percentiles of the report, for every sample of latencies.           *)
(***************************************************************************)
EXTENDS Report, FiniteSetTheorems, FunctionTheorems, TLAPS

\* The positions that come no later than i when the sample is sorted: those
\* with less, and of those with the same the ones before i.
UpTo(xs, i) ==
    {j \in DOMAIN xs : xs[j] < xs[i] \/ (xs[j] = xs[i] /\ j <= i)}

\* An injection of a finite set into itself, and onto itself.
LEMMA InjectionIsOnto ==
    ASSUME NEW S, IsFiniteSet(S), NEW f \in Injection(S, S)
    PROVE  f \in Bijection(S, S)
<1> DEFINE T == {f[x] : x \in S}
<1>1. f \in [S -> S] /\ \A x, y \in S : f[x] = f[y] => x = y
    BY Fun_InjectionProperties
<1>2. T \subseteq S /\ f \in [S -> T]
    BY <1>1
<1>3. f \in Bijection(S, T)
    BY <1>1, <1>2, Fun_IsBij
<1>4. IsFiniteSet(T) /\ Cardinality(T) = Cardinality(S)
    BY <1>3, FS_Bijection DEF ExistsBijection
<1>5. T = S
  <2>1. SUFFICES ASSUME NEW x \in S, x \notin T PROVE FALSE
      BY <1>2
  <2>2. T \subseteq S \ {x}
      BY <1>2, <2>1
  <2>3. IsFiniteSet(S \ {x}) /\ Cardinality(S \ {x}) = Cardinality(S) - 1
      BY <2>1, FS_RemoveElement
  <2>4. Cardinality(T) <= Cardinality(S \ {x})
      BY <2>2, <2>3, FS_Subset
  <2>5. Cardinality(S) \in Nat
      BY FS_CardinalityType
  <2>6. QED
      BY <1>4, <2>3, <2>4, <2>5
<1>6. QED
    BY <1>3, <1>5

\* Every sample can be sorted.
LEMMA SortedOrders ==
    ASSUME NEW n \in Nat, NEW xs \in [1..n -> Nat]
    PROVE  /\ Sorted(xs) \in Bijection(1..n, 1..n)
           /\ \A i, j \in 1..n : i <= j => xs[Sorted(xs)[i]] <= xs[Sorted(xs)[j]]
<1> DEFINE S == 1..n
           place == [i \in S |-> Cardinality(UpTo(xs, i))]
<1>1. IsFiniteSet(S) /\ Cardinality(S) = n /\ DOMAIN xs = S
    BY FS_Interval
<1>2. \A i \in S : /\ UpTo(xs, i) \subseteq S /\ i \in UpTo(xs, i)
                   /\ IsFiniteSet(UpTo(xs, i)) /\ Cardinality(UpTo(xs, i)) \in 1..n
  <2> SUFFICES ASSUME NEW i \in S
               PROVE  /\ UpTo(xs, i) \subseteq S /\ i \in UpTo(xs, i)
                      /\ IsFiniteSet(UpTo(xs, i)) /\ Cardinality(UpTo(xs, i)) \in 1..n
      OBVIOUS
  <2>1. UpTo(xs, i) \subseteq S /\ i \in UpTo(xs, i)
      BY <1>1 DEF UpTo
  <2>2. IsFiniteSet(UpTo(xs, i)) /\ Cardinality(UpTo(xs, i)) <= n
      BY <1>1, <2>1, FS_Subset
  <2>3. Cardinality(UpTo(xs, i)) \in Nat /\ Cardinality(UpTo(xs, i)) # 0
      BY <2>1, <2>2, FS_CardinalityType, FS_EmptySet
  <2>4. QED
      BY <2>1, <2>2, <2>3
<1>3. \A i, j \in S : xs[i] < xs[j] \/ (xs[i] = xs[j] /\ i < j) => place[i] < place[j]
  <2> SUFFICES ASSUME NEW i \in S, NEW j \in S, xs[i] < xs[j] \/ (xs[i] = xs[j] /\ i < j)
               PROVE  place[i] < place[j]
      OBVIOUS
  <2>1. UpTo(xs, i) \subseteq UpTo(xs, j) \ {j}
    <3>1. \A k \in S : xs[k] \in Nat /\ k \in Nat
        OBVIOUS
    <3>2. QED
        BY <1>1, <3>1 DEF UpTo
  <2>2. /\ IsFiniteSet(UpTo(xs, j) \ {j})
        /\ Cardinality(UpTo(xs, j) \ {j}) = Cardinality(UpTo(xs, j)) - 1
      BY <1>2, FS_RemoveElement
  <2>3. Cardinality(UpTo(xs, i)) <= Cardinality(UpTo(xs, j)) - 1
      BY <2>1, <2>2, FS_Subset
  <2>4. QED
      BY <1>2, <2>3
<1>3a. place \in [S -> S] /\ S \subseteq Nat
    BY <1>2
<1> HIDE DEF place, S
<1>4. place \in Bijection(S, S)
  <2>1. \A i, j \in S : place[i] = place[j] => i = j
    <3> SUFFICES ASSUME NEW i \in S, NEW j \in S, i # j PROVE place[i] # place[j]
        OBVIOUS
    <3>1. xs[i] \in Nat /\ xs[j] \in Nat /\ i \in Nat /\ j \in Nat
        BY <1>3a DEF S
    <3>2. \/ xs[i] < xs[j] \/ (xs[i] = xs[j] /\ i < j)
          \/ xs[j] < xs[i] \/ (xs[j] = xs[i] /\ j < i)
        BY <3>1
    <3>3. place[i] \in Nat /\ place[j] \in Nat
        BY <1>3a
    <3>4. QED
        BY <1>3, <3>2, <3>3
  <2>2. QED
      BY <1>1, <1>3a, <2>1, Fun_IsInj, InjectionIsOnto
<1>5. PICK f \in [S -> S] : \A k \in S : place[f[k]] = k
  <2>1. \A k \in S : \E i \in S : place[i] = k
      BY <1>4, Fun_BijectionProperties
  <2> DEFINE f == [k \in S |-> CHOOSE i \in S : place[i] = k]
  <2>2. f \in [S -> S] /\ \A k \in S : place[f[k]] = k
      BY <2>1
  <2>3. QED
      BY <2>2
<1>6. f \in Bijection(S, S)
  <2>1. \A i, j \in S : f[i] = f[j] => i = j
      BY <1>5
  <2>2. QED
      BY <1>1, <1>5, <2>1, Fun_IsInj, InjectionIsOnto
<1>7. \A i, j \in S : i <= j => xs[f[i]] <= xs[f[j]]
  <2> SUFFICES ASSUME NEW i \in S, NEW j \in S, i <= j, xs[f[j]] < xs[f[i]] PROVE FALSE
    <3>1. \A i \in S : xs[f[i]] \in Nat
        BY <1>5 DEF S
    <3>2. QED
        BY <3>1
  <2>1. place[f[j]] < place[f[i]]
      BY <1>3, <1>5
  <2>2. j < i
      BY <1>5, <2>1
  <2>3. QED
      BY <1>3a, <2>2
<1>8. QED
    BY <1>1, <1>6, <1>7 DEF Sorted, S

\* The latencies below v and above it.
Below(xs, v) == {i \in DOMAIN xs : xs[i] < v}
Above(xs, v) == {i \in DOMAIN xs : xs[i] > v}

\* At most k - 1 members of a sorted sample are less than the k-th, and at most
\* n - k are more.
LEMMA RankCounts ==
    ASSUME NEW n \in Nat, NEW xs \in [1..n -> Nat], NEW k \in 1..n,
           NEW v, v = xs[Sorted(xs)[k]]
    PROVE  /\ Cardinality(Below(xs, v)) \in 0..(k - 1)
           /\ Cardinality(Above(xs, v)) \in 0..(n - k)
<1> DEFINE S == 1..n
           f == Sorted(xs)
           place == [i \in S |-> CHOOSE j \in S : f[j] = i]
<1>1. /\ DOMAIN xs = S
      /\ IsFiniteSet(1..(k - 1)) /\ Cardinality(1..(k - 1)) = k - 1
      /\ IsFiniteSet((k + 1)..n) /\ Cardinality((k + 1)..n) = n - k
  <2>1. k - 1 \in Int /\ k + 1 \in Int /\ n \in Int /\ 1 \in Int /\ k <= n /\ k >= 1
      OBVIOUS
  <2>2. /\ IsFiniteSet(1..(k - 1))
        /\ Cardinality(1..(k - 1)) = IF 1 > k - 1 THEN 0 ELSE (k - 1) - 1 + 1
      BY <2>1, FS_Interval
  <2>3. /\ IsFiniteSet((k + 1)..n)
        /\ Cardinality((k + 1)..n) = IF k + 1 > n THEN 0 ELSE n - (k + 1) + 1
      BY <2>1, FS_Interval
  <2>4. QED
      BY <2>1, <2>2, <2>3
<1>2. /\ f \in [S -> S] /\ \A i \in S : \E j \in S : f[j] = i
      /\ \A i, j \in S : i <= j => xs[f[i]] <= xs[f[j]]
  <2>1. /\ f \in Bijection(S, S)
        /\ \A i, j \in S : i <= j => xs[f[i]] <= xs[f[j]]
      BY SortedOrders
  <2> HIDE DEF f, S
  <2>2. f \in [S -> S] /\ \A i \in S : \E j \in S : f[j] = i
      BY <2>1, Fun_BijectionProperties
  <2>3. QED
      BY <2>1, <2>2
<1> HIDE DEF f
<1>3. \A i \in S : place[i] \in S /\ f[place[i]] = i
    BY <1>2
<1>4. \A i \in S : xs[i] \in Nat /\ v \in Nat /\ v = xs[f[k]]
    BY <1>2 DEF f
<1> HIDE DEF place
<1>5. \A i \in Below(xs, v) : place[i] \in 1..(k - 1)
  <2> SUFFICES ASSUME NEW i \in Below(xs, v) PROVE ~(k <= place[i])
      BY <1>1, <1>3 DEF Below
  <2>1. i \in S
      BY <1>1 DEF Below
  <2>2. k <= place[i] => v <= xs[i]
      BY <1>2, <1>3, <1>4, <2>1
  <2>3. QED
      BY <1>4, <2>1, <2>2 DEF Below
<1>6. \A i \in Above(xs, v) : place[i] \in (k + 1)..n
  <2> SUFFICES ASSUME NEW i \in Above(xs, v) PROVE ~(place[i] <= k)
      BY <1>1, <1>3 DEF Above
  <2>1. i \in S
      BY <1>1 DEF Above
  <2>2. place[i] <= k => xs[i] <= v
      BY <1>2, <1>3, <1>4, <2>1
  <2>3. QED
      BY <1>4, <2>1, <2>2 DEF Above
<1>7. \A T, U : /\ T \subseteq S /\ IsFiniteSet(U) /\ (\A i \in T : place[i] \in U)
                => Cardinality(T) \in Nat /\ Cardinality(T) <= Cardinality(U)
  <2> SUFFICES ASSUME NEW T, NEW U, T \subseteq S, IsFiniteSet(U), \A i \in T : place[i] \in U
               PROVE  Cardinality(T) \in Nat /\ Cardinality(T) <= Cardinality(U)
      OBVIOUS
  <2> DEFINE g == [i \in T |-> place[i]]
  <2>1. g \in [T -> U] /\ \A i, j \in T : g[i] = g[j] => i = j
      BY <1>3
  <2>2. g \in Injection(T, U)
    <3> HIDE DEF g
    <3>1. QED
        BY <2>1, Fun_IsInj
  <2>3. IsFiniteSet(T) /\ Cardinality(T) <= Cardinality(U)
      BY <2>2, FS_Injection
  <2>4. QED
      BY <2>3, FS_CardinalityType
<1>8. Below(xs, v) \subseteq S /\ Above(xs, v) \subseteq S
    BY <1>1 DEF Below, Above
<1>9. /\ Cardinality(Below(xs, v)) \in Nat /\ Cardinality(Below(xs, v)) <= k - 1
      /\ Cardinality(Above(xs, v)) \in Nat /\ Cardinality(Above(xs, v)) <= n - k
    BY <1>1, <1>5, <1>6, <1>7, <1>8
<1>10. QED
    BY <1>9

\* The index r of a sorted sample of n, when r others are no more and the rest
\* no less, is what PercentileRanks allows of the percentile p.
IsRank(r, p, n) ==
    /\ r \in 0..(n - 1)
    /\ \A below \in 0..r : 100 * below <= p * (n - 1)
    /\ \A above \in 0..(n - 1 - r) : 100 * above < (100 - p) * (n - 1) + 100

\* The truncated rank is one.
LEMMA RankBounds ==
    ASSUME NEW n \in Nat \ {0}, NEW p \in {50, 99}
    PROVE  IsRank(Rank(p, n), p, n)
<1>1. CASE p = 50
  <2>1. Rank(p, n) = (50 * (n - 1)) \div 100
      BY <1>1 DEF Rank
  <2>2. /\ Rank(p, n) \in 0..(n - 1) /\ 100 * Rank(p, n) <= 50 * (n - 1)
        /\ 50 * (n - 1) < 100 * Rank(p, n) + 100
      BY <2>1
  <2>3. QED
      BY <1>1, <2>2 DEF IsRank
<1>2. CASE p = 99
  <2>1. Rank(p, n) = (99 * (n - 1)) \div 100
      BY <1>2 DEF Rank
  <2>2. /\ Rank(p, n) \in 0..(n - 1) /\ 100 * Rank(p, n) <= 99 * (n - 1)
        /\ 99 * (n - 1) < 100 * Rank(p, n) + 100
      BY <2>1
  <2>3. QED
      BY <1>2, <2>2 DEF IsRank
<1>3. QED
    BY <1>1, <1>2

\* The inductive invariant: what is reported of a sample are its percentiles.
SampleInv ==
    story.kind = "sample" =>
        /\ \E n \in Nat : story.latencies \in [1..n -> Latencies]
        /\ verdict # <<>> => verdict = [p \in {50, 99} |-> Percentile(story.latencies, p)]

\* The percentiles reported of any sample are its ranks.
THEOREM PercentilesAreRanks == Spec => []PercentileRanks
<1>1. Init => SampleInv
    BY ReportAssumption DEF Init, SampleInv
<1>2. SampleInv /\ [Next]_vars => SampleInv'
    BY DEF SampleInv, Next, vars, Measure, JudgeWorkerKill, JudgeCoordinatorKill, RenderTable
<1>3. SampleInv => PercentileRanks
  <2> SUFFICES ASSUME SampleInv, verdict # <<>>, story.kind = "sample", story.latencies # <<>>,
                      NEW p \in {50, 99}
               PROVE  /\ 100 * Cardinality(Below(story.latencies, verdict[p]))
                           <= p * (Len(story.latencies) - 1)
                      /\ 100 * Cardinality(Above(story.latencies, verdict[p]))
                           < (100 - p) * (Len(story.latencies) - 1) + 100
      BY DEF PercentileRanks, Below, Above
  <2> DEFINE xs == story.latencies
  <2>1. PICK n \in Nat : xs \in [1..n -> Nat]
    <3>1. PICK n \in Nat : xs \in [1..n -> Latencies]
        BY DEF SampleInv
    <3>2. xs \in [1..n -> Nat]
        BY <3>1, ReportAssumption
    <3>3. QED
        BY <3>2
  <2>2. n # 0 /\ Len(xs) = n
      BY <2>1
  <2> HIDE DEF xs
  <2> DEFINE r == Rank(p, n)
             below == Cardinality(Below(xs, verdict[p]))
             above == Cardinality(Above(xs, verdict[p]))
  <2>3. IsRank(r, p, n)
    <3>1. n \in Nat \ {0}
        BY <2>2
    <3>2. QED
        BY <3>1, RankBounds
  <2>4. verdict[p] = xs[Sorted(xs)[r + 1]]
      BY <2>2 DEF SampleInv, Percentile, xs
  <2> HIDE DEF r
  <2>5. r + 1 \in 1..n /\ (r + 1) - 1 = r /\ n - (r + 1) = n - 1 - r
    <3>1. r \in 0..(n - 1)
        BY <2>3, Zenon DEF IsRank
    <3>2. QED
        BY <3>1
  <2>6. below \in 0..r /\ above \in 0..(n - 1 - r)
    <3>1. below \in 0..((r + 1) - 1) /\ above \in 0..(n - (r + 1))
        BY <2>1, <2>4, <2>5, RankCounts, Zenon
    <3> HIDE DEF below, above
    <3>2. QED
        BY <2>5, <3>1
  <2> HIDE DEF below, above
  <2>7. 100 * below <= p * (n - 1) /\ 100 * above < (100 - p) * (n - 1) + 100
      BY <2>3, <2>6, Zenon DEF IsRank
  <2>8. QED
      BY <2>2, <2>7, Zenon DEF below, above, xs
<1>4. QED
    BY <1>1, <1>2, <1>3, PTL DEF Spec
=============================================================================
