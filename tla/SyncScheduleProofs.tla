------------------------- MODULE SyncScheduleProofs -------------------------
(***************************************************************************)
(* The synchronous path and its profiler keep SyncInv, for any nodes, any  *)
(* times, any histogram and any number of calls from other threads; the    *)
(* profile is complete and truthful, and every node is closed once, unless *)
(* the start of the run overtakes a Cancel.                                *)
(***************************************************************************)
EXTENDS ProfileReport, InductionLemmas, FiniteSetTheorems, SequenceTheorems

-----------------------------------------------------------------------------
(* Sums over finite sets.                                                  *)

Pick(s) == CHOOSE x \in s : TRUE

\* F holds the sums of g over the subsets of S: the recursion of MapThenSumSet.
IsSum(F, g, S) ==
    F = [s \in SUBSET S |-> IF s = {} THEN 0 ELSE g[Pick(s)] + F[s \ {Pick(s)}]]

LEMMA PickIn ==
    ASSUME NEW S, IsFiniteSet(S), NEW s \in SUBSET S, s # {}
    PROVE  /\ Pick(s) \in s /\ s \ {Pick(s)} \in SUBSET S
           /\ Cardinality(s) \in Nat \ {0}
           /\ Cardinality(s \ {Pick(s)}) = Cardinality(s) - 1
<1>1. IsFiniteSet(s)
  BY FS_Subset
<1>2. Pick(s) \in s
  BY DEF Pick
<1>3. Cardinality(s) \in Nat /\ Cardinality(s) # 0
  BY <1>1, FS_CardinalityType, FS_EmptySet
<1>. QED  BY <1>1, <1>2, <1>3, FS_RemoveElement

\* Induction over the subsets of a finite set.
LEMMA SubsetInduction ==
    ASSUME NEW S, IsFiniteSet(S), NEW P, {} \in P,
           \A s \in SUBSET S : s # {} /\ s \ {Pick(s)} \in P => s \in P
    PROVE  SUBSET S \subseteq P
<1>. DEFINE Q == {n \in Nat : \A s \in SUBSET S : Cardinality(s) = n => s \in P}
<1>1. \A s \in SUBSET S : Cardinality(s) \in Nat /\ (Cardinality(s) = 0 => s = {})
  BY FS_Subset, FS_CardinalityType, FS_EmptySet
<1>2. 0 \in Q
  BY <1>1
<1>3. ASSUME NEW n \in Nat, n \in Q PROVE n + 1 \in Q
  <2>. SUFFICES ASSUME NEW s \in SUBSET S, Cardinality(s) = n + 1 PROVE s \in P
    OBVIOUS
  <2>1. s # {}
    BY FS_EmptySet
  <2>2. s \ {Pick(s)} \in SUBSET S /\ Cardinality(s \ {Pick(s)}) = n
    BY <2>1, PickIn
  <2>. QED  BY <1>3, <2>1, <2>2
<1>4. Nat \subseteq Q
  <2>. HIDE DEF Q
  <2>. QED  BY <1>2, <1>3, NatSet
<1>. QED  BY <1>1, <1>4

\* The recursion has a solution.
LEMMA SumExists ==
    ASSUME NEW S, IsFiniteSet(S), NEW g
    PROVE  \E F : IsSum(F, g, S)
<1>. DEFINE Upto(n) == {s \in SUBSET S : Cardinality(s) <= n}
            Term(F, s) == IF s = {} THEN 0 ELSE g[Pick(s)] + F[s \ {Pick(s)}]
            P == {n \in Nat : \E F : F = [s \in Upto(n) |-> Term(F, s)]}
<1>1. \A s \in SUBSET S : Cardinality(s) \in Nat /\ (Cardinality(s) = 0 => s = {})
  BY FS_Subset, FS_CardinalityType, FS_EmptySet
<1>2. 0 \in P
  <2>. DEFINE F == [s \in Upto(0) |-> 0]
  <2>1. \A s \in Upto(0) : s = {}
    BY <1>1
  <2>2. F = [s \in Upto(0) |-> Term(F, s)]
    BY <2>1
  <2>. QED  BY <2>2
<1>3. ASSUME NEW n \in Nat, n \in P PROVE n + 1 \in P
  <2>1. PICK F : F = [s \in Upto(n) |-> Term(F, s)]
    BY <1>3
  <2>. DEFINE G == [s \in Upto(n + 1) |-> Term(F, s)]
  <2>2. ASSUME NEW s \in Upto(n) PROVE s \in Upto(n + 1) /\ F[s] = G[s]
    <3>1. s \in Upto(n + 1)
      BY <1>1
    <3>. HIDE DEF Upto, Term
    <3>2. F[s] = Term(F, s)
      BY <2>1
    <3>. QED  BY <3>1, <3>2
  <2>3. ASSUME NEW s \in Upto(n + 1), s # {} PROVE s \ {Pick(s)} \in Upto(n)
    BY <2>3, PickIn
  <2>4. ASSUME NEW s \in Upto(n + 1) PROVE Term(F, s) = Term(G, s)
    <3>. HIDE DEF G
    <3>1. CASE s = {}
      BY <3>1
    <3>2. CASE s # {}
      BY <2>2, <2>3, <3>2
    <3>. QED  BY <3>1, <3>2
  <2>5. G = [s \in Upto(n + 1) |-> Term(G, s)]
    <3>. HIDE DEF Term, Upto
    <3>. QED  BY <2>4
  <2>. HIDE DEF G, Upto, Term
  <2>. QED  BY <2>5
<1>4. Cardinality(S) \in P
  <2>. HIDE DEF P
  <2>1. Nat \subseteq P
    BY <1>2, <1>3, NatSet
  <2>. QED  BY <2>1, FS_CardinalityType
<1>5. Upto(Cardinality(S)) = SUBSET S
  BY FS_Subset
<1>. QED  BY <1>4, <1>5 DEF IsSum

\* h is g, but for d more at b.
Raised(g, h, S, b, d) ==
    \A x \in S : g[x] \in Int /\ h[x] = IF x = b THEN g[x] + d ELSE g[x]

\* A sum of integers is one; a change of one summand changes it as much.
LEMMA SumChange ==
    ASSUME NEW S, IsFiniteSet(S), NEW g, NEW h, NEW F, NEW G, IsSum(F, g, S), IsSum(G, h, S),
           NEW b, NEW d \in Int, Raised(g, h, S, b, d)
    PROVE  /\ F[S] \in Int
           /\ b \in S => G[S] = F[S] + d
           /\ b \notin S => G[S] = F[S]
<1>. DEFINE P == {s \in SUBSET S : F[s] \in Int /\ G[s] = IF b \in s THEN F[s] + d ELSE F[s]}
<1>1. {} \in P
  BY DEF IsSum
<1>2. ASSUME NEW s \in SUBSET S, s # {}, s \ {Pick(s)} \in P PROVE s \in P
  <2>. DEFINE x == Pick(s)
              r == s \ {x}
  <2>1. x \in s /\ x \in S /\ r \in SUBSET S
    BY <1>2, PickIn
  <2>2. F[s] = g[x] + F[r] /\ G[s] = h[x] + G[r]
    BY <1>2 DEF IsSum
  <2>3. F[r] \in Int /\ G[r] = IF b \in r THEN F[r] + d ELSE F[r]
    BY <1>2
  <2>4. g[x] \in Int /\ h[x] = IF x = b THEN g[x] + d ELSE g[x]
    BY <2>1 DEF Raised
  <2>5. b \in r <=> (b \in s /\ b # x)
    OBVIOUS
  <2>. HIDE DEF x, r
  <2>. QED  BY <2>1, <2>2, <2>3, <2>4, <2>5
<1>3. SUBSET S \subseteq P
  <2>. HIDE DEF P
  <2>. QED  BY <1>1, <1>2, SubsetInduction
<1>. QED  BY <1>3

LEMMA SumZero ==
    ASSUME NEW S, IsFiniteSet(S), NEW g, NEW F, IsSum(F, g, S), \A x \in S : g[x] = 0
    PROVE  F[S] = 0
<1>. DEFINE P == {s \in SUBSET S : F[s] = 0}
<1>1. {} \in P
  BY DEF IsSum
<1>2. ASSUME NEW s \in SUBSET S, s # {}, s \ {Pick(s)} \in P PROVE s \in P
  <2>. DEFINE x == Pick(s)
              r == s \ {x}
  <2>1. x \in S /\ r \in SUBSET S
    BY <1>2, PickIn
  <2>2. F[s] = g[x] + F[r]
    BY <1>2 DEF IsSum
  <2>3. F[r] = 0 /\ g[x] = 0
    BY <1>2, <2>1
  <2>. QED  BY <2>2, <2>3
<1>3. SUBSET S \subseteq P
  <2>. HIDE DEF P
  <2>. QED  BY <1>1, <1>2, SubsetInduction
<1>. QED  BY <1>3

-----------------------------------------------------------------------------
(* Histograms.                                                             *)

Weights(h) == [i \in 1..NumIntervals |-> (i - 1) * IntervalSize * h.buckets[i]]

\* AddsUp in terms of sums.
LEMMA AddsUpSums ==
    ASSUME NEW h
    PROVE  \E F, G : /\ IsSum(F, h.buckets, 1..NumIntervals)
                     /\ IsSum(G, Weights(h), 1..NumIntervals)
                     /\ AddsUp(h) <=> /\ F[1..NumIntervals] = h.count
                                      /\ G[1..NumIntervals] <= h.total
<1>. DEFINE S == 1..NumIntervals
<1>1. NumIntervals \in Nat /\ IsFiniteSet(S)
  BY ProfilerAssumption, FS_Interval
<1>2. PICK F : F = CHOOSE E : IsSum(E, h.buckets, S)
  OBVIOUS
<1>3. IsSum(F, h.buckets, S)
  BY <1>1, <1>2, SumExists
<1>4. MapThenSumSet(LAMBDA i : h.buckets[i], S) = F[S]
  BY <1>2 DEF MapThenSumSet, MapThenFoldSet, IsSum, Pick
<1>. DEFINE w(i) == (i - 1) * IntervalSize * h.buckets[i]
            Term(E, s) == IF s = {} THEN 0 ELSE w(Pick(s)) + E[s \ {Pick(s)}]
            Sol(E) == E = [s \in SUBSET S |-> Term(E, s)]
<1>5. \A E : Sol(E) <=> IsSum(E, Weights(h), S)
  <2>. SUFFICES ASSUME NEW E PROVE Sol(E) <=> IsSum(E, Weights(h), S)
    OBVIOUS
  <2>. DEFINE Term2(s) == IF s = {} THEN 0 ELSE Weights(h)[Pick(s)] + E[s \ {Pick(s)}]
  <2>1. ASSUME NEW s \in SUBSET S PROVE Term(E, s) = Term2(s)
    <3>1. CASE s = {}
      BY <3>1
    <3>2. CASE s # {}
      <4>1. Pick(s) \in S
        BY <1>1, <3>2, PickIn
      <4>2. Weights(h)[Pick(s)] = w(Pick(s))
        BY <4>1 DEF Weights
      <4>. QED  BY <3>2, <4>2
    <3>. QED  BY <3>1, <3>2
  <2>2. IsSum(E, Weights(h), S) <=> E = [s \in SUBSET S |-> Term2(s)]
    BY DEF IsSum
  <2>3. [s \in SUBSET S |-> Term(E, s)] = [s \in SUBSET S |-> Term2(s)]
    <3>. HIDE DEF Term, Term2
    <3>. QED  BY <2>1
  <2>. HIDE DEF Term, Term2
  <2>. QED  BY <2>2, <2>3
<1>6. PICK G : G = CHOOSE E : Sol(E)
  OBVIOUS
<1>7. IsSum(G, Weights(h), S)
  <2>1. \E E : Sol(E)
    <3>. HIDE DEF Sol
    <3>. QED  BY <1>1, <1>5, SumExists
  <2>2. Sol(G)
    <3>. HIDE DEF Sol
    <3>. QED  BY <1>6, <2>1
  <2>. HIDE DEF Sol
  <2>. QED  BY <1>5, <2>2
<1>8. MapThenSumSet(LAMBDA i : (i - 1) * IntervalSize * h.buckets[i], S) = G[S]
  BY <1>6 DEF MapThenSumSet, MapThenFoldSet, Pick
<1>. QED  BY <1>3, <1>4, <1>7, <1>8 DEF AddsUp

\* The bucket of a sample is one of the histogram's, and not too high.
LEMMA BucketIn ==
    ASSUME NEW d \in Nat
    PROVE  /\ Bucket(d) \in 1..NumIntervals
           /\ (Bucket(d) - 1) * IntervalSize \in Nat
           /\ (Bucket(d) - 1) * IntervalSize <= d
<1>. DEFINE q == d \div IntervalSize
            b == Clamp(ToInt(q), 0, NumIntervals - 1)
<1>1. /\ IntervalSize \in Nat /\ IntervalSize > 0
      /\ NumIntervals \in Nat /\ NumIntervals > 0 /\ INT_MAX \in Nat
  BY ProfilerAssumption
<1>2. q \in Nat /\ q * IntervalSize <= d
  BY <1>1
<1>3. ToInt(q) \in Int /\ ToInt(q) <= q
  <2>. DEFINE K == 2 * INT_MAX + 2
              y == q + INT_MAX + 1
  <2>1. K \in Nat \ {0} /\ y \in Nat
    BY <1>1, <1>2
  <2>2. y % K \in Int /\ y % K <= y
    <3>. HIDE DEF K, y
    <3>1. CASE y < K
      BY <2>1, <3>1
    <3>2. CASE y >= K
      <4>1. y % K \in 0..(K - 1)
        BY <2>1
      <4>. QED  BY <2>1, <3>2, <4>1
    <3>. QED  BY <2>1, <3>1, <3>2
  <2>. HIDE DEF K, q
  <2>3. ToInt(q) = (y % K) - INT_MAX - 1
    BY DEF ToInt, K
  <2>. QED  BY <1>1, <1>2, <2>2, <2>3
<1>. HIDE DEF q
<1>4. b \in 0..(NumIntervals - 1) /\ b <= q
  BY <1>1, <1>2, <1>3 DEF Clamp
<1>. HIDE DEF b
<1>5. b * IntervalSize \in Nat /\ b * IntervalSize <= q * IntervalSize /\ q * IntervalSize \in Nat
  BY <1>1, <1>2, <1>4
<1>6. Bucket(d) = 1 + b
  BY DEF Bucket, b, q
<1>7. Bucket(d) - 1 = b /\ Bucket(d) \in 1..NumIntervals
  BY <1>1, <1>4, <1>6
<1>. QED  BY <1>2, <1>5, <1>7

LEMMA DurationType ==
    ASSUME NEW start \in Nat, NEW end \in Nat
    PROVE  /\ Duration(start, end) \in Nat
           /\ start <= end => Duration(start, end) = end - start
BY DEF Duration

\* A sample is counted once, in a bucket that is not too high for it.
LEMMA AddSampleOk ==
    ASSUME NEW h \in Histograms, NEW start \in Nat, NEW end \in Nat
    PROVE  /\ AddSample(h, start, end) \in Histograms
           /\ AddSample(h, start, end).count = h.count + 1
           /\ AddSample(h, start, end).total = h.total + Duration(start, end)
           /\ AddsUp(h) => AddsUp(AddSample(h, start, end))
<1>. DEFINE d == Duration(start, end)
            b == Bucket(d)
            k == AddSample(h, start, end)
            S == 1..NumIntervals
            c == (b - 1) * IntervalSize
<1>1. d \in Nat
  BY DurationType
<1>2. b \in S /\ c \in Nat /\ c <= d
  <2>. HIDE DEF d
  <2>. QED  BY <1>1, BucketIn
<1>3. /\ NumIntervals \in Nat /\ IntervalSize \in Nat /\ IsFiniteSet(S)
      /\ h.count \in Nat /\ h.total \in Nat /\ h.buckets \in [S -> Nat]
  <2>1. NumIntervals \in Nat /\ IntervalSize \in Nat
    BY ProfilerAssumption
  <2>2. IsFiniteSet(S)
    BY <2>1, FS_Interval
  <2>. QED  BY <2>1, <2>2 DEF Histograms
<1>4. k.count = h.count + 1 /\ k.total = h.total + d /\ k.buckets = [h.buckets EXCEPT ![b] = @ + 1]
  BY DEF AddSample
<1>. HIDE DEF d, b
<1>5. k.buckets \in [S -> Nat] /\ \A i \in S : k.buckets[i] = IF i = b THEN h.buckets[i] + 1 ELSE h.buckets[i]
  <2>. HIDE DEF k
  <2>. QED  BY <1>2, <1>3, <1>4
<1>6. k \in Histograms
  <2>1. k = [count |-> h.count + 1, total |-> h.total + d, buckets |-> k.buckets]
    BY <1>4 DEF AddSample
  <2>. HIDE DEF k
  <2>2. h.count + 1 \in Nat /\ h.total + d \in Nat
    BY <1>1, <1>3
  <2>. QED  BY <1>5, <2>1, <2>2 DEF Histograms
<1>. HIDE DEF k
<1>7. ASSUME AddsUp(h) PROVE AddsUp(k)
  <2>1. PICK F, G : /\ IsSum(F, h.buckets, S) /\ IsSum(G, Weights(h), S)
                    /\ AddsUp(h) <=> F[S] = h.count /\ G[S] <= h.total
    BY AddsUpSums
  <2>2. PICK F2, G2 : /\ IsSum(F2, k.buckets, S) /\ IsSum(G2, Weights(k), S)
                      /\ AddsUp(k) <=> F2[S] = k.count /\ G2[S] <= k.total
    BY AddsUpSums
  <2>. HIDE DEF S, c
  <2>3. F[S] \in Int /\ F2[S] = F[S] + 1
    <3>. DEFINE g == h.buckets
                g2 == k.buckets
    <3>1. Raised(g, g2, S, b, 1) /\ IsSum(F, g, S) /\ IsSum(F2, g2, S)
      BY <1>3, <1>5, <2>1, <2>2 DEF Raised
    <3>. HIDE DEF g, g2
    <3>. QED  BY <1>2, <1>3, <3>1, SumChange
  <2>4. \A i \in S : Weights(h)[i] \in Int
    BY <1>3 DEF Weights, S
  <2>5. \A i \in S : Weights(k)[i] = IF i = b THEN Weights(h)[i] + c ELSE Weights(h)[i]
    <3>. SUFFICES ASSUME NEW i \in S
                  PROVE  Weights(k)[i] = IF i = b THEN Weights(h)[i] + c ELSE Weights(h)[i]
      OBVIOUS
    <3>1. /\ Weights(k)[i] = (i - 1) * IntervalSize * k.buckets[i]
          /\ Weights(h)[i] = (i - 1) * IntervalSize * h.buckets[i]
      BY DEF Weights, S
    <3>2. CASE i # b
      BY <1>5, <3>1, <3>2
    <3>3. CASE i = b
      <4>1. k.buckets[i] = h.buckets[i] + 1 /\ h.buckets[i] \in Nat /\ (i - 1) * IntervalSize = c
        BY <1>3, <1>5, <3>3 DEF c
      <4>2. c * (h.buckets[i] + 1) = c * h.buckets[i] + c
        BY <1>2, <4>1
      <4>. QED  BY <3>1, <3>3, <4>1, <4>2
    <3>. QED  BY <3>2, <3>3
  <2>6. G[S] \in Int /\ G2[S] = G[S] + c
    <3>. DEFINE g == Weights(h)
                g2 == Weights(k)
    <3>1. Raised(g, g2, S, b, c) /\ IsSum(G, g, S) /\ IsSum(G2, g2, S)
      BY <2>1, <2>2, <2>4, <2>5 DEF Raised
    <3>. HIDE DEF g, g2
    <3>. QED  BY <1>2, <1>3, <3>1, SumChange
  <2>. QED  BY <1>1, <1>2, <1>3, <1>4, <1>7, <2>1, <2>2, <2>3, <2>6
<1>. QED  BY <1>4, <1>6, <1>7 DEF d, k

\* A new histogram is empty.
LEMMA NewNodeDataOk ==
    /\ NewNodeData \in PerNodeData /\ AddsUp(NewNodeData.hist)
    /\ NewNodeData.open = 0 /\ NewNodeData.close = 0
    /\ NewNodeData.hist.count = 0 /\ NewNodeData.hist.total = 0
<1>. DEFINE h == NewNodeData.hist
            S == 1..NumIntervals
<1>1. /\ NumIntervals \in Nat /\ IsFiniteSet(S) /\ IntervalSize \in Nat
      /\ h = Initialize /\ NewNodeData.open = 0 /\ NewNodeData.close = 0
  BY ProfilerAssumption, FS_Interval DEF NewNodeData
<1>2. h.count = 0 /\ h.total = 0 /\ h.buckets = [i \in S |-> 0] /\ h \in Histograms
  BY <1>1 DEF Initialize, Histograms
<1>. HIDE DEF h
<1>3. AddsUp(h)
  <2>1. PICK F, G : /\ IsSum(F, h.buckets, S) /\ IsSum(G, Weights(h), S)
                    /\ AddsUp(h) <=> F[S] = h.count /\ G[S] <= h.total
    BY AddsUpSums
  <2>2. \A i \in S : h.buckets[i] = 0 /\ Weights(h)[i] = 0
    BY <1>1, <1>2 DEF Weights
  <2>. HIDE DEF S, Weights
  <2>. QED  BY <1>1, <1>2, <2>1, <2>2, SumZero
<1>. QED  BY <1>1, <1>2, <1>3 DEF NewNodeData, PerNodeData, h

\* The data E after a sample of type t and duration d of node n, which were D.
Sampled(D, E, t, n, d) ==
    /\ E \in [Nodes -> PerNodeData]
    /\ \A m \in Nodes : m # n => E[m] = D[m]
    /\ E[n].open = IF t = "OPEN" THEN d ELSE D[n].open
    /\ E[n].close = IF t = "CLOSE" THEN d ELSE D[n].close
    /\ E[n].hist.count = IF t = "PROCESS" THEN D[n].hist.count + 1 ELSE D[n].hist.count
    /\ E[n].hist.total = IF t = "PROCESS" THEN D[n].hist.total + d ELSE D[n].hist.total
    /\ AddsUp(D[n].hist) => AddsUp(E[n].hist)

\* SetOpenRuntime, AddProcessSample or SetCloseRuntime changes what it should.
LEMMA RecordOk ==
    ASSUME NEW D \in [Nodes -> PerNodeData], NEW t \in EventType, NEW n \in Nodes,
           NEW from \in Nat, NEW to \in Nat
    PROVE  Sampled(D, Record(D, t, n, from, to), t, n, Duration(from, to))
<1>. DEFINE E == Record(D, t, n, from, to)
            d == Duration(from, to)
            k == AddSample(D[n].hist, from, to)
<1>1. d \in Nat /\ D[n] \in PerNodeData /\ D[n].hist \in Histograms
  BY DurationType DEF PerNodeData
<1>2. /\ k \in Histograms /\ k.count = D[n].hist.count + 1 /\ k.total = D[n].hist.total + d
      /\ AddsUp(D[n].hist) => AddsUp(k)
  BY <1>1, AddSampleOk
<1>3. CASE t = "OPEN"
  <2>1. E = [D EXCEPT ![n].open = d]
    BY <1>3 DEF Record
  <2>. HIDE DEF E, d, Sampled
  <2>2. E[n] = [D[n] EXCEPT !.open = d] /\ \A m \in Nodes : m # n => E[m] = D[m]
    BY <2>1
  <2>3. E[n] \in PerNodeData /\ E[n].open = d /\ E[n].close = D[n].close /\ E[n].hist = D[n].hist
    BY <1>1, <2>2 DEF PerNodeData
  <2>4. E \in [Nodes -> PerNodeData]
    BY <1>1, <2>1, <2>3 DEF PerNodeData
  <2>. QED  BY <1>3, <2>2, <2>3, <2>4 DEF E, d, Sampled
<1>4. CASE t = "CLOSE"
  <2>1. E = [D EXCEPT ![n].close = d]
    BY <1>4 DEF Record
  <2>. HIDE DEF E, d, Sampled
  <2>2. E[n] = [D[n] EXCEPT !.close = d] /\ \A m \in Nodes : m # n => E[m] = D[m]
    BY <2>1
  <2>3. E[n] \in PerNodeData /\ E[n].close = d /\ E[n].open = D[n].open /\ E[n].hist = D[n].hist
    BY <1>1, <2>2 DEF PerNodeData
  <2>4. E \in [Nodes -> PerNodeData]
    BY <1>1, <2>1, <2>3 DEF PerNodeData
  <2>. QED  BY <1>4, <2>2, <2>3, <2>4 DEF E, d, Sampled
<1>5. CASE t = "PROCESS"
  <2>1. E = [D EXCEPT ![n].hist = k]
    BY <1>5 DEF Record
  <2>. HIDE DEF E, d, k
  <2>2. E[n] = [D[n] EXCEPT !.hist = k] /\ \A m \in Nodes : m # n => E[m] = D[m]
    BY <2>1
  <2>3. E[n] \in PerNodeData /\ E[n].open = D[n].open /\ E[n].close = D[n].close /\ E[n].hist = k
    BY <1>1, <1>2, <2>2 DEF PerNodeData
  <2>4. E \in [Nodes -> PerNodeData]
    BY <1>1, <1>2, <2>1, <2>3 DEF PerNodeData
  <2>. QED  BY <1>2, <1>5, <2>2, <2>3, <2>4 DEF E, d, Sampled
<1>. QED  BY <1>3, <1>4, <1>5 DEF EventType

-----------------------------------------------------------------------------
(* The loops of Schedule.                                                  *)

LEMMA NodesFacts ==
    /\ Len(AllNodes) \in Nat
    /\ \A i \in 1..Len(AllNodes) : AllNodes[i] \in Nodes
    /\ \A n \in Nodes : \E i \in 1..Len(AllNodes) : AllNodes[i] = n
    /\ \A i, j \in 1..Len(AllNodes) : AllNodes[i] = AllNodes[j] => i = j
BY SyncScheduleAssumption DEF Nodes

\* What the profile says does not change unless a sample is recorded or skipped,
\* the profiler is paused or reset or a file is written.
LEMMA ProfileUntouched ==
    ASSUME SyncInv, UNCHANGED <<data, calls, spent, paused, stale, files>>,
           idleIndex' = 0 => idleIndex = 0
    PROVE  ProfileIsComplete' /\ ProfileIsTruthful'
BY DEF SyncInv, ProfileIsComplete, ProfileIsTruthful, Recorded

\* What the invariant says of the thread that cancels.
CancelInv == CancellerKnown /\ IdleScopeKnown /\ ClosesOnlyOvertaken

\* A run that overtook a Cancel processes no node.
ProcessesNone ==
    /\ pc \notin {"NotStarted", "InSource", "Consumers", "InConsumer"}
    /\ Leaving => after \notin {"Pass", "Consumers"}

\* The other threads leave it alone: time goes on, an error stays, and the
\* state is not set back.
LEMMA CancelUntouched ==
    ASSUME SyncInv, UNCHANGED <<canceller, idleIndex, idleScope, overtaken>>,
           clock' \in Nat, clock <= clock', hasError => hasError', state' \in {state, "Terminated"},
           overtaken => ProcessesNone'
    PROVE  CancelInv'
<1>1. CancellerKnown'
  BY DEF SyncInv, CancellerKnown
<1>2. IdleScopeKnown'
  <2>1. idleScope \in Scopes => idleScope.entered \in Nat
    BY DEF Scopes
  <2>. QED  BY <2>1 DEF SyncInv, IdleScopeKnown, HistoryTypeOK
<1>3. ClosesOnlyOvertaken'
  BY DEF SyncInv, ClosesOnlyOvertaken, ProcessesNone, Leaving
<1>. QED  BY <1>1, <1>2, <1>3 DEF CancelInv

\* Schedule's place matters only as far as it says that it processes a node.
LEMMA PlaceUntouched ==
    ASSUME SyncInv, UNCHANGED <<pc, after, canceller, idleIndex, idleScope, overtaken>>,
           clock' = clock, hasError => hasError', state' \in {state, "Terminated"}
    PROVE  CancelInv'
<1>1. overtaken => ProcessesNone'
  BY DEF SyncInv, ClosesOnlyOvertaken, ProcessesNone, Leaving
<1>2. clock \in Nat
  BY DEF SyncInv, HistoryTypeOK
<1>. QED  BY <1>1, <1>2, CancelUntouched

\* A step of a loop that neither enters nor leaves a scope.
LEMMA LoopStep ==
    ASSUME SyncInv, StartProfiler \/ StartPass \/ SkipSource \/ EndOfConsumers \/ EndOfPass \/ Finish \/ Terminate
    PROVE  SyncInv'
<1>1. /\ UNCHANGED <<scopes, data, clock, closes, calls, spent, paused, stale, files, buffered, queued>>
      /\ UNCHANGED <<active, hasError, canceller, idleIndex, idleScope, overtaken>>
      /\ state' \in {state, "Terminated"}
  BY DEF StartProfiler, StartPass, SkipSource, EndOfConsumers, EndOfPass, Finish, Terminate, loopVars, streamVars,
         controlVars, profilerVars, historyVars, appVars, cancelVars
<1>2. ProfileIsComplete' /\ ProfileIsTruthful'
  BY <1>1, ProfileUntouched
<1>3. SyncTypeOK'
  BY <1>1, NodesFacts
     DEF SyncInv, SyncTypeOK, PlacesKnown, StartProfiler, StartPass, SkipSource, EndOfConsumers, EndOfPass, Finish,
         Terminate, Goto, Leave, loopVars
<1>4. HistoryTypeOK'
  BY <1>1 DEF SyncInv, HistoryTypeOK, StartProfiler, StartPass, SkipSource, EndOfConsumers, EndOfPass, Finish,
              Terminate, profilerVars
<1>5. PlacesKnown'
  BY NodesFacts
     DEF SyncInv, SyncTypeOK, PlacesKnown, Leaving, Current, AfterClosing, StartProfiler, StartPass, SkipSource,
         EndOfConsumers, EndOfPass, Finish, Terminate, Goto, Leave, loopVars
<1>6. ScopesNest' /\ ScopesTimed'
  BY <1>1 DEF SyncInv, ScopesNest, ScopesTimed, Leaving, InOpening, InClosing, Current, StartProfiler, StartPass,
              SkipSource, EndOfConsumers, EndOfPass, Finish, Terminate, Goto, Leave, loopVars
<1>7. ProfilingOn'
  BY <1>1 DEF SyncInv, ProfilingOn, ScopesNest, Leaving, AfterClosing, HistoryTypeOK, StartProfiler, StartPass,
              SkipSource, EndOfConsumers, EndOfPass, Finish, Terminate, Goto, Leave, profilerVars
<1>8. RecordedOnce'
  BY <1>1, NodesFacts
     DEF SyncInv, SyncTypeOK, PlacesKnown, RecordedOnce, Leaving, InOpening, InClosing, AfterClosing, Current,
         StartProfiler, StartPass, SkipSource, EndOfConsumers, EndOfPass, Finish, Terminate, Goto, Leave, loopVars
<1>9. ClosesCounted'
  BY <1>1, NodesFacts
     DEF SyncInv, SyncTypeOK, PlacesKnown, ClosesCounted, Leaving, InClosing, AfterClosing,
         StartProfiler, StartPass, SkipSource, EndOfConsumers, EndOfPass, Finish, Terminate, Goto, Leave, loopVars
<1>10. CancelInv'
  <2>1. overtaken => ProcessesNone'
    BY DEF SyncInv, ClosesOnlyOvertaken, ProcessesNone, Leaving, StartProfiler, StartPass, SkipSource,
           EndOfConsumers, EndOfPass, Finish, Terminate, Goto, Leave
  <2>2. clock \in Nat
    BY DEF SyncInv, HistoryTypeOK
  <2>. QED  BY <1>1, <2>1, <2>2, CancelUntouched
<1>. QED  BY <1>2, <1>3, <1>4, <1>5, <1>6, <1>7, <1>8, <1>9, <1>10 DEF SyncInv, CancelInv

\* The run begins, whatever a Cancel before it has done to the state.
LEMMA ScheduleStep ==
    ASSUME SyncInv, Schedule
    PROVE  SyncInv'
<1>1. /\ UNCHANGED <<scopes, profiling, data, clock, closes, calls, spent, paused, stale, files, queued>>
      /\ UNCHANGED <<after, index, todo, source, active, hasError, canceller, idleIndex, idleScope>>
      /\ pc = "NotStarted" /\ pc' = "Starting" /\ state' = "Running"
      /\ overtaken' = (canceller \in {"HandleIdle", "Queues", "State"})
  BY DEF Schedule, Goto, loopVars, streamVars, profilerVars, appVars, cancelVars
<1>2. ProfileIsComplete' /\ ProfileIsTruthful'
  BY <1>1, ProfileUntouched
<1>3. SyncTypeOK' /\ HistoryTypeOK'
  BY <1>1 DEF SyncInv, SyncTypeOK, HistoryTypeOK
<1>4. PlacesKnown' /\ ScopesNest' /\ ScopesTimed' /\ ProfilingOn'
  BY <1>1 DEF SyncInv, PlacesKnown, ScopesNest, ScopesTimed, ProfilingOn, Leaving, InOpening, InClosing,
              AfterClosing, Current
<1>5. RecordedOnce' /\ ClosesCounted'
  BY <1>1 DEF SyncInv, RecordedOnce, ClosesCounted, Leaving, InOpening, InClosing, AfterClosing, Current
<1>6. CancelInv'
  BY <1>1 DEF SyncInv, CancelInv, CancellerKnown, IdleScopeKnown, ClosesOnlyOvertaken, Leaving
<1>. QED  BY <1>2, <1>3, <1>4, <1>5, <1>6 DEF SyncInv, CancelInv

\* A node is called: its scope is entered.
LEMMA EnterStep ==
    ASSUME SyncInv, OpenNode \/ ProcessSource \/ ProcessConsumer \/ CloseNode
    PROVE  SyncInv'
<1>1. /\ UNCHANGED <<profiling, data, clock, closes, calls, spent, paused, stale, files, state, queued>>
      /\ UNCHANGED <<after, index, todo, active, hasError, canceller, idleIndex, idleScope, overtaken>>
  BY DEF OpenNode, ProcessSource, ProcessConsumer, CloseNode, Enter, Goto, loopVars, streamVars, controlVars,
         historyVars, appVars, cancelVars
<1>2. PICK t \in EventType, n \in Nodes, place \in {"InOpen", "InSource", "InConsumer", "InClose"} :
         /\ Enter(t, n, place)
         /\ t = CASE place = "InOpen" -> "OPEN" [] place = "InClose" -> "CLOSE" [] OTHER -> "PROCESS"
         /\ pc = CASE place = "InOpen" -> "Opening" [] place = "InClose" -> "Closing"
                   [] place = "InSource" -> "Pass" [] place = "InConsumer" -> "Consumers"
         /\ place # "InSource" => index <= Len(AllNodes) /\ n = AllNodes[index] /\ source' = source
         /\ place = "InSource" => source' \in todo
  <2>1. index \in 1..Len(AllNodes) + 1 /\ todo \subseteq Nodes
    BY SyncScheduleAssumption DEF SyncInv, SyncTypeOK
  <2>2. CASE OpenNode
    BY <2>1, <2>2, NodesFacts DEF OpenNode, loopVars, EventType
  <2>3. CASE ProcessSource
    BY <2>1, <2>3 DEF ProcessSource, EventType
  <2>4. CASE ProcessConsumer
    BY <2>1, <2>4, NodesFacts DEF ProcessConsumer, loopVars, EventType
  <2>5. CASE CloseNode
    BY <2>1, <2>5, NodesFacts DEF CloseNode, loopVars, EventType
  <2>. QED  BY <2>2, <2>3, <2>4, <2>5
<1>. DEFINE s == NewScope(t, n)
<1>3. pc' = place /\ scopes' = Append(scopes, s)
  BY <1>2 DEF Enter, Goto
<1>4. /\ s \in Scopes /\ s.type = t /\ s.node = n /\ s.entered = clock
      /\ s.timed = profiling /\ (s.timed => s.start = clock)
  BY DEF SyncInv, HistoryTypeOK, Scopes, NewScope
<1>. HIDE DEF s
<1>5. /\ scopes \in Seq(Scopes) /\ scopes' \in Seq(Scopes) /\ Len(scopes) \in Nat
      /\ Len(scopes') = Len(scopes) + 1
      /\ scopes'[Len(scopes')] = s
      /\ \A i \in 1..Len(scopes') : i # Len(scopes') => i \in 1..Len(scopes) /\ scopes'[i] = scopes[i]
  BY <1>3, <1>4 DEF SyncInv, HistoryTypeOK
<1>6. ProfileIsComplete' /\ ProfileIsTruthful'
  BY <1>1, ProfileUntouched
<1>7. Len(scopes) = IF place = "InConsumer" THEN 1 ELSE 0
  BY <1>2 DEF SyncInv, ScopesNest, Leaving
<1>8. SyncTypeOK'
  BY <1>1, <1>2, <1>3, <1>5, <1>7 DEF SyncInv, SyncTypeOK
<1>9. HistoryTypeOK'
  BY <1>1, <1>5 DEF SyncInv, HistoryTypeOK
<1>10. PlacesKnown'
  BY <1>1, <1>2, <1>3 DEF SyncInv, PlacesKnown, Leaving, AfterClosing
<1>11. ScopesNest'
  <2>1. Len(scopes') = IF place = "InConsumer" THEN 2 ELSE 1
    BY <1>5, <1>7
  <2>2. ASSUME NEW i \in 1..Len(scopes')
        PROVE  /\ scopes'[i].type = IF InOpening' THEN "OPEN" ELSE IF InClosing' THEN "CLOSE" ELSE "PROCESS"
               /\ (InOpening \/ InClosing)' => scopes'[i].node = AllNodes[Current']
    <3>1. /\ InOpening' <=> place = "InOpen"
          /\ InClosing' <=> place = "InClose"
          /\ Current' = index
      BY <1>1, <1>2, <1>3 DEF InOpening, InClosing, Current, Leaving
    <3>2. CASE i = Len(scopes')
      BY <1>2, <1>4, <1>5, <3>1, <3>2
    <3>3. CASE i # Len(scopes')
      BY <1>2, <1>5, <1>7, <3>1, <3>3 DEF SyncInv, ScopesNest, InOpening, InClosing, Leaving
    <3>. QED  BY <3>2, <3>3
  <2>. QED  BY <1>3, <2>1, <2>2 DEF ScopesNest, Leaving
<1>12. ScopesTimed'
  <2>. SUFFICES ASSUME NEW i \in 1..Len(scopes')
                PROVE  /\ scopes'[i].entered <= clock
                       /\ scopes'[i].timed => scopes'[i].start = scopes'[i].entered
    BY <1>1, <1>2, <1>3 DEF ScopesTimed
  <2>1. CASE i = Len(scopes')
    BY <1>4, <1>5, <2>1 DEF SyncInv, HistoryTypeOK
  <2>2. CASE i # Len(scopes')
    BY <1>5, <2>2 DEF SyncInv, ScopesTimed
  <2>. QED  BY <2>1, <2>2
<1>13. ProfilingOn'
  <2>. SUFFICES ASSUME ~ paused, idleIndex = 0
                PROVE  profiling /\ \A i \in 1..Len(scopes') : scopes'[i].timed
    BY <1>1, <1>2, <1>3 DEF ProfilingOn
  <2>1. profiling /\ \A i \in 1..Len(scopes) : scopes[i].timed
    BY <1>2 DEF SyncInv, ProfilingOn, AfterClosing
  <2>2. ASSUME NEW i \in 1..Len(scopes') PROVE scopes'[i].timed
    <3>1. CASE i = Len(scopes')
      BY <1>4, <1>5, <2>1, <3>1
    <3>2. CASE i # Len(scopes')
      BY <1>5, <2>1, <3>2
    <3>. QED  BY <3>1, <3>2
  <2>. QED  BY <2>1, <2>2
<1>14. RecordedOnce' /\ ClosesCounted'
  BY <1>1, <1>2, <1>3
     DEF SyncInv, RecordedOnce, ClosesCounted, InOpening, InClosing, AfterClosing, Current, Leaving
<1>15. CancelInv'
  <2>1. overtaken => ProcessesNone'
    <3>1. ProcessSource \/ ProcessConsumer => ~ hasError
      BY DEF ProcessSource, ProcessConsumer
    <3>2. OpenNode \/ CloseNode => pc' \in {"InOpen", "InClose"}
      BY DEF OpenNode, CloseNode, Enter, Goto
    <3>. QED  BY <3>1, <3>2 DEF SyncInv, ClosesOnlyOvertaken, ProcessesNone, Leaving
  <2>2. clock \in Nat
    BY DEF SyncInv, HistoryTypeOK
  <2>. QED  BY <1>1, <2>1, <2>2, CancelUntouched
<1>. QED  BY <1>6, <1>8, <1>9, <1>10, <1>11, <1>12, <1>13, <1>14, <1>15 DEF SyncInv, CancelInv

\* A call of a node takes some time.
LEMMA TimePasses ==
    ASSUME SyncInv, NEW t \in EventType, NEW n \in Nodes, Returns(t, n)
    PROVE  clock \in Nat /\ clock' \in Nat /\ clock <= clock'
<1>1. PICK d \in Elapsed[t][n] : clock' = clock + d
  BY DEF Returns
<1>2. d \in Nat
  BY SyncScheduleAssumption
<1>. QED  BY <1>1, <1>2 DEF SyncInv, HistoryTypeOK

\* A call of a node returns.
LEMMA ReturnStep ==
    ASSUME SyncInv, OpenReturns \/ SourceReturns \/ ConsumerReturns \/ CloseReturns
    PROVE  SyncInv'
<1>1. /\ UNCHANGED <<scopes, profiling, data, calls, spent, paused, stale, files, source, stopping>>
      /\ UNCHANGED <<canceller, idleIndex, idleScope, overtaken>>
  BY DEF OpenReturns, SourceReturns, ConsumerReturns, CloseReturns, Returns, controlVars, historyVars, appVars,
         cancelVars
<1>2. clock \in Nat /\ clock' \in Nat /\ clock <= clock'
  <2>1. PICK t \in EventType, n \in Nodes : Returns(t, n)
    <3>1. pc = "InSource" => source \in Nodes
      BY SyncScheduleAssumption DEF SyncInv, SyncTypeOK
    <3>2. pc \in {"InOpen", "InConsumer", "InClose"} => AllNodes[index] \in Nodes
      BY NodesFacts DEF SyncInv, SyncTypeOK, PlacesKnown
    <3>. QED  BY <3>1, <3>2 DEF OpenReturns, SourceReturns, ConsumerReturns, CloseReturns, EventType
  <2>. QED  BY <2>1, TimePasses
<1>3. ProfileIsComplete' /\ ProfileIsTruthful'
  BY <1>1, ProfileUntouched
<1>4. queued' \subseteq Nodes \ Sources
  <2>1. CASE SourceReturns
    <3>1. source \in Sources
      BY <2>1 DEF SourceReturns, SyncInv, SyncTypeOK
    <3>2. Consumers[source] \subseteq Nodes \ Sources
      BY <3>1, SyncScheduleAssumption
    <3>. QED  BY <2>1, <3>2 DEF SyncInv, SyncTypeOK, SourceReturns, PostProcess, streamVars
  <2>2. CASE ~ SourceReturns
    BY <2>2 DEF SyncInv, SyncTypeOK, OpenReturns, ConsumerReturns, CloseReturns, streamVars
  <2>. QED  BY <2>1, <2>2
<1>5. index \in 1..Len(AllNodes) + 1 /\ index' \in 1..Len(AllNodes) + 1
  BY NodesFacts DEF SyncInv, SyncTypeOK, PlacesKnown, OpenReturns, SourceReturns, ConsumerReturns, CloseReturns
<1>6. SyncTypeOK'
  <2>1. todo' \subseteq active' /\ active' \subseteq Sources
    BY DEF SyncInv, SyncTypeOK, OpenReturns, SourceReturns, ConsumerReturns, CloseReturns
  <2>2. pc' \in {"InSource", "Consumers", "InConsumer"} => source \in todo'
    BY DEF SyncInv, SyncTypeOK, OpenReturns, SourceReturns, ConsumerReturns, CloseReturns, Leave, Goto
  <2>3. state' \in {"NotStarted", "Running", "Cancelling", "Terminated"}
    BY DEF SyncInv, SyncTypeOK, OpenReturns, SourceReturns, ConsumerReturns, CloseReturns, controlVars
  <2>. QED  BY <1>1, <1>4, <1>5, <2>1, <2>2, <2>3 DEF SyncInv, SyncTypeOK
<1>7. closes' \in [Nodes -> Nat] /\ (~ CloseReturns => closes' = closes)
  BY SMTT(40), NodesFacts DEF SyncInv, HistoryTypeOK, OpenReturns, SourceReturns, ConsumerReturns, CloseReturns, historyVars
<1>8. HistoryTypeOK'
  BY <1>1, <1>2, <1>7 DEF SyncInv, HistoryTypeOK
<1>9. PlacesKnown'
  <2>1. CASE OpenReturns
    <3>1. /\ index \in 1..Len(AllNodes) /\ pc' = "Leave"
          /\ \/ after' = "Opening" /\ index' = index + 1
             \/ after' = "OpenFailed" /\ index' = index
      BY <1>5, <2>1 DEF SyncInv, PlacesKnown, OpenReturns, Leave
    <3>. QED  BY <3>1, NodesFacts DEF PlacesKnown, Leaving, Current, AfterClosing
  <2>2. CASE SourceReturns
    BY <1>5, <2>2, NodesFacts DEF SyncInv, PlacesKnown, Leaving, Current, AfterClosing, SourceReturns, Leave, Goto
  <2>3. CASE ConsumerReturns
    BY <1>5, <2>3, NodesFacts DEF SyncInv, SyncTypeOK, PlacesKnown, Leaving, Current, AfterClosing, ConsumerReturns, Leave
  <2>4. CASE CloseReturns
    BY <1>5, <2>4, NodesFacts DEF SyncInv, PlacesKnown, Leaving, Current, AfterClosing, CloseReturns, Leave
  <2>. QED  BY <2>1, <2>2, <2>3, <2>4
<1>10. /\ InOpening' <=> InOpening
       /\ InClosing' <=> InClosing
       /\ InOpening \/ InClosing => Current' = Current
       /\ ~ AfterClosing /\ ~ AfterClosing'
  <2>0. index \in Int
    BY <1>5, NodesFacts
  <2>1. CASE OpenReturns
    <3>1. /\ pc = "InOpen" /\ pc' = "Leave"
          /\ \/ after' = "Opening" /\ index' = index + 1
             \/ after' = "OpenFailed" /\ index' = index
      BY <2>1 DEF OpenReturns, Leave
    <3>2. Current = index /\ Current' = index
      BY <2>0, <3>1 DEF Leaving, Current
    <3>3. InOpening /\ InOpening'
      BY <3>1 DEF Leaving, InOpening
    <3>4. ~ InClosing /\ ~ InClosing'
      BY <3>1 DEF Leaving, InClosing
    <3>. QED  BY <3>1, <3>2, <3>3, <3>4 DEF AfterClosing
  <2>2. CASE SourceReturns
    <3>1. pc = "InSource" /\ (pc' = "Consumers" \/ (pc' = "Leave" /\ after' = "Pass"))
      BY <2>2 DEF SourceReturns, Leave, Goto
    <3>. QED  BY <3>1 DEF Leaving, InOpening, InClosing, AfterClosing
  <2>3. CASE ConsumerReturns
    <3>1. pc = "InConsumer" /\ pc' = "Leave" /\ after' = "Consumers"
      BY <2>3 DEF ConsumerReturns, Leave
    <3>. QED  BY <3>1 DEF Leaving, InOpening, InClosing, AfterClosing
  <2>4. CASE CloseReturns
    <3>1. pc = "InClose" /\ pc' = "Leave" /\ after' = "Closing" /\ index' = index + 1
      BY <2>4 DEF CloseReturns, Leave
    <3>2. Current = index /\ Current' = index
      BY <2>0, <3>1 DEF Leaving, Current
    <3>. QED  BY <3>1, <3>2 DEF Leaving, InOpening, InClosing, AfterClosing
  <2>. QED  BY <2>1, <2>2, <2>3, <2>4
<1>11. ScopesNest'
  <2>1. Len(scopes) =
          IF pc' \in {"InOpen", "InSource", "Consumers", "InClose"} THEN 1
          ELSE IF pc' = "InConsumer" THEN 2
          ELSE IF Leaving' THEN IF after' = "Consumers" THEN 2 ELSE 1
          ELSE 0
    BY DEF SyncInv, ScopesNest, Leaving, OpenReturns, SourceReturns, ConsumerReturns, CloseReturns, Leave, Goto
  <2>. QED  BY <1>1, <1>10, <2>1 DEF SyncInv, ScopesNest
<1>12. ScopesTimed'
  <2>1. pc' \notin {"Record", "Skip"}
    BY DEF OpenReturns, SourceReturns, ConsumerReturns, CloseReturns, Leave, Goto
  <2>2. ASSUME NEW i \in 1..Len(scopes) PROVE scopes[i].entered \in Nat
    <3>1. scopes[i] \in Scopes
      BY DEF SyncInv, HistoryTypeOK
    <3>. QED  BY <3>1 DEF Scopes
  <2>. QED  BY <1>1, <1>2, <2>1, <2>2 DEF SyncInv, ScopesTimed
<1>13. ProfilingOn'
  <2>1. pc \notin {"NotStarted", "Starting"} /\ pc' \notin {"NotStarted", "Starting", "Skip"}
    BY DEF OpenReturns, SourceReturns, ConsumerReturns, CloseReturns, Leave, Goto
  <2>. QED  BY <1>1, <1>10, <2>1 DEF SyncInv, ProfilingOn
<1>14. RecordedOnce'
  BY <1>1, <1>10 DEF SyncInv, RecordedOnce
<1>15. ClosesCounted'
  <2>1. CASE ~ CloseReturns
    <3>1. ~ InClosing
      BY <2>1 DEF InClosing, Leaving, OpenReturns, SourceReturns, ConsumerReturns
    <3>. QED  BY <1>1, <1>7, <1>10, <2>1, <3>1 DEF SyncInv, ClosesCounted
  <2>2. CASE CloseReturns
    <3>1. /\ InClosing /\ index \in 1..Len(AllNodes) /\ index' = index + 1
          /\ closes' = [closes EXCEPT ![AllNodes[index]] = @ + 1]
      BY <1>5, <2>2 DEF CloseReturns, InClosing, SyncInv, PlacesKnown
    <3>2. ASSUME NEW i \in 1..Len(AllNodes)
          PROVE  closes'[AllNodes[i]] = (IF i < index + 1 THEN 1 ELSE 0) + (IF i < idleIndex THEN 1 ELSE 0)
      <4>1. closes[AllNodes[i]] = (IF i < index THEN 1 ELSE 0) + (IF i < idleIndex THEN 1 ELSE 0)
        BY <3>1 DEF SyncInv, ClosesCounted
      <4>2. AllNodes[i] \in Nodes /\ (AllNodes[i] = AllNodes[index] => i = index)
        BY <3>1, NodesFacts
      <4>. QED  BY <3>1, <4>1, <4>2 DEF SyncInv, HistoryTypeOK
    <3>. QED  BY <1>1, <1>10, <3>1, <3>2 DEF ClosesCounted
  <2>. QED  BY <2>1, <2>2
<1>16. CancelInv'
  <2>1. overtaken => ProcessesNone'
    BY DEF SyncInv, ClosesOnlyOvertaken, ProcessesNone, Leaving, OpenReturns, SourceReturns, ConsumerReturns,
           CloseReturns, Leave
  <2>2. (hasError => hasError') /\ state' \in {state, "Terminated"}
    BY DEF OpenReturns, SourceReturns, ConsumerReturns, CloseReturns, controlVars
  <2>. QED  BY <1>1, <1>2, <2>1, <2>2, CancelUntouched
<1>. QED  BY <1>3, <1>6, <1>8, <1>9, <1>11, <1>12, <1>13, <1>14, <1>15, <1>16 DEF SyncInv, CancelInv

\* The innermost scope.
Top == scopes[Len(scopes)]

LEMMA TopFacts ==
    ASSUME SyncInv, Leaving
    PROVE  /\ Len(scopes) \in Nat /\ Len(scopes) > 0
           /\ Top \in Scopes
           /\ Top.type \in EventType /\ Top.node \in Nodes /\ Top.entered \in Nat /\ Top.start \in Nat
           /\ Top.end \in Nat /\ Top.timed \in BOOLEAN
           /\ Top.entered <= clock
           /\ pc # "Leave" => Top.entered <= Top.end
           /\ Top.timed => Top.start = Top.entered
<1>1. Len(scopes) \in Nat /\ Len(scopes) > 0
  BY DEF SyncInv, ScopesNest, Leaving
<1>2. Top \in Scopes
  BY <1>1 DEF Top, SyncInv, HistoryTypeOK
<1>3. /\ Top.entered <= clock /\ (Top.timed => Top.start = Top.entered)
      /\ pc # "Leave" => Top.entered <= Top.end
  BY <1>1 DEF Top, SyncInv, ScopesTimed, Leaving
<1>. QED  BY <1>1, <1>2, <1>3 DEF Scopes

\* The clock is read for the scope that is about to be left.
LEMMA LeaveScopeStep ==
    ASSUME SyncInv, LeaveScope
    PROVE  SyncInv'
<1>. DEFINE N == Len(scopes)
            s == [Top EXCEPT !.end = clock]
<1>1. Leaving /\ pc = "Leave" /\ pc' = (IF profiling THEN "Record" ELSE "Skip") /\ Leaving'
  BY DEF LeaveScope, Leaving
<1>2. /\ UNCHANGED <<profiling, data, clock, closes, calls, spent, paused, stale, files, state, queued>>
      /\ UNCHANGED <<after, index, todo, active, source, hasError, canceller, idleIndex, idleScope, overtaken>>
  BY DEF LeaveScope, loopVars, streamVars, controlVars, historyVars, appVars, cancelVars
<1>3. /\ s \in Scopes /\ s.type = Top.type /\ s.node = Top.node /\ s.entered = Top.entered
      /\ s.start = Top.start /\ s.timed = Top.timed /\ s.end = clock
  BY <1>1, TopFacts DEF Scopes, SyncInv, HistoryTypeOK
<1>4. /\ N \in Nat /\ N > 0
      /\ scopes' = [scopes EXCEPT ![N] = s]
  BY <1>1, TopFacts DEF LeaveScope, Top
<1>. HIDE DEF s
<1>5. /\ scopes \in Seq(Scopes) /\ scopes' \in Seq(Scopes) /\ Len(scopes') = N
      /\ scopes'[N] = s
      /\ \A i \in 1..N : i # N => scopes'[i] = scopes[i]
  BY <1>3, <1>4 DEF SyncInv, HistoryTypeOK
<1>6. ASSUME NEW i \in 1..N
      PROVE  /\ scopes'[i].type = scopes[i].type /\ scopes'[i].node = scopes[i].node
             /\ scopes'[i].entered = scopes[i].entered /\ scopes'[i].timed = scopes[i].timed
             /\ scopes'[i].start = scopes[i].start
  BY <1>3, <1>5 DEF Top
<1>7. ProfileIsComplete' /\ ProfileIsTruthful'
  BY <1>2, ProfileUntouched
<1>8. SyncTypeOK'
  BY <1>1, <1>2, <1>5 DEF SyncInv, SyncTypeOK
<1>9. HistoryTypeOK'
  BY <1>2, <1>5 DEF SyncInv, HistoryTypeOK
<1>10. PlacesKnown'
  BY <1>1, <1>2 DEF SyncInv, PlacesKnown, Leaving, Current, AfterClosing
<1>11. /\ (InOpening' <=> InOpening) /\ (InClosing' <=> InClosing) /\ Current' = Current
       /\ ~ AfterClosing /\ ~ AfterClosing'
  BY <1>1, <1>2 DEF Leaving, InOpening, InClosing, AfterClosing, Current
<1>12. ScopesNest'
  <2>1. N = IF after = "Consumers" THEN 2 ELSE 1
    BY <1>1 DEF SyncInv, ScopesNest, Leaving
  <2>2. \A i \in 1..N :
          /\ scopes'[i].type = IF InOpening THEN "OPEN" ELSE IF InClosing THEN "CLOSE" ELSE "PROCESS"
          /\ InOpening \/ InClosing => scopes'[i].node = AllNodes[Current]
    BY <1>6 DEF SyncInv, ScopesNest
  <2>. QED  BY <1>1, <1>2, <1>5, <1>11, <2>1, <2>2 DEF ScopesNest
<1>13. ScopesTimed'
  <2>1. \A i \in 1..N : i = N => scopes'[i].entered <= scopes'[i].end
    BY <1>1, <1>3, <1>5, TopFacts
  <2>. QED  BY <1>2, <1>5, <1>6, <2>1 DEF SyncInv, ScopesTimed
<1>14. ProfilingOn'
  BY <1>1, <1>2, <1>5, <1>6, <1>11 DEF SyncInv, ProfilingOn, Leaving
<1>15. RecordedOnce' /\ ClosesCounted'
  BY <1>1, <1>2, <1>11 DEF SyncInv, RecordedOnce, ClosesCounted
<1>16. CancelInv'
  <2>1. overtaken => ProcessesNone'
    BY <1>1, <1>2 DEF SyncInv, ClosesOnlyOvertaken, ProcessesNone, Leaving
  <2>2. clock \in Nat
    BY DEF SyncInv, HistoryTypeOK
  <2>. QED  BY <1>2, <2>1, <2>2, CancelUntouched
<1>. QED  BY <1>7, <1>8, <1>9, <1>10, <1>12, <1>13, <1>14, <1>15, <1>16 DEF SyncInv, CancelInv

\* What leaving the innermost scope does to the profile and its history.
LEMMA SampleFacts ==
    ASSUME SyncInv, SkipSample \/ RecordSample
    PROVE  LET s == Top
               d == Duration(s.start, s.end)
               r == pc = "Record"
           IN  /\ Leaving /\ pc # "Leave"
               /\ scopes' = Front(scopes) /\ pc' = after /\ after' = after
               /\ UNCHANGED <<index, todo, source, active, queued, state, profiling, clock, closes, paused, files>>
               /\ UNCHANGED <<hasError, canceller, idleIndex, idleScope, overtaken>>
               /\ data' \in [Nodes -> PerNodeData]
               /\ \A m \in Nodes : m # s.node => data'[m] = data[m]
               /\ data'[s.node].open = IF r /\ s.type = "OPEN" THEN d ELSE data[s.node].open
               /\ data'[s.node].close = IF r /\ s.type = "CLOSE" THEN d ELSE data[s.node].close
               /\ data'[s.node].hist.count =
                     IF r /\ s.type = "PROCESS" THEN data[s.node].hist.count + 1 ELSE data[s.node].hist.count
               /\ data'[s.node].hist.total =
                     IF r /\ s.type = "PROCESS" THEN data[s.node].hist.total + d ELSE data[s.node].hist.total
               /\ AddsUp(data[s.node].hist) => AddsUp(data'[s.node].hist)
               /\ calls' = IF s.type = "PROCESS" THEN [calls EXCEPT ![s.node] = @ + 1] ELSE calls
               /\ spent' = [spent EXCEPT ![s.type][s.node] = @ + s.end - s.entered]
               /\ stale' = IF r /\ ~ s.timed THEN stale \cup {<<s.type, s.node>>} ELSE stale
<1>. DEFINE s == Top
            d == Duration(s.start, s.end)
<1>1. Leaving /\ pc # "Leave"
  BY DEF SkipSample, RecordSample, Leaving
<1>2. /\ data \in [Nodes -> PerNodeData] /\ s.type \in EventType /\ s.node \in Nodes
      /\ s.start \in Nat /\ s.end \in Nat
  BY <1>1, TopFacts DEF SyncInv, SyncTypeOK
<1>3. CASE SkipSample
  BY <1>1, <1>2, <1>3 DEF SkipSample, Left, Ended, Top, loopVars, streamVars, controlVars, appVars, cancelVars
<1>4. CASE RecordSample
  <2>1. pc = "Record" /\ data' = Record(data, s.type, s.node, s.start, s.end)
    BY <1>4 DEF RecordSample, Top
  <2>2. /\ data' \in [Nodes -> PerNodeData]
        /\ \A m \in Nodes : m # s.node => data'[m] = data[m]
        /\ data'[s.node].open = IF s.type = "OPEN" THEN d ELSE data[s.node].open
        /\ data'[s.node].close = IF s.type = "CLOSE" THEN d ELSE data[s.node].close
        /\ data'[s.node].hist.count =
              IF s.type = "PROCESS" THEN data[s.node].hist.count + 1 ELSE data[s.node].hist.count
        /\ data'[s.node].hist.total =
              IF s.type = "PROCESS" THEN data[s.node].hist.total + d ELSE data[s.node].hist.total
        /\ AddsUp(data[s.node].hist) => AddsUp(data'[s.node].hist)
    <3>. HIDE DEF s
    <3>1. Sampled(data, data', s.type, s.node, Duration(s.start, s.end))
      BY <1>2, <2>1, RecordOk
    <3>. QED  BY <3>1 DEF Sampled
  <2>3. /\ Left(TRUE)
        /\ UNCHANGED <<loopVars, streamVars, controlVars, profiling, clock, appVars>>
    BY <1>4 DEF RecordSample
  <2>4. /\ scopes' = Front(scopes) /\ pc' = after /\ after' = after
        /\ UNCHANGED <<index, todo, source, active, queued, state, profiling, clock, closes, paused, files>>
        /\ UNCHANGED <<hasError, canceller, idleIndex, idleScope, overtaken>>
    BY <2>3 DEF Left, Ended, loopVars, streamVars, controlVars, appVars, cancelVars
  <2>5. /\ calls' = IF s.type = "PROCESS" THEN [calls EXCEPT ![s.node] = @ + 1] ELSE calls
        /\ spent' = [spent EXCEPT ![s.type][s.node] = @ + s.end - s.entered]
        /\ stale' = IF ~ s.timed THEN stale \cup {<<s.type, s.node>>} ELSE stale
    BY <2>3 DEF Left, Ended, Top
  <2>. HIDE DEF s, d
  <2>. QED  BY <1>1, <2>1, <2>2, <2>4, <2>5 DEF s, d
<1>. QED  BY <1>3, <1>4

\* The innermost scope is left.
LEMMA SampleStep ==
    ASSUME SyncInv, SkipSample \/ RecordSample
    PROVE  SyncInv'
<1>. DEFINE N == Len(scopes)
            s == Top
            d == Duration(s.start, s.end)
            e == s.end - s.entered
            r == pc = "Record"
<1>1. /\ Leaving /\ pc \in {"Record", "Skip"} /\ pc' = after /\ after' = after
      /\ scopes' = Front(scopes)
      /\ UNCHANGED <<index, todo, source, active, queued, state, profiling, clock, closes, paused, files>>
      /\ UNCHANGED <<hasError, canceller, idleIndex, idleScope, overtaken>>
  BY SampleFacts DEF Leaving
<1>0. PICK t \in EventType, n \in Nodes : t = s.type /\ n = s.node
  BY <1>1, TopFacts
<1>2. /\ N \in Nat /\ N > 0 /\ t \in EventType /\ n \in Nodes /\ d \in Nat /\ e \in Nat
      /\ s.timed \in BOOLEAN /\ (s.timed => d = e)
  <2>1. /\ N \in Nat /\ N > 0 /\ s.start \in Nat /\ s.end \in Nat
        /\ s.entered \in Nat /\ s.entered <= s.end /\ s.timed \in BOOLEAN /\ (s.timed => s.start = s.entered)
    BY <1>1, TopFacts
  <2>. HIDE DEF s
  <2>. QED  BY <2>1, DurationType
<1>3. /\ scopes \in Seq(Scopes) /\ scopes' \in Seq(Scopes) /\ Len(scopes') = N - 1
      /\ \A i \in 1..N - 1 : scopes'[i] = scopes[i]
  <2>1. scopes \in Seq(Scopes)
    BY DEF SyncInv, HistoryTypeOK
  <2>2. scopes' = SubSeq(scopes, 1, N - 1)
    BY <1>1 DEF Front
  <2>3. \A i \in 1..N - 1 : scopes[i] \in Scopes
    BY <1>2, <2>1
  <2>4. 1 \in Int /\ N - 1 \in Int
    BY <1>2
  <2>5. /\ SubSeq(scopes, 1, N - 1) \in Seq(Scopes)
        /\ Len(SubSeq(scopes, 1, N - 1)) = IF 1 <= N - 1 THEN N - 1 - 1 + 1 ELSE 0
        /\ \A i \in 1..(N - 1 - 1 + 1) : SubSeq(scopes, 1, N - 1)[i] = scopes[1 + i - 1]
    BY <2>3, <2>4, SubSeqProperties
  <2>6. N - 1 - 1 + 1 = N - 1 /\ \A i \in 1..N - 1 : 1 + i - 1 = i
    BY <1>2
  <2>. QED  BY <1>2, <2>1, <2>2, <2>5, <2>6
<1>4. /\ data \in [Nodes -> PerNodeData] /\ data' \in [Nodes -> PerNodeData]
      /\ \A m \in Nodes : m # n => data'[m] = data[m]
      /\ data'[n].open = IF r /\ t = "OPEN" THEN d ELSE data[n].open
      /\ data'[n].close = IF r /\ t = "CLOSE" THEN d ELSE data[n].close
      /\ data'[n].hist.count = IF r /\ t = "PROCESS" THEN data[n].hist.count + 1 ELSE data[n].hist.count
      /\ data'[n].hist.total = IF r /\ t = "PROCESS" THEN data[n].hist.total + d ELSE data[n].hist.total
      /\ AddsUp(data[n].hist) => AddsUp(data'[n].hist)
  BY <1>0, SampleFacts DEF SyncInv, SyncTypeOK
<1>5. /\ calls \in [Nodes -> Nat] /\ spent \in [EventType -> [Nodes -> Nat]]
      /\ calls' \in [Nodes -> Nat] /\ spent' \in [EventType -> [Nodes -> Nat]]
      /\ \A m \in Nodes : calls'[m] = IF m = n /\ t = "PROCESS" THEN calls[m] + 1 ELSE calls[m]
      /\ \A u \in EventType, m \in Nodes :
            spent'[u][m] = IF u = t /\ m = n THEN spent[u][m] + e ELSE spent[u][m]
      /\ stale' = IF r /\ ~ s.timed THEN stale \cup {<<t, n>>} ELSE stale
  <2>1. /\ calls' = IF t = "PROCESS" THEN [calls EXCEPT ![n] = @ + 1] ELSE calls
        /\ spent' = [spent EXCEPT ![t][n] = spent[t][n] + s.end - s.entered]
        /\ stale' = IF r /\ ~ s.timed THEN stale \cup {<<t, n>>} ELSE stale
    BY <1>0, SampleFacts
  <2>2. calls \in [Nodes -> Nat] /\ spent \in [EventType -> [Nodes -> Nat]]
    BY DEF SyncInv, HistoryTypeOK
  <2>5. spent[t][n] + s.end - s.entered = spent[t][n] + e
    <3>1. s.end \in Nat /\ s.entered \in Nat /\ spent[t][n] \in Nat
      BY <1>1, <1>2, <2>2, TopFacts
    <3>. HIDE DEF s
    <3>. QED  BY <3>1
  <2>. HIDE DEF e, s
  <2>3. /\ calls' \in [Nodes -> Nat]
        /\ \A m \in Nodes : calls'[m] = IF m = n /\ t = "PROCESS" THEN calls[m] + 1 ELSE calls[m]
    BY <1>2, <2>1, <2>2
  <2>4. /\ spent' \in [EventType -> [Nodes -> Nat]]
        /\ \A u \in EventType, m \in Nodes :
            spent'[u][m] = IF u = t /\ m = n THEN spent[u][m] + e ELSE spent[u][m]
    BY <1>2, <2>1, <2>2, <2>5
  <2>. QED  BY <2>1, <2>2, <2>3, <2>4
<1>6. /\ t = IF InOpening THEN "OPEN" ELSE IF InClosing THEN "CLOSE" ELSE "PROCESS"
      /\ InOpening \/ InClosing => n = AllNodes[Current] /\ Current \in 1..Len(AllNodes)
      /\ InOpening <=> after \in {"Opening", "OpenFailed"}
      /\ InClosing <=> after = "Closing"
  BY <1>0, <1>1, <1>2 DEF Top, SyncInv, ScopesNest, PlacesKnown, InOpening, InClosing, Leaving
<1>7. /\ InOpening' <=> after = "Opening"
      /\ InClosing' <=> after = "Closing"
      /\ Current' = index /\ ~ AfterClosing /\ ~ AfterClosing' /\ ~ Leaving'
      /\ pc' \notin {"NotStarted", "Starting", "Skip"}
  BY <1>1 DEF SyncInv, PlacesKnown, InOpening, InClosing, Leaving, AfterClosing, Current
<1>. HIDE DEF s, d, e
<1>8. SyncTypeOK'
  BY <1>1, <1>3, <1>4 DEF SyncInv, SyncTypeOK, PlacesKnown
<1>9. HistoryTypeOK'
  BY <1>1, <1>3, <1>5 DEF SyncInv, HistoryTypeOK
<1>10. PlacesKnown'
  BY <1>1, <1>7 DEF SyncInv, PlacesKnown
<1>11. ScopesNest'
  <2>1. N = IF after = "Consumers" THEN 2 ELSE 1
    BY <1>1 DEF SyncInv, ScopesNest, Leaving
  <2>2. pc' \in {"Opening", "OpenFailed", "Pass", "Consumers", "Closing"}
    BY <1>1 DEF SyncInv, PlacesKnown
  <2>3. ASSUME NEW i \in 1..Len(scopes') PROVE scopes'[i].type = "PROCESS" /\ after = "Consumers"
    <3>1. N = 2 /\ i = 1 /\ scopes'[i] = scopes[i] /\ after = "Consumers"
      BY <1>3, <2>1
    <3>2. 1 \in 1..Len(scopes)
      BY <1>2
    <3>3. scopes[1].type = IF InOpening THEN "OPEN" ELSE IF InClosing THEN "CLOSE" ELSE "PROCESS"
      BY <3>2 DEF SyncInv, ScopesNest
    <3>. QED  BY ZenonT(40), <1>6, <3>1, <3>2, <3>3
  <2>. QED  BY <1>1, <1>3, <1>7, <2>1, <2>2, <2>3 DEF ScopesNest
<1>12. ScopesTimed'
  BY <1>1, <1>3, <1>7 DEF SyncInv, ScopesTimed, Leaving
<1>13. ProfilingOn'
  BY <1>1, <1>2, <1>3, <1>7 DEF SyncInv, ProfilingOn, Leaving
<1>14. RecordedOnce'
  <2>. SUFFICES ASSUME idleIndex = 0 PROVE RecordedOnce'
    BY <1>1 DEF RecordedOnce
  <2>1. ASSUME after = "Opening", NEW i \in 1..Len(AllNodes), i >= index PROVE data'[AllNodes[i]].open = 0
    <3>1. Current = index - 1 /\ index \in Int
      BY <1>1, <2>1 DEF Current, SyncInv, SyncTypeOK
    <3>2. AllNodes[i] \in Nodes /\ AllNodes[i] # n
      BY <1>6, <2>1, <3>1, NodesFacts
    <3>3. data[AllNodes[i]].open = 0
      BY <1>6, <2>1, <3>1 DEF SyncInv, RecordedOnce
    <3>. QED  BY <1>4, <3>2, <3>3
  <2>2. ASSUME after # "Closing", NEW m \in Nodes PROVE data'[m].close = 0
    <3>1. data[m].close = 0
      BY <1>6, <1>7, <2>2 DEF SyncInv, RecordedOnce
    <3>2. t # "CLOSE"
      BY <1>6, <2>2
    <3>. QED  BY <1>4, <3>1, <3>2
  <2>3. ASSUME after = "Closing", NEW i \in 1..Len(AllNodes), i >= index PROVE data'[AllNodes[i]].close = 0
    <3>1. Current = index - 1 /\ index \in Int
      BY <1>1, <2>3 DEF Current, SyncInv, SyncTypeOK
    <3>2. AllNodes[i] \in Nodes /\ AllNodes[i] # n
      BY <1>6, <2>3, <3>1, NodesFacts
    <3>3. data[AllNodes[i]].close = 0
      BY <1>6, <2>3, <3>1 DEF SyncInv, RecordedOnce
    <3>. QED  BY <1>4, <3>2, <3>3
  <2>. QED  BY <1>7, <2>1, <2>2, <2>3 DEF RecordedOnce
<1>15. ClosesCounted'
  BY <1>1, <1>6, <1>7 DEF SyncInv, ClosesCounted, Leaving
\* The times of n, before and after; the others do not change.
<1>16. /\ r => Recorded(t, n)' = d + (IF t = "PROCESS" THEN Recorded(t, n) ELSE 0)
       /\ ~ r => Recorded(t, n)' = Recorded(t, n)
       /\ idleIndex = 0 /\ t # "PROCESS" => Recorded(t, n) = 0
       /\ Recorded(t, n) \in Nat
       /\ \A u \in EventType, m \in Nodes : u # t \/ m # n => Recorded(u, m)' = Recorded(u, m)
  <2>1. /\ data[n].open \in Nat /\ data[n].close \in Nat /\ data[n].hist.total \in Nat
    BY <1>2, <1>4 DEF PerNodeData, Histograms
  <2>2. idleIndex = 0 /\ t = "OPEN" => data[n].open = 0
    BY <1>6 DEF SyncInv, SyncTypeOK, RecordedOnce
  <2>3. idleIndex = 0 /\ t = "CLOSE" => data[n].close = 0
    BY <1>6 DEF SyncInv, SyncTypeOK, RecordedOnce
  <2>4. \A u \in EventType, m \in Nodes : m # n => Recorded(u, m)' = Recorded(u, m)
    BY <1>4 DEF Recorded
  <2>5. \A u \in EventType : u # t => Recorded(u, n)' = Recorded(u, n)
    BY <1>2, <1>4 DEF Recorded, EventType
  <2>6. /\ Recorded("OPEN", n) = data[n].open /\ Recorded("OPEN", n)' = data'[n].open
        /\ Recorded("CLOSE", n) = data[n].close /\ Recorded("CLOSE", n)' = data'[n].close
        /\ Recorded("PROCESS", n) = data[n].hist.total /\ Recorded("PROCESS", n)' = data'[n].hist.total
    BY DEF Recorded
  <2>7. CASE t = "OPEN"
    BY <1>2, <1>4, <2>1, <2>2, <2>4, <2>5, <2>6, <2>7
  <2>8. CASE t = "CLOSE"
    BY <1>2, <1>4, <2>1, <2>3, <2>4, <2>5, <2>6, <2>8
  <2>9. CASE t = "PROCESS"
    BY <1>2, <1>4, <2>1, <2>4, <2>5, <2>6, <2>9
  <2>. QED  BY <1>2, <2>7, <2>8, <2>9 DEF EventType
<1>17. \A m \in Nodes : data[m].hist.count \in Nat
  BY <1>4 DEF PerNodeData, Histograms
<1>18. ProfileIsComplete'
  <2>. SUFFICES ASSUME ~ paused, idleIndex = 0
                PROVE  \A m \in Nodes : /\ data'[m].hist.count = calls'[m]
                                        /\ \A u \in EventType : Recorded(u, m)' = spent'[u][m]
    BY <1>1 DEF ProfileIsComplete
  <2>1. r /\ s.timed
    BY <1>1, <1>2 DEF SyncInv, ProfilingOn, s, Top
  <2>2. /\ \A m \in Nodes : data[m].hist.count = calls[m]
        /\ \A u \in EventType, m \in Nodes : Recorded(u, m) = spent[u][m]
    BY DEF SyncInv, ProfileIsComplete
  <2>3. ASSUME NEW m \in Nodes PROVE data'[m].hist.count = calls'[m]
    BY <1>2, <1>4, <1>5, <2>1, <2>2
  <2>4. ASSUME NEW m \in Nodes, NEW u \in EventType PROVE Recorded(u, m)' = spent'[u][m]
    <3>1. CASE u = t /\ m = n
      BY <1>2, <1>5, <1>16, <2>1, <2>2, <3>1
    <3>2. CASE u # t \/ m # n
      BY <1>5, <1>16, <2>2, <3>2
    <3>. QED  BY <3>1, <3>2
  <2>. QED  BY <2>3, <2>4
<1>19. ProfileIsTruthful'
  <2>1. /\ \A m \in Nodes : data[m].hist.count <= calls[m] /\ AddsUp(data[m].hist)
        /\ \A u \in EventType, m \in Nodes : <<u, m>> \notin stale => Recorded(u, m) <= spent[u][m]
        /\ \A i \in 1..Len(files) : \A m \in Nodes : AddsUp(files[i].data[m].hist)
    BY DEF SyncInv, ProfileIsTruthful
  <2>2. ASSUME NEW m \in Nodes PROVE data'[m].hist.count <= calls'[m] /\ AddsUp(data'[m].hist)
    <3>1. data[m].hist.count <= calls[m] /\ AddsUp(data[m].hist) /\ data[m].hist.count \in Nat /\ calls[m] \in Nat
      BY <1>5, <1>17, <2>1
    <3>2. CASE m # n
      BY <1>4, <1>5, <3>1, <3>2
    <3>3. CASE m = n
      <4>1. data'[m].hist.count \in {data[m].hist.count, data[m].hist.count + 1}
            /\ (t # "PROCESS" => data'[m].hist.count = data[m].hist.count)
        BY <1>4, <3>3
      <4>2. calls'[m] = IF t = "PROCESS" THEN calls[m] + 1 ELSE calls[m]
        BY <1>5, <3>3
      <4>3. AddsUp(data'[m].hist)
        BY <1>4, <3>1, <3>3
      <4>. QED  BY <3>1, <4>1, <4>2, <4>3
    <3>. QED  BY <3>2, <3>3
  <2>3. ASSUME NEW m \in Nodes, NEW u \in EventType, <<u, m>> \notin stale'
        PROVE  Recorded(u, m)' <= spent'[u][m]
    <3>1. <<u, m>> \notin stale /\ Recorded(u, m) <= spent[u][m]
      BY <1>5, <2>1, <2>3
    <3>2. CASE u = t /\ m = n
      <4>1. spent[t][n] \in Nat
        BY <1>2, <1>5
      <4>2. r => s.timed
        BY <1>2, <1>5, <2>3, <3>2
      <4>3. spent'[t][n] = spent[t][n] + e
        BY <1>2, <1>5
      <4>. HIDE DEF r
      <4>. QED  BY <1>2, <1>16, <3>1, <3>2, <4>1, <4>2, <4>3
    <3>3. CASE u # t \/ m # n
      BY <1>5, <1>16, <3>1, <3>3
    <3>. QED  BY <3>2, <3>3
  <2>. QED  BY <1>1, <2>1, <2>2, <2>3 DEF ProfileIsTruthful
<1>20. CancelInv'
  <2>1. overtaken => ProcessesNone'
    BY <1>1, <1>7 DEF SyncInv, PlacesKnown, ClosesOnlyOvertaken, ProcessesNone, Leaving
  <2>2. clock \in Nat
    BY DEF SyncInv, HistoryTypeOK
  <2>. QED  BY <1>1, <2>1, <2>2, CancelUntouched
<1>. QED  BY <1>8, <1>9, <1>10, <1>11, <1>12, <1>13, <1>14, <1>15, <1>18, <1>19, <1>20 DEF SyncInv, CancelInv

-----------------------------------------------------------------------------
(* The application's other threads.                                        *)

\* Schedule is where it was, and its scopes are what they were.
LEMMA ScheduleUntouched ==
    ASSUME SyncInv, UNCHANGED <<pc, after, index, todo, source, scopes>>, clock' \in Nat, clock <= clock'
    PROVE  PlacesKnown' /\ ScopesNest' /\ ScopesTimed'
<1>1. PlacesKnown' /\ ScopesNest'
  BY DEF SyncInv, PlacesKnown, ScopesNest, Leaving, InOpening, InClosing, AfterClosing, Current
<1>2. \A i \in 1..Len(scopes) : scopes[i].entered \in Nat
  <2>. SUFFICES ASSUME NEW i \in 1..Len(scopes) PROVE scopes[i].entered \in Nat
    OBVIOUS
  <2>1. scopes[i] \in Scopes
    BY DEF SyncInv, HistoryTypeOK
  <2>. QED  BY <2>1 DEF Scopes
<1>3. ScopesTimed'
  BY <1>2 DEF SyncInv, ScopesTimed, HistoryTypeOK
<1>. QED  BY <1>1, <1>3

\* Shutdown changes none of what a profile says.
LEMMA StopStep ==
    ASSUME SyncInv, Shutdown
    PROVE  SyncInv'
<1>1. /\ UNCHANGED <<pc, after, index, todo, source, active, hasError, scopes, profiling, data, clock, closes, calls>>
      /\ UNCHANGED <<spent, paused, stale, overtaken, files, canceller, idleIndex, idleScope>>
      /\ state' = "Terminated" /\ queued' = {}
  BY DEF Shutdown, schedulerVars, loopVars, profilerVars, historyVars, cancelVars
<1>2. ProfileIsComplete' /\ ProfileIsTruthful'
  BY <1>1, ProfileUntouched
<1>3. SyncTypeOK' /\ HistoryTypeOK'
  BY <1>1 DEF SyncInv, SyncTypeOK, HistoryTypeOK
<1>4. PlacesKnown' /\ ScopesNest' /\ ScopesTimed' /\ ProfilingOn'
  BY <1>1 DEF SyncInv, PlacesKnown, ScopesNest, ScopesTimed, ProfilingOn, Leaving, InOpening, InClosing,
              AfterClosing, Current
<1>5. RecordedOnce' /\ ClosesCounted'
  BY <1>1 DEF SyncInv, RecordedOnce, ClosesCounted, Leaving, InOpening, InClosing, AfterClosing, Current
<1>6. CancelInv'
  BY <1>1, PlaceUntouched
<1>. QED  BY <1>2, <1>3, <1>4, <1>5, <1>6 DEF SyncInv, CancelInv

\* The profiler is switched off and on.
LEMMA SwitchStep ==
    ASSUME SyncInv, ProfilerPause \/ ProfilerResume
    PROVE  SyncInv'
<1>1. /\ UNCHANGED <<pc, after, index, todo, source, active, state, queued, scopes, data, clock, closes, calls>>
      /\ UNCHANGED <<spent, stale, files, hasError, overtaken, canceller, idleIndex, idleScope>>
  BY DEF ProfilerPause, ProfilerResume, schedulerVars, loopVars, streamVars, controlVars, historyVars, cancelVars
<1>2. (profiling' = FALSE /\ paused' = TRUE) \/ (profiling' = TRUE /\ paused' = paused)
  BY DEF ProfilerPause, ProfilerResume, historyVars
<1>3. ProfileIsComplete' /\ ProfileIsTruthful' /\ ProfilingOn'
  BY ZenonT(60), <1>1, <1>2 DEF SyncInv, ProfileIsComplete, ProfileIsTruthful, ProfilingOn, Recorded
<1>4. SyncTypeOK'
  BY <1>1 DEF SyncInv, SyncTypeOK
<1>5. HistoryTypeOK'
  BY <1>1, <1>2 DEF SyncInv, HistoryTypeOK
<1>6. PlacesKnown' /\ ScopesNest' /\ ScopesTimed'
  BY <1>1 DEF SyncInv, PlacesKnown, ScopesNest, ScopesTimed, Leaving, InOpening, InClosing, AfterClosing, Current
<1>7. RecordedOnce' /\ ClosesCounted'
  BY <1>1 DEF SyncInv, RecordedOnce, ClosesCounted, Leaving, InOpening, InClosing, AfterClosing, Current
<1>8. CancelInv'
  BY <1>1, PlaceUntouched
<1>. QED  BY <1>3, <1>4, <1>5, <1>6, <1>7, <1>8 DEF SyncInv, CancelInv

\* Nothing is recorded yet.
Fresh ==
    /\ data = [n \in Nodes |-> NewNodeData] /\ calls = [n \in Nodes |-> 0]
    /\ spent = [t \in EventType |-> [n \in Nodes |-> 0]]
    /\ \A i \in 1..Len(files) : \A n \in Nodes : AddsUp(files[i].data[n].hist)

FreshTypeOK ==
    /\ data \in [Nodes -> PerNodeData]
    /\ \A n \in Nodes : data[n].open = 0 /\ data[n].close = 0
    /\ calls \in [Nodes -> Nat] /\ spent \in [EventType -> [Nodes -> Nat]]

LEMMA NothingRecorded ==
    Fresh => ProfileIsComplete /\ ProfileIsTruthful /\ FreshTypeOK
<1>. SUFFICES ASSUME Fresh PROVE ProfileIsComplete /\ ProfileIsTruthful /\ FreshTypeOK
  OBVIOUS
<1>1. ASSUME NEW n \in Nodes
      PROVE  /\ data[n] \in PerNodeData /\ AddsUp(data[n].hist) /\ data[n].open = 0 /\ data[n].close = 0
             /\ data[n].hist.count = 0 /\ data[n].hist.total = 0 /\ calls[n] = 0
             /\ \A t \in EventType : spent[t][n] = 0
  BY NewNodeDataOk DEF Fresh
<1>2. ASSUME NEW n \in Nodes, NEW t \in EventType PROVE Recorded(t, n) = 0
  BY <1>1 DEF Recorded, EventType
<1>3. data \in [Nodes -> PerNodeData]
  BY NewNodeDataOk DEF Fresh
<1>4. calls \in [Nodes -> Nat] /\ spent \in [EventType -> [Nodes -> Nat]]
  BY DEF Fresh
<1>5. ProfileIsComplete
  BY <1>1, <1>2 DEF ProfileIsComplete
<1>6. ProfileIsTruthful
  BY <1>1, <1>2 DEF ProfileIsTruthful, Fresh
<1>. QED  BY <1>1, <1>3, <1>4, <1>5, <1>6 DEF FreshTypeOK

LEMMA ResetStep ==
    ASSUME SyncInv, ProfilerReset
    PROVE  SyncInv'
<1>1. /\ UNCHANGED <<pc, after, index, todo, source, active, state, queued, scopes, profiling, clock, closes>>
      /\ UNCHANGED <<paused, files, hasError, overtaken, canceller, idleIndex, idleScope>>
  BY DEF ProfilerReset, schedulerVars, loopVars, streamVars, controlVars, cancelVars
<1>2. Fresh'
  BY <1>1 DEF Fresh, ProfilerReset, Reset, SyncInv, SyncTypeOK, ProfileIsTruthful
<1>3. ProfileIsComplete' /\ ProfileIsTruthful' /\ FreshTypeOK'
  BY <1>2, NothingRecorded, PTL
<1>4. SyncTypeOK'
  BY <1>1, <1>3 DEF SyncInv, SyncTypeOK, FreshTypeOK
<1>5. HistoryTypeOK'
  BY <1>1, <1>3 DEF SyncInv, HistoryTypeOK, FreshTypeOK
<1>6. PlacesKnown' /\ ScopesNest' /\ ScopesTimed' /\ ProfilingOn'
  BY <1>1 DEF SyncInv, PlacesKnown, ScopesNest, ScopesTimed, ProfilingOn, Leaving, InOpening, InClosing,
              AfterClosing, Current
<1>7. RecordedOnce'
  BY <1>3, NodesFacts DEF RecordedOnce, FreshTypeOK
<1>8. ClosesCounted'
  BY <1>1 DEF SyncInv, ClosesCounted, Leaving, InClosing, AfterClosing
<1>9. CancelInv'
  BY <1>1, PlaceUntouched
<1>. QED  BY <1>3, <1>4, <1>5, <1>6, <1>7, <1>8, <1>9 DEF SyncInv, CancelInv

LEMMA WriteStep ==
    ASSUME SyncInv, WriteProfile
    PROVE  SyncInv'
<1>1. /\ UNCHANGED <<pc, after, index, todo, source, active, state, queued, scopes, profiling, clock, closes>>
      /\ UNCHANGED <<paused, data, calls, spent, stale, hasError, overtaken, canceller, idleIndex, idleScope>>
  BY DEF WriteProfile, schedulerVars, loopVars, streamVars, controlVars, profilerVars, historyVars, cancelVars
<1>. DEFINE f == [data |-> data, content |-> Json(AllNodes, data)]
            F == {files[i] : i \in 1..Len(files)}
<1>2. files \in Seq(F) /\ files' = Append(files, f) /\ f.data = data
  BY DEF WriteProfile, SyncInv, HistoryTypeOK
<1>. HIDE DEF f
<1>3. /\ Len(files) \in Nat /\ Len(files') = Len(files) + 1
      /\ \A i \in 1..Len(files') : files'[i].data = IF i = Len(files') THEN data ELSE files[i].data
      /\ \A i \in 1..Len(files') : files'[i] = IF i = Len(files') THEN f ELSE files[i]
  <2>. HIDE DEF F
  <2>. QED  BY <1>2
<1>4. files' \in Seq({files'[i] : i \in 1..Len(files')})
  <2>. DEFINE F2 == {files'[i] : i \in 1..Len(files')}
  <2>1. f \in F2
    BY <1>3
  <2>2. \A i \in 1..Len(files) : files[i] \in F2
    <3>. SUFFICES ASSUME NEW i \in 1..Len(files) PROVE files[i] \in F2
      OBVIOUS
    <3>1. i \in 1..Len(files') /\ files'[i] = files[i]
      BY <1>3
    <3>. QED  BY <3>1
  <2>. HIDE DEF F2
  <2>3. files \in Seq(F2)
    BY <1>2, <2>2
  <2>. QED  BY SMTT(40), <1>2, <2>1, <2>3 DEF F2
<1>5. SyncTypeOK'
  BY <1>1, <1>3 DEF SyncInv, SyncTypeOK
<1>6. HistoryTypeOK'
  BY <1>1, <1>4 DEF SyncInv, HistoryTypeOK
<1>7. PlacesKnown' /\ ScopesNest' /\ ScopesTimed' /\ ProfilingOn'
  BY <1>1 DEF SyncInv, PlacesKnown, ScopesNest, ScopesTimed, ProfilingOn, Leaving, InOpening, InClosing,
              AfterClosing, Current
<1>8. RecordedOnce' /\ ClosesCounted'
  BY <1>1 DEF SyncInv, RecordedOnce, ClosesCounted, Leaving, InOpening, InClosing, AfterClosing, Current
<1>9. ProfileIsComplete'
  BY <1>1 DEF SyncInv, ProfileIsComplete, Recorded
<1>10. ProfileIsTruthful'
  <2>1. /\ \A n \in Nodes :
            /\ data[n].hist.count <= calls[n]
            /\ \A t \in EventType : <<t, n>> \notin stale => Recorded(t, n) <= spent[t][n]
            /\ AddsUp(data[n].hist)
        /\ \A i \in 1..Len(files) : \A n \in Nodes : AddsUp(files[i].data[n].hist)
    BY DEF SyncInv, ProfileIsTruthful
  <2>2. ASSUME NEW i \in 1..Len(files'), NEW n \in Nodes PROVE AddsUp(files'[i].data[n].hist)
    <3>1. CASE i = Len(files')
      BY <1>3, <2>1, <3>1
    <3>2. CASE i # Len(files')
      <4>1. i \in 1..Len(files) /\ files'[i].data = files[i].data
        BY <1>3, <3>2
      <4>. QED  BY <2>1, <4>1
    <3>. QED  BY <3>1, <3>2
  <2>3. \A t \in EventType, n \in Nodes : Recorded(t, n)' = Recorded(t, n)
    BY <1>1 DEF Recorded
  <2>. QED  BY <1>1, <2>1, <2>2, <2>3 DEF ProfileIsTruthful
<1>11. CancelInv'
  BY <1>1, PlaceUntouched
<1>. QED  BY <1>5, <1>6, <1>7, <1>8, <1>9, <1>10, <1>11 DEF SyncInv, CancelInv

-----------------------------------------------------------------------------
(* The thread that cancels.                                                *)

\* It goes from place to place, and stops the profiler only after it closed.
LEMMA CancelThreadStep ==
    ASSUME SyncInv,
           \/ Cancel \/ StoreCancelling \/ TestCancelling \/ CleanUpQueues \/ LookAtQueues \/ LookAtState
           \/ IdleCloseNode \/ IdleLeaveScope \/ IdleStopProfiler \/ IdleTerminate
    PROVE  SyncInv'
<1>1. /\ UNCHANGED <<pc, after, index, todo, source, active, scopes, data, clock, closes, calls>>
      /\ UNCHANGED <<spent, paused, stale, overtaken, files>>
      /\ state' \in {state, "Cancelling", "Terminated"} /\ queued' \in {queued, {}}
  BY DEF Cancel, StoreCancelling, TestCancelling, CleanUpQueues, LookAtQueues, LookAtState, IdleCloseNode,
         IdleLeaveScope, IdleStopProfiler, IdleTerminate, CancelGoto, schedulerVars, loopVars, streamVars,
         controlVars, profilerVars, historyVars
<1>2. /\ idleIndex \in Nat /\ idleIndex' \in Nat
      /\ idleIndex' = idleIndex \/ (idleIndex = 0 /\ idleIndex' = 1)
      /\ profiling' = profiling \/ (idleIndex >= 1 /\ profiling' = FALSE)
  <2>1. CASE LookAtState
    BY <2>1 DEF LookAtState, CancelGoto, profilerVars, SyncInv, CancellerKnown
  <2>2. CASE IdleStopProfiler
    BY <2>2, NodesFacts DEF IdleStopProfiler, CancelGoto, SyncInv, CancellerKnown
  <2>3. CASE ~ LookAtState /\ ~ IdleStopProfiler
    <3>1. UNCHANGED <<idleIndex, profiling>>
      BY <2>3 DEF Cancel, StoreCancelling, TestCancelling, CleanUpQueues, LookAtQueues, IdleCloseNode,
                  IdleLeaveScope, IdleTerminate, CancelGoto, profilerVars
    <3>. QED  BY <3>1, NodesFacts DEF SyncInv, CancellerKnown
  <2>. QED  BY <2>1, <2>2, <2>3
<1>3. ProfileIsComplete' /\ ProfileIsTruthful'
  BY <1>1, <1>2, ProfileUntouched
<1>4. SyncTypeOK' /\ HistoryTypeOK'
  <2>1. SyncTypeOK'
    BY <1>1, <1>2 DEF SyncInv, SyncTypeOK
  <2>2. HistoryTypeOK'
    BY <1>1, <1>2 DEF SyncInv, HistoryTypeOK
  <2>. QED  BY <2>1, <2>2
<1>5. PlacesKnown' /\ ScopesNest' /\ ScopesTimed'
  BY <1>1, ScheduleUntouched DEF SyncInv, HistoryTypeOK
<1>6. ProfilingOn'
  BY <1>1, <1>2 DEF SyncInv, ProfilingOn, AfterClosing
<1>7. RecordedOnce' /\ ClosesCounted'
  BY <1>1, <1>2 DEF SyncInv, RecordedOnce, ClosesCounted, Leaving, InOpening, InClosing, AfterClosing, Current
<1>8. CancelInv'
  <2>1. CancellerKnown'
    BY NodesFacts
       DEF SyncInv, CancellerKnown, Cancel, StoreCancelling, TestCancelling, CleanUpQueues, LookAtQueues,
           LookAtState, IdleCloseNode, IdleLeaveScope, IdleStopProfiler, IdleTerminate, CancelGoto,
           schedulerVars, loopVars
  <2>2. IdleScopeKnown'
    <3>1. CASE IdleCloseNode
      <4>1. idleIndex \in 1..Len(AllNodes) /\ AllNodes[idleIndex] \in Nodes
        BY <3>1, NodesFacts DEF IdleCloseNode, SyncInv, CancellerKnown
      <4>2. /\ idleScope' \in Scopes /\ idleScope'.type = "CLOSE" /\ idleScope'.entered = clock
            /\ idleScope'.timed => idleScope'.start = idleScope'.entered
        BY <3>1, <4>1 DEF IdleCloseNode, NewScope, Scopes, EventType, SyncInv, HistoryTypeOK
      <4>. QED  BY <1>1, <3>1, <4>2 DEF IdleCloseNode, IdleScopeKnown, SyncInv, HistoryTypeOK
    <3>2. CASE IdleLeaveScope
      <4>1. idleScope \in Scopes /\ clock \in Nat
        BY <3>2 DEF IdleLeaveScope, SyncInv, IdleScopeKnown, HistoryTypeOK
      <4>2. /\ idleScope' \in Scopes /\ idleScope'.end = clock
            /\ idleScope'.type = idleScope.type /\ idleScope'.entered = idleScope.entered
            /\ idleScope'.timed = idleScope.timed /\ idleScope'.start = idleScope.start
        BY <3>2, <4>1 DEF IdleLeaveScope, Scopes
      <4>. QED  BY <1>1, <3>2, <4>2 DEF IdleLeaveScope, SyncInv, IdleScopeKnown
    <3>3. CASE ~ IdleCloseNode /\ ~ IdleLeaveScope
      BY <1>1, <3>3
         DEF SyncInv, IdleScopeKnown, Cancel, StoreCancelling, TestCancelling, CleanUpQueues, LookAtQueues,
             LookAtState, IdleStopProfiler, IdleTerminate, CancelGoto
    <3>. QED  BY <3>1, <3>2, <3>3
  <2>3. ClosesOnlyOvertaken'
    BY <1>1
       DEF SyncInv, ClosesOnlyOvertaken, CancellerKnown, Leaving, Cancel, StoreCancelling, TestCancelling,
           CleanUpQueues, LookAtQueues, LookAtState, IdleCloseNode, IdleLeaveScope, IdleStopProfiler,
           IdleTerminate, CancelGoto, schedulerVars, loopVars, controlVars
  <2>. QED  BY <2>1, <2>2, <2>3 DEF CancelInv
<1>. QED  BY <1>3, <1>4, <1>5, <1>6, <1>7, <1>8 DEF SyncInv, CancelInv

\* A Close of it returns.
LEMMA IdleReturnStep ==
    ASSUME SyncInv, IdleCloseReturns
    PROVE  SyncInv'
<1>1. /\ UNCHANGED <<pc, after, index, todo, source, active, hasError, state, queued, scopes, profiling, data>>
      /\ UNCHANGED <<calls, spent, paused, stale, overtaken, files, idleScope>>
      /\ canceller = "InClose" /\ canceller' = "Leave" /\ idleIndex' = idleIndex + 1
      /\ closes' = [closes EXCEPT ![AllNodes[idleIndex]] = @ + 1]
  BY DEF IdleCloseReturns, Returns, schedulerVars, loopVars, streamVars, controlVars
<1>2. idleIndex \in 1..Len(AllNodes) /\ idleIndex' \in 2..Len(AllNodes) + 1 /\ AllNodes[idleIndex] \in Nodes
  BY <1>1, NodesFacts DEF SyncInv, CancellerKnown
<1>3. clock \in Nat /\ clock' \in Nat /\ clock <= clock'
  BY <1>2, TimePasses DEF IdleCloseReturns, EventType
<1>4. ProfileIsComplete' /\ ProfileIsTruthful'
  BY <1>1, <1>2, ProfileUntouched
<1>5. closes \in [Nodes -> Nat] /\ closes' \in [Nodes -> Nat]
  BY <1>1, <1>2 DEF SyncInv, HistoryTypeOK
<1>6. SyncTypeOK' /\ HistoryTypeOK'
  <2>1. SyncTypeOK'
    BY <1>1, <1>3, <1>5 DEF SyncInv, SyncTypeOK
  <2>2. HistoryTypeOK'
    BY <1>1, <1>3, <1>5 DEF SyncInv, HistoryTypeOK
  <2>. QED  BY <2>1, <2>2
<1>7. PlacesKnown' /\ ScopesNest' /\ ScopesTimed'
  BY <1>1, <1>3, ScheduleUntouched
<1>8. ProfilingOn' /\ RecordedOnce'
  BY <1>2 DEF ProfilingOn, RecordedOnce
<1>9. ClosesCounted'
  <2>1. (InClosing \/ AfterClosing)' <=> InClosing \/ AfterClosing
    BY <1>1 DEF InClosing, AfterClosing, Leaving
  <2>. SUFFICES ASSUME NEW i \in 1..Len(AllNodes)
                PROVE  closes'[AllNodes[i]] = (IF (InClosing \/ AfterClosing) /\ i < index THEN 1 ELSE 0)
                                                + (IF i < idleIndex + 1 THEN 1 ELSE 0)
    BY <1>1, <2>1 DEF ClosesCounted
  <2>2. closes[AllNodes[i]] = (IF (InClosing \/ AfterClosing) /\ i < index THEN 1 ELSE 0)
                                + (IF i < idleIndex THEN 1 ELSE 0)
    BY DEF SyncInv, ClosesCounted
  <2>3. AllNodes[i] \in Nodes /\ (AllNodes[i] = AllNodes[idleIndex] => i = idleIndex)
    BY <1>2, NodesFacts
  <2>. QED  BY <1>1, <1>2, <1>5, <2>2, <2>3
<1>10. CancelInv'
  <2>1. idleScope \in Scopes => idleScope.entered \in Nat
    BY DEF Scopes
  <2>2. IdleScopeKnown'
    BY <1>1, <1>3, <2>1 DEF SyncInv, IdleScopeKnown
  <2>3. CancellerKnown' /\ ClosesOnlyOvertaken'
    BY <1>1, <1>2, NodesFacts DEF SyncInv, CancellerKnown, ClosesOnlyOvertaken, Leaving
  <2>. QED  BY <2>2, <2>3 DEF CancelInv
<1>. QED  BY <1>4, <1>6, <1>7, <1>8, <1>9, <1>10 DEF SyncInv, CancelInv

\* Its scope is left: the time is recorded, or lost if profiling is off.
LEMMA IdleSampleStep ==
    ASSUME SyncInv, IdleSkipSample \/ IdleRecordSample
    PROVE  SyncInv'
<1>. DEFINE r == canceller = "Record"
<1>1. /\ UNCHANGED <<pc, after, index, todo, source, active, hasError, state, queued, scopes, profiling, clock>>
      /\ UNCHANGED <<closes, paused, overtaken, files, idleIndex>>
      /\ canceller \in {"Skip", "Record"} /\ canceller' = "Closing" /\ Ended(idleScope, r)
      /\ data' = IF r THEN Record(data, "CLOSE", idleScope.node, idleScope.start, idleScope.end) ELSE data
  BY DEF IdleSkipSample, IdleRecordSample, Ended, schedulerVars, loopVars, streamVars, controlVars, profilerVars
<1>2. PICK n \in Nodes, from \in Nat, to \in Nat, in \in Nat, timed \in BOOLEAN :
         /\ idleScope.type = "CLOSE" /\ idleScope.node = n
         /\ idleScope.start = from /\ idleScope.end = to /\ idleScope.entered = in /\ idleScope.timed = timed
         /\ in <= to /\ (timed => from = in)
  BY <1>1 DEF SyncInv, IdleScopeKnown, Scopes
<1>. DEFINE d == Duration(from, to)
<1>3. /\ calls' = calls
      /\ spent' = [spent EXCEPT !["CLOSE"][n] = @ + to - in]
      /\ stale' = IF r /\ ~ timed THEN stale \cup {<<"CLOSE", n>>} ELSE stale
  BY <1>1, <1>2 DEF Ended
<1>4. idleIndex >= 1 /\ idleIndex # 0
  BY <1>1, NodesFacts DEF SyncInv, CancellerKnown
<1>5. d \in Nat /\ (timed => d = to - in) /\ to - in \in Nat
  BY <1>2, DurationType
<1>6. data \in [Nodes -> PerNodeData] /\ data' \in [Nodes -> PerNodeData]
      /\ \A m \in Nodes : /\ data'[m].open = data[m].open
                          /\ data'[m].close = IF m = n /\ r THEN d ELSE data[m].close
                          /\ data'[m].hist.count = data[m].hist.count /\ data'[m].hist.total = data[m].hist.total
                          /\ AddsUp(data[m].hist) => AddsUp(data'[m].hist)
  <2>1. data \in [Nodes -> PerNodeData]
    BY DEF SyncInv, SyncTypeOK
  <2>2. CASE r
    <3>1. data' = Record(data, "CLOSE", n, from, to)
      BY <1>1, <1>2, <2>2
    <3>2. Sampled(data, data', "CLOSE", n, d)
      BY <2>1, <3>1, RecordOk DEF EventType
    <3>. HIDE DEF d
    <3>. QED  BY <2>1, <2>2, <3>2 DEF Sampled
  <2>3. CASE ~ r
    BY <1>1, <2>1, <2>3
  <2>. QED  BY <2>2, <2>3
<1>. HIDE DEF d, r
<1>7. /\ spent \in [EventType -> [Nodes -> Nat]] /\ spent' \in [EventType -> [Nodes -> Nat]]
      /\ \A u \in EventType, m \in Nodes :
            spent'[u][m] = IF u = "CLOSE" /\ m = n THEN spent[u][m] + (to - in) ELSE spent[u][m]
  <2>1. spent \in [EventType -> [Nodes -> Nat]] /\ "CLOSE" \in EventType
    BY DEF SyncInv, HistoryTypeOK, EventType
  <2>2. spent["CLOSE"][n] + to - in = spent["CLOSE"][n] + (to - in) /\ spent["CLOSE"][n] + (to - in) \in Nat
    BY <1>2, <1>5, <2>1
  <2>3. spent' = [spent EXCEPT !["CLOSE"][n] = spent["CLOSE"][n] + (to - in)]
    BY <1>3, <2>1, <2>2
  <2>. QED  BY <2>1, <2>2, <2>3
<1>8. SyncTypeOK' /\ HistoryTypeOK'
  <2>1. SyncTypeOK'
    BY <1>1, <1>3, <1>6, <1>7 DEF SyncInv, SyncTypeOK
  <2>2. HistoryTypeOK'
    BY <1>1, <1>3, <1>6, <1>7 DEF SyncInv, HistoryTypeOK
  <2>. QED  BY <2>1, <2>2
<1>9. PlacesKnown' /\ ScopesNest' /\ ScopesTimed'
  BY <1>1, ScheduleUntouched DEF SyncInv, HistoryTypeOK
<1>10. ProfilingOn' /\ RecordedOnce' /\ ProfileIsComplete'
  BY <1>1, <1>4 DEF ProfilingOn, RecordedOnce, ProfileIsComplete
<1>11. ClosesCounted'
  BY <1>1 DEF SyncInv, ClosesCounted, InClosing, AfterClosing, Leaving
<1>12. CancelInv'
  BY <1>1, <1>4 DEF SyncInv, CancelInv, CancellerKnown, IdleScopeKnown, ClosesOnlyOvertaken, Leaving
<1>13. ProfileIsTruthful'
  <2>1. /\ \A m \in Nodes : data[m].hist.count <= calls[m] /\ AddsUp(data[m].hist)
        /\ \A u \in EventType, m \in Nodes : <<u, m>> \notin stale => Recorded(u, m) <= spent[u][m]
        /\ \A i \in 1..Len(files) : \A m \in Nodes : AddsUp(files[i].data[m].hist)
    BY DEF SyncInv, ProfileIsTruthful
  <2>2. ASSUME NEW m \in Nodes PROVE data'[m].hist.count <= calls'[m] /\ AddsUp(data'[m].hist)
    BY <1>3, <1>6, <2>1
  <2>3. ASSUME NEW m \in Nodes, NEW u \in EventType, <<u, m>> \notin stale'
        PROVE  Recorded(u, m)' <= spent'[u][m]
    <3>1. <<u, m>> \notin stale /\ Recorded(u, m) <= spent[u][m]
      BY <1>3, <2>1, <2>3
    <3>2. CASE u = "CLOSE" /\ m = n
      <4>1. Recorded(u, m)' = IF r THEN d ELSE Recorded(u, m)
        BY <1>6, <3>2 DEF Recorded
      <4>2. r => timed
        BY <1>3, <2>3, <3>2
      <4>3. spent'[u][m] = spent[u][m] + (to - in) /\ spent[u][m] \in Nat
        BY <1>7, <3>2
      <4>4. Recorded(u, m) \in Nat
        BY <1>6, <3>2 DEF Recorded, PerNodeData
      <4>. QED  BY <1>5, <3>1, <4>1, <4>2, <4>3, <4>4
    <3>3. CASE u # "CLOSE" \/ m # n
      <4>1. Recorded(u, m)' = Recorded(u, m)
        BY <1>6, <3>3 DEF Recorded, EventType
      <4>. QED  BY <1>7, <3>1, <3>3, <4>1
    <3>. QED  BY <3>2, <3>3
  <2>. QED  BY <1>1, <2>1, <2>2, <2>3 DEF ProfileIsTruthful
<1>. QED  BY <1>8, <1>9, <1>10, <1>11, <1>12, <1>13 DEF SyncInv, CancelInv

-----------------------------------------------------------------------------
(* The theorems.                                                           *)

LEMMA SyncInitially ==
    ASSUME Init
    PROVE  SyncInv
<1>1. Fresh
  BY DEF Init, Fresh
<1>2. ProfileIsComplete /\ ProfileIsTruthful /\ FreshTypeOK
  BY <1>1, NothingRecorded
<1>3. SyncTypeOK
  BY <1>2, NodesFacts DEF Init, SyncTypeOK, FreshTypeOK
<1>4. HistoryTypeOK
  <2>1. <<>> \in Seq(Scopes) /\ files \in Seq({files[i] : i \in 1..Len(files)})
    BY DEF Init
  <2>. QED  BY <1>2, <2>1, SyncScheduleAssumption DEF Init, HistoryTypeOK, FreshTypeOK
<1>5. PlacesKnown /\ ScopesNest /\ ScopesTimed /\ ProfilingOn
  BY DEF Init, PlacesKnown, ScopesNest, ScopesTimed, ProfilingOn, Leaving, AfterClosing
<1>6. RecordedOnce /\ ClosesCounted
  BY <1>2, NodesFacts DEF Init, RecordedOnce, FreshTypeOK, ClosesCounted, InClosing, AfterClosing, Leaving
<1>7. CancelInv
  BY NodesFacts DEF Init, CancelInv, CancellerKnown, IdleScopeKnown, ClosesOnlyOvertaken
<1>. QED  BY <1>2, <1>3, <1>4, <1>5, <1>6, <1>7 DEF SyncInv, CancelInv

LEMMA SyncUnchanged ==
    ASSUME SyncInv, UNCHANGED syncVars
    PROVE  SyncInv'
<1>1. /\ UNCHANGED <<pc, after, index, todo, source, active, state, queued, scopes, profiling, clock, closes>>
      /\ UNCHANGED <<paused, data, calls, spent, stale, files, hasError, overtaken, canceller, idleIndex, idleScope>>
  BY DEF syncVars, schedulerVars, loopVars, streamVars, controlVars, profilerVars, historyVars, appVars, cancelVars
<1>2. ProfileIsComplete' /\ ProfileIsTruthful'
  BY <1>1, ProfileUntouched
<1>3. SyncTypeOK' /\ HistoryTypeOK'
  BY <1>1 DEF SyncInv, SyncTypeOK, HistoryTypeOK
<1>4. PlacesKnown' /\ ScopesNest' /\ ScopesTimed' /\ ProfilingOn'
  BY <1>1 DEF SyncInv, PlacesKnown, ScopesNest, ScopesTimed, ProfilingOn, Leaving, InOpening, InClosing,
              AfterClosing, Current
<1>5. RecordedOnce' /\ ClosesCounted'
  BY <1>1 DEF SyncInv, RecordedOnce, ClosesCounted, Leaving, InOpening, InClosing, AfterClosing, Current
<1>6. CancelInv'
  BY <1>1, PlaceUntouched
<1>. QED  BY <1>2, <1>3, <1>4, <1>5, <1>6 DEF SyncInv, CancelInv

\* Every step of Schedule, of a Cancel and its HandleIdle, of the application's
\* other threads and of the reader of the profiles keeps the invariant of the
\* synchronous path (Schedule, Cancel, HandleIdle, GraphProfiler).
THEOREM SyncInvariance == Spec => []SyncInv
<1>1. ReportInit => SyncInv
  BY SyncInitially DEF ReportInit
<1>2. ASSUME SyncInv, [Next]_vars PROVE SyncInv'
  <2>1. CASE Step
    BY <1>2, <2>1, LoopStep, ScheduleStep, EnterStep, ReturnStep, LeaveScopeStep, SampleStep DEF Step
  <2>2. CASE App
    BY <1>2, <2>2, StopStep, CancelThreadStep, SwitchStep, ResetStep, WriteStep DEF App
  <2>3. CASE UNCHANGED syncVars
    BY <1>2, <2>3, SyncUnchanged
  <2>4. CASE CancelStep
    BY <1>2, <2>4, CancelThreadStep, IdleReturnStep, IdleSampleStep DEF CancelStep
  <2>5. Step \/ CancelStep \/ App \/ UNCHANGED syncVars
    BY <1>2 DEF Next, SyncNext, Run, ReadStep, ReadMember, ReadNode, ReadField, vars
  <2>. QED  BY <2>1, <2>2, <2>3, <2>4, <2>5
<1>. QED  BY <1>1, <1>2, PTL DEF Spec

\* As long as profiling stays on, the profile holds every call that has ended
\* since the last Reset, with the time it took (Scope, AddSample, Reset).
THEOREM ProfileComplete == Spec => []ProfileIsComplete
<1>1. SyncInv => ProfileIsComplete
  BY DEF SyncInv
<1>. QED  BY <1>1, SyncInvariance, PTL

\* Whatever is switched off and on, the profile never says more than happened,
\* but for the samples without a start time, and its buckets agree with its
\* totals (Scope, AddSample, Reset, WriteProfile).
THEOREM ProfileTruthful == Spec => []ProfileIsTruthful
<1>1. SyncInv => ProfileIsTruthful
  BY DEF SyncInv
<1>. QED  BY <1>1, SyncInvariance, PTL

\* Unless Schedule's first store comes after a Cancel's and before its HandleIdle
\* has looked at the state, every node is closed once before Schedule returns, and
\* none after a failed Open; even then it is closed at most twice, and no node is
\* processed after it was closed (Schedule, Cancel, HandleIdle, CloseAllNodes).
THEOREM ClosedOnce == Spec => []ClosedOnceAtTheEnd
<1>1. ASSUME SyncInv PROVE ClosedOnceAtTheEnd
  <2>1. ASSUME NEW n \in Nodes
        PROVE  /\ pc = "Returned" => closes[n] \in {1, 2} /\ (idleIndex = 0 => closes[n] = 1)
               /\ ~ InClosing /\ ~ AfterClosing /\ idleIndex = 0 => closes[n] = 0
    <3>1. PICK i \in 1..Len(AllNodes) : AllNodes[i] = n
      BY NodesFacts
    <3>2. closes[n] = (IF (InClosing \/ AfterClosing) /\ i < index THEN 1 ELSE 0)
                        + (IF i < idleIndex THEN 1 ELSE 0)
      BY <1>1, <3>1 DEF SyncInv, ClosesCounted
    <3>3. pc = "Returned" => AfterClosing /\ i < index
      BY <1>1, NodesFacts DEF SyncInv, SyncTypeOK, PlacesKnown, AfterClosing
    <3>4. idleIndex = 0 => ~ (i < idleIndex)
      BY NodesFacts
    <3>. QED  BY <3>2, <3>3, <3>4
  <2>2. pc \in {"OpenFailed", "Pass", "Consumers", "InSource", "InConsumer"} => ~ InClosing /\ ~ AfterClosing
    BY DEF InClosing, AfterClosing, Leaving
  <2>3. /\ ~ overtaken => idleIndex = 0
        /\ pc \in {"Consumers", "InSource", "InConsumer"} => ~ overtaken
    BY <1>1 DEF SyncInv, ClosesOnlyOvertaken
  <2>. QED  BY <2>1, <2>2, <2>3 DEF ClosedOnceAtTheEnd
<1>. QED  BY <1>1, SyncInvariance, PTL
=============================================================================
