--------------------------- MODULE BackendsProofs ---------------------------
(***************************************************************************)
(* Proofs about crates/twl-backends: placement (Placement), the model      *)
(* catalog (ModelCatalog) and the energy meter (EnergyMeter), for any      *)
(* number of backends and requests.                                        *)
(***************************************************************************)
EXTENDS Placement, ModelCatalog, EnergyMeter, FiniteSetTheorems,
        SequenceTheorems, NaturalsInduction, TLAPS

-----------------------------------------------------------------------------
(* Induction on the natural numbers, by a least counterexample.            *)

\* A nonempty set of naturals has a least element; what stands in for induction.
LEMMA LeastNatural ==
  ASSUME NEW T \in SUBSET Nat, T # {}
  PROVE  \E x \in T : \A y \in T : x <= y
<1> DEFINE R == OpToRel(<, Nat)
<1>1. IsWellFoundedOn(R, Nat)
  BY NatLessThanWellFounded
<1>2. PICK x \in T : \A y \in T : ~(<<y, x>> \in R)
  <2> HIDE DEF R
  <2> QED BY <1>1, WFMin
<1>3. \A y \in T : ~(y < x)
  BY <1>2 DEF OpToRel
<1> QED BY <1>3

\* A set of numbers with the first, and with the successor of each, is all.
LEMMA UpTo ==
  ASSUME NEW n \in Nat, NEW G, 0 \in G, \A k \in 0..(n - 1) : k \in G => k + 1 \in G
  PROVE  0..n \subseteq G
<1> DEFINE T == (0..n) \ G
<1> SUFFICES ASSUME T # {} PROVE FALSE
  OBVIOUS
<1>1. PICK x \in T : \A y \in T : x <= y
  <2>1. T \in SUBSET Nat
    OBVIOUS
  <2> HIDE DEF T
  <2> QED BY <2>1, LeastNatural
<1>2. x \in 0..n /\ x # 0
  BY <1>1
<1>3. x - 1 \in 0..(n - 1) /\ x - 1 \notin T
  BY <1>1, <1>2
<1>4. x - 1 \in G
  BY <1>2, <1>3
<1>5. (x - 1) + 1 \in G
  BY <1>3, <1>4
<1> QED BY <1>1, <1>2, <1>5

\* A step function, and its iterates
IsStep(n, S, start, F) == start \in S /\ F \in [S \X (1..n) -> S]
Iterated(n, S, start, F, f) ==
  /\ f \in [0..n -> S] /\ f[0] = start
  /\ \A k \in 1..n : f[k] = F[<<f[k - 1], k>>]

\* exist: what every recursive function below is.
LEMMA Iterates ==
  ASSUME NEW n \in Nat, NEW S, NEW start, NEW F, IsStep(n, S, start, F)
  PROVE  \E f : Iterated(n, S, start, F, f)
<1> USE DEF IsStep, Iterated
<1> DEFINE Runs(m, f) == /\ f \in [0..n -> S] /\ f[0] = start
                         /\ \A k \in 1..m : f[k] = F[<<f[k - 1], k>>]
           G == {m \in 0..n : \E f : Runs(m, f)}
<1>1. 0 \in G
  <2>1. Runs(0, [k \in 0..n |-> start])
    OBVIOUS
  <2> HIDE DEF Runs
  <2> QED BY <2>1
<1>2. ASSUME NEW m \in 0..(n - 1), m \in G
      PROVE  m + 1 \in G
  <2>1. PICK f : Runs(m, f)
    BY <1>2
  <2> DEFINE next == F[<<f[m], m + 1>>]
             g == [f EXCEPT ![m + 1] = next]
  <2>2. m \in 0..n /\ m + 1 \in 1..n /\ m + 1 \in 0..n /\ f[m] \in S
    BY <2>1
  <2>3. next \in S
    BY <2>2
  <2>4. g \in [0..n -> S] /\ g[m + 1] = next /\ \A k \in 0..m : g[k] = f[k]
    BY <2>1, <2>2, <2>3
  <2> HIDE DEF g
  <2>5. \A k \in 1..(m + 1) : g[k] = F[<<g[k - 1], k>>]
    <3> SUFFICES ASSUME NEW k \in 1..(m + 1) PROVE g[k] = F[<<g[k - 1], k>>]
      OBVIOUS
    <3>1. k - 1 \in 0..m /\ (k = m + 1 \/ (k \in 1..m /\ k \in 0..m))
      BY <2>2
    <3>2. CASE k = m + 1
      <4>1. g[k - 1] = f[m]
        BY <2>2, <2>4, <3>1, <3>2
      <4> QED BY <2>4, <3>2, <4>1
    <3>3. CASE k \in 1..m
      BY <2>1, <2>4, <3>1, <3>3
    <3> QED BY <3>1, <3>2, <3>3
  <2>6. g[0] = start
    BY <2>1, <2>2, <2>4
  <2> QED BY <2>2, <2>4, <2>5, <2>6
<1>3. n \in G
  <2> HIDE DEF G
  <2>1. 0..n \subseteq G
    BY <1>1, <1>2, UpTo
  <2> QED BY <2>1
<1> QED BY <1>3

-----------------------------------------------------------------------------
(* Rendezvous order *)

\* The backends with a higher score, and how many there are.
Above(h, b) == {c \in Candidates : Score[h][c] > Score[h][b]}

\* There are N candidates, and at least one.
LEMMA CandidatesFinite ==
  ASSUME PlacementAssumption
  PROVE  IsFiniteSet(Candidates) /\ Cardinality(Candidates) = N /\ N \in Nat /\ N >= 1
<1>1. N \in Nat \ {0}
  BY DEF PlacementAssumption
<1>2. IsFiniteSet(1..N) /\ Cardinality(1..N) = IF 1 > N THEN 0 ELSE N - 1 + 1
  BY <1>1, FS_Interval
<1> QED BY <1>1, <1>2 DEF Candidates

\* The number of candidates with a higher score ranks them from 0 to N - 1, without ties.
LEMMA RankFacts ==
  ASSUME PlacementAssumption, NEW h \in PrefixHashes, NEW b \in Candidates
  PROVE  /\ Cardinality(Above(h, b)) \in 0..(N - 1)
         /\ \A d \in Candidates :
              Score[h][b] > Score[h][d] => Cardinality(Above(h, b)) < Cardinality(Above(h, d))
<1>1. \A c \in Candidates : Score[h][c] \in Int
  BY DEF PlacementAssumption
<1>2. /\ Above(h, b) \subseteq Candidates \ {b}
      /\ \A d : Above(h, d) \subseteq Candidates
  BY <1>1 DEF Above
<1>3. /\ IsFiniteSet(Candidates \ {b}) /\ Cardinality(Candidates \ {b}) = N - 1
  BY CandidatesFinite, FS_RemoveElement
<1>4. /\ IsFiniteSet(Above(h, b)) /\ Cardinality(Above(h, b)) <= N - 1
      /\ Cardinality(Above(h, b)) \in Nat
  BY <1>2, <1>3, FS_Subset, FS_CardinalityType
<1>5. ASSUME NEW d \in Candidates, Score[h][b] > Score[h][d]
      PROVE  Cardinality(Above(h, b)) < Cardinality(Above(h, d))
  <2>1. IsFiniteSet(Above(h, d)) /\ Cardinality(Above(h, d)) \in Nat
    BY <1>2, CandidatesFinite, FS_Subset, FS_CardinalityType
  <2>2. Above(h, b) \subseteq Above(h, d) /\ Above(h, b) # Above(h, d)
    BY <1>1, <1>5 DEF Above
  <2>3. /\ Cardinality(Above(h, b)) <= Cardinality(Above(h, d))
        /\ Cardinality(Above(h, d)) # Cardinality(Above(h, b))
    BY <2>1, <2>2, FS_Subset
  <2> QED BY <1>4, <2>1, <2>3
<1> QED BY <1>4, <1>5, CandidatesFinite

\* sort_unstable_by in ordered_candidates: there is a rendezvous order, it
\* falls, and it has every candidate.
LEMMA RendezvousFacts ==
  ASSUME PlacementAssumption, NEW h \in PrefixHashes
  PROVE  /\ Rendezvous(h) \in [Candidates -> Candidates]
         /\ \A i, j \in Candidates :
              i < j => Score[h][Rendezvous(h)[i]] > Score[h][Rendezvous(h)[j]]
         /\ \A b \in Candidates : \E i \in Candidates : Rendezvous(h)[i] = b
<1> DEFINE rank == [b \in Candidates |-> Cardinality(Above(h, b)) + 1]
           Falls(f) == \A i, j \in Candidates : i < j => Score[h][f[i]] > Score[h][f[j]]
<1>0. N \in Nat /\ N >= 1 /\ IsFiniteSet(Candidates) /\ Candidates = 1..N
  BY CandidatesFinite DEF Candidates
<1>1. \A c \in Candidates : Score[h][c] \in Int
  BY DEF PlacementAssumption
<1>2. \A b, d \in Candidates : Score[h][b] = Score[h][d] => b = d
  BY DEF PlacementAssumption, IsInjective
<1>3. \A b \in Candidates : rank[b] \in Candidates
  BY <1>0, RankFacts
<1>4. \A b, d \in Candidates : Score[h][b] > Score[h][d] => rank[b] < rank[d]
  BY <1>0, RankFacts
<1> HIDE DEF rank
<1>5. \A b, d \in Candidates : rank[b] < rank[d] => Score[h][b] > Score[h][d]
  <2> SUFFICES ASSUME NEW b \in Candidates, NEW d \in Candidates, rank[b] < rank[d],
                      ~(Score[h][b] > Score[h][d])
               PROVE  FALSE
    OBVIOUS
  <2>1. Score[h][b] = Score[h][d] \/ Score[h][d] > Score[h][b]
    BY <1>1
  <2>2. rank[b] \in Nat /\ rank[d] \in Nat
    BY <1>0, <1>3
  <2> QED BY <1>2, <1>4, <2>1, <2>2
<1>6. rank \in Surjection(Candidates, Candidates)
  <2>1. rank \in [Candidates -> Candidates]
    BY <1>3 DEF rank
  <2>2. \A b, d \in Candidates : rank[b] = rank[d] => b = d
    <3> SUFFICES ASSUME NEW b \in Candidates, NEW d \in Candidates, rank[b] = rank[d], b # d
                 PROVE  FALSE
      OBVIOUS
    <3>1. Score[h][b] > Score[h][d] \/ Score[h][d] > Score[h][b]
      BY <1>1, <1>2
    <3>2. rank[b] \in Nat /\ rank[d] \in Nat
      BY <1>0, <1>3
    <3> QED BY <1>4, <3>1, <3>2
  <2>3. rank \in Injection(Candidates, Candidates)
    BY <2>1, <2>2 DEF Injection, IsInjective
  <2> QED BY <1>0, <2>3, FS_Injection
<1>7. \A i \in Candidates : \E b \in Candidates : rank[b] = i
  BY <1>6 DEF Surjection
<1> DEFINE f == [i \in Candidates |-> CHOOSE b \in Candidates : rank[b] = i]
<1>8. f \in [Candidates -> Candidates] /\ \A i \in Candidates : rank[f[i]] = i
  BY <1>7
<1> HIDE DEF f
<1>9. Falls(f)
  BY <1>5, <1>8
<1>10. Rendezvous(h) \in [Candidates -> Candidates] /\ Falls(Rendezvous(h))
  BY <1>8, <1>9 DEF Rendezvous
<1> DEFINE g == Rendezvous(h)
<1>11. g \in Surjection(Candidates, Candidates)
  <2> HIDE DEF g
  <2>0. g \in [Candidates -> Candidates] /\ Falls(g)
    BY <1>10 DEF g
  <2>1. \A i, j \in Candidates : g[i] = g[j] => i = j
    <3> SUFFICES ASSUME NEW i \in Candidates, NEW j \in Candidates, g[i] = g[j], i # j
                 PROVE  FALSE
      OBVIOUS
    <3>1. i < j \/ j < i
      BY <1>0
    <3>2. Score[h][g[i]] \in Int /\ Score[h][g[j]] \in Int
      BY <1>1, <2>0
    <3> QED BY <2>0, <3>1, <3>2
  <2>2. g \in Injection(Candidates, Candidates)
    BY <2>0, <2>1 DEF Injection, IsInjective
  <2> QED BY <1>0, <2>2, FS_Injection
<1> QED BY <1>10, <1>11 DEF Surjection

\* A function on 1..n is a sequence.
LEMMA FunctionIsSeq ==
  ASSUME NEW n \in Nat, NEW S, NEW f \in [1..n -> S]
  PROVE  f \in Seq(S) /\ Len(f) = n
OBVIOUS

\* The last lines of ordered_candidates: the chosen one and, once each, the
\* others.
LEMMA OrderFacts ==
  ASSUME PlacementAssumption, NEW h \in PrefixHashes, NEW chosen \in Candidates
  PROVE  LET order == Order(h, chosen)
         IN  /\ order \in Seq(Candidates) /\ Len(order) = N
             /\ order[1] = Rendezvous(h)[chosen]
             /\ ToSet(order) = Candidates
<1> DEFINE scored == Rendezvous(h)
           order == Order(h, chosen)
           front == SubSeq(scored, 1, chosen - 1)
           back == SubSeq(scored, chosen + 1, N)
<1>0. N \in Nat /\ N >= 1 /\ Candidates = 1..N /\ chosen \in 1..N
  BY CandidatesFinite DEF Candidates
<1>1. /\ scored \in [Candidates -> Candidates]
      /\ \A b \in Candidates : \E i \in Candidates : scored[i] = b
  BY RendezvousFacts
<1> HIDE DEF scored
<1>2. scored \in Seq(Candidates) /\ Len(scored) = N
  <2> DEFINE S == Candidates
  <2>1. scored \in [1..N -> S]
    BY <1>0, <1>1
  <2> HIDE DEF S
  <2>2. scored \in Seq(S) /\ Len(scored) = N
    BY <1>0, <2>1, FunctionIsSeq
  <2> QED BY <2>2 DEF S
<1>12. \A i \in 1..N : scored[i] \in Candidates
  BY <1>0, <1>1
<1>3. /\ front \in Seq(Candidates) /\ Len(front) = chosen - 1
      /\ \A i \in 1..(chosen - 1) : front[i] = scored[i]
  BY <1>0, <1>2, <1>12, SubSeqProperties
<1>4. /\ back \in Seq(Candidates) /\ Len(back) = N - chosen
      /\ \A i \in 1..(N - chosen) : back[i] = scored[chosen + i]
  <2> DEFINE m == chosen + 1
  <2>1. m \in Int /\ \A i \in m..N : scored[i] \in Candidates
    BY <1>0, <1>12
  <2>2. /\ back \in Seq(Candidates) /\ Len(back) = IF m <= N THEN N - m + 1 ELSE 0
        /\ \A i \in 1..(N - m + 1) : back[i] = scored[m + i - 1]
    <3> HIDE DEF m
    <3>1. back = SubSeq(scored, m, N)
      BY DEF m
    <3> HIDE DEF back
    <3> QED BY <1>0, <2>1, <3>1, SubSeqProperties
  <2>3. \A i \in 1..(N - chosen) : i \in 1..(N - m + 1) /\ m + i - 1 = chosen + i
    BY <1>0
  <2> QED BY <1>0, <2>2, <2>3
<1>5. order = <<scored[chosen]>> \o (front \o back)
  BY <1>2 DEF Order, RemoveAt, scored
<1> HIDE DEF front, back, order
<1> DEFINE rest == front \o back
<1>6. /\ rest \in Seq(Candidates) /\ Len(rest) = N - 1
      /\ \A i \in 1..(chosen - 1) : rest[i] = scored[i]
      /\ \A i \in 1..(N - chosen) : rest[chosen - 1 + i] = scored[chosen + i]
  <2>1. /\ rest \in Seq(Candidates) /\ Len(rest) = N - 1
        /\ \A i \in 1..(N - 1) :
             rest[i] = IF i <= chosen - 1 THEN front[i] ELSE back[i - (chosen - 1)]
    <3>1. /\ rest \in Seq(Candidates) /\ Len(rest) = Len(front) + Len(back)
          /\ \A i \in 1..(Len(front) + Len(back)) :
               rest[i] = IF i <= Len(front) THEN front[i] ELSE back[i - Len(front)]
      BY <1>3, <1>4, ConcatProperties
    <3> HIDE DEF rest
    <3>2. Len(front) + Len(back) = N - 1
      BY <1>0, <1>3, <1>4
    <3> QED BY <1>3, <3>1, <3>2
  <2> HIDE DEF rest
  <2>2. ASSUME NEW i \in 1..(chosen - 1)
        PROVE  rest[i] = scored[i]
    <3>1. i \in 1..(N - 1) /\ i <= chosen - 1
      BY <1>0
    <3> QED BY <1>3, <2>1, <3>1
  <2>3. ASSUME NEW i \in 1..(N - chosen)
        PROVE  rest[chosen - 1 + i] = scored[chosen + i]
    <3> DEFINE k == chosen - 1 + i
    <3>1. k \in 1..(N - 1) /\ ~(k <= chosen - 1) /\ k - (chosen - 1) = i
      BY <1>0
    <3> HIDE DEF k
    <3>2. rest[k] = back[i]
      BY <2>1, <3>1
    <3> QED BY <1>4, <3>2 DEF k
  <2> QED BY <2>1, <2>2, <2>3
<1>7. scored[chosen] \in Candidates
  BY <1>0, <1>1
<1> HIDE DEF rest
<1>8. /\ order \in Seq(Candidates) /\ Len(order) = N /\ order[1] = scored[chosen]
      /\ \A i \in 1..(N - 1) : order[i + 1] = rest[i]
  BY <1>0, <1>5, <1>6, <1>7 DEF rest
<1>9. ASSUME NEW b \in Candidates
      PROVE  \E i \in 1..N : order[i] = b
  <2>1. PICK i \in 1..N : scored[i] = b
    BY <1>0, <1>1
  <2>2. CASE i = chosen
    BY <1>0, <1>8, <2>1, <2>2
  <2>3. CASE i < chosen
    <3>1. i \in 1..(chosen - 1) /\ i \in 1..(N - 1) /\ i + 1 \in 1..N
      BY <1>0, <2>3
    <3> QED BY <1>6, <1>8, <2>1, <3>1
  <2>4. CASE i > chosen
    <3> DEFINE k == i - chosen
    <3>1. /\ k \in 1..(N - chosen) /\ chosen + k = i /\ chosen - 1 + k = i - 1
          /\ i - 1 \in 1..(N - 1) /\ (i - 1) + 1 = i
      BY <1>0, <2>4
    <3> HIDE DEF k
    <3>2. rest[i - 1] = b
      BY <1>6, <2>1, <3>1
    <3> QED BY <1>8, <3>1, <3>2
  <2> QED BY <1>0, <2>2, <2>3, <2>4
<1>10. DOMAIN order = 1..N /\ \A i \in 1..N : order[i] \in Candidates
  BY <1>0, <1>8
<1>11. ToSet(order) = Candidates
  BY <1>9, <1>10 DEF ToSet
<1> QED BY <1>8, <1>11 DEF order, scored

-----------------------------------------------------------------------------
(* The bound *)

\* What rounding up a quotient bounds.
LEMMA CeilDivFacts ==
  ASSUME NEW a \in Nat, NEW b \in Nat \ {0}, a >= 1
  PROVE  /\ CeilDiv(a, b) \in Nat
         /\ b * CeilDiv(a, b) >= a
         /\ a < b => CeilDiv(a, b) = 1
<1> DEFINE x == a + b - 1
           q == x \div b
<1>1. x \in Nat /\ q \in Int /\ q >= 0
  OBVIOUS
<1>2. b * q <= x /\ x < b * q + b
  OBVIOUS
<1>3. b * q >= a
  BY <1>1, <1>2
<1>4. ASSUME a < b
      PROVE  q = 1
  BY <1>1, <1>2, <1>4
<1> QED BY <1>1, <1>3, <1>4 DEF CeilDiv

\* max(1, ceil(..)) needs no max, and at every load the bound leaves room: as
\* many requests as all backends would have at their bound is more than run.
LEMMA BoundFacts ==
  ASSUME PlacementAssumption, NEW total \in Nat
  PROVE  LET Limit == CeilDiv(Factor * (total + 1), 4 * N)
         IN  /\ Bound(total) = Limit /\ Limit \in Nat
             /\ N * Limit >= total + 1
<1> DEFINE a == Factor * (total + 1)
           b == 4 * N
<1>1. N \in Nat /\ N >= 1 /\ Factor \in Nat /\ Factor >= 4
  BY DEF PlacementAssumption
<1>2. a \in Nat /\ a >= 4 * (total + 1) /\ a >= 1 /\ b \in Nat \ {0}
  BY <1>1
<1>3. Bound(total) = IF a < b THEN 1 ELSE CeilDiv(a, b)
  BY DEF Bound
<1> HIDE DEF a
<1>4. CeilDiv(a, b) \in Nat /\ b * CeilDiv(a, b) >= a /\ (a < b => CeilDiv(a, b) = 1)
  <2> HIDE DEF b
  <2> QED BY <1>2, CeilDivFacts
<1>5. Bound(total) = CeilDiv(a, b)
  BY <1>3, <1>4
<1> DEFINE q == CeilDiv(a, b)
<1>6. N * q >= total + 1
  <2>1. q \in Nat /\ (4 * N) * q >= 4 * (total + 1)
    BY <1>2, <1>4
  <2> HIDE DEF q
  <2> QED BY <1>1, <2>1
<1> QED BY <1>4, <1>5, <1>6 DEF a

\* The sum of the counters is what its name says.
LEMMA SumToFacts ==
  ASSUME PlacementAssumption, inflight \in [Candidates -> Nat]
  PROVE  /\ SumTo \in [0..N -> Nat] /\ SumTo[0] = 0
         /\ \A n \in Candidates : SumTo[n] = SumTo[n - 1] + inflight[n]
<1>0. N \in Nat /\ N >= 1 /\ Candidates = 1..N /\ \A n \in 1..N : inflight[n] \in Nat
  BY CandidatesFinite DEF Candidates
<1> DEFINE Sums(n, f) == /\ f \in [0..N -> Nat] /\ f[0] = 0
                         /\ \A k \in 1..n : f[k] = f[k - 1] + inflight[k]
           G == {n \in 0..N : \E f : Sums(n, f)}
<1>1. 0 \in G
  <2>1. Sums(0, [k \in 0..N |-> 0])
    BY <1>0
  <2> HIDE DEF Sums
  <2> QED BY <1>0, <2>1
<1>2. ASSUME NEW n \in 0..(N - 1), n \in G
      PROVE  n + 1 \in G
  <2>1. PICK f : Sums(n, f)
    BY <1>2
  <2> DEFINE g == [f EXCEPT ![n + 1] = f[n] + inflight[n + 1]]
  <2>2. n \in 0..N /\ n + 1 \in 1..N /\ n + 1 \in 0..N /\ f[n] \in Nat
    BY <1>0, <2>1
  <2>3. g \in [0..N -> Nat] /\ g[n + 1] = f[n] + inflight[n + 1]
        /\ \A k \in 0..n : g[k] = f[k]
    BY <1>0, <2>1, <2>2
  <2> HIDE DEF g
  <2>4. \A k \in 1..(n + 1) : g[k] = g[k - 1] + inflight[k]
    <3> SUFFICES ASSUME NEW k \in 1..(n + 1) PROVE g[k] = g[k - 1] + inflight[k]
      OBVIOUS
    <3>1. k - 1 \in 0..n /\ (k = n + 1 \/ (k \in 1..n /\ k \in 0..n))
      BY <2>2
    <3>2. CASE k = n + 1
      BY <2>2, <2>3, <3>1, <3>2
    <3>3. CASE k \in 1..n
      BY <2>1, <2>3, <3>1, <3>3
    <3> QED BY <3>1, <3>2, <3>3
  <2>5. g[0] = 0
    BY <2>1, <2>2, <2>3
  <2> QED BY <2>2, <2>3, <2>4, <2>5
<1>3. N \in G
  <2> HIDE DEF G
  <2>1. 0..N \subseteq G
    BY <1>0, <1>1, <1>2, UpTo
  <2> QED BY <1>0, <2>1
<1>4. PICK f : Sums(N, f)
  BY <1>3
<1>5. f = [n \in 0..N |-> IF n = 0 THEN 0 ELSE f[n - 1] + inflight[n]]
  BY <1>0, <1>4
<1>6. SumTo = [n \in 0..N |-> IF n = 0 THEN 0 ELSE SumTo[n - 1] + inflight[n]]
  <2> DEFINE E(g) == [n \in 0..N |-> IF n = 0 THEN 0 ELSE g[n - 1] + inflight[n]]
  <2>1. SumTo = CHOOSE g : g = E(g)
    BY DEF SumTo
  <2>2. f = E(f)
    BY <1>5
  <2> HIDE DEF E
  <2>3. SumTo = E(SumTo)
    BY <2>1, <2>2
  <2> QED BY <2>3 DEF E
<1>7. SumTo[0] = 0 /\ \A n \in 1..N : SumTo[n] = SumTo[n - 1] + inflight[n]
  BY <1>0, <1>6
<1>8. SumTo \in [0..N -> Nat]
  <2> DEFINE H == {n \in 0..N : SumTo[n] \in Nat}
  <2>1. 0 \in H
    BY <1>0, <1>7
  <2>2. ASSUME NEW n \in 0..(N - 1), n \in H
        PROVE  n + 1 \in H
    <3>1. n + 1 \in 1..N /\ n + 1 \in 0..N /\ (n + 1) - 1 = n
      BY <1>0
    <3>2. SumTo[n + 1] = SumTo[n] + inflight[n + 1]
      BY <1>7, <3>1
    <3> QED BY <1>0, <2>2, <3>1, <3>2
  <2>3. 0..N \subseteq H
    <3> HIDE DEF H
    <3> QED BY <1>0, <2>1, <2>2, UpTo
  <2>4. \A n \in 0..N : SumTo[n] \in Nat
    BY <2>3
  <2>5. SumTo = [n \in 0..N |-> SumTo[n]]
    BY <1>6
  <2> QED BY <2>4, <2>5
<1> QED BY <1>0, <1>7, <1>8

\* A load nobody is at the bound of: bounded affinity always finds a backend.
LEMMA RoomLeft ==
  ASSUME PlacementAssumption, inflight \in [Candidates -> Nat]
  PROVE  \E b \in Candidates : inflight[b] < Bound(SumTo[N])
<1> DEFINE L == Bound(SumTo[N])
<1>0. N \in Nat /\ N >= 1 /\ Candidates = 1..N /\ \A n \in 1..N : inflight[n] \in Nat
  BY CandidatesFinite DEF Candidates
<1>1. /\ SumTo \in [0..N -> Nat] /\ SumTo[0] = 0
      /\ \A n \in 1..N : SumTo[n] = SumTo[n - 1] + inflight[n]
  BY <1>0, SumToFacts
<1>2. SumTo[N] \in Nat
  BY <1>0, <1>1
<1>3. L \in Nat /\ N * L >= SumTo[N] + 1
  BY <1>2, BoundFacts
<1> HIDE DEF L
<1> SUFFICES ASSUME \A n \in 1..N : inflight[n] >= L
             PROVE  FALSE
  BY <1>0, <1>3 DEF L
<1> DEFINE G == {n \in 0..N : SumTo[n] >= n * L}
<1>4. 0 \in G
  BY <1>0, <1>1, <1>3
<1>5. ASSUME NEW n \in 0..(N - 1), n \in G
      PROVE  n + 1 \in G
  <2>1. n + 1 \in 1..N /\ n + 1 \in 0..N /\ (n + 1) - 1 = n /\ SumTo[n] \in Nat
    BY <1>0, <1>1
  <2>2. SumTo[n + 1] = SumTo[n] + inflight[n + 1] /\ inflight[n + 1] >= L
    BY <1>1, <2>1
  <2>3. (n + 1) * L = n * L + L
    BY <1>3
  <2>4. SumTo[n] + inflight[n + 1] >= n * L + L
    BY <1>0, <1>3, <1>5, <2>1, <2>2
  <2> QED BY <2>1, <2>2, <2>3, <2>4
<1>6. 0..N \subseteq G
  <2> HIDE DEF G
  <2> QED BY <1>0, <1>4, <1>5, UpTo
<1>7. SumTo[N] >= N * L
  BY <1>0, <1>6
<1> QED BY <1>0, <1>2, <1>3, <1>7

-----------------------------------------------------------------------------
(* The inductive invariant *)

\* The local state of a request, whatever the counters do.
CallOK(c) ==
  \/ c = Done
  \/ /\ c \in [pc : {"sort"}, order : [Candidates -> Candidates],
               next : 2..(N + 1), at : 1..(N + 1)]
     /\ c.at <= c.next /\ (c.next = N + 1 => c.at = N + 1)
     /\ \A b \in Candidates : \E i \in Candidates : c.order[i] = b
  \/ c \in [pc : {"sum"}, prefix : PrefixHashes, total : Nat, next : 1..(N + 1)]
  \/ c \in [pc : {"primary"}, prefix : PrefixHashes, bound : Nat]
  \/ c \in [pc : {"spill"}, prefix : PrefixHashes, bound : Nat, next : 1..(N + 1)]
  \/ /\ c \in [pc : {"placed"}, prefix : PrefixHashes \cup {NoPrefix}, order : Seq(Candidates)]
     /\ Len(c.order) = N /\ ToSet(c.order) = Candidates
  \/ /\ c \in [pc : {"running", "retry"}, order : Seq(Candidates)]
     /\ c.order # <<>>

\* The order of the loads, and of the configuration among equals.
Before(a, b) == inflight[a] < inflight[b] \/ (inflight[a] = inflight[b] /\ a < b)

\* The insertion sort: the first c.next are in order but for the one that is
\* on its way down, which is lighter than those it has passed; the rest is
\* untouched.
SortedSoFar(c) ==
  /\ \A i, j \in Candidates :
       i < j /\ j <= c.next /\ i # c.at /\ j # c.at => Before(c.order[i], c.order[j])
  /\ c.next <= N =>
       /\ c.order[c.at] = c.next
       /\ \A i \in Candidates :
            /\ i > c.next => c.order[i] = i
            /\ i <= c.next /\ i # c.at => c.order[i] < c.next
            /\ c.at < i /\ i <= c.next => inflight[c.next] < inflight[c.order[i]]

\* All before the k-th in rendezvous order are at the bound.
FullBefore(h, k) ==
  \A i \in Candidates : i < k => inflight[Rendezvous(h)[i]] >= Bound(SumTo[N])

\* The local state of a request nobody has disturbed: what it has read is so.
CalmOK(c) ==
  /\ c.pc = "sort" => SortedSoFar(c)
  /\ c.pc = "sum" => c.total = SumTo[c.next - 1]
  /\ c.pc \in {"primary", "spill"} => c.bound = Bound(SumTo[N])
  /\ c.pc = "spill" => FullBefore(c.prefix, c.next)
  /\ c.pc = "placed" /\ c.prefix = NoPrefix =>
       \A i, j \in Candidates : i < j => Before(c.order[i], c.order[j])
  /\ c.pc = "placed" /\ c.prefix # NoPrefix =>
       \E k \in Candidates : /\ c.order[1] = Rendezvous(c.prefix)[k]
                             /\ inflight[c.order[1]] < Bound(SumTo[N])
                             /\ FullBefore(c.prefix, k)

RequestOK(r) == CallOK(call[r]) /\ (calm[r] => CalmOK(call[r]))

\* The requests that hold a load guard on b
Guards(b) == {r \in Requests : call[r].pc = "running" /\ Head(call[r].order) = b}

PlacementInv ==
  /\ inflight \in [Candidates -> Nat] /\ InflightExact
  /\ DOMAIN call = Requests /\ DOMAIN calm = Requests
  /\ \A r \in Requests : RequestOK(r)

-----------------------------------------------------------------------------
(* Steps *)

\* Another request's step: what a calm one has read stays so.
LEMMA OthersKeep ==
  ASSUME NEW q \in Requests, RequestOK(q), call'[q] = call[q],
         call[q].pc \notin {"done", "running"} /\ calm'[q] => calm[q] /\ inflight' = inflight
  PROVE  RequestOK(q)'
<1>1. CASE call[q].pc \in {"done", "running"}
  BY <1>1 DEF RequestOK, CalmOK
<1>2. CASE call[q].pc \notin {"done", "running"} /\ calm'[q]
  <2>1. inflight' = inflight /\ calm[q]
    BY <1>2
  <2>2. SumTo' = SumTo
    BY <2>1 DEF SumTo
  <2>3. \A c : CalmOK(c)' <=> CalmOK(c)
    BY <2>1, <2>2 DEF CalmOK, SortedSoFar, FullBefore, Before
  <2> QED BY <2>1, <2>3 DEF RequestOK
<1>3. CASE ~calm'[q]
  BY <1>3 DEF RequestOK
<1> QED BY <1>1, <1>2, <1>3

\* A step of r that touches no counter, and none is held before or after it.
LEMMA QuietStep ==
  ASSUME PlacementInv, NEW r \in Requests, NEW local, Goes(r, local), UNCHANGED inflight,
         call[r].pc # "running", local.pc # "running",
         \A q \in Requests : q # r => calm'[q] = calm[q],
         DOMAIN calm' = DOMAIN calm,
         CallOK(local), calm'[r] => CalmOK(local)
  PROVE  PlacementInv'
<1>1. /\ call' = [call EXCEPT ![r] = local] /\ DOMAIN call = Requests /\ call'[r] = local
      /\ \A q \in Requests : q # r => call'[q] = call[q]
  BY DEF Goes, PlacementInv
<1>2. \A b : Guards(b)' = Guards(b)
  BY <1>1 DEF Guards
<1>3. InflightExact'
  BY <1>2 DEF PlacementInv, InflightExact, Guards
<1>4. SumTo' = SumTo
  BY DEF SumTo
<1>5. RequestOK(r)'
  <2>1. CalmOK(local)' <=> CalmOK(local)
    BY <1>4 DEF CalmOK, SortedSoFar, FullBefore, Before
  <2> QED BY <1>1, <2>1 DEF RequestOK
<1>6. \A q \in Requests : q # r => RequestOK(q)'
  BY <1>1, OthersKeep DEF PlacementInv
<1> QED BY <1>1, <1>3, <1>5, <1>6 DEF PlacementInv

\* Starting a placement keeps the invariant.
LEMMA RouteKeeps ==
  ASSUME PlacementAssumption, PlacementInv, NEW r \in Requests,
         NEW h \in PrefixHashes \cup {NoPrefix}, Route(r, h)
  PROVE  PlacementInv'
<1>0. /\ N \in Nat /\ N >= 1 /\ Candidates = 1..N /\ inflight \in [Candidates -> Nat]
      /\ NoPrefix \notin PrefixHashes /\ DOMAIN calm = Requests
  BY CandidatesFinite DEF Candidates, PlacementInv, PlacementAssumption
<1>1. /\ call[r].pc = "done" /\ UNCHANGED inflight
      /\ DOMAIN calm' = DOMAIN calm /\ \A q \in Requests : q # r => calm'[q] = calm[q]
  BY <1>0 DEF Route
<1>2. SumTo[0] = 0
  BY <1>0, SumToFacts
<1>3. CASE N = 1
  <2> DEFINE local == [pc |-> "placed", prefix |-> h, order |-> <<1>>]
  <2>1. Goes(r, local)
    BY <1>3 DEF Route, Placed
  <2>2. <<1>> \in Seq(Candidates) /\ Len(<<1>>) = N /\ ToSet(<<1>>) = Candidates
    <3>1. Candidates = {1}
      BY <1>0, <1>3
    <3> QED BY <1>3, <3>1 DEF ToSet
  <2>3. CallOK(local)
    BY <2>2 DEF CallOK
  <2>4. CalmOK(local)
    <3>1. ASSUME h # NoPrefix
          PROVE  Rendezvous(h)[1] = 1 /\ FullBefore(h, 1)
      BY <1>0, <1>3, <3>1, RendezvousFacts DEF FullBefore
    <3>2. inflight[1] < Bound(SumTo[N])
      BY <1>0, <1>3, RoomLeft
    <3>3. 1 \in Candidates /\ \A i, j \in Candidates : ~(i < j)
      BY <1>0, <1>3
    <3>4. local.pc = "placed" /\ local.prefix = h /\ local.order[1] = 1
      OBVIOUS
    <3> HIDE DEF local
    <3> QED BY <3>1, <3>2, <3>3, <3>4 DEF CalmOK
  <2>5. local.pc = "placed"
    OBVIOUS
  <2> HIDE DEF local
  <2> QED BY <1>1, <2>1, <2>3, <2>4, <2>5, QuietStep
<1>4. CASE N # 1 /\ h = NoPrefix
  <2> DEFINE local == [pc |-> "sort", order |-> [i \in Candidates |-> i], next |-> 2, at |-> 2]
  <2>1. Goes(r, local)
    BY <1>4 DEF Route, Sorting
  <2>2. CallOK(local)
    BY <1>0, <1>4 DEF CallOK
  <2>3. CalmOK(local)
    BY <1>0, <1>4 DEF CalmOK, SortedSoFar
  <2>4. local.pc = "sort"
    OBVIOUS
  <2> HIDE DEF local
  <2> QED BY <1>1, <2>1, <2>2, <2>3, <2>4, QuietStep
<1>5. CASE N # 1 /\ h # NoPrefix
  <2> DEFINE local == [pc |-> "sum", prefix |-> h, total |-> 0, next |-> 1]
  <2>1. Goes(r, local)
    BY <1>5 DEF Route, Summing
  <2>2. CallOK(local)
    BY <1>0, <1>5 DEF CallOK
  <2>3. CalmOK(local)
    BY <1>0, <1>2, <1>5 DEF CalmOK
  <2>4. local.pc = "sum"
    OBVIOUS
  <2> HIDE DEF local
  <2> QED BY <1>1, <2>1, <2>2, <2>3, <2>4, QuietStep
<1> QED BY <1>3, <1>4, <1>5

\* The states of a request by its pc.
LEMMA CallCases ==
  ASSUME PlacementInv, NEW r \in Requests
  PROVE  LET c == call[r] IN
         /\ c.pc = "sort" =>
              /\ c \in [pc : {"sort"}, order : [Candidates -> Candidates],
                        next : 2..(N + 1), at : 1..(N + 1)]
              /\ c.at <= c.next /\ (c.next = N + 1 => c.at = N + 1)
              /\ \A b \in Candidates : \E i \in Candidates : c.order[i] = b
         /\ c.pc = "sum" =>
              c \in [pc : {"sum"}, prefix : PrefixHashes, total : Nat, next : 1..(N + 1)]
         /\ c.pc = "primary" => c \in [pc : {"primary"}, prefix : PrefixHashes, bound : Nat]
         /\ c.pc = "spill" =>
              c \in [pc : {"spill"}, prefix : PrefixHashes, bound : Nat, next : 1..(N + 1)]
         /\ c.pc = "placed" =>
              /\ c \in [pc : {"placed"}, prefix : PrefixHashes \cup {NoPrefix},
                        order : Seq(Candidates)]
              /\ Len(c.order) = N /\ ToSet(c.order) = Candidates
         /\ c.pc \in {"running", "retry"} =>
              /\ c \in [pc : {"running", "retry"}, order : Seq(Candidates)]
              /\ c.order # <<>>
         /\ calm[r] => CalmOK(c)
<1> DEFINE c == call[r]
<1>1. CallOK(c) /\ (calm[r] => CalmOK(c))
  BY DEF PlacementInv, RequestOK
<1> HIDE DEF c
<1>2. /\ c.pc = "sort" =>
           /\ c \in [pc : {"sort"}, order : [Candidates -> Candidates],
                     next : 2..(N + 1), at : 1..(N + 1)]
           /\ c.at <= c.next /\ (c.next = N + 1 => c.at = N + 1)
           /\ \A b \in Candidates : \E i \in Candidates : c.order[i] = b
      /\ c.pc = "sum" =>
           c \in [pc : {"sum"}, prefix : PrefixHashes, total : Nat, next : 1..(N + 1)]
      /\ c.pc = "primary" => c \in [pc : {"primary"}, prefix : PrefixHashes, bound : Nat]
      /\ c.pc = "spill" =>
           c \in [pc : {"spill"}, prefix : PrefixHashes, bound : Nat, next : 1..(N + 1)]
  BY <1>1 DEF CallOK, Done
<1>3. /\ c.pc = "placed" =>
           /\ c \in [pc : {"placed"}, prefix : PrefixHashes \cup {NoPrefix},
                     order : Seq(Candidates)]
           /\ Len(c.order) = N /\ ToSet(c.order) = Candidates
      /\ c.pc \in {"running", "retry"} =>
           /\ c \in [pc : {"running", "retry"}, order : Seq(Candidates)]
           /\ c.order # <<>>
  BY <1>1 DEF CallOK, Done
<1> QED BY <1>1, <1>2, <1>3 DEF c

\* Adding one more counter to the total, and computing the bound, keep the invariant.
LEMMA SumKeeps ==
  ASSUME PlacementAssumption, PlacementInv, NEW r \in Requests, SumStep(r)
  PROVE  PlacementInv'
<1> DEFINE c == call[r]
<1>0. /\ N \in Nat /\ N >= 1 /\ Candidates = 1..N /\ inflight \in [Candidates -> Nat]
  BY CandidatesFinite DEF Candidates, PlacementInv
<1>1. /\ c.pc = "sum" /\ UNCHANGED <<inflight, calm>>
      /\ Goes(r, IF c.next <= N
                   THEN Summing(c.prefix, c.total + inflight[c.next], c.next + 1)
                   ELSE [pc |-> "primary", prefix |-> c.prefix, bound |-> Bound(c.total)])
  BY DEF SumStep
<1>2. /\ c \in [pc : {"sum"}, prefix : PrefixHashes, total : Nat, next : 1..(N + 1)]
      /\ calm[r] => c.total = SumTo[c.next - 1]
  BY <1>1, CallCases DEF CalmOK
<1>3. /\ SumTo \in [0..N -> Nat]
      /\ \A n \in 1..N : SumTo[n] = SumTo[n - 1] + inflight[n]
  BY <1>0, SumToFacts
<1> HIDE DEF c
<1>4. CASE c.next <= N
  <2> DEFINE local == [pc |-> "sum", prefix |-> c.prefix, total |-> c.total + inflight[c.next],
                     next |-> c.next + 1]
  <2>1. c.next \in 1..N /\ inflight[c.next] \in Nat
    BY <1>0, <1>2, <1>4
  <2>2. /\ local \in [pc : {"sum"}, prefix : PrefixHashes, total : Nat, next : 1..(N + 1)]
        /\ local.pc = "sum" /\ local.total = c.total + inflight[c.next]
        /\ local.next - 1 = c.next
    <3>1. /\ c.total + inflight[c.next] \in Nat /\ c.next + 1 \in 1..(N + 1)
          /\ (c.next + 1) - 1 = c.next
      BY <1>0, <1>2, <2>1
    <3> QED BY <1>2, <3>1
  <2>3. Goes(r, local)
    BY <1>1, <1>4 DEF Summing
  <2> HIDE DEF local
  <2>4. CallOK(local)
    BY <2>2 DEF CallOK
  <2>5. calm[r] => CalmOK(local)
    BY <1>2, <1>3, <2>1, <2>2 DEF CalmOK
  <2> QED BY <1>1, <2>2, <2>3, <2>4, <2>5, QuietStep DEF c
<1>5. CASE ~(c.next <= N)
  <2> DEFINE local == [pc |-> "primary", prefix |-> c.prefix, bound |-> Bound(c.total)]
  <2>1. c.next - 1 = N
    BY <1>0, <1>2, <1>5
  <2>2. Bound(c.total) \in Nat
    BY <1>2, BoundFacts
  <2>3. Goes(r, local) /\ local.pc = "primary" /\ local.bound = Bound(c.total)
    BY <1>1, <1>5
  <2>4. CallOK(local)
    BY <1>2, <2>2 DEF CallOK
  <2> HIDE DEF local
  <2>5. calm[r] => CalmOK(local)
    BY <1>2, <2>1, <2>3 DEF CalmOK
  <2> QED BY <1>1, <2>3, <2>4, <2>5, QuietStep DEF c
<1> QED BY <1>4, <1>5

\* The tail of ordered_candidates: r is placed on the k-th in rendezvous order.
LEMMA PlacedOn ==
  ASSUME PlacementAssumption, PlacementInv, NEW r \in Requests, NEW h \in PrefixHashes,
         NEW k \in Candidates, call[r].pc # "running", UNCHANGED <<inflight, calm>>,
         Placed(r, h, Order(h, k)),
         calm[r] => inflight[Rendezvous(h)[k]] < Bound(SumTo[N]) /\ FullBefore(h, k)
  PROVE  PlacementInv'
<1> DEFINE order == Order(h, k)
           local == [pc |-> "placed", prefix |-> h, order |-> order]
<1>1. /\ order \in Seq(Candidates) /\ Len(order) = N
      /\ order[1] = Rendezvous(h)[k] /\ ToSet(order) = Candidates
  BY OrderFacts
<1>2. Goes(r, local)
  BY DEF Placed
<1> HIDE DEF order
<1>3. local.pc = "placed" /\ local.prefix = h /\ local.order = order
  OBVIOUS
<1>4. CallOK(local)
  BY <1>1 DEF CallOK
<1> HIDE DEF local
<1>5. calm[r] => CalmOK(local)
  <2>1. h # NoPrefix
    BY DEF PlacementAssumption
  <2> QED BY <1>1, <1>3, <2>1 DEF CalmOK
<1> QED BY <1>2, <1>3, <1>4, <1>5, QuietStep

\* Taking the primary, or starting the scan, keeps the invariant.
LEMMA PrimaryKeeps ==
  ASSUME PlacementAssumption, PlacementInv, NEW r \in Requests, TryPrimary(r)
  PROVE  PlacementInv'
<1> DEFINE c == call[r]
<1>0. N \in Nat /\ N >= 1 /\ Candidates = 1..N /\ 1 \in Candidates
  BY CandidatesFinite DEF Candidates
<1>1. /\ c.pc = "primary" /\ UNCHANGED <<inflight, calm>>
      /\ IF inflight[Rendezvous(c.prefix)[1]] < c.bound
           THEN Placed(r, c.prefix, Order(c.prefix, 1))
           ELSE Goes(r, [pc |-> "spill", prefix |-> c.prefix, bound |-> c.bound, next |-> 1])
  BY DEF TryPrimary
<1>2. /\ c \in [pc : {"primary"}, prefix : PrefixHashes, bound : Nat]
      /\ calm[r] => c.bound = Bound(SumTo[N])
  BY <1>1, CallCases DEF CalmOK
<1>3. FullBefore(c.prefix, 1)
  BY <1>0 DEF FullBefore
<1>4. c.prefix \in PrefixHashes /\ c.bound \in Nat
  BY <1>2
<1>5. CASE inflight[Rendezvous(c.prefix)[1]] < c.bound
  BY <1>0, <1>1, <1>2, <1>3, <1>4, <1>5, PlacedOn
<1>6. CASE ~(inflight[Rendezvous(c.prefix)[1]] < c.bound)
  <2> DEFINE local == [pc |-> "spill", prefix |-> c.prefix, bound |-> c.bound, next |-> 1]
  <2>1. Goes(r, local)
    BY <1>1, <1>6
  <2>2. CallOK(local)
    BY <1>0, <1>4 DEF CallOK
  <2>3. /\ local.pc = "spill" /\ local.prefix = c.prefix /\ local.bound = c.bound
        /\ local.next = 1
    OBVIOUS
  <2> HIDE DEF local
  <2>4. calm[r] => CalmOK(local)
    BY <1>2, <1>3, <2>3 DEF CalmOK
  <2> QED BY <1>1, <2>1, <2>2, <2>3, <2>4, QuietStep
<1> QED BY <1>5, <1>6

\* Looking at one more backend in rendezvous order keeps the invariant; an undisturbed
\* scan always finds one under the bound, for the counters cannot all reach it.
LEMMA SpillKeeps ==
  ASSUME PlacementAssumption, PlacementInv, NEW r \in Requests, SpillStep(r)
  PROVE  PlacementInv'
<1> DEFINE c == call[r]
           scored == Rendezvous(c.prefix)
<1>0. /\ N \in Nat /\ N >= 1 /\ Candidates = 1..N /\ 1 \in Candidates
      /\ inflight \in [Candidates -> Nat]
  BY CandidatesFinite DEF Candidates, PlacementInv
<1>1. /\ c.pc = "spill" /\ UNCHANGED <<inflight, calm>>
      /\ IF c.next > N THEN Placed(r, c.prefix, Order(c.prefix, 1))
         ELSE IF inflight[scored[c.next]] < c.bound
           THEN Placed(r, c.prefix, Order(c.prefix, c.next))
           ELSE Goes(r, [c EXCEPT !.next = @ + 1])
  BY DEF SpillStep
<1>2. /\ c \in [pc : {"spill"}, prefix : PrefixHashes, bound : Nat, next : 1..(N + 1)]
      /\ calm[r] => c.bound = Bound(SumTo[N]) /\ FullBefore(c.prefix, c.next)
  BY <1>1, CallCases DEF CalmOK
<1>3. /\ c.prefix \in PrefixHashes /\ c.bound \in Nat /\ c.next \in 1..(N + 1)
      /\ scored \in [Candidates -> Candidates]
      /\ \A b \in Candidates : \E i \in Candidates : scored[i] = b
  BY <1>2, RendezvousFacts
<1> DEFINE n == c.next
<1>7. n \in 1..(N + 1)
  BY <1>3
<1> HIDE DEF n
<1>4. CASE c.next > N
  <2>1. ASSUME calm[r]
        PROVE  FALSE
    <3>1. PICK b \in Candidates : inflight[b] < Bound(SumTo[N])
      BY <1>0, RoomLeft
    <3>2. PICK i \in Candidates : scored[i] = b
      BY <1>3
    <3>3. i < c.next
      <4>1. n > N
        BY <1>4 DEF n
      <4>2. i < n
        BY <1>0, <1>7, <4>1
      <4> QED BY <4>2 DEF n
    <3>4. inflight[b] >= Bound(SumTo[N])
      BY <1>2, <2>1, <3>2, <3>3 DEF FullBefore
    <3>5. Bound(SumTo[N]) \in Nat /\ inflight[b] \in Nat
      BY <1>0, <1>2, <2>1
    <3> QED BY <3>1, <3>4, <3>5
  <2> QED BY <1>0, <1>1, <1>3, <1>4, <2>1, PlacedOn
<1>5. CASE ~(c.next > N) /\ inflight[scored[c.next]] < c.bound
  <2>1. n \in Candidates
    <3>1. ~(n > N)
      BY <1>5 DEF n
    <3> QED BY <1>0, <1>7, <3>1
  <2> QED BY <1>1, <1>2, <1>3, <1>5, <2>1, PlacedOn DEF n
<1>6. CASE ~(c.next > N) /\ ~(inflight[scored[c.next]] < c.bound)
  <2> DEFINE local == [c EXCEPT !.next = @ + 1]
  <2>1. /\ c.next \in Candidates /\ c.next + 1 \in 1..(N + 1) /\ Goes(r, local)
        /\ \A i \in Candidates : i < c.next + 1 => i < c.next \/ i = c.next
    <3>1. ~(n > N)
      BY <1>6 DEF n
    <3>2. /\ n \in Candidates /\ n + 1 \in 1..(N + 1)
          /\ \A i \in Candidates : i < n + 1 => i < n \/ i = n
      BY <1>0, <1>7, <3>1
    <3> QED BY <1>1, <1>6, <3>2 DEF n
  <2>2. local = [pc |-> "spill", prefix |-> c.prefix, bound |-> c.bound, next |-> c.next + 1]
    BY <1>2
  <2>3. calm[r] => FullBefore(c.prefix, c.next + 1)
    <3> SUFFICES ASSUME calm[r], NEW i \in Candidates, i < c.next + 1
                 PROVE  inflight[scored[i]] >= Bound(SumTo[N])
      BY DEF FullBefore
    <3>1. inflight[scored[c.next]] \in Nat /\ c.bound = Bound(SumTo[N])
      BY <1>0, <1>2, <1>3, <2>1
    <3>2. inflight[scored[c.next]] >= c.bound
      BY <1>3, <1>6, <3>1
    <3> QED BY <1>2, <2>1, <3>1, <3>2 DEF FullBefore
  <2> HIDE DEF local
  <2>4. CallOK(local)
    BY <1>3, <2>1, <2>2 DEF CallOK
  <2>5. /\ local.pc = "spill" /\ local.prefix = c.prefix /\ local.bound = c.bound
        /\ local.next = c.next + 1
    BY <2>2
  <2>6. calm[r] => CalmOK(local)
    BY <1>2, <2>3, <2>5 DEF CalmOK
  <2> QED BY <1>1, <2>1, <2>4, <2>5, <2>6, QuietStep
<1> QED BY <1>4, <1>5, <1>6

\* sort_by_key of strategy_placement, comparison by comparison
LEMMA SortKeeps ==
  ASSUME PlacementAssumption, PlacementInv, NEW r \in Requests, SortStep(r)
  PROVE  PlacementInv'
<1> DEFINE c == call[r]
           o == c.order
           n == c.next
           a == c.at
<1>0. /\ N \in Nat /\ N >= 1 /\ Candidates = 1..N /\ inflight \in [Candidates -> Nat]
  BY CandidatesFinite DEF Candidates, PlacementInv
<1>1. /\ c.pc = "sort" /\ n <= N /\ UNCHANGED <<inflight, calm>>
      /\ IF a > 1 /\ inflight[o[a]] < inflight[o[a - 1]]
           THEN Goes(r, [pc |-> "sort", order |-> Exchange(o, a), next |-> n, at |-> a - 1])
           ELSE Goes(r, [pc |-> "sort", order |-> o, next |-> n + 1, at |-> n + 1])
  BY DEF SortStep, Sorting
<1>2. /\ c \in [pc : {"sort"}, order : [Candidates -> Candidates],
                next : 2..(N + 1), at : 1..(N + 1)]
      /\ a <= n
      /\ \A b \in Candidates : \E i \in Candidates : o[i] = b
      /\ calm[r] => SortedSoFar(c)
  BY <1>1, CallCases DEF CalmOK
<1>3. /\ o \in [Candidates -> Candidates] /\ n \in 2..(N + 1) /\ a \in 1..(N + 1)
  BY <1>2
<1>4. calm[r] =>
        /\ \A i, j \in Candidates :
             i < j /\ j <= n /\ i # a /\ j # a => Before(o[i], o[j])
        /\ o[a] = n
        /\ \A i \in Candidates :
             /\ i > n => o[i] = i
             /\ i <= n /\ i # a => o[i] < n
             /\ a < i /\ i <= n => inflight[n] < inflight[o[i]]
  BY <1>1, <1>2 DEF SortedSoFar
<1>5. call[r].pc # "running"
  BY <1>1
<1> HIDE DEF o, n, a, c
<1>6. a \in Candidates /\ n \in Candidates /\ n \in 2..N /\ a <= n
  BY <1>0, <1>1, <1>2, <1>3
<1>9. \A i \in Candidates : o[i] \in Candidates /\ o[i] \in Nat /\ inflight[o[i]] \in Nat
  <2> SUFFICES ASSUME NEW i \in Candidates
               PROVE  o[i] \in Candidates /\ o[i] \in Nat /\ inflight[o[i]] \in Nat
    OBVIOUS
  <2>1. o[i] \in Candidates
    BY <1>3
  <2> DEFINE b == o[i]
  <2> HIDE DEF b
  <2>2. b \in Candidates
    BY <2>1 DEF b
  <2>3. b \in Nat /\ inflight[b] \in Nat
    BY <1>0, <2>2
  <2> QED BY <2>2, <2>3 DEF b
<1>7. CASE a > 1 /\ inflight[o[a]] < inflight[o[a - 1]]
  <2> DEFINE x == Exchange(o, a)
             local == [pc |-> "sort", order |-> x, next |-> n, at |-> a - 1]
  <2>1. a - 1 \in Candidates /\ a - 1 # a /\ a - 1 \in 1..(N + 1) /\ a - 1 <= n /\ n # N + 1
    BY <1>0, <1>6, <1>7
  <2>2. /\ x \in [Candidates -> Candidates] /\ x[a] = o[a - 1] /\ x[a - 1] = o[a]
        /\ \A i \in Candidates : i # a /\ i # a - 1 => x[i] = o[i]
    BY <1>3, <1>6, <2>1 DEF Exchange
  <2>3. Goes(r, local)
    BY <1>1, <1>7
  <2> HIDE DEF x
  <2>4. \A b \in Candidates : \E i \in Candidates : x[i] = b
    <3> SUFFICES ASSUME NEW b \in Candidates PROVE \E i \in Candidates : x[i] = b
      OBVIOUS
    <3>1. PICK i \in Candidates : o[i] = b
      BY <1>2
    <3> QED BY <1>6, <2>1, <2>2, <3>1
  <2>5. CallOK(local)
    <3>1. /\ local \in [pc : {"sort"}, order : [Candidates -> Candidates],
                        next : 2..(N + 1), at : 1..(N + 1)]
          /\ local.order = x /\ local.next = n /\ local.at = a - 1
      BY <1>3, <2>1, <2>2
    <3> HIDE DEF local
    <3> QED BY <2>1, <2>4, <3>1 DEF CallOK
  <2>6. ASSUME calm[r]
        PROVE  SortedSoFar(local)
    <3>0. local.order = x /\ local.next = n /\ local.at = a - 1
      OBVIOUS
    <3> HIDE DEF local
    <3>1. ASSUME NEW i \in Candidates, NEW j \in Candidates, i < j, j <= n, i # a - 1, j # a - 1
          PROVE  Before(x[i], x[j])
      <4>1. CASE i = a
        <5>1. j # a /\ a - 1 < j /\ a - 1 # a
          BY <1>0, <1>6, <3>1, <4>1
        <5> QED BY <1>4, <2>1, <2>2, <2>6, <3>1, <4>1, <5>1
      <4>2. CASE j = a
        <5>1. i # a /\ i < a - 1 /\ a - 1 <= n
          BY <1>0, <1>6, <3>1, <4>2
        <5> QED BY <1>4, <2>1, <2>2, <2>6, <3>1, <4>2, <5>1
      <4>3. CASE i # a /\ j # a
        BY <1>4, <2>2, <2>6, <3>1, <4>3
      <4> QED BY <4>1, <4>2, <4>3
    <3>2. x[a - 1] = n
      BY <1>4, <2>2, <2>6
    <3>3. ASSUME NEW i \in Candidates
          PROVE  /\ i > n => x[i] = i
                 /\ i <= n /\ i # a - 1 => x[i] < n
                 /\ a - 1 < i /\ i <= n => inflight[n] < inflight[x[i]]
      <4>1. CASE i = a
        <5>1. ~(i > n) /\ a - 1 <= n
          BY <1>0, <1>6, <4>1
        <5> QED BY <1>4, <1>7, <2>1, <2>2, <2>6, <4>1, <5>1
      <4>2. CASE i = a - 1
        BY <1>0, <1>6, <4>2
      <4>3. CASE i # a /\ i # a - 1
        <5>1. a - 1 < i => a < i
          BY <1>0, <1>6, <4>3
        <5> QED BY <1>4, <2>2, <2>6, <4>3, <5>1
      <4> QED BY <4>1, <4>2, <4>3
    <3> QED BY <3>0, <3>1, <3>2, <3>3 DEF SortedSoFar
  <2>7. local.pc = "sort"
    OBVIOUS
  <2> HIDE DEF local
  <2>8. calm[r] => CalmOK(local)
    BY <2>6, <2>7 DEF CalmOK
  <2> QED BY <1>1, <1>5, <2>3, <2>5, <2>7, <2>8, QuietStep
<1>8. CASE ~(a > 1 /\ inflight[o[a]] < inflight[o[a - 1]])
  <2> DEFINE m == n + 1
             local == [pc |-> "sort", order |-> o, next |-> m, at |-> m]
  <2>1. m \in 2..(N + 1) /\ m \in 1..(N + 1) /\ m = n + 1
    BY <1>0, <1>6
  <2>2. Goes(r, local)
    BY <1>1, <1>8
  <2> HIDE DEF m
  <2>3. CallOK(local)
    <3>1. /\ local \in [pc : {"sort"}, order : [Candidates -> Candidates],
                        next : 2..(N + 1), at : 1..(N + 1)]
          /\ local.order = o /\ local.next = m /\ local.at = m
      BY <1>3, <2>1
    <3> HIDE DEF local
    <3> QED BY <1>2, <2>1, <3>1 DEF CallOK
  <2>4. ASSUME calm[r]
        PROVE  SortedSoFar(local)
    <3>0. local.order = o /\ local.next = m /\ local.at = m
      OBVIOUS
    <3> HIDE DEF local
    <3>1. ASSUME NEW i \in Candidates, NEW j \in Candidates, i < j, j <= n
          PROVE  Before(o[i], o[j])
      <4>0. /\ inflight[o[i]] \in Nat /\ inflight[o[j]] \in Nat /\ o[i] \in Nat /\ o[j] \in Nat
        BY <1>9
      <4>1. CASE i = a
        BY <1>4, <2>4, <3>1, <4>1 DEF Before
      <4>2. CASE j = a
        <5>1. a > 1 /\ a - 1 \in Candidates /\ a - 1 # a /\ i <= n /\ i # a
          BY <1>0, <1>6, <3>1, <4>2
        <5>2. inflight[o[a]] >= inflight[o[a - 1]] /\ inflight[o[a - 1]] \in Nat
          BY <1>6, <1>8, <1>9, <5>1
        <5>3. inflight[o[i]] <= inflight[o[a - 1]]
          <6>1. CASE i = a - 1
            BY <6>1, <4>0
          <6>2. CASE i # a - 1
            <7>1. i < a - 1 /\ a - 1 <= n
              BY <1>0, <1>6, <3>1, <4>2, <6>2
            <7>2. Before(o[i], o[a - 1])
              BY <1>4, <2>4, <5>1, <7>1
            <7> QED BY <4>0, <5>2, <7>2 DEF Before
          <6> QED BY <6>1, <6>2
        <5>4. o[i] < n /\ o[a] = n
          BY <1>4, <2>4, <5>1
        <5>5. inflight[o[i]] <= inflight[o[j]]
          BY <4>0, <4>2, <5>2, <5>3
        <5> QED BY <4>0, <4>2, <5>4, <5>5 DEF Before
      <4>3. CASE i # a /\ j # a
        BY <1>4, <2>4, <3>1, <4>3
      <4> QED BY <4>1, <4>2, <4>3
    <3>2. \A i, j \in Candidates : i < j /\ j <= m /\ i # m /\ j # m => Before(o[i], o[j])
      <4>1. \A j \in Candidates : j <= m /\ j # m => j <= n
        BY <1>0, <1>6, <2>1
      <4> QED BY <3>1, <4>1
    <3>3. ASSUME m <= N
          PROVE  /\ o[m] = m
                 /\ \A i \in Candidates : /\ i > m => o[i] = i
                                          /\ i <= m /\ i # m => o[i] < m
                                          /\ ~(m < i /\ i <= m)
      <4>1. m \in Candidates /\ m > n
        BY <1>0, <1>6, <2>1, <3>3
      <4>2. o[m] = m
        BY <1>4, <2>4, <4>1
      <4>3. ASSUME NEW i \in Candidates
            PROVE  /\ i > m => i > n
                   /\ i <= m /\ i # m => i <= n
                   /\ ~(m < i /\ i <= m)
        BY <1>0, <1>6, <2>1
      <4>4. ASSUME NEW i \in Candidates, i <= n
            PROVE  o[i] < m
        <5>1. o[i] \in Nat /\ (o[i] < n \/ o[i] = n)
          BY <1>4, <1>9, <2>4, <4>4
        <5> QED BY <1>0, <1>6, <2>1, <5>1
      <4> QED BY <1>4, <2>4, <4>2, <4>3, <4>4
    <3> QED BY <3>0, <3>2, <3>3 DEF SortedSoFar
  <2>5. local.pc = "sort"
    OBVIOUS
  <2> HIDE DEF local
  <2>6. calm[r] => CalmOK(local)
    BY <2>4, <2>5 DEF CalmOK
  <2> QED BY <1>1, <1>5, <2>2, <2>3, <2>5, <2>6, QuietStep
<1> QED BY <1>7, <1>8

\* Ending the sort keeps the invariant.
LEMMA SortEndKeeps ==
  ASSUME PlacementAssumption, PlacementInv, NEW r \in Requests, SortEnd(r)
  PROVE  PlacementInv'
<1> DEFINE c == call[r]
           o == c.order
           local == [pc |-> "placed", prefix |-> NoPrefix, order |-> o]
<1>0. N \in Nat /\ Candidates = 1..N
  BY CandidatesFinite DEF Candidates
<1>1. c.pc = "sort" /\ c.next > N /\ UNCHANGED <<inflight, calm>> /\ Goes(r, local)
  BY DEF SortEnd, Placed
<1>2. /\ c \in [pc : {"sort"}, order : [Candidates -> Candidates],
                next : 2..(N + 1), at : 1..(N + 1)]
      /\ c.next = N + 1 => c.at = N + 1
      /\ \A b \in Candidates : \E i \in Candidates : o[i] = b
      /\ calm[r] => SortedSoFar(c)
  BY <1>1, CallCases DEF CalmOK
<1>3. o \in [Candidates -> Candidates] /\ c.next \in 2..(N + 1)
  BY <1>2
<1>4. c.next = N + 1 /\ c.at = N + 1
  <2> DEFINE n == c.next
  <2>1. n \in 2..(N + 1) /\ n > N
    BY <1>1, <1>3
  <2> HIDE DEF n
  <2>2. n = N + 1
    BY <1>0, <2>1
  <2> QED BY <1>2, <2>2 DEF n
<1>5. calm[r] => \A i, j \in Candidates : i < j => Before(o[i], o[j])
  <2>1. \A i \in Candidates : i <= c.next /\ i # c.at
    BY <1>0, <1>4
  <2> QED BY <1>2, <2>1 DEF SortedSoFar
<1>6. call[r].pc # "running"
  BY <1>1
<1> HIDE DEF o, c
<1>7. o \in Seq(Candidates) /\ Len(o) = N
  <2> DEFINE S == Candidates
  <2>1. o \in [1..N -> S]
    BY <1>0, <1>3
  <2> HIDE DEF S
  <2>2. o \in Seq(S) /\ Len(o) = N
    BY <1>0, <2>1, FunctionIsSeq
  <2> QED BY <2>2 DEF S
<1>8. ToSet(o) = Candidates
  BY <1>2, <1>3 DEF ToSet
<1>9. CallOK(local)
  BY <1>7, <1>8 DEF CallOK
<1>10. local.pc = "placed" /\ local.prefix = NoPrefix /\ local.order = o
  OBVIOUS
<1> HIDE DEF local
<1>11. calm[r] => CalmOK(local)
  BY <1>5, <1>10 DEF CalmOK
<1> QED BY <1>1, <1>6, <1>9, <1>10, <1>11, QuietStep

\* The guards on a backend can be counted.
LEMMA GuardsFinite ==
  ASSUME PlacementAssumption, NEW b
  PROVE  IsFiniteSet(Guards(b)) /\ Cardinality(Guards(b)) \in Nat
<1>1. Guards(b) \in SUBSET Requests
  BY DEF Guards
<1> QED BY <1>1, FS_Subset, FS_CardinalityType DEF PlacementAssumption

\* begin_load and the drop of the guard disturb whoever is being placed.
LEMMA DisturbKeeps ==
  ASSUME PlacementInv, NEW r \in Requests, NEW local, Goes(r, local), Disturb,
         CallOK(local), local.pc \in {"running", "done", "retry"}
  PROVE  /\ DOMAIN call' = Requests /\ DOMAIN calm' = Requests
         /\ \A q \in Requests : RequestOK(q)'
<1>1. /\ call' = [call EXCEPT ![r] = local] /\ DOMAIN call = Requests /\ call'[r] = local
      /\ \A q \in Requests : q # r => call'[q] = call[q]
  BY DEF Goes, PlacementInv
<1>2. /\ DOMAIN calm' = Requests
      /\ \A q \in Requests : call[q].pc \notin {"done", "running"} => ~calm'[q]
  BY DEF Disturb, Placing
<1>3. RequestOK(r)'
  BY <1>1 DEF RequestOK, CalmOK
<1>4. \A q \in Requests : q # r => RequestOK(q)'
  BY <1>1, <1>2, OthersKeep DEF PlacementInv
<1> QED BY <1>1, <1>2, <1>3, <1>4

\* Taking a load guard keeps the invariant; it disturbs the placements under way.
LEMMA BeginLoadKeeps ==
  ASSUME PlacementAssumption, PlacementInv, NEW r \in Requests, BeginLoad(r)
  PROVE  PlacementInv'
<1> DEFINE c == call[r]
           local == [pc |-> "running", order |-> c.order]
<1>1. /\ c.pc \in {"placed", "retry"}
      /\ inflight' = [inflight EXCEPT ![Head(c.order)] = @ + 1]
      /\ Goes(r, local) /\ Disturb
  BY DEF BeginLoad
<1>2. c.order \in Seq(Candidates) /\ c.order # <<>>
  <2>1. CASE c.pc = "retry"
    BY <2>1, CallCases
  <2>2. CASE c.pc = "placed"
    <3>1. c.order \in Seq(Candidates) /\ Len(c.order) = N /\ N >= 1 /\ N \in Nat
      BY <2>2, CallCases, CandidatesFinite
    <3> QED BY <3>1
  <2> QED BY <1>1, <2>1, <2>2
<1>3. PICK b \in Candidates : b = Head(c.order)
  BY <1>2, HeadTailProperties
<1>4. CallOK(local)
  BY <1>2 DEF CallOK
<1>5. inflight \in [Candidates -> Nat] /\ InflightExact /\ DOMAIN call = Requests
  BY DEF PlacementInv
<1>6. /\ r \notin Guards(b) /\ Guards(b)' = Guards(b) \cup {r}
      /\ \A d : d # b => Guards(d)' = Guards(d)
  BY <1>1, <1>3, <1>5 DEF Guards, Goes
<1>7. Cardinality(Guards(b) \cup {r}) = Cardinality(Guards(b)) + 1
  BY <1>6, GuardsFinite, FS_AddElement
<1>8. \A d \in Candidates : inflight[d] = Cardinality(Guards(d))
  BY <1>5 DEF InflightExact, Guards
<1>9. /\ inflight' \in [Candidates -> Nat] /\ inflight'[b] = inflight[b] + 1
      /\ \A d \in Candidates : d # b => inflight'[d] = inflight[d]
  BY <1>1, <1>3, <1>5
<1>10. local.pc = "running"
  OBVIOUS
<1> HIDE DEF c, local
<1>11. \A d \in Candidates : inflight'[d] = Cardinality(Guards(d)')
  <2> SUFFICES ASSUME NEW d \in Candidates PROVE inflight'[d] = Cardinality(Guards(d)')
    OBVIOUS
  <2>1. CASE d = b
    BY <1>6, <1>7, <1>8, <1>9, <2>1
  <2>2. CASE d # b
    BY <1>6, <1>8, <1>9, <2>2
  <2> QED BY <2>1, <2>2
<1>12. InflightExact'
  BY <1>11 DEF InflightExact, Guards
<1> QED BY <1>1, <1>4, <1>9, <1>10, <1>12, DisturbKeeps DEF PlacementInv

\* A sequence that still has an element is not the empty one.
LEMMA LongNotEmpty ==
  ASSUME NEW S, NEW t \in Seq(S), Len(t) >= 1
  PROVE  t # <<>>
<1> QED BY EmptySeq

\* Dropping a load guard keeps the invariant: the counter was at least one.
LEMMA DropLoadKeeps ==
  ASSUME PlacementAssumption, PlacementInv, NEW r \in Requests, DropLoad(r)
  PROVE  PlacementInv'
<1> DEFINE c == call[r]
           retry == [pc |-> "retry", order |-> Tail(c.order)]
<1>1. /\ c.pc = "running" /\ inflight' = [inflight EXCEPT ![Head(c.order)] = @ - 1] /\ Disturb
      /\ Goes(r, Done) \/ (Len(c.order) > 1 /\ Goes(r, retry))
  BY DEF DropLoad
<1>2. c.order \in Seq(Candidates) /\ c.order # <<>>
  BY <1>1, CallCases
<1>3. PICK b \in Candidates : b = Head(c.order)
  BY <1>2, HeadTailProperties
<1>4. \E local : Goes(r, local) /\ CallOK(local) /\ local.pc \in {"done", "retry"}
  <2>1. CASE Goes(r, Done)
    <3>1. CallOK(Done) /\ Done.pc = "done"
      BY DEF CallOK, Done
    <3> QED BY <2>1, <3>1
  <2>2. CASE Len(c.order) > 1 /\ Goes(r, retry)
    <3> DEFINE o == c.order
    <3>1. o \in Seq(Candidates) /\ o # <<>> /\ Len(o) > 1
      BY <1>2, <2>2
    <3> HIDE DEF o
    <3>2. Tail(o) \in Seq(Candidates) /\ Len(Tail(o)) = Len(o) - 1 /\ Len(o) \in Nat
      BY <3>1, HeadTailProperties, LenProperties
    <3>3. Len(Tail(o)) >= 1
      BY <3>1, <3>2
    <3>4. Tail(o) # <<>>
      BY <3>2, <3>3, LongNotEmpty
    <3>5. CallOK(retry) /\ retry.pc = "retry"
      BY <3>2, <3>4 DEF CallOK, o
    <3> QED BY <2>2, <3>5
  <2> QED BY <1>1, <2>1, <2>2
<1>5. PICK local : Goes(r, local) /\ CallOK(local) /\ local.pc \in {"done", "retry"}
  BY <1>4
<1>6. inflight \in [Candidates -> Nat] /\ InflightExact /\ DOMAIN call = Requests
  BY DEF PlacementInv
<1>7. /\ r \in Guards(b) /\ Guards(b)' = Guards(b) \ {r}
      /\ \A d : d # b => Guards(d)' = Guards(d)
  <2>1. /\ call'[r].pc # "running" /\ call' = [call EXCEPT ![r] = local]
        /\ \A q \in Requests : q # r => call'[q] = call[q]
    BY <1>5, <1>6 DEF Goes
  <2> QED BY <1>1, <1>3, <2>1 DEF Guards
<1>8. /\ Cardinality(Guards(b) \ {r}) = Cardinality(Guards(b)) - 1
      /\ Cardinality(Guards(b) \ {r}) \in Nat
  BY <1>7, GuardsFinite, FS_RemoveElement, FS_CardinalityType
<1>9. \A d \in Candidates : inflight[d] = Cardinality(Guards(d))
  BY <1>6 DEF InflightExact, Guards
<1>10. /\ inflight' \in [Candidates -> Nat] /\ inflight'[b] = inflight[b] - 1
       /\ \A d \in Candidates : d # b => inflight'[d] = inflight[d]
  <2>1. inflight[b] - 1 \in Nat
    BY <1>8, <1>9
  <2>2. inflight' = [inflight EXCEPT ![b] = inflight[b] - 1]
    BY <1>1, <1>3
  <2> HIDE DEF c
  <2> QED BY <1>6, <2>1, <2>2
<1> HIDE DEF c, retry
<1>11. \A d \in Candidates : inflight'[d] = Cardinality(Guards(d)')
  <2> SUFFICES ASSUME NEW d \in Candidates PROVE inflight'[d] = Cardinality(Guards(d)')
    OBVIOUS
  <2>1. CASE d = b
    BY <1>7, <1>8, <1>9, <1>10, <2>1
  <2>2. CASE d # b
    BY <1>7, <1>9, <1>10, <2>2
  <2> QED BY <2>1, <2>2
<1>12. InflightExact'
  BY <1>11 DEF InflightExact, Guards
<1> QED BY <1>1, <1>5, <1>10, <1>12, DisturbKeeps DEF PlacementInv

-----------------------------------------------------------------------------
(* The theorems *)

\* Initially nothing is placed and every counter is zero.
LEMMA PlacementStart ==
  ASSUME PlacementAssumption
  PROVE  Init => PlacementInv
<1> SUFFICES ASSUME Init PROVE PlacementInv
  OBVIOUS
<1>1. inflight \in [Candidates -> Nat] /\ DOMAIN call = Requests /\ DOMAIN calm = Requests
  BY DEF Init
<1>2. \A r \in Requests : call[r] = Done /\ call[r].pc = "done"
  BY DEF Init, Done
<1>3. \A b : Guards(b) = {}
  BY <1>2 DEF Guards
<1>4. InflightExact
  BY <1>3, FS_EmptySet DEF Init, InflightExact, Guards
<1>5. \A r \in Requests : RequestOK(r)
  BY <1>2 DEF RequestOK, CallOK, CalmOK
<1> QED BY <1>1, <1>4, <1>5 DEF PlacementInv

\* Every step keeps the invariant.
LEMMA PlacementStep ==
  ASSUME PlacementAssumption
  PROVE  PlacementInv /\ [Next]_vars => PlacementInv'
<1> SUFFICES ASSUME PlacementInv, [Next]_vars PROVE PlacementInv'
  OBVIOUS
<1>1. CASE Next
  <2>1. PICK r \in Requests :
          \/ \E h \in PrefixHashes \cup {NoPrefix} : Route(r, h)
          \/ SortStep(r) \/ SortEnd(r)
          \/ SumStep(r) \/ TryPrimary(r) \/ SpillStep(r)
          \/ BeginLoad(r) \/ DropLoad(r)
    BY <1>1 DEF Next
  <2> QED BY <2>1, RouteKeeps, SortKeeps, SortEndKeeps, SumKeeps, PrimaryKeeps, SpillKeeps,
             BeginLoadKeeps, DropLoadKeeps
<1>2. CASE UNCHANGED vars
  <2>1. inflight' = inflight /\ call' = call /\ calm' = calm
    BY <1>2 DEF vars
  <2>2. InflightExact'
    BY <2>1 DEF PlacementInv, InflightExact
  <2>3. \A q \in Requests : RequestOK(q)'
    BY <2>1, OthersKeep DEF PlacementInv
  <2> QED BY <2>1, <2>2, <2>3 DEF PlacementInv
<1> QED BY <1>1, <1>2

\* Whatever the counters do meanwhile, a placement's locals are sound, and as
\* long as nobody changes a counter what it has read still holds
\* (strategy_placement, ordered_candidates, spill_target, begin_load).
THEOREM PlacementInvariant ==
  ASSUME PlacementAssumption
  PROVE  Spec => []PlacementInv
<1> QED BY PlacementStart, PlacementStep, PTL DEF Spec

\* Failover can reach every candidate and none twice, however the counters
\* move during the sort or the scan (ordered_candidates, strategy_placement).
THEOREM CandidatesOnce ==
  ASSUME PlacementAssumption
  PROVE  Spec => []EveryCandidateOnce
<1>1. PlacementInv => EveryCandidateOnce
  <2> SUFFICES ASSUME PlacementInv, NEW r \in Requests, call[r].pc = "placed"
               PROVE  Len(call[r].order) = N /\ ToSet(call[r].order) = Candidates
    BY DEF EveryCandidateOnce
  <2> QED BY CallCases
<1> QED BY <1>1, PlacementInvariant, PTL

\* The counters are exact, and a placement nobody disturbs starts with the
\* least-loaded backend or, with a prefix, with the first in rendezvous order
\* under the bound, which always exists (ordered_candidates, begin_load).
THEOREM PlacementIsRight ==
  ASSUME PlacementAssumption
  PROVE  Spec => []RightBackendFirst
<1>1. PlacementInv => RightBackendFirst
  <2> SUFFICES ASSUME PlacementInv PROVE RightBackendFirst
    OBVIOUS
  <2>0. InflightExact /\ inflight \in [Candidates -> Nat]
    BY DEF PlacementInv
  <2>1. LeastLoadedFirst
    <3> SUFFICES ASSUME NEW r \in Requests, Undisturbed(r, FALSE),
                        NEW i \in Candidates, NEW j \in Candidates, i < j
                 PROVE  Before(call[r].order[i], call[r].order[j])
      BY DEF LeastLoadedFirst, Before
    <3>1. call[r].pc = "placed" /\ calm[r] /\ call[r].prefix = NoPrefix
      BY DEF Undisturbed
    <3> QED BY <3>1, CallCases DEF CalmOK
  <2>2. BoundedAffinity
    <3> DEFINE Limit == CeilDiv(Factor * (SumTo[N] + 1), 4 * N)
    <3>1. Bound(SumTo[N]) = Limit
      <4>1. SumTo[N] \in Nat
        <5>1. SumTo \in [0..N -> Nat] /\ N \in 0..N
          BY <2>0, SumToFacts, CandidatesFinite
        <5> QED BY <5>1
      <4> QED BY <4>1, BoundFacts
    <3> HIDE DEF Limit
    <3>2. ASSUME NEW r \in Requests, Undisturbed(r, TRUE)
          PROVE  LET chosen == call[r].order[1] IN
                 /\ inflight[chosen] < Limit
                 /\ \A b \in Candidates :
                      Score[call[r].prefix][b] > Score[call[r].prefix][chosen]
                        => inflight[b] >= Limit
      <4> DEFINE h == call[r].prefix
      <4>1. call[r].pc = "placed" /\ calm[r] /\ h # NoPrefix
        BY <3>2 DEF Undisturbed
      <4>2. h \in PrefixHashes /\ CalmOK(call[r])
        BY <4>1, CallCases
      <4>3. PICK k \in Candidates : /\ call[r].order[1] = Rendezvous(h)[k]
                                    /\ inflight[call[r].order[1]] < Limit
                                    /\ FullBefore(h, k)
        BY <3>1, <4>1, <4>2 DEF CalmOK
      <4>4. ASSUME NEW b \in Candidates, Score[h][b] > Score[h][Rendezvous(h)[k]]
            PROVE  inflight[b] >= Limit
        <5>1. PICK i \in Candidates : Rendezvous(h)[i] = b
          BY <4>2, RendezvousFacts
        <5>2. /\ Score[h][b] \in Int /\ Score[h][Rendezvous(h)[k]] \in Int
              /\ k < i => Score[h][Rendezvous(h)[k]] > Score[h][b]
          BY <4>2, <5>1, RendezvousFacts DEF PlacementAssumption
        <5>3. i # k /\ ~(k < i)
          BY <4>4, <5>1, <5>2
        <5>4. i < k
          BY <5>3, CandidatesFinite DEF Candidates
        <5> QED BY <3>1, <4>3, <5>1, <5>4 DEF FullBefore
      <4> QED BY <4>3, <4>4
    <3> QED BY <3>2 DEF BoundedAffinity, Limit
  <2> QED BY <2>0, <2>1, <2>2 DEF RightBackendFirst
<1> QED BY <1>1, PlacementInvariant, PTL
-----------------------------------------------------------------------------
(* The energy meter bills exactly the union of the busy intervals.         *)

\* Counting the live guards one up or one down.
LEMMA LiveCount ==
  ASSUME TypeOK, CountsGuards, NEW r \in Proxied
  PROVE  /\ active_count = Cardinality(Live) /\ active_count \in Nat
         /\ active_count = 0 <=> Live = {}
         /\ r \notin Live => Cardinality(Live \cup {r}) = active_count + 1
         /\ r \in Live => Cardinality(Live \ {r}) = active_count - 1 /\ active_count > 0
<1>1. IsFiniteSet(Live)
  BY EnergyMeterAssumption, FS_Subset DEF Live
<1>2. active_count = Cardinality(Live) /\ active_count \in Nat
  BY DEF CountsGuards, TypeOK
<1>3. active_count = 0 <=> Live = {}
  BY <1>1, <1>2, FS_EmptySet
<1>4. r \notin Live => Cardinality(Live \cup {r}) = Cardinality(Live) + 1
  BY <1>1, FS_AddElement
<1>5. r \in Live => Cardinality(Live \ {r}) = Cardinality(Live) - 1
  BY <1>1, FS_RemoveElement
<1> HIDE DEF Live
<1> QED BY <1>2, <1>3, <1>4, <1>5

\* begin: the interval opens with the first guard and no other.
LEMMA BeginStep ==
  ASSUME MeterInv, NEW r \in Proxied, Begin(r)
  PROVE  MeterInv'
<1>0. /\ TypeOK /\ CountsGuards /\ InOrder /\ CoversBusyTime /\ NoDoubleCounting
      /\ guard[r] = "none"
      /\ busy_since' = (IF active_count = 0 THEN now ELSE busy_since)
      /\ active_count' = active_count + 1
      /\ guard' = [guard EXCEPT ![r] = "live"]
      /\ now' = now /\ interval' = interval /\ sink' = sink /\ busy' = busy
  BY DEF MeterInv, Begin
<1>1. Live' = Live \cup {r} /\ r \notin Live /\ Reporting' = Reporting
  BY <1>0 DEF TypeOK, Live, Reporting
<1>2. active_count = 0 => busy_since = NoTime
  BY <1>0, LiveCount DEF CountsGuards
<1>3. TypeOK'
  BY <1>0 DEF TypeOK
<1>4. CountsGuards'
  <2>1. active_count' = Cardinality(Live')
    BY <1>0, <1>1, LiveCount
  <2>2. active_count # 0 => busy_since # NoTime
    BY <1>0, LiveCount DEF CountsGuards
  <2>3. busy_since' # NoTime
    BY <1>0, <2>2 DEF TypeOK, NoTime
  <2>4. Live' # {}
    BY <1>1
  <2> QED BY <2>1, <2>3, <2>4 DEF CountsGuards
<1>5. InOrder'
  BY <1>0, <1>1, <1>2 DEF InOrder, Closed, TypeOK, Intervals, NoTime
<1>6. CoversBusyTime'
  <2>1. OpenTicks' = OpenTicks
    BY <1>0, <1>2 DEF OpenTicks, TypeOK, NoTime
  <2> QED BY <1>0, <1>1, <2>1 DEF CoversBusyTime, Ticks
<1>7. NoDoubleCounting'
  BY <1>0, <1>1 DEF NoDoubleCounting
<1> QED BY <1>3, <1>4, <1>5, <1>6, <1>7 DEF MeterInv

\* drop of a guard that is not the last: nothing is billed yet.
LEMMA EndOtherStep ==
  ASSUME MeterInv, NEW r \in Proxied, End(r), active_count # 1
  PROVE  MeterInv'
<1>0. /\ TypeOK /\ CountsGuards /\ InOrder /\ CoversBusyTime /\ NoDoubleCounting
      /\ guard[r] = "live" /\ guard' = [guard EXCEPT ![r] = "none"]
      /\ active_count' = active_count - 1 /\ busy_since' = busy_since
      /\ now' = now /\ interval' = interval /\ sink' = sink /\ busy' = busy
  BY DEF MeterInv, End
<1>1. Live' = Live \ {r} /\ r \in Live /\ Reporting' = Reporting
  BY <1>0 DEF TypeOK, Live, Reporting
<1>2. active_count \in Nat /\ active_count > 1 /\ Cardinality(Live \ {r}) = active_count - 1
  <2>1. /\ active_count \in Nat /\ active_count > 0
        /\ Cardinality(Live \ {r}) = active_count - 1
    BY <1>0, <1>1, LiveCount
  <2>2. active_count > 1
    BY <2>1
  <2> QED BY <2>1, <2>2
<1>3. TypeOK'
  <2>1. active_count' \in Nat
    BY <1>0, <1>2
  <2> QED BY <1>0, <2>1 DEF TypeOK
<1>4. CountsGuards'
  <2>1. Live \ {r} # {}
    BY <1>2, FS_EmptySet
  <2>2. busy_since # NoTime
    BY <1>0, <1>1 DEF CountsGuards
  <2> QED BY <1>0, <1>1, <1>2, <2>1, <2>2 DEF CountsGuards
<1>5. InOrder'
  BY <1>0, <1>1 DEF InOrder, Closed
<1>6. CoversBusyTime' /\ NoDoubleCounting'
  BY <1>0, <1>1 DEF CoversBusyTime, NoDoubleCounting, OpenTicks
<1> QED BY <1>3, <1>4, <1>5, <1>6 DEF MeterInv

\* drop of the last guard: the open interval is closed and owed to the sink.
LEMMA EndLastStep ==
  ASSUME MeterInv, NEW r \in Proxied, End(r), active_count = 1
  PROVE  MeterInv'
<1> DEFINE i == [from |-> busy_since, to |-> now]
<1>0. /\ TypeOK /\ CountsGuards /\ InOrder /\ CoversBusyTime /\ NoDoubleCounting
      /\ guard[r] = "live" /\ guard' = [guard EXCEPT ![r] = IF Metered THEN "reporting" ELSE "none"]
      /\ active_count' = 0 /\ busy_since' = NoTime
      /\ interval' = [interval EXCEPT ![r] = i]
      /\ now' = now /\ sink' = sink /\ busy' = busy
  BY DEF MeterInv, End
<1>1. Live' = Live \ {r} /\ r \in Live /\ r \notin Reporting
  BY <1>0, EnergyMeterAssumption DEF TypeOK, Live, Reporting
<1>2. Reporting' = IF Metered THEN Reporting \cup {r} ELSE Reporting
  BY <1>0, EnergyMeterAssumption DEF TypeOK, Reporting
<1>3. busy_since \in Nat /\ now \in Nat /\ busy_since <= now /\ busy_since # NoTime
  BY <1>0, <1>1 DEF CountsGuards, TypeOK, InOrder
<1>4. i \in Intervals /\ i.from = busy_since /\ i.to = now
  BY <1>3 DEF Intervals
<1>5. interval'[r] = i /\ \A q \in Reporting : q # r /\ interval'[q] = interval[q]
  BY <1>0, <1>1 DEF TypeOK, Reporting
<1> HIDE DEF i
<1>6. TypeOK'
  BY <1>0, <1>3, <1>4, EnergyMeterAssumption DEF TypeOK
<1>7. CountsGuards'
  <2>1. Cardinality(Live \ {r}) = 0
    BY <1>0, <1>1, LiveCount
  <2>2. IsFiniteSet(Live \ {r})
    BY EnergyMeterAssumption, FS_Subset DEF Live
  <2>3. Live \ {r} = {}
    BY <2>1, <2>2, FS_EmptySet
  <2> QED BY <1>0, <1>1, <2>1, <2>3 DEF CountsGuards
<1>8. InOrder'
  <2>1. \A k \in 1..Len(sink) : Closed(sink[k])'
    BY <1>0 DEF InOrder, Closed
  <2>2. \A q \in Reporting' : Closed(interval[q])'
    BY <1>0, <1>2, <1>3, <1>4, <1>5 DEF InOrder, Closed
  <2>3. busy_since' <= now'
    BY <1>0, <1>3 DEF NoTime
  <2> QED BY <1>0, <2>1, <2>2, <2>3 DEF InOrder
<1>9. CoversBusyTime'
  <2>1. OpenTicks = Ticks(i) /\ OpenTicks' = {}
    BY <1>0, <1>3, <1>4 DEF OpenTicks, Ticks
  <2>2. Metered => UNION {Ticks(interval'[q]) : q \in Reporting'}
                   = Ticks(i) \cup UNION {Ticks(interval[q]) : q \in Reporting}
    BY <1>2, <1>5
  <2> QED BY <1>0, <2>1, <2>2 DEF CoversBusyTime, Ticks
<1>10. NoDoubleCounting'
  <2>1. \A k \in 1..Len(sink) : Apart(i, sink[k])
    BY <1>0, <1>3, <1>4 DEF InOrder, Closed, Apart
  <2>2. \A q \in Reporting : Apart(i, interval[q]) /\ Apart(interval[q], i)
    BY <1>0, <1>3, <1>4 DEF InOrder, Closed, Apart
  <2> QED BY <1>0, <1>2, <1>5, <2>1, <2>2 DEF NoDoubleCounting
<1> QED BY <1>6, <1>7, <1>8, <1>9, <1>10 DEF MeterInv

\* record_energy: an owed interval moves to the sink, whenever that happens.
LEMMA ReportStep ==
  ASSUME MeterInv, NEW r \in Proxied, Report(r)
  PROVE  MeterInv'
<1> DEFINE n == Len(sink)
<1>0. /\ TypeOK /\ CountsGuards /\ InOrder /\ CoversBusyTime /\ NoDoubleCounting
      /\ guard[r] = "reporting" /\ guard' = [guard EXCEPT ![r] = "none"]
      /\ sink' = Append(sink, interval[r]) /\ active_count' = active_count
      /\ busy_since' = busy_since /\ now' = now /\ interval' = interval /\ busy' = busy
  BY DEF MeterInv, Report
<1>1. Live' = Live /\ r \in Reporting /\ Reporting' = Reporting \ {r}
  BY <1>0 DEF TypeOK, Live, Reporting
<1>2. interval[r] \in Intervals /\ sink \in Seq(Intervals) /\ n \in Nat
  BY <1>0 DEF TypeOK
<1>3. /\ sink' \in Seq(Intervals) /\ Len(sink') = n + 1 /\ sink'[n + 1] = interval[r]
      /\ \A k \in 1..n : sink'[k] = sink[k]
  BY <1>0, <1>2
<1> HIDE DEF n
<1>4. 1..(n + 1) = (1..n) \cup {n + 1} /\ n + 1 \notin 1..n
  BY <1>2
<1>5. TypeOK'
  BY <1>0, <1>3 DEF TypeOK
<1>6. CountsGuards'
  BY <1>0, <1>1 DEF CountsGuards
<1>7. InOrder'
  <2>1. \A k \in 1..(n + 1) : Closed(sink'[k])
    BY <1>0, <1>1, <1>3, <1>4 DEF InOrder, n
  <2> QED BY <1>0, <1>1, <1>3, <2>1 DEF InOrder, Closed
<1>8. CoversBusyTime'
  <2>1. UNION {Ticks(sink'[k]) : k \in 1..(n + 1)}
        = Ticks(interval[r]) \cup UNION {Ticks(sink[k]) : k \in 1..n}
    BY <1>3, <1>4
  <2>2. UNION {Ticks(interval[q]) : q \in Reporting}
        = Ticks(interval[r]) \cup UNION {Ticks(interval[q]) : q \in Reporting \ {r}}
    BY <1>1
  <2>3. OpenTicks' = OpenTicks
    BY <1>0 DEF OpenTicks
  <2> QED BY <1>0, <1>1, <1>3, <2>1, <2>2, <2>3 DEF CoversBusyTime, n, Ticks
<1>9. NoDoubleCounting'
  <2>1. \A k \in 1..n : Apart(interval[r], sink[k]) /\ Apart(sink[k], interval[r])
    BY <1>0, <1>1 DEF NoDoubleCounting, Apart, n
  <2>2. \A q \in Reporting \ {r} : Apart(interval[q], interval[r])
    BY <1>0, <1>1 DEF NoDoubleCounting
  <2>3. \A k, l \in 1..(n + 1) : k # l => Apart(sink'[k], sink'[l])
    BY <1>0, <1>3, <1>4, <2>1 DEF NoDoubleCounting, n
  <2>4. \A q \in Reporting \ {r}, k \in 1..(n + 1) : Apart(interval[q], sink'[k])
    BY <1>0, <1>3, <1>4, <2>2 DEF NoDoubleCounting, n
  <2> QED BY <1>0, <1>1, <1>3, <2>3, <2>4 DEF NoDoubleCounting
<1> QED BY <1>5, <1>6, <1>7, <1>8, <1>9 DEF MeterInv

\* Time passes: the open interval grows by the tick that is busy.
LEMMA TickStep ==
  ASSUME MeterInv, Tick
  PROVE  MeterInv'
<1>0. /\ TypeOK /\ CountsGuards /\ InOrder /\ CoversBusyTime /\ NoDoubleCounting
      /\ now' = now + 1 /\ busy' = (IF Live # {} THEN busy \cup {now} ELSE busy)
      /\ active_count' = active_count /\ busy_since' = busy_since
      /\ guard' = guard /\ interval' = interval /\ sink' = sink
  BY DEF MeterInv, Tick
<1>1. Live' = Live /\ Reporting' = Reporting
  BY <1>0 DEF Live, Reporting
<1>2. now \in Nat /\ busy_since \in Nat \cup {NoTime} /\ busy_since <= now
  BY <1>0 DEF TypeOK, InOrder
<1>3. TypeOK' /\ CountsGuards'
  BY <1>0, <1>1, <1>2 DEF TypeOK, CountsGuards
<1>4. InOrder'
  <2>1. ASSUME NEW i \in Intervals, Closed(i) PROVE Closed(i)'
    BY <1>0, <1>2, <2>1 DEF Closed, Intervals
  <2>2. \A k \in 1..Len(sink) : sink[k] \in Intervals /\ Closed(sink[k])
    BY <1>0 DEF TypeOK, InOrder
  <2>3. \A r \in Reporting : interval[r] \in Intervals /\ Closed(interval[r])
    BY <1>0 DEF TypeOK, InOrder, Reporting
  <2>4. busy_since' <= now'
    BY <1>0, <1>2 DEF NoTime
  <2> QED BY <1>0, <1>1, <2>1, <2>2, <2>3, <2>4 DEF InOrder, Closed
<1>5. CoversBusyTime'
  <2>1. CASE Live = {}
    <3>1. busy_since = NoTime
      BY <1>0, <2>1 DEF CountsGuards
    <3>2. OpenTicks' = OpenTicks
      BY <1>0, <3>1 DEF OpenTicks
    <3> QED BY <1>0, <1>1, <2>1, <3>2 DEF CoversBusyTime
  <2>2. CASE Live # {}
    <3>1. busy_since # NoTime /\ busy_since \in Nat
      BY <1>0, <1>2, <2>2 DEF CountsGuards
    <3>2. busy_since..((now + 1) - 1) = (busy_since..(now - 1)) \cup {now}
      BY <1>2, <3>1
    <3>3. OpenTicks' = OpenTicks \cup {now}
      BY <1>0, <3>1, <3>2 DEF OpenTicks
    <3> QED BY <1>0, <1>1, <2>2, <3>3 DEF CoversBusyTime
  <2> QED BY <2>1, <2>2
<1>6. NoDoubleCounting'
  BY <1>0, <1>1 DEF NoDoubleCounting
<1> QED BY <1>3, <1>4, <1>5, <1>6 DEF MeterInv

\* The meter's bookkeeping is right in every reachable state.
THEOREM MeterInvariant == MeterSpec => []MeterInv
<1>1. MeterInit => MeterInv
  <2> SUFFICES ASSUME MeterInit PROVE MeterInv
    OBVIOUS
  <2>1. Live = {} /\ Reporting = {}
    BY DEF MeterInit, Live, Reporting
  <2>2. TypeOK
    BY DEF MeterInit, TypeOK, Intervals
  <2>3. CountsGuards
    BY <2>1, FS_EmptySet DEF MeterInit, CountsGuards
  <2>4. InOrder /\ CoversBusyTime /\ NoDoubleCounting
    BY <2>1 DEF MeterInit, InOrder, CoversBusyTime, NoDoubleCounting, OpenTicks, NoTime
  <2> QED BY <2>2, <2>3, <2>4 DEF MeterInv
<1>2. MeterInv /\ [MeterNext]_meterVars => MeterInv'
  <2> SUFFICES ASSUME MeterInv, [MeterNext]_meterVars PROVE MeterInv'
    OBVIOUS
  <2>1. CASE UNCHANGED meterVars
    BY <2>1 DEF meterVars, MeterInv, TypeOK, CountsGuards, InOrder, CoversBusyTime,
                NoDoubleCounting, Live, Reporting, Closed, OpenTicks
  <2> QED BY <2>1, BeginStep, EndOtherStep, EndLastStep, ReportStep, TickStep DEF MeterNext
<1> QED BY <1>1, <1>2, PTL DEF MeterSpec

\* Billed energy is the union of the busy intervals: all of it ...
THEOREM BillsAllBusyTime == MeterSpec => []CoversBusyTime
<1>1. MeterInv => CoversBusyTime
  BY DEF MeterInv
<1> QED BY <1>1, MeterInvariant, PTL

\* ... and none of it twice.
THEOREM BillsNothingTwice == MeterSpec => []NoDoubleCounting
<1>1. MeterInv => NoDoubleCounting
  BY DEF MeterInv
<1> QED BY <1>1, MeterInvariant, PTL
-----------------------------------------------------------------------------
(* Lists of models.                                                        *)

\* out is list at increasing positions that are the ones of stay.
Keeps(list, stay, out, pos) ==
  /\ pos \in [1..Len(out) -> stay]
  /\ \A i, j \in 1..Len(out) : i < j => pos[i] < pos[j]
  /\ \A k \in stay : \E i \in 1..Len(out) : pos[i] = k
  /\ \A i \in 1..Len(out) : out[i] = list[pos[i]]

\* The rank of a position among those that stay
RankIn(stay, i) == Cardinality({j \in stay : j < i})

\* The ranks are 0 to the number of positions less one, each once.
LEMMA RankInFacts ==
  ASSUME NEW n \in Nat, NEW stay \in SUBSET (1..n)
  PROVE  /\ IsFiniteSet(stay) /\ Cardinality(stay) \in Nat
         /\ \A i \in stay : RankIn(stay, i) \in 0..(Cardinality(stay) - 1)
         /\ \A i, j \in stay : i < j => RankIn(stay, i) < RankIn(stay, j)
<1> DEFINE Below(i) == {j \in stay : j < i}
<1>1. IsFiniteSet(1..n)
  BY FS_Interval
<1>2. IsFiniteSet(stay) /\ Cardinality(stay) \in Nat
  BY <1>1, FS_Subset, FS_CardinalityType
<1>3. ASSUME NEW i \in stay
      PROVE  /\ IsFiniteSet(Below(i)) /\ Cardinality(Below(i)) \in Nat
             /\ Cardinality(Below(i)) <= Cardinality(stay) - 1
  <2>1. Below(i) \subseteq stay \ {i}
    OBVIOUS
  <2>2. IsFiniteSet(stay \ {i}) /\ Cardinality(stay \ {i}) = Cardinality(stay) - 1
    BY <1>2, FS_RemoveElement
  <2> HIDE DEF Below
  <2> QED BY <2>1, <2>2, FS_Subset, FS_CardinalityType
<1>4. ASSUME NEW i \in stay, NEW j \in stay, i < j
      PROVE  Cardinality(Below(i)) < Cardinality(Below(j))
  <2>0. ~(i < i) /\ \A k \in stay : k < i => k < j
    BY <1>4
  <2>1. Below(i) \subseteq Below(j) /\ i \in Below(j) /\ i \notin Below(i)
    BY <1>4, <2>0, Zenon
  <2>2. /\ IsFiniteSet(Below(j)) /\ Cardinality(Below(j)) \in Nat /\ Cardinality(Below(i)) \in Nat
    BY <1>3
  <2> HIDE DEF Below
  <2>3. Below(i) # Below(j)
    BY <2>1
  <2>4. Cardinality(Below(i)) <= Cardinality(Below(j)) /\ Cardinality(Below(j)) # Cardinality(Below(i))
    BY <2>1, <2>2, <2>3, FS_Subset
  <2> QED BY <2>2, <2>4
<1> DEFINE c == Cardinality(stay)
<1>5. \A i \in stay : RankIn(stay, i) = Cardinality(Below(i))
  BY DEF RankIn
<1> HIDE DEF Below
<1>6. \A i \in stay : RankIn(stay, i) \in 0..(Cardinality(stay) - 1)
  BY <1>2, <1>3, <1>5
<1>7. \A i, j \in stay : i < j => RankIn(stay, i) < RankIn(stay, j)
  BY <1>4, <1>5
<1> QED BY <1>2, <1>6, <1>7

\* filter and retain keep what stays, in its order.
LEMMA RetainFacts ==
  ASSUME NEW S, NEW list \in Seq(S), NEW stay \in SUBSET (1..Len(list))
  PROVE  /\ Retain(list, stay) \in Seq(S)
         /\ \E pos : Keeps(list, stay, Retain(list, stay), pos)
<1> DEFINE c == Cardinality(stay)
           out == Retain(list, stay)
           rank == [i \in stay |-> RankIn(stay, i) + 1]
           pos == [k \in 1..c |-> CHOOSE i \in stay : RankIn(stay, i) = k - 1]
<1>0. \A k \in stay : k \in Nat
  OBVIOUS
<1>1. /\ IsFiniteSet(stay) /\ c \in Nat
      /\ \A i \in stay : RankIn(stay, i) \in 0..(c - 1)
      /\ \A i, j \in stay : i < j => RankIn(stay, i) < RankIn(stay, j)
  <2>1. Len(list) \in Nat
    OBVIOUS
  <2> QED BY <2>1, RankInFacts
<1> HIDE DEF c
<1>2. rank \in Surjection(stay, 1..c)
  <2>1. rank \in [stay -> 1..c]
    BY <1>1
  <2>2. \A i, j \in stay : rank[i] = rank[j] => i = j
    <3> SUFFICES ASSUME NEW i \in stay, NEW j \in stay, i # j PROVE rank[i] # rank[j]
      OBVIOUS
    <3>1. i < j \/ j < i
      OBVIOUS
    <3>2. RankIn(stay, i) \in Nat /\ RankIn(stay, j) \in Nat /\ RankIn(stay, i) # RankIn(stay, j)
      BY <1>1, <3>1
    <3> QED BY <3>2
  <2>3. IsFiniteSet(1..c) /\ Cardinality(1..c) = c
    BY <1>1, FS_Interval
  <2> HIDE DEF rank
  <2>4. rank \in Injection(stay, 1..c)
    BY <2>1, <2>2 DEF Injection, IsInjective
  <2> QED BY <2>3, <2>4, FS_Injection DEF c
<1>3. \A k \in 1..c : \E i \in stay : RankIn(stay, i) = k - 1
  <2> SUFFICES ASSUME NEW k \in 1..c PROVE \E i \in stay : RankIn(stay, i) = k - 1
    OBVIOUS
  <2>1. PICK i \in stay : rank[i] = k
    <3> HIDE DEF rank
    <3> QED BY <1>2 DEF Surjection
  <2>2. RankIn(stay, i) \in Nat /\ RankIn(stay, i) + 1 = k
    BY <1>1, <2>1
  <2> QED BY <2>2
<1>4. pos \in [1..c -> stay] /\ \A k \in 1..c : RankIn(stay, pos[k]) = k - 1
  BY <1>3
<1>5. out = [k \in 1..c |-> list[pos[k]]]
  BY DEF Retain, RankIn, c
<1> HIDE DEF out, pos, rank
<1>6. out \in [1..c -> S]
  <2>1. \A k \in 1..c : pos[k] \in 1..Len(list)
    BY <1>4
  <2> QED BY <1>5, <2>1
<1>7. out \in Seq(S) /\ Len(out) = c
  BY <1>1, <1>6, FunctionIsSeq
<1>8. \A i, j \in 1..c : i < j => pos[i] < pos[j]
  <2> SUFFICES ASSUME NEW i \in 1..c, NEW j \in 1..c, i < j, ~(pos[i] < pos[j]) PROVE FALSE
    OBVIOUS
  <2> DEFINE a == pos[i]
             b == pos[j]
  <2>1. a \in stay /\ b \in stay /\ RankIn(stay, a) = i - 1 /\ RankIn(stay, b) = j - 1
    BY <1>4
  <2>2. a = b \/ b < a
    <3>1. a \in Nat /\ b \in Nat /\ ~(a < b)
      BY <1>0, <2>1
    <3> HIDE DEF a, b
    <3> QED BY <3>1
  <2> HIDE DEF a, b
  <2>3. ~(RankIn(stay, b) < RankIn(stay, a)) /\ a # b
    BY <2>1
  <2> QED BY <1>1, <2>1, <2>2, <2>3
<1>9. \A k \in stay : \E i \in 1..c : pos[i] = k
  <2> SUFFICES ASSUME NEW k \in stay PROVE \E i \in 1..c : pos[i] = k
    OBVIOUS
  <2> DEFINE i == RankIn(stay, k) + 1
             a == pos[i]
  <2>1. i \in 1..c /\ RankIn(stay, k) = i - 1 /\ RankIn(stay, k) \in Nat
    BY <1>1
  <2> HIDE DEF i
  <2>2. a \in stay /\ RankIn(stay, a) = i - 1
    BY <1>4, <2>1
  <2>3. a = k
    <3> HIDE DEF a
    <3>1. a = k \/ a < k \/ k < a
      BY <2>2
    <3>2. ~(RankIn(stay, a) < RankIn(stay, k)) /\ ~(RankIn(stay, k) < RankIn(stay, a))
      BY <2>1, <2>2
    <3> QED BY <1>1, <2>2, <3>1, <3>2
  <2> QED BY <2>1, <2>3
<1>10. Keeps(list, stay, out, pos)
  BY <1>4, <1>5, <1>7, <1>8, <1>9 DEF Keeps
<1>11. \E q : Keeps(list, stay, out, q)
  BY <1>10
<1> QED BY <1>7, <1>11 DEF out

\* The ids in a list
IdsOf(list) == {list[i].id : i \in 1..Len(list)}

\* are those of the sequence of its ids, and are model ids.
LEMMA IdsFacts ==
  ASSUME NEW list \in Seq(CatalogEntry)
  PROVE  /\ ToSet(Ids(list)) = IdsOf(list) /\ IdsOf(list) \subseteq Models
         /\ DOMAIN Ids(list) = 1..Len(list) /\ \A i \in 1..Len(list) : Ids(list)[i] = list[i].id
<1>1. DOMAIN list = 1..Len(list) /\ \A i \in 1..Len(list) : list[i] \in CatalogEntry
  OBVIOUS
<1>2. \A e \in CatalogEntry : e.id \in Models
  BY DEF CatalogEntry
<1>3. DOMAIN Ids(list) = 1..Len(list) /\ \A i \in 1..Len(list) : Ids(list)[i] = list[i].id
  BY <1>1 DEF Ids
<1>4. ToSet(Ids(list)) = IdsOf(list)
  BY <1>3 DEF ToSet, IdsOf
<1>5. IdsOf(list) \subseteq Models
  BY <1>1, <1>2 DEF IdsOf
<1> QED BY <1>3, <1>4, <1>5

\* deduplicate_backend_entries: the same ids, each once.
LEMMA DeduplicateFacts ==
  ASSUME NEW list \in Seq(CatalogEntry)
  PROVE  /\ Deduplicate(list) \in Seq(CatalogEntry)
         /\ IdsOf(Deduplicate(list)) = IdsOf(list)
         /\ IsInjective(Ids(Deduplicate(list)))
<1> DEFINE n == Len(list)
           stay == {i \in DOMAIN list : \A j \in 1..(i - 1) : list[j].id # list[i].id}
           out == Deduplicate(list)
<1>1. n \in Nat /\ DOMAIN list = 1..n /\ stay \in SUBSET (1..n)
  OBVIOUS
<1>2. out = Retain(list, stay)
  BY DEF Deduplicate
<1>3. \A i \in stay : \A j \in 1..(i - 1) : list[j].id # list[i].id
  OBVIOUS
<1>4. ASSUME NEW i \in 1..n PROVE \E k \in stay : list[k].id = list[i].id
  <2> DEFINE T == {k \in 1..n : list[k].id = list[i].id}
  <2>1. T \in SUBSET Nat /\ T # {}
    OBVIOUS
  <2>2. PICK k \in T : \A y \in T : k <= y
    <3> HIDE DEF T
    <3> QED BY <2>1, LeastNatural
  <2>3. k \in 1..n /\ list[k].id = list[i].id
    BY <2>2
  <2>4. \A j \in 1..(k - 1) : j \in 1..n /\ ~(k <= j)
    BY <1>1, <2>3
  <2>5. \A j \in 1..(k - 1) : list[j].id # list[k].id
    BY <2>2, <2>3, <2>4
  <2> QED BY <1>1, <2>3, <2>5
<1> HIDE DEF stay, out, n
<1>5. out \in Seq(CatalogEntry)
  BY <1>1, <1>2, RetainFacts DEF n
<1>6. PICK pos : Keeps(list, stay, out, pos)
  BY <1>1, <1>2, RetainFacts DEF n
<1> DEFINE c == Len(out)
<1>7. /\ \A i \in 1..c : pos[i] \in stay /\ pos[i] \in 1..n /\ out[i] = list[pos[i]]
      /\ \A i, j \in 1..c : i < j => pos[i] < pos[j]
      /\ \A k \in stay : \E i \in 1..c : pos[i] = k
  BY <1>1, <1>6 DEF Keeps
<1> HIDE DEF c
<1>8. IdsOf(out) = IdsOf(list)
  <2>1. \A i \in 1..c : \E k \in 1..n : out[i].id = list[k].id
    BY <1>7
  <2>2. ASSUME NEW k \in 1..n PROVE \E i \in 1..c : out[i].id = list[k].id
    BY <1>4, <1>7
  <2>3. IdsOf(out) \subseteq IdsOf(list)
    <3> SUFFICES ASSUME NEW i \in 1..c PROVE out[i].id \in IdsOf(list)
      BY DEF IdsOf, c
    <3> QED BY <2>1 DEF IdsOf, n
  <2>4. IdsOf(list) \subseteq IdsOf(out)
    <3> SUFFICES ASSUME NEW k \in 1..n PROVE list[k].id \in IdsOf(out)
      BY DEF IdsOf, n
    <3> QED BY <2>2 DEF IdsOf, c
  <2> QED BY <2>3, <2>4
<1>9. IsInjective(Ids(out))
  <2>1. ASSUME NEW i \in 1..c, NEW j \in 1..c, i < j PROVE out[i].id # out[j].id
    <3> DEFINE a == pos[i]
               b == pos[j]
    <3>1. a \in stay /\ b \in stay /\ a \in 1..n /\ b \in 1..n /\ a < b /\ out[i] = list[a] /\ out[j] = list[b]
      BY <1>7, <2>1
    <3> HIDE DEF a, b
    <3>2. a \in 1..(b - 1)
      BY <3>1
    <3> QED BY <1>3, <3>1, <3>2
  <2>2. DOMAIN Ids(out) = 1..c /\ \A i \in 1..c : Ids(out)[i] = out[i].id
    BY <1>5, IdsFacts DEF c
  <2>3. \A i, j \in 1..c : i # j => i < j \/ j < i
    OBVIOUS
  <2>4. \A i, j \in 1..c : out[i].id = out[j].id => i = j
    BY <2>1, <2>3
  <2> QED BY <2>2, <2>4 DEF IsInjective
<1> QED BY <1>5, <1>8, <1>9 DEF out

\* set_backend_models: the ids the filter allows.
LEMMA BackendEntriesFacts ==
  ASSUME CatalogAssumption, NEW b, NEW list \in Seq(CatalogEntry)
  PROVE  /\ BackendEntries(b, list) \in Seq(CatalogEntry)
         /\ IdsOf(BackendEntries(b, list)) = IdsOf(list) \cap Filter[b]
<1> DEFINE n == Len(list)
           stay == {i \in DOMAIN list : list[i].id \in Filter[b]}
           allowed == Retain(list, stay)
           typed == [i \in DOMAIN allowed |-> ApplyTypeOverride(b, allowed[i])]
<1>1. n \in Nat /\ DOMAIN list = 1..n /\ stay \in SUBSET (1..n)
      /\ \A i \in 1..n : i \in stay <=> list[i].id \in Filter[b]
  OBVIOUS
<1>2. BackendEntries(b, list) = Deduplicate(typed)
  BY DEF BackendEntries
<1> HIDE DEF stay
<1>3. allowed \in Seq(CatalogEntry)
  BY <1>1, RetainFacts
<1>4. PICK pos : Keeps(list, stay, allowed, pos)
  BY <1>1, RetainFacts
<1> HIDE DEF allowed, n
<1>5. IdsOf(allowed) = IdsOf(list) \cap Filter[b]
  <2> DEFINE c == Len(allowed)
  <2>1. \A i \in 1..c : pos[i] \in stay /\ allowed[i] = list[pos[i]]
    BY <1>4 DEF Keeps
  <2>2. \A k \in stay : \E i \in 1..c : pos[i] = k
    BY <1>4 DEF Keeps
  <2> HIDE DEF c
  <2>3. ASSUME NEW x \in IdsOf(allowed) PROVE x \in IdsOf(list) /\ x \in Filter[b]
    <3>1. PICK i \in 1..c : x = allowed[i].id
      BY DEF IdsOf, c
    <3>2. pos[i] \in 1..n /\ x = list[pos[i]].id /\ pos[i] \in stay
      BY <1>1, <2>1, <3>1
    <3> QED BY <1>1, <3>2 DEF IdsOf, n
  <2>4. ASSUME NEW x \in IdsOf(list), x \in Filter[b] PROVE x \in IdsOf(allowed)
    <3>1. PICK k \in 1..n : x = list[k].id
      BY DEF IdsOf, n
    <3>2. PICK i \in 1..c : pos[i] = k
      BY <1>1, <2>2, <2>4, <3>1
    <3>3. x = allowed[i].id
      BY <2>1, <3>1, <3>2
    <3> QED BY <3>3 DEF IdsOf, c
  <2> QED BY <2>3, <2>4
<1>6. \A e \in CatalogEntry : ApplyTypeOverride(b, e) \in CatalogEntry /\ ApplyTypeOverride(b, e).id = e.id
  <2> SUFFICES ASSUME NEW e \in CatalogEntry
               PROVE  ApplyTypeOverride(b, e) \in CatalogEntry /\ ApplyTypeOverride(b, e).id = e.id
    OBVIOUS
  <2>0. [e EXCEPT !.raw = "override"] = [id |-> e.id, raw |-> "override"] /\ e.id \in Models
    BY DEF CatalogEntry
  <2>1. [e EXCEPT !.raw = "override"] \in CatalogEntry /\ [e EXCEPT !.raw = "override"].id = e.id
    <3>1. "override" \in Raws
      BY DEF CatalogAssumption
    <3> QED BY <2>0, <3>1 DEF CatalogEntry
  <2> QED BY <2>1 DEF ApplyTypeOverride
<1> DEFINE c == Len(allowed)
<1>7. c \in Nat /\ DOMAIN allowed = 1..c /\ \A i \in 1..c : allowed[i] \in CatalogEntry
  BY <1>3
<1> HIDE DEF c
<1>8. typed \in [1..c -> CatalogEntry] /\ \A i \in 1..c : typed[i].id = allowed[i].id
  BY <1>6, <1>7
<1> HIDE DEF typed
<1>9. typed \in Seq(CatalogEntry) /\ Len(typed) = c
  BY <1>7, <1>8, FunctionIsSeq
<1>10. IdsOf(typed) = IdsOf(allowed)
  BY <1>8, <1>9 DEF IdsOf, c
<1> QED BY <1>2, <1>5, <1>9, <1>10, DeduplicateFacts

-----------------------------------------------------------------------------
(* Routing tables.                                                         *)

\* cands has the backends up to k that list m, in increasing order.
Routes(entries, m, k, cands) ==
  /\ cands \in Seq(1..k)
  /\ \A i, j \in 1..Len(cands) : i < j => cands[i] < cands[j]
  /\ \A b \in 1..k : Lists(entries, b, m) <=> \E i \in 1..Len(cands) : cands[i] = b

\* One more backend
LEMMA RoutesStep ==
  ASSUME NEW entries, NEW m, NEW k \in Nat, NEW cands, Routes(entries, m, k, cands)
  PROVE  Routes(entries, m, k + 1,
                IF Lists(entries, k + 1, m) THEN Append(cands, k + 1) ELSE cands)
<1> DEFINE b == k + 1
           c == Len(cands)
           new == Append(cands, b)
<1>1. /\ cands \in Seq(1..k) /\ c \in Nat /\ b \in Nat /\ b \in 1..b
      /\ \A i \in 1..c : cands[i] \in 1..k /\ cands[i] \in 1..b /\ cands[i] < b
  BY DEF Routes
<1>2. cands \in Seq(1..b)
  <2>1. DOMAIN cands = 1..c /\ cands \in [1..c -> 1..b]
    BY <1>1
  <2> QED BY <1>1, <2>1, FunctionIsSeq
<1>3. \A x \in 1..b : x \in 1..k \/ x = b
  BY <1>1
<1>4. CASE Lists(entries, b, m)
  <2>1. /\ new \in Seq(1..b) /\ Len(new) = c + 1 /\ new[c + 1] = b
        /\ \A i \in 1..c : new[i] = cands[i]
    BY <1>1, <1>2, AppendProperties
  <2> HIDE DEF new, c, b
  <2>2. \A i \in 1..(c + 1) : i \in 1..c \/ i = c + 1
    BY <1>1
  <2>3. ASSUME NEW i \in 1..(c + 1), NEW j \in 1..(c + 1), i < j PROVE new[i] < new[j]
    <3>1. i \in 1..c
      BY <1>1, <2>3
    <3>2. CASE j = c + 1
      BY <1>1, <2>1, <3>1, <3>2
    <3>3. CASE j \in 1..c
      BY <2>1, <2>3, <3>1, <3>3 DEF Routes, c
    <3> QED BY <2>2, <3>2, <3>3
  <2>4. ASSUME NEW x \in 1..b
        PROVE  Lists(entries, x, m) <=> \E i \in 1..(c + 1) : new[i] = x
    <3>1. CASE x = b
      <4>1. c + 1 \in 1..(c + 1)
        BY <1>1
      <4> QED BY <1>4, <2>1, <3>1, <4>1
    <3>2. CASE x # b
      <4>1. x \in 1..k
        BY <1>3, <3>2
      <4>2. Lists(entries, x, m) <=> \E i \in 1..c : cands[i] = x
        BY <4>1 DEF Routes, c
      <4>3. \A i \in 1..c : i \in 1..(c + 1)
        BY <1>1
      <4> QED BY <2>1, <2>2, <3>2, <4>2, <4>3
    <3> QED BY <3>1, <3>2
  <2>5. Routes(entries, m, b, new)
    BY <2>1, <2>3, <2>4 DEF Routes
  <2> QED BY <1>4, <2>5 DEF b, new
<1>5. CASE ~Lists(entries, b, m)
  <2>1. ASSUME NEW x \in 1..b
        PROVE  Lists(entries, x, m) <=> \E i \in 1..c : cands[i] = x
    <3>1. CASE x = b
      <4>1. \A i \in 1..c : cands[i] # b
        BY <1>1
      <4> QED BY <1>5, <3>1, <4>1
    <3>2. CASE x \in 1..k
      BY <3>2 DEF Routes
    <3> QED BY <1>3, <3>1, <3>2
  <2>2. Routes(entries, m, b, cands)
    BY <1>2, <2>1 DEF Routes
  <2> QED BY <1>5, <2>2
<1> QED BY <1>4, <1>5

\* build_routing: each model goes to the backends that list it, in order.
LEMMA CandidatesOfFacts ==
  ASSUME CatalogAssumption, NEW entries, NEW m
  PROVE  Routes(entries, m, Size, CandidatesOf(entries, m))
<1> DEFINE S == Seq(Nat)
           empty == <<>>
           Step(h, b) == IF b = 0 THEN <<>>
                         ELSE IF Lists(entries, b, m) THEN Append(h[b - 1], b) ELSE h[b - 1]
           Builds(h) == h = [b \in 0..Size |-> Step(h, b)]
           upto == CHOOSE h : Builds(h)
           F == [p \in S \X (1..Size) |-> IF Lists(entries, p[2], m) THEN Append(p[1], p[2]) ELSE p[1]]
<1>1. Size \in Nat
  BY DEF CatalogAssumption
<1>2. \E h : Builds(h)
  <2>1. F \in [S \X (1..Size) -> S] /\ empty \in S
    <3>1. \A s \in S, b \in 1..Size : Append(s, b) \in S
      BY <1>1
    <3> QED BY <3>1
  <2>2. \A s \in S, b \in 1..Size : F[<<s, b>>] = IF Lists(entries, b, m) THEN Append(s, b) ELSE s
    OBVIOUS
  <2> HIDE DEF F, empty, S
  <2>3. IsStep(Size, S, empty, F)
    BY <2>1 DEF IsStep
  <2>4. PICK h : Iterated(Size, S, empty, F, h)
    BY <1>1, <2>3, Iterates
  <2>5. h = [b \in 0..Size |-> h[b]]
    BY <2>4 DEF Iterated
  <2>6. ASSUME NEW b \in 0..Size PROVE h[b] = Step(h, b)
    <3>1. CASE b = 0
      BY <2>4, <3>1 DEF Iterated, empty
    <3>2. CASE b # 0
      <4>1. b \in 1..Size /\ b - 1 \in 0..Size
        BY <1>1, <3>2
      <4>2. h[b - 1] \in S /\ h[b] = F[<<h[b - 1], b>>]
        BY <2>4, <4>1 DEF Iterated
      <4> QED BY <2>2, <3>2, <4>1, <4>2
    <3> QED BY <3>1, <3>2
  <2> HIDE DEF Step
  <2>7. Builds(h)
    BY <2>5, <2>6
  <2> QED BY <2>7
<1>3. Builds(upto)
  <2> HIDE DEF Builds
  <2> QED BY <1>2
<1>4. \A b \in 0..Size : upto[b] = Step(upto, b)
  <2> HIDE DEF upto, Step
  <2> QED BY <1>3
<1>5. CandidatesOf(entries, m) = upto[Size]
  BY DEF CandidatesOf
<1> HIDE DEF upto
<1> DEFINE G == {k \in 0..Size : Routes(entries, m, k, upto[k])}
<1>6. 0 \in G
  <2>1. upto[0] = <<>> /\ 0 \in 0..Size
    BY <1>1, <1>4
  <2>2. Routes(entries, m, 0, <<>>)
    BY DEF Routes
  <2> QED BY <2>1, <2>2
<1>7. ASSUME NEW k \in 0..(Size - 1), k \in G PROVE k + 1 \in G
  <2>1. k \in Nat /\ k + 1 \in 0..Size /\ k + 1 # 0 /\ (k + 1) - 1 = k
    BY <1>1
  <2>2. upto[k + 1] = IF Lists(entries, k + 1, m) THEN Append(upto[k], k + 1) ELSE upto[k]
    BY <1>4, <2>1
  <2>3. Routes(entries, m, k, upto[k])
    BY <1>7
  <2>4. Routes(entries, m, k + 1, upto[k + 1])
    BY <2>1, <2>2, <2>3, RoutesStep
  <2> QED BY <2>1, <2>4
<1>8. 0..Size \subseteq G
  <2> HIDE DEF G
  <2> QED BY <1>1, <1>6, <1>7, UpTo
<1> QED BY <1>1, <1>5, <1>8

\* model_entries: the entries of all backends, one after another.
LEMMA FlattenFacts ==
  ASSUME NEW n \in Nat, n >= 1, NEW seqs \in [1..n -> Seq(CatalogEntry)]
  PROVE  /\ FlattenSeq(seqs) \in Seq(CatalogEntry)
         /\ \A x : x \in IdsOf(FlattenSeq(seqs)) <=> \E b \in 1..n : x \in IdsOf(seqs[b])
<1> DEFINE S == Seq(CatalogEntry)
           empty == <<>>
           Step(h, i) == IF i = 1 THEN seqs[i] ELSE h[i - 1] \o seqs[i]
           Joins(h) == h = [i \in 1..n |-> Step(h, i)]
           flat == CHOOSE h : Joins(h)
           F == [p \in S \X (1..n) |-> IF p[2] = 1 THEN seqs[p[2]] ELSE p[1] \o seqs[p[2]]]
<1>1. \E h : Joins(h)
  <2>1. F \in [S \X (1..n) -> S] /\ empty \in S
    <3>1. \A s \in S, b \in 1..n : s \o seqs[b] \in S
      BY ConcatProperties
    <3> QED BY <3>1
  <2>2. \A s \in S, b \in 1..n : F[<<s, b>>] = IF b = 1 THEN seqs[b] ELSE s \o seqs[b]
    OBVIOUS
  <2> HIDE DEF F, empty, S
  <2>3. IsStep(n, S, empty, F)
    BY <2>1 DEF IsStep
  <2>4. PICK f : Iterated(n, S, empty, F, f)
    BY <2>3, Iterates
  <2> DEFINE h == [i \in 1..n |-> f[i]]
  <2>5. ASSUME NEW i \in 1..n PROVE h[i] = Step(h, i)
    <3>1. i - 1 \in 0..n /\ (i # 1 => i - 1 \in 1..n)
      OBVIOUS
    <3>2. f[i - 1] \in S /\ f[i] = F[<<f[i - 1], i>>]
      BY <2>4, <3>1 DEF Iterated
    <3>3. f[i] = IF i = 1 THEN seqs[i] ELSE f[i - 1] \o seqs[i]
      BY <2>2, <3>2
    <3> QED BY <3>1, <3>3
  <2> HIDE DEF Step
  <2>6. Joins(h)
    BY <2>5
  <2> HIDE DEF h
  <2> QED BY <2>6
<1>2. Joins(flat)
  <2> HIDE DEF Joins
  <2> QED BY <1>1
<1>3. \A i \in 1..n : flat[i] = Step(flat, i)
  <2> HIDE DEF flat, Step
  <2> QED BY <1>2
<1>4. FlattenSeq(seqs) = flat[n]
  <2>1. Len(seqs) = n /\ n # 0
    BY FunctionIsSeq
  <2> QED BY <2>1 DEF FlattenSeq
<1> HIDE DEF flat
<1> DEFINE Is(k) == /\ flat[k] \in S
                    /\ \A x : x \in IdsOf(flat[k]) <=> \E b \in 1..k : x \in IdsOf(seqs[b])
           G == {k \in 0..n : k = 0 \/ Is(k)}
<1>5. 0 \in G
  OBVIOUS
<1>6. ASSUME NEW k \in 0..(n - 1), k \in G PROVE k + 1 \in G
  <2> DEFINE a == k + 1
  <2>1. a \in 1..n /\ a \in 0..n /\ a - 1 = k /\ seqs[a] \in S
    OBVIOUS
  <2>2. CASE k = 0
    <3>1. flat[a] = seqs[a] /\ a \in 1..a /\ \A b \in 1..a : b = a
      BY <1>3, <2>1, <2>2
    <3>2. Is(a)
      <4> HIDE DEF a
      <4>1. flat[a] \in S
        BY <2>1, <3>1
      <4>2. ASSUME NEW x PROVE x \in IdsOf(flat[a]) <=> \E b \in 1..a : x \in IdsOf(seqs[b])
        <5>1. CASE x \in IdsOf(flat[a])
          BY <3>1, <5>1
        <5>2. ASSUME NEW b \in 1..a, x \in IdsOf(seqs[b]) PROVE x \in IdsOf(flat[a])
          <6>1. b = a
            BY <3>1
          <6> QED BY <3>1, <5>2, <6>1
        <5> QED BY <5>1, <5>2
      <4> QED BY <4>1, <4>2
    <3> HIDE DEF Is
    <3> QED BY <2>1, <3>2
  <2>3. CASE k # 0
    <3>1. Is(k) /\ k \in Nat
      BY <1>6, <2>3
    <3>2. flat[a] = flat[k] \o seqs[a]
      <4>1. a # 1 /\ a - 1 = k /\ a \in 1..n
        BY <2>1, <2>3
      <4>2. flat[a] = Step(flat, a)
        BY <1>3, <4>1
      <4> HIDE DEF a
      <4> QED BY <4>1, <4>2
    <3> DEFINE s == flat[k]
               t == seqs[a]
               c == Len(s)
               d == Len(t)
               w == flat[a]
    <3>3. s \in S /\ t \in S /\ w = s \o t
      BY <2>1, <3>1, <3>2
    <3> HIDE DEF s, t, w
    <3>4. /\ w \in S /\ Len(w) = c + d /\ c \in Nat /\ d \in Nat
          /\ \A i \in 1..(c + d) : w[i] = IF i <= c THEN s[i] ELSE t[i - c]
      BY <3>3, ConcatProperties
    <3> HIDE DEF c, d
    <3>5. ASSUME NEW x, x \in IdsOf(w) PROVE x \in IdsOf(s) \/ x \in IdsOf(t)
      <4>1. PICK i \in 1..(c + d) : x = w[i].id
        BY <3>4, <3>5 DEF IdsOf
      <4>2. CASE i <= c
        <5>1. i \in 1..c /\ x = s[i].id
          BY <3>4, <4>1, <4>2
        <5> QED BY <5>1 DEF IdsOf, c
      <4>3. CASE ~(i <= c)
        <5>1. i - c \in 1..d /\ x = t[i - c].id
          BY <3>4, <4>1, <4>3
        <5> QED BY <5>1 DEF IdsOf, d
      <4> QED BY <4>2, <4>3
    <3>6. ASSUME NEW x, x \in IdsOf(s) \/ x \in IdsOf(t) PROVE x \in IdsOf(w)
      <4>1. CASE x \in IdsOf(s)
        <5>1. PICK i \in 1..c : x = s[i].id
          BY <4>1 DEF IdsOf, c
        <5>2. i \in 1..(c + d) /\ w[i] = s[i]
          BY <3>4, <5>1
        <5> QED BY <3>4, <5>1, <5>2 DEF IdsOf
      <4>2. CASE x \in IdsOf(t)
        <5>1. PICK i \in 1..d : x = t[i].id
          BY <4>2 DEF IdsOf, d
        <5> DEFINE j == c + i
        <5>2. j \in 1..(c + d) /\ ~(j <= c) /\ j - c = i
          BY <3>4, <5>1
        <5> HIDE DEF j
        <5>3. w[j] = t[i]
          BY <3>4, <5>2
        <5> QED BY <3>4, <5>1, <5>2, <5>3 DEF IdsOf
      <4> QED BY <3>6, <4>1, <4>2
    <3>7. \A b : b \in 1..a <=> b \in 1..k \/ b = a
      BY <3>1
    <3>8. \A x : x \in IdsOf(s) <=> \E b \in 1..k : x \in IdsOf(seqs[b])
      BY <3>1 DEF s
    <3>9. \A x : x \in IdsOf(w) <=> \E b \in 1..a : x \in IdsOf(seqs[b])
      <4> HIDE DEF a, Is
      <4> QED BY <3>5, <3>6, <3>7, <3>8 DEF t
    <3>10. Is(a)
      BY <3>4, <3>9 DEF w
    <3> HIDE DEF Is
    <3> QED BY <2>1, <3>10
  <2> QED BY <2>2, <2>3
<1>7. 0..n \subseteq G
  <2> HIDE DEF G
  <2> QED BY <1>5, <1>6, UpTo
<1>8. Is(n)
  <2>1. n \in 0..n /\ n # 0
    OBVIOUS
  <2> HIDE DEF Is
  <2> QED BY <1>7, <2>1
<1> QED BY <1>4, <1>8

-----------------------------------------------------------------------------
(* The watchdogs and the catalog.                                          *)

\* The ids the task last took over from its backend, or the configured ones
Taken(b, last) == ToSet(IF last = None THEN Ids(Static[b]) ELSE last[1])

\* A task that is about to install its backend's new entries
Building(last, new, seen) == [pc |-> "building", last |-> last, new |-> new, seen |-> seen]

\* The task of b: what it took over is in the catalog, or is about to be.
TaskOK(b) ==
  \/ /\ task[b].pc \in {"asleep", "polling", "answered"}
     /\ IdsOf(catalog.entries[b]) = Taken(b, task[b].last) \cap Filter[b]
     /\ task[b].pc = "answered" => task[b].answer \in Answers
  \/ /\ task[b] = Building(task[b].last, task[b].new, task[b].seen)
     /\ task[b].new \in Seq(CatalogEntry)
     /\ IdsOf(task[b].new) = Taken(b, task[b].last) \cap Filter[b]

\* The inductive invariant
CatalogInv ==
  /\ catalog = [entries |-> catalog.entries, routing |-> BuildRouting(catalog.entries)]
  /\ catalog.entries \in [Backends -> Seq(CatalogEntry)]
  /\ \A b \in Backends : IdsOf(catalog.entries[b]) \subseteq Filter[b]
  /\ DOMAIN rotation = DOMAIN catalog.routing
  /\ DOMAIN task = Polled /\ \A b \in Polled : TaskOK(b)
  /\ upstream \in [Polled -> Answers]

\* A catalog is its two parts.
LEMMA CatalogParts ==
  ASSUME NEW entries, NEW routing
  PROVE  LET cat == [entries |-> entries, routing |-> routing] IN
         cat.entries = entries /\ cat.routing = routing
OBVIOUS

\* The configured models are in the catalog before any poll.
LEMMA CatalogStart ==
  ASSUME CatalogAssumption
  PROVE  CatalogInit => CatalogInv
<1> SUFFICES ASSUME CatalogInit PROVE CatalogInv
  OBVIOUS
<1> DEFINE E == [b \in Backends |-> BackendEntries(b, Static[b])]
<1>1. /\ catalog = [entries |-> E, routing |-> BuildRouting(E)]
      /\ rotation = [m \in DOMAIN catalog.routing |-> 0]
      /\ task = [b \in Polled |-> Asleep(None)] /\ upstream \in [Polled -> Answers]
  BY DEF CatalogInit
<1>2. \A b \in Backends : Static[b] \in Seq(CatalogEntry)
  BY DEF CatalogAssumption
<1>3. \A b \in Backends : /\ BackendEntries(b, Static[b]) \in Seq(CatalogEntry)
                          /\ IdsOf(BackendEntries(b, Static[b])) = IdsOf(Static[b]) \cap Filter[b]
  BY <1>2, BackendEntriesFacts
<1>4. E \in [Backends -> Seq(CatalogEntry)] /\ \A b \in Backends : IdsOf(E[b]) = IdsOf(Static[b]) \cap Filter[b]
  BY <1>3
<1> HIDE DEF E
<1>5. catalog.entries = E /\ catalog.routing = BuildRouting(E)
  BY <1>1
<1>6. ASSUME NEW b \in Polled PROVE TaskOK(b)
  <2>1. b \in Backends
    BY DEF CatalogAssumption
  <2>2. task[b].pc = "asleep" /\ task[b].last = None
    BY <1>1 DEF Asleep
  <2>3. ToSet(Ids(Static[b])) = IdsOf(Static[b])
    BY <1>2, <2>1, IdsFacts
  <2> QED BY <1>4, <1>5, <2>1, <2>2, <2>3 DEF TaskOK, Taken
<1>7. DOMAIN rotation = DOMAIN catalog.routing /\ DOMAIN task = Polled
  BY <1>1
<1>8. \A b \in Backends : IdsOf(catalog.entries[b]) \subseteq Filter[b]
  BY <1>4, <1>5
<1> QED BY <1>1, <1>4, <1>5, <1>6, <1>7, <1>8 DEF CatalogInv

\* A step of one task that leaves the catalog alone
LEMMA TaskOnly ==
  ASSUME CatalogAssumption, CatalogInv, NEW b \in Polled, NEW local, task' = [task EXCEPT ![b] = local],
         catalog' = catalog, rotation' = rotation, upstream' = upstream,
         task'[b] = local => TaskOK(b)'
  PROVE  CatalogInv'
<1>1. DOMAIN task' = Polled /\ task'[b] = local /\ \A d \in Polled : d # b => task'[d] = task[d]
  BY DEF CatalogInv
<1>2. \A d \in Polled : TaskOK(d)'
  <2> SUFFICES ASSUME NEW d \in Polled, d # b PROVE TaskOK(d)'
    BY <1>1
  <2>1. TaskOK(d) /\ task'[d] = task[d]
    BY <1>1 DEF CatalogInv
  <2> QED BY <2>1 DEF TaskOK
<1> QED BY <1>1, <1>2 DEF CatalogInv

\* The steps of a round up to the answer
LEMMA RoundStep ==
  ASSUME CatalogAssumption, CatalogInv, NEW b \in Polled, Poll(b) \/ Answer(b) \/ Timeout(b)
  PROVE  CatalogInv'
<1>1. catalog' = catalog /\ rotation' = rotation /\ upstream' = upstream
  BY DEF Poll, Answer, Timeout
<1>2. TaskOK(b) /\ upstream[b] \in Answers /\ None \in Answers
  BY DEF CatalogInv, Answers
<1> DEFINE last == task[b].last
<1>3. CASE Poll(b)
  <2> DEFINE local == [pc |-> "polling", last |-> last]
  <2>1. task' = [task EXCEPT ![b] = local] /\ task[b].pc = "asleep"
    BY <1>3 DEF Poll
  <2>2. IdsOf(catalog.entries[b]) = Taken(b, last) \cap Filter[b]
    BY <1>2, <2>1 DEF TaskOK, Building
  <2>3. ASSUME task'[b] = local PROVE TaskOK(b)'
    BY <1>1, <2>2, <2>3 DEF TaskOK, Taken
  <2> HIDE DEF local
  <2> QED BY <1>1, <2>1, <2>3, TaskOnly
<1>4. CASE Answer(b) \/ Timeout(b)
  <2>1. PICK answer \in Answers :
          task' = [task EXCEPT ![b] = [pc |-> "answered", last |-> last, answer |-> answer]]
    BY <1>2, <1>4 DEF Answer, Timeout
  <2>2. task[b].pc = "polling"
    BY <1>4 DEF Answer, Timeout
  <2> DEFINE local == [pc |-> "answered", last |-> last, answer |-> answer]
  <2>3. IdsOf(catalog.entries[b]) = Taken(b, last) \cap Filter[b]
    BY <1>2, <2>2 DEF TaskOK, Building
  <2>4. ASSUME task'[b] = local PROVE TaskOK(b)'
    BY <1>1, <2>3, <2>4 DEF TaskOK, Taken
  <2>5. task' = [task EXCEPT ![b] = local]
    BY <2>1
  <2> HIDE DEF local
  <2> QED BY <1>1, <2>4, <2>5, TaskOnly
<1> QED BY <1>3, <1>4

\* watchdog.rs compares the ids, and takes over those of a new list.
LEMMA DecideStep ==
  ASSUME CatalogAssumption, CatalogInv, NEW b \in Polled, Decide(b)
  PROVE  CatalogInv'
<1> DEFINE last == task[b].last
           list == ListOf(task[b].answer)
           listed == Some(Ids(list))
           new == BackendEntries(b, list)
           building == Building(listed, new, catalog)
<1>1. /\ catalog' = catalog /\ rotation' = rotation /\ upstream' = upstream
      /\ task[b].pc = "answered" /\ TaskOK(b)
      /\ task' = [task EXCEPT ![b] = IF last = listed THEN Asleep(last) ELSE building]
  BY DEF Decide, CatalogInv, Building
<1>2. IdsOf(catalog.entries[b]) = Taken(b, last) \cap Filter[b] /\ task[b].answer \in Answers
  BY <1>1 DEF TaskOK, Building
<1>3. list \in Seq(CatalogEntry)
  <2>1. \A l \in Listings : l \in Seq(CatalogEntry)
    BY DEF CatalogAssumption
  <2>2. CASE task[b].answer = None
    BY <2>2 DEF ListOf
  <2>3. CASE task[b].answer # None
    <3>1. PICK l \in Listings : task[b].answer = Some(l)
      BY <1>2, <2>3 DEF Answers
    <3>2. list = l
      BY <2>3, <3>1 DEF ListOf, Some
    <3> QED BY <2>1, <3>2
  <2> QED BY <2>2, <2>3
<1> HIDE DEF list
<1>4. CASE last = listed
  <2>1. ASSUME task'[b] = Asleep(last) PROVE TaskOK(b)'
    BY <1>1, <1>2, <2>1 DEF TaskOK, Taken, Asleep
  <2>2. task' = [task EXCEPT ![b] = Asleep(last)]
    BY <1>1, <1>4
  <2> DEFINE local == Asleep(last)
  <2> HIDE DEF local
  <2> QED BY <1>1, <2>1, <2>2, TaskOnly DEF local
<1>5. CASE last # listed
  <2>1. task' = [task EXCEPT ![b] = building]
    BY <1>1, <1>5
  <2>2. /\ new \in Seq(CatalogEntry) /\ IdsOf(new) = IdsOf(list) \cap Filter[b]
        /\ ToSet(Ids(list)) = IdsOf(list)
    BY <1>3, BackendEntriesFacts, IdsFacts
  <2>3. Taken(b, listed) = IdsOf(list)
    BY <2>2 DEF Taken, Some, None
  <2> HIDE DEF listed, new
  <2>4. building.last = listed /\ building.new = new /\ building.seen = catalog
    BY DEF Building
  <2> HIDE DEF building
  <2>5. building = Building(listed, new, catalog)
    BY DEF building
  <2>6. ASSUME task'[b] = building PROVE TaskOK(b)'
    <3>1. task'[b] = Building(task'[b].last, task'[b].new, task'[b].seen)
      BY <2>4, <2>5, <2>6
    <3>2. task'[b].new \in Seq(CatalogEntry)
          /\ IdsOf(task'[b].new) = Taken(b, task'[b].last) \cap Filter[b]
      BY <2>2, <2>3, <2>4, <2>6
    <3> QED BY <3>1, <3>2 DEF TaskOK, Taken
  <2> QED BY <1>1, <2>1, <2>6, TaskOnly
<1> QED BY <1>4, <1>5

\* ArcSwap::rcu: the new entries go into the catalog they were built from, or
\* the task starts again from the current one.
LEMMA SwapStep ==
  ASSUME CatalogAssumption, CatalogInv, NEW b \in Polled, Swap(b)
  PROVE  CatalogInv'
<1> DEFINE last == task[b].last
           new == task[b].new
           seen == task[b].seen
<1>1. upstream' = upstream /\ task[b].pc = "building" /\ b \in Backends
  BY DEF Swap, CatalogAssumption
<1>2. /\ task[b] = Building(last, new, seen) /\ new \in Seq(CatalogEntry)
      /\ IdsOf(new) = Taken(b, last) \cap Filter[b]
  BY <1>1 DEF CatalogInv, TaskOK
<1>3. CASE seen = catalog
  <2> DEFINE E == [catalog.entries EXCEPT ![b] = new]
  <2>1. /\ catalog' = [entries |-> E, routing |-> BuildRouting(E)]
        /\ rotation' = Carry(catalog'.routing)
        /\ task' = [task EXCEPT ![b] = Asleep(last)]
    BY <1>3 DEF Swap, Install, WithBackend
  <2>2. E \in [Backends -> Seq(CatalogEntry)] /\ E[b] = new
        /\ \A d \in Backends : d # b => E[d] = catalog.entries[d]
    BY <1>1, <1>2 DEF CatalogInv
  <2> HIDE DEF E
  <2>3. catalog'.entries = E /\ catalog'.routing = BuildRouting(E)
    BY <2>1
  <2>4. DOMAIN rotation' = DOMAIN catalog'.routing
    BY <2>1 DEF Carry
  <2>5. \A d \in Backends : IdsOf(catalog'.entries[d]) \subseteq Filter[d]
    <3>1. IdsOf(new) \subseteq Filter[b]
      BY <1>2
    <3> QED BY <2>2, <2>3, <3>1 DEF CatalogInv
  <2>6. DOMAIN task' = Polled /\ task'[b] = Asleep(last) /\ \A d \in Polled : d # b => task'[d] = task[d]
    BY <2>1 DEF CatalogInv
  <2>7. ASSUME NEW d \in Polled PROVE TaskOK(d)'
    <3>1. CASE d = b
      <4>1. task'[b].pc = "asleep" /\ task'[b].last = last
        BY <2>6 DEF Asleep
      <4>2. IdsOf(catalog'.entries[b]) = Taken(b, last) \cap Filter[b]
        BY <1>2, <2>2, <2>3
      <4> QED BY <3>1, <4>1, <4>2 DEF TaskOK, Taken
    <3>2. CASE d # b
      <4>1. task'[d] = task[d] /\ catalog'.entries[d] = catalog.entries[d] /\ TaskOK(d)
        BY <2>2, <2>3, <2>6, <3>2 DEF CatalogInv, CatalogAssumption
      <4> QED BY <4>1 DEF TaskOK, Taken
    <3> QED BY <3>1, <3>2
  <2>8. upstream' \in [Polled -> Answers]
    BY <1>1 DEF CatalogInv
  <2> QED BY <2>1, <2>2, <2>3, <2>4, <2>5, <2>6, <2>7, <2>8 DEF CatalogInv
<1>4. CASE seen # catalog
  <2>1. /\ task' = [task EXCEPT ![b].seen = catalog]
        /\ catalog' = catalog /\ rotation' = rotation
    BY <1>4 DEF Swap
  <2> DEFINE local == Building(last, new, catalog)
  <2>2. [task[b] EXCEPT !.seen = catalog] = local
    <3> HIDE DEF last, new, seen
    <3> QED BY <1>2 DEF Building
  <2>3. task' = [task EXCEPT ![b] = local]
    BY <2>1, <2>2
  <2> HIDE DEF last, new
  <2>4. local.last = last /\ local.new = new /\ local.seen = catalog
    BY DEF Building
  <2>5. ASSUME task'[b] = local PROVE TaskOK(b)'
    <3> HIDE DEF local
    <3>1. task'[b] = Building(task'[b].last, task'[b].new, task'[b].seen)
      BY <2>4, <2>5 DEF local
    <3>2. task'[b].new \in Seq(CatalogEntry)
          /\ IdsOf(task'[b].new) = Taken(b, task'[b].last) \cap Filter[b]
      BY <1>2, <2>4, <2>5
    <3> QED BY <3>1, <3>2 DEF TaskOK, Taken
  <2> HIDE DEF local
  <2> QED BY <1>1, <2>1, <2>3, <2>5, TaskOnly
<1> QED BY <1>3, <1>4

\* Every step keeps the invariant.
LEMMA CatalogStep ==
  ASSUME CatalogAssumption
  PROVE  CatalogInv /\ [CatalogNext]_catalogVars => CatalogInv'
<1> SUFFICES ASSUME CatalogInv, [CatalogNext]_catalogVars PROVE CatalogInv'
  OBVIOUS
<1>1. ASSUME catalog' = catalog, DOMAIN rotation' = DOMAIN rotation, task' = task,
             upstream' \in [Polled -> Answers]
      PROVE  CatalogInv'
  <2>1. \A b \in Polled : TaskOK(b)'
    BY <1>1 DEF CatalogInv, TaskOK
  <2> QED BY <1>1, <2>1 DEF CatalogInv
<1>2. ASSUME NEW b \in Polled, Task(b) \/ Timeout(b) PROVE CatalogInv'
  BY <1>2, RoundStep, DecideStep, SwapStep DEF Task
<1>3. ASSUME NEW b \in Polled, NEW answer \in Answers, Deploy(b, answer) PROVE CatalogInv'
  <2>1. upstream' \in [Polled -> Answers]
    BY <1>3 DEF Deploy, CatalogInv
  <2> QED BY <1>1, <1>3, <2>1 DEF Deploy
<1>4. ASSUME NEW m \in Models, RouteRoundRobin(m) PROVE CatalogInv'
  BY <1>1, <1>4 DEF RouteRoundRobin, CatalogInv
<1>5. CASE UNCHANGED catalogVars
  BY <1>1, <1>5 DEF catalogVars, CatalogInv
<1> QED BY <1>2, <1>3, <1>4, <1>5 DEF CatalogNext

\* The catalog is consistent, and holds what each watchdog took over, in every
\* behaviour of the watchdogs.
THEOREM CatalogInvariant ==
  ASSUME CatalogAssumption
  PROVE  CatalogSpec => []CatalogInv
<1> QED BY CatalogStart, CatalogStep, PTL DEF CatalogSpec

\* Concurrent watchdog updates cannot lose one another, and /v1/models, the
\* routing table and the rotation counters are of the same catalog, for any
\* number of backends and models (set_backend_models, build_routing,
\* model_entries).
THEOREM NoWatchdogUpdateIsLost ==
  ASSUME CatalogAssumption
  PROVE  CatalogSpec => []UpdatesKept
<1>1. CatalogInv => NoUpdateLost
  <2> SUFFICES ASSUME CatalogInv, NEW b \in Polled, task[b].pc # "building"
               PROVE  ToSet(Ids(catalog.entries[b]))
                        = ToSet(IF task[b].last = None THEN Ids(Static[b]) ELSE task[b].last[1]) \cap Filter[b]
    BY DEF NoUpdateLost
  <2>1. IdsOf(catalog.entries[b]) = Taken(b, task[b].last) \cap Filter[b]
    BY DEF CatalogInv, TaskOK, Building
  <2>2. catalog.entries[b] \in Seq(CatalogEntry)
    BY DEF CatalogInv, CatalogAssumption
  <2> QED BY <2>1, <2>2, IdsFacts DEF Taken
<1>2. CatalogInv => RoutingAgrees
  <2> SUFFICES ASSUME CatalogInv PROVE RoutingAgrees
    OBVIOUS
  <2> DEFINE E == catalog.entries
             shown == Ids(ModelEntries(catalog))
             all == FlattenSeq([b \in Backends |-> E[b]])
             Cands(m) == IF m \in DOMAIN catalog.routing THEN catalog.routing[m] ELSE <<>>
  <2>1. /\ Size \in Nat /\ Size >= 1 /\ Backends = 1..Size
        /\ E \in [1..Size -> Seq(CatalogEntry)] /\ catalog.routing = BuildRouting(E)
        /\ \A b \in Backends : IdsOf(E[b]) \subseteq Filter[b]
    <3>1. Size \in Nat /\ Size >= 1
      BY DEF CatalogAssumption
    <3>2. catalog.routing = BuildRouting(E)
      BY DEF CatalogInv
    <3> QED BY <3>1, <3>2 DEF CatalogInv, Backends
  <2> HIDE DEF E
  <2>2. \A b \in Backends : \A m : Lists(E, b, m) <=> m \in IdsOf(E[b])
    <3> SUFFICES ASSUME NEW b \in Backends, NEW m PROVE Lists(E, b, m) <=> m \in IdsOf(E[b])
      OBVIOUS
    <3>1. DOMAIN E[b] = 1..Len(E[b])
      BY <2>1
    <3> QED BY <3>1 DEF Lists, IdsOf
  <2>3. IsInjective(shown) /\ \A x : x \in ToSet(shown) <=> \E b \in Backends : Lists(E, b, x)
    <3>1. [b \in Backends |-> E[b]] = E
      BY <2>1
    <3>2. /\ all \in Seq(CatalogEntry)
          /\ \A x : x \in IdsOf(all) <=> \E b \in 1..Size : x \in IdsOf(E[b])
      BY <2>1, <3>1, FlattenFacts
    <3>3. ModelEntries(catalog) = Deduplicate(all)
      BY DEF ModelEntries, E
    <3> HIDE DEF all
    <3>4. /\ Deduplicate(all) \in Seq(CatalogEntry) /\ IdsOf(Deduplicate(all)) = IdsOf(all)
          /\ IsInjective(Ids(Deduplicate(all)))
      BY <3>2, DeduplicateFacts
    <3>5. ToSet(shown) = IdsOf(all)
      BY <3>3, <3>4, IdsFacts
    <3> QED BY <2>1, <2>2, <3>2, <3>3, <3>4, <3>5
  <2>4. DOMAIN rotation = DOMAIN catalog.routing
    BY DEF CatalogInv
  <2>5. ASSUME NEW m \in Models
        PROVE  /\ ToSet(Cands(m)) = {b \in Backends : Lists(E, b, m) /\ m \in Filter[b]}
               /\ \A i, j \in DOMAIN Cands(m) : i < j => Cands(m)[i] < Cands(m)[j]
               /\ (Cands(m) # <<>>) = (m \in ToSet(shown))
    <3>0. \A b \in Backends : Lists(E, b, m) => m \in Filter[b]
      BY <2>1, <2>2
    <3>1. DOMAIN catalog.routing = {x \in Models : \E b \in Backends : Lists(E, b, x)}
      BY <2>1 DEF BuildRouting
    <3>2. CASE \E b \in Backends : Lists(E, b, m)
      <4> DEFINE c == CandidatesOf(E, m)
      <4>1. Cands(m) = c
        BY <2>1, <3>1, <3>2 DEF BuildRouting
      <4>2. Routes(E, m, Size, c)
        BY CandidatesOfFacts
      <4> HIDE DEF c, Cands
      <4>3. /\ c \in Seq(1..Size) /\ DOMAIN c = 1..Len(c) /\ \A i \in 1..Len(c) : c[i] \in Backends
            /\ \A i, j \in 1..Len(c) : i < j => c[i] < c[j]
            /\ \A b \in Backends : Lists(E, b, m) <=> \E i \in 1..Len(c) : c[i] = b
        <5>1. /\ c \in Seq(1..Size)
              /\ \A i, j \in 1..Len(c) : i < j => c[i] < c[j]
              /\ \A b \in 1..Size : Lists(E, b, m) <=> \E i \in 1..Len(c) : c[i] = b
          BY <4>2 DEF Routes
        <5>2. DOMAIN c = 1..Len(c) /\ \A i \in 1..Len(c) : c[i] \in 1..Size
          <6> DEFINE S == 1..Size
          <6>1. c \in Seq(S)
            BY <5>1
          <6> HIDE DEF S
          <6>2. DOMAIN c = 1..Len(c) /\ \A i \in 1..Len(c) : c[i] \in S
            BY <6>1
          <6> QED BY <6>2 DEF S
        <5> QED BY <2>1, <5>1, <5>2
      <4>4. ToSet(c) = {b \in Backends : Lists(E, b, m) /\ m \in Filter[b]}
        BY <3>0, <4>3 DEF ToSet
      <4>5. c # <<>>
        BY <3>2, <4>3
      <4>6. m \in ToSet(shown)
        BY <2>3, <3>2
      <4> HIDE DEF shown
      <4> QED BY <4>1, <4>3, <4>4, <4>5, <4>6
    <3>3. CASE ~\E b \in Backends : Lists(E, b, m)
      <4>1. Cands(m) = <<>>
        BY <3>1, <3>3
      <4>2. m \notin ToSet(shown)
        BY <2>3, <3>3
      <4>3. ToSet(<<>>) = {} /\ DOMAIN <<>> = {}
        BY DEF ToSet
      <4> HIDE DEF shown, Cands
      <4>4. {b \in Backends : Lists(E, b, m) /\ m \in Filter[b]} = {}
        BY <3>3
      <4> QED BY <4>1, <4>2, <4>3, <4>4
    <3> QED BY <3>2, <3>3
  <2> QED BY <2>3, <2>4, <2>5 DEF RoutingAgrees, E
<1> QED BY <1>1, <1>2, CatalogInvariant, PTL DEF UpdatesKept

-----------------------------------------------------------------------------
(* Round robin.                                                            *)

\* Consecutive numbers differ modulo two or more.
LEMMA ModStep ==
  ASSUME NEW n \in Nat, n >= 2, NEW v \in Nat
  PROVE  (v + 1) % n # v % n /\ v % n \in 0..(n - 1)
<1> DEFINE q == v \div n
           r == v % n
           p == (v + 1) \div n
           s == (v + 1) % n
<1>1. v = n * q + r /\ q \in Int /\ r \in 0..(n - 1)
  OBVIOUS
<1>2. v + 1 = n * p + s /\ p \in Int /\ s \in 0..(n - 1)
  OBVIOUS
<1> HIDE DEF q, r, p, s
<1>3. ASSUME r = s PROVE FALSE
  <2>1. n * p = n * q + 1
    BY <1>1, <1>2, <1>3
  <2>2. p > q
    <3> SUFFICES ASSUME p <= q PROVE FALSE
      BY <1>1, <1>2
    <3>1. n * p <= n * q
      BY <1>1, <1>2
    <3> QED BY <1>1, <1>2, <2>1, <3>1
  <2>3. p >= q + 1
    BY <1>1, <1>2, <2>2
  <2>4. n * p >= n * (q + 1) /\ n * (q + 1) = n * q + n
    BY <1>1, <1>2, <2>3
  <2> QED BY <1>1, <1>2, <2>1, <2>4
<1> QED BY <1>1, <1>3 DEF r, s

\* The counter after v
LEMMA CounterStep ==
  ASSUME NEW w \in Nat, w >= 1, NEW v \in 0..(w - 1)
  PROVE  /\ (v + 1) % w \in 0..(w - 1)
         /\ (v + 1) % w = v + 1 \/ ((v + 1) % w = 0 /\ v + 1 = w)
OBVIOUS

\* A placement is the candidates and the one the counter pointed to.
Pointed(p, r) ==
  \E c \in Seq(Nat), v \in 0..(Wrap - 1) :
    /\ Len(c) >= 2 /\ \A i, j \in 1..Len(c) : i < j => c[i] < c[j]
    /\ p = <<c, c[(v % Len(c)) + 1]>> /\ r = (v + 1) % Wrap

\* The inductive invariant of the rotation counters: each is one past where
\* the last placement was, over all rebuilds of the catalog.
RotationInv ==
  /\ DOMAIN placed = DOMAIN catalog.routing
  /\ \A m \in DOMAIN catalog.routing :
       /\ rotation[m] \in 0..(Wrap - 1)
       /\ placed[m] = <<>> \/ Pointed(placed[m], rotation[m])

\* The candidates of a routable model
LEMMA RoutingFacts ==
  ASSUME CatalogAssumption, CatalogInv, NEW m \in DOMAIN catalog.routing
  PROVE  LET c == catalog.routing[m] IN
         c \in Seq(Nat) /\ \A i, j \in 1..Len(c) : i < j => c[i] < c[j]
<1> DEFINE E == catalog.entries
           c == catalog.routing[m]
<1>1. c = CandidatesOf(E, m)
  BY DEF CatalogInv, BuildRouting
<1> HIDE DEF E, c
<1>2. Routes(E, m, Size, c)
  BY <1>1, CandidatesOfFacts
<1> DEFINE S == 1..Size
<1>3. c \in Seq(S) /\ \A i, j \in 1..Len(c) : i < j => c[i] < c[j]
  BY <1>2 DEF Routes
<1>4. S \subseteq Nat
  BY DEF CatalogAssumption
<1> HIDE DEF S
<1>5. c \in Seq(Nat)
  BY <1>3, <1>4, SeqMonotonic
<1> QED BY <1>3, <1>5 DEF c

\* One placement: fetch_add and rotate_left.
LEMMA RotateFacts ==
  ASSUME CatalogAssumption, CatalogInv, RotationInv, NEW m \in Models, RouteRoundRobin(m)
  PROVE  LET c == catalog.routing[m]
             r == rotation[m]
         IN  /\ m \in DOMAIN catalog.routing /\ c \in Seq(Nat) /\ Len(c) >= 2 /\ r \in 0..(Wrap - 1)
             /\ \A i, j \in 1..Len(c) : i < j => c[i] < c[j]
             /\ placed' = [placed EXCEPT ![m] = <<c, c[(r % Len(c)) + 1]>>]
             /\ rotation' = [rotation EXCEPT ![m] = (r + 1) % Wrap]
             /\ catalog' = catalog
<1>1. m \in DOMAIN catalog.routing /\ RouteCandidates(m) = catalog.routing[m]
  BY DEF RouteRoundRobin, RouteCandidates
<1>2. /\ catalog.routing[m] \in Seq(Nat)
      /\ \A i, j \in 1..Len(catalog.routing[m]) : i < j => catalog.routing[m][i] < catalog.routing[m][j]
  BY <1>1, RoutingFacts
<1>3. Len(catalog.routing[m]) >= 2
  BY <1>1, <1>2 DEF RouteRoundRobin
<1>4. rotation[m] \in 0..(Wrap - 1)
  BY <1>1 DEF RotationInv
<1>5. /\ placed' = [placed EXCEPT ![m] = <<catalog.routing[m],
                       catalog.routing[m][(rotation[m] % Len(catalog.routing[m])) + 1]>>]
      /\ rotation' = [rotation EXCEPT ![m] = (rotation[m] + 1) % Wrap]
      /\ catalog' = catalog
  BY <1>1 DEF RouteRoundRobin
<1> QED BY <1>1, <1>2, <1>3, <1>4, <1>5

\* It holds at the start, and every step keeps it.
LEMMA RotationStart ==
  ASSUME CatalogAssumption
  PROVE  CatalogInit => RotationInv
<1> SUFFICES ASSUME CatalogInit PROVE RotationInv
  OBVIOUS
<1>1. 0 \in 0..(Wrap - 1)
  BY DEF CatalogAssumption
<1>2. /\ rotation = [m \in DOMAIN catalog.routing |-> 0]
      /\ placed = [m \in DOMAIN catalog.routing |-> <<>>]
  BY DEF CatalogInit
<1> QED BY <1>1, <1>2 DEF RotationInv

\* Every step keeps it: a rebuild carries the counters over.
LEMMA RotationStep ==
  ASSUME CatalogAssumption
  PROVE  CatalogInv /\ RotationInv /\ [CatalogNext]_catalogVars => RotationInv'
<1> SUFFICES ASSUME CatalogInv, RotationInv, [CatalogNext]_catalogVars PROVE RotationInv'
  OBVIOUS
<1>1. ASSUME catalog' = catalog, rotation' = rotation, placed' = placed PROVE RotationInv'
  BY <1>1 DEF RotationInv
<1>2. ASSUME NEW cat, Install(cat) PROVE RotationInv'
  <2>1. /\ catalog' = cat /\ rotation' = Carry(cat.routing)
        /\ placed' = [m \in DOMAIN cat.routing |-> IF m \in DOMAIN placed THEN placed[m] ELSE <<>>]
    BY <1>2 DEF Install
  <2>2. DOMAIN rotation = DOMAIN placed /\ DOMAIN placed = DOMAIN catalog.routing
    BY DEF CatalogInv, RotationInv
  <2>3. 0 \in 0..(Wrap - 1)
    BY DEF CatalogAssumption
  <2>4. ASSUME NEW m \in DOMAIN cat.routing
        PROVE  /\ rotation'[m] \in 0..(Wrap - 1)
               /\ placed'[m] = <<>> \/ Pointed(placed'[m], rotation'[m])
    <3>1. CASE m \in DOMAIN placed
      <4>1. rotation'[m] = rotation[m] /\ placed'[m] = placed[m] /\ m \in DOMAIN catalog.routing
        BY <2>1, <2>2, <2>4, <3>1 DEF Carry
      <4>2. rotation[m] \in 0..(Wrap - 1) /\ (placed[m] = <<>> \/ Pointed(placed[m], rotation[m]))
        BY <4>1 DEF RotationInv
      <4> QED BY <4>1, <4>2
    <3>2. CASE m \notin DOMAIN placed
      <4>1. rotation'[m] = 0 /\ placed'[m] = <<>>
        BY <2>1, <2>2, <2>4, <3>2 DEF Carry
      <4> QED BY <2>3, <4>1
    <3> QED BY <3>1, <3>2
  <2>5. DOMAIN placed' = DOMAIN cat.routing
    BY <2>1
  <2>6. \A m \in DOMAIN cat.routing : placed'[m] = <<>> \/ Pointed(placed[m], rotation[m])'
    BY <2>4 DEF Pointed
  <2> QED BY <2>1, <2>4, <2>5, <2>6 DEF RotationInv
<1>3. ASSUME NEW m \in Models, RouteRoundRobin(m) PROVE RotationInv'
  <2> DEFINE c == catalog.routing[m]
             r == rotation[m]
             p == <<c, c[(r % Len(c)) + 1]>>
             s == (r + 1) % Wrap
  <2>1. /\ m \in DOMAIN catalog.routing /\ c \in Seq(Nat) /\ Len(c) >= 2 /\ r \in 0..(Wrap - 1)
        /\ \A i, j \in 1..Len(c) : i < j => c[i] < c[j]
        /\ placed' = [placed EXCEPT ![m] = p] /\ rotation' = [rotation EXCEPT ![m] = s]
        /\ catalog' = catalog
    BY <1>3, RotateFacts
  <2>2. DOMAIN placed = DOMAIN catalog.routing /\ DOMAIN rotation = DOMAIN catalog.routing
    BY DEF CatalogInv, RotationInv
  <2>3. Pointed(p, s)
    <3> HIDE DEF c, r
    <3> QED BY <2>1 DEF Pointed
  <2>4. s \in 0..(Wrap - 1)
    <3>1. Wrap \in Nat /\ Wrap >= 1
      BY DEF CatalogAssumption
    <3> HIDE DEF r
    <3> QED BY <2>1, <3>1, CounterStep
  <2> HIDE DEF p, s, c, r
  <2>5. /\ placed'[m] = p /\ rotation'[m] = s /\ DOMAIN placed' = DOMAIN placed
        /\ \A k \in DOMAIN catalog.routing : k # m => placed'[k] = placed[k] /\ rotation'[k] = rotation[k]
    BY <2>1, <2>2
  <2>6. ASSUME NEW k \in DOMAIN catalog.routing
        PROVE  /\ rotation'[k] \in 0..(Wrap - 1)
               /\ placed'[k] = <<>> \/ Pointed(placed'[k], rotation'[k])
    <3>1. CASE k = m
      BY <2>3, <2>4, <2>5, <3>1
    <3>2. CASE k # m
      <4>1. rotation[k] \in 0..(Wrap - 1) /\ (placed[k] = <<>> \/ Pointed(placed[k], rotation[k]))
        BY DEF RotationInv
      <4> QED BY <2>5, <3>2, <4>1
    <3> QED BY <3>1, <3>2
  <2>7. \A k \in DOMAIN catalog.routing : placed'[k] = <<>> \/ Pointed(placed[k], rotation[k])'
    BY <2>6 DEF Pointed
  <2> QED BY <2>1, <2>2, <2>5, <2>6, <2>7 DEF RotationInv
<1>4. ASSUME NEW b \in Polled, Task(b) \/ Timeout(b) PROVE RotationInv'
  <2>1. CASE Swap(b)
    BY <1>1, <1>2, <2>1 DEF Swap
  <2>2. CASE Poll(b) \/ Answer(b) \/ Decide(b) \/ Timeout(b)
    BY <1>1, <2>2 DEF Poll, Answer, Decide, Timeout
  <2> QED BY <1>4, <2>1, <2>2 DEF Task
<1>5. ASSUME NEW b \in Polled, NEW answer \in Answers, Deploy(b, answer) PROVE RotationInv'
  BY <1>1, <1>5 DEF Deploy
<1>6. CASE UNCHANGED catalogVars
  BY <1>1, <1>6 DEF catalogVars
<1> QED BY <1>3, <1>4, <1>5, <1>6 DEF CatalogNext

\* Round robin never starts at the same backend twice in a row while the
\* candidates stay the same, whatever the watchdogs rebuild in between; where
\* the counter has wrapped, if their number divides its range
\* (strategy_placement, RoutingEntry's rotation).
THEOREM RotationGoesOn ==
  ASSUME CatalogAssumption
  PROVE  CatalogSpec => RotationAdvances
<1>1. ASSUME CatalogInv, RotationInv, NEW m \in Models, RouteRoundRobin(m), placed[m] # <<>>,
             placed'[m][1] = placed[m][1], rotation[m] = 0 => Wrap % Len(placed[m][1]) = 0
      PROVE  placed'[m][2] # placed[m][2]
  <2> DEFINE c == catalog.routing[m]
             r == rotation[m]
             n == Len(c)
  <2>1. /\ m \in DOMAIN catalog.routing /\ c \in Seq(Nat) /\ n >= 2 /\ r \in 0..(Wrap - 1)
        /\ \A i, j \in 1..n : i < j => c[i] < c[j]
        /\ placed' = [placed EXCEPT ![m] = <<c, c[(r % n) + 1]>>]
    BY <1>1, RotateFacts
  <2>2. placed'[m] = <<c, c[(r % n) + 1]>> /\ Pointed(placed[m], r)
    BY <1>1, <2>1 DEF RotationInv
  <2>3. PICK d \in Seq(Nat), v \in 0..(Wrap - 1) :
          placed[m] = <<d, d[(v % Len(d)) + 1]>> /\ r = (v + 1) % Wrap
    BY <2>2 DEF Pointed
  <2>4. d = c
    BY <1>1, <2>2, <2>3
  <2>5. placed'[m][2] = c[(r % n) + 1] /\ placed[m][2] = c[(v % n) + 1] /\ (r = 0 => Wrap % n = 0)
    BY <1>1, <2>2, <2>3, <2>4
  <2>6. n \in Nat /\ v \in Nat /\ r \in Nat /\ Wrap \in Nat /\ Wrap >= 1
    BY <2>1 DEF CatalogAssumption
  <2> HIDE DEF n, r, c
  <2>7. r % n # v % n
    <3>1. r = v + 1 \/ (r = 0 /\ v + 1 = Wrap)
      BY <2>3, <2>6, CounterStep
    <3>2. (v + 1) % n # v % n
      BY <2>1, <2>6, ModStep
    <3>3. CASE r = v + 1
      BY <3>2, <3>3
    <3>4. CASE r = 0 /\ v + 1 = Wrap
      <4>1. 0 % n = 0
        BY <2>1, <2>6
      <4> QED BY <2>5, <3>2, <3>4, <4>1
    <3> QED BY <3>1, <3>3, <3>4
  <2> DEFINE i == (r % n) + 1
             j == (v % n) + 1
  <2>8. i \in 1..n /\ j \in 1..n /\ i # j
    <3>1. r % n \in 0..(n - 1) /\ v % n \in 0..(n - 1)
      BY <2>1, <2>6, ModStep
    <3> QED BY <2>6, <2>7, <3>1
  <2> HIDE DEF i, j
  <2>9. c[i] # c[j]
    <3>1. i < j \/ j < i
      BY <2>8
    <3>2. c[i] \in Nat /\ c[j] \in Nat
      BY <2>1, <2>8 DEF n
    <3> QED BY <2>1, <2>8, <3>1, <3>2
  <2> QED BY <2>5, <2>9 DEF i, j
<1>2. CatalogInv /\ RotationInv /\ [CatalogNext]_catalogVars
        => [\A m \in Models :
              /\ RouteRoundRobin(m) /\ placed[m] # <<>> /\ placed'[m][1] = placed[m][1]
              /\ rotation[m] = 0 => Wrap % Len(placed[m][1]) = 0
              => placed'[m][2] # placed[m][2]]_catalogVars
  BY <1>1
<1> QED BY <1>2, RotationStart, RotationStep, CatalogInvariant, PTL DEF CatalogSpec, RotationAdvances

=============================================================================
