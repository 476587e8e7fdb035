------------------------- MODULE ArrangementProofs -------------------------
(***************************************************************************)
(* What filtering, deduplication, sorting and slicing return: for any      *)
(* sequence, positions and order.                                          *)
(***************************************************************************)
EXTENDS Arrangement, FiniteSetTheorems, SequenceTheorems, TLAPS

-----------------------------------------------------------------------------
(* A strict total order, as a set of pairs.                                *)
TotalOrder(before, S) ==
    /\ \A x \in S : <<x, x>> \notin before
    /\ \A x, y \in S : x # y => <<x, y>> \in before \/ <<y, x>> \in before
    /\ \A x, y, z \in S : <<x, y>> \in before /\ <<y, z>> \in before => <<x, z>> \in before

(* A finite set with a strict total order is enumerated in that order: the *)
(* k-th element is the one with k - 1 before it, and there is one.         *)
LEMMA OrderedFacts ==
    ASSUME NEW S, IsFiniteSet(S), NEW before, TotalOrder(before, S)
    PROVE  /\ Cardinality(S) \in Nat
           /\ Ordered(S, before) \in [1..Cardinality(S) -> S]
           /\ \A i, k \in 1..Cardinality(S) :
                 i < k => <<Ordered(S, before)[i], Ordered(S, before)[k]>> \in before
           /\ \A i \in 1..Cardinality(S) :
                 Cardinality({y \in S : <<y, Ordered(S, before)[i]>> \in before}) = i - 1
<1> DEFINE Below(x) == {y \in S : <<y, x>> \in before}
           n == Cardinality(S)
           f == [x \in S |-> Cardinality(Below(x)) + 1]
           o == Ordered(S, before)
<1>1. n \in Nat
  BY FS_CardinalityType
<1>13. \A x \in S : <<x, x>> \notin before
  BY DEF TotalOrder
<1>14. \A x, y \in S : x # y => <<x, y>> \in before \/ <<y, x>> \in before
  BY DEF TotalOrder
<1>15. \A x, y, z \in S : <<x, y>> \in before /\ <<y, z>> \in before => <<x, z>> \in before
  BY DEF TotalOrder
<1>2. ASSUME NEW x \in S
      PROVE  IsFiniteSet(Below(x)) /\ Cardinality(Below(x)) \in Nat /\ Cardinality(Below(x)) < n
  <2>1. Below(x) \in SUBSET S /\ Below(x) # S
    BY <1>13, Zenon
  <2>2. IsFiniteSet(Below(x)) /\ Cardinality(Below(x)) <= n /\ (n = Cardinality(Below(x)) => S = Below(x))
    BY <2>1, FS_Subset
  <2>3. Cardinality(Below(x)) \in Nat
    BY <2>2, FS_CardinalityType
  <2> HIDE DEF Below
  <2> QED
    BY <1>1, <2>1, <2>2, <2>3
<1>3. ASSUME NEW x \in S, NEW y \in S, <<x, y>> \in before
      PROVE  Cardinality(Below(x)) < Cardinality(Below(y))
  <2>1. Below(x) \in SUBSET Below(y) /\ Below(y) # Below(x)
    <3>1. \A z \in Below(x) : z \in Below(y)
      BY <1>3, <1>15
    <3>2. x \in Below(y) /\ x \notin Below(x)
      BY <1>3, <1>13
    <3> QED
      BY <3>1, <3>2, Zenon
  <2>2. IsFiniteSet(Below(y)) /\ Cardinality(Below(y)) \in Nat /\ Cardinality(Below(x)) \in Nat
    BY <1>2
  <2>3. Cardinality(Below(x)) <= Cardinality(Below(y))
        /\ (Cardinality(Below(y)) = Cardinality(Below(x)) => Below(y) = Below(x))
    BY <2>1, <2>2, FS_Subset
  <2> HIDE DEF Below
  <2> QED
    BY <2>1, <2>2, <2>3
<1> HIDE DEF Below
<1>4. f \in [S -> 1..n] /\ \A x \in S : f[x] = Cardinality(Below(x)) + 1
  BY <1>1, <1>2
<1>5. ASSUME NEW x \in S, NEW y \in S, <<x, y>> \in before PROVE f[x] < f[y]
  BY <1>2, <1>3, <1>4, <1>5
<1> HIDE DEF f
<1>6. \A x, y \in S : f[x] = f[y] => x = y
  <2> SUFFICES ASSUME NEW x \in S, NEW y \in S, f[x] = f[y], x # y PROVE FALSE
    OBVIOUS
  <2>1. f[x] < f[y] \/ f[y] < f[x]
    BY <1>5, <1>14
  <2>2. f[x] \in Nat
    BY <1>4
  <2> QED
    BY <2>1, <2>2
<1>7. f \in Injection(S, 1..n)
  BY <1>4, <1>6 DEF Injection, IsInjective
<1>8. IsFiniteSet(1..n) /\ Cardinality(1..n) = n
  BY <1>1, FS_Interval
<1>9. f \in Surjection(S, 1..n)
  BY <1>7, <1>8, FS_Injection
<1>10. ASSUME NEW i \in 1..n PROVE o[i] \in S /\ f[o[i]] = i /\ Cardinality(Below(o[i])) = i - 1
  <2>1. PICK x \in S : f[x] = i
    BY <1>9 DEF Surjection
  <2>2. Cardinality(Below(x)) = i - 1
    BY <1>2, <1>4, <2>1
  <2>3. o[i] = CHOOSE z \in S : Cardinality(Below(z)) = i - 1
    BY DEF Ordered, Below
  <2>4. o[i] \in S /\ Cardinality(Below(o[i])) = i - 1
    BY <2>2, <2>3
  <2> HIDE DEF o, n
  <2> QED
    BY <1>2, <1>4, <2>4
<1>11. o \in [1..n -> S]
  BY <1>10 DEF Ordered
<1>12. ASSUME NEW i \in 1..n, NEW k \in 1..n, i < k PROVE <<o[i], o[k]>> \in before
  <2>1. o[i] \in S /\ o[k] \in S /\ f[o[i]] = i /\ f[o[k]] = k /\ i \in Nat /\ k \in Nat
    BY <1>1, <1>10
  <2> HIDE DEF o, n
  <2>2. o[i] # o[k]
    BY <1>12, <2>1
  <2>3. <<o[k], o[i]>> \notin before
    BY <1>5, <1>12, <2>1
  <2> QED
    BY <1>14, <2>1, <2>2, <2>3
<1>16. \A i \in 1..n : Cardinality({y \in S : <<y, o[i]>> \in before}) = i - 1
  BY <1>10 DEF Below
<1> QED
  BY <1>1, <1>11, <1>12, <1>16

(* A finite set of numbers has a largest one.                              *)
LEMMA LargestExists ==
    ASSUME NEW S \in SUBSET Nat, IsFiniteSet(S), S # {}
    PROVE  \E m \in S : \A x \in S : x <= m
<1> DEFINE before == {p \in S \X S : p[1] > p[2]}
<1>1. \A x, y \in S : <<x, y>> \in before <=> x > y
  BY Zenon
<1> HIDE DEF before
<1>2. TotalOrder(before, S)
  <2>1. \A x \in S : <<x, x>> \notin before
    BY <1>1
  <2>2. \A x, y \in S : x # y => <<x, y>> \in before \/ <<y, x>> \in before
    BY <1>1
  <2>3. \A x, y, z \in S : <<x, y>> \in before /\ <<y, z>> \in before => <<x, z>> \in before
    BY <1>1
  <2> QED
    BY <2>1, <2>2, <2>3 DEF TotalOrder
<1>3. PICK o : o = Ordered(S, before)
  OBVIOUS
<1>4. Cardinality(S) \in Nat /\ Cardinality(S) # 0
  <2>1. Cardinality(S) \in Nat
    BY FS_CardinalityType
  <2>2. Cardinality(S) # 0
    BY FS_EmptySet, Zenon
  <2> QED
    BY <2>1, <2>2
<1>5. /\ o \in [1..Cardinality(S) -> S]
      /\ \A i \in 1..Cardinality(S) : Cardinality({y \in S : <<y, o[i]>> \in before}) = i - 1
  <2>1. /\ Ordered(S, before) \in [1..Cardinality(S) -> S]
        /\ \A i \in 1..Cardinality(S) :
              Cardinality({y \in S : <<y, Ordered(S, before)[i]>> \in before}) = i - 1
    BY <1>2, OrderedFacts
  <2> QED
    BY <1>3, <2>1
<1>6. o[1] \in S /\ Cardinality({y \in S : <<y, o[1]>> \in before}) = 0
  BY <1>4, <1>5
<1>7. IsFiniteSet({y \in S : <<y, o[1]>> \in before})
  BY FS_Subset
<1>8. {y \in S : <<y, o[1]>> \in before} = {}
  BY <1>6, <1>7, FS_EmptySet, Zenon
<1>9. \A y \in S : <<y, o[1]>> \notin before
  BY <1>8
<1>10. PICK m \in S : m = o[1]
  BY <1>6
<1>11. \A y \in S : ~(y > m)
  BY <1>1, <1>9, <1>10
<1>12. \A y \in S : y \in Nat
  OBVIOUS
<1>13. \A y \in S : y <= m
  BY <1>11, <1>12
<1> QED
  BY <1>13

(* A set of ranks has a first one.                                         *)
LEMMA SmallestExists ==
    ASSUME NEW n \in Nat, NEW S \in SUBSET (0..n), S # {}
    PROVE  \E m \in S : \A x \in S : m <= x
<1> DEFINE T == {n - x : x \in S}
<1>1. T \in SUBSET (0..n) /\ T \in SUBSET Nat /\ T # {}
  <2>1. \A x \in S : n - x \in 0..n /\ n - x \in Nat
    OBVIOUS
  <2> QED
    BY <2>1, Zenon
<1>2. IsFiniteSet(T)
  <2>1. IsFiniteSet(0..n)
    BY FS_Interval
  <2> QED
    BY <1>1, <2>1, FS_Subset
<1>3. PICK t \in T : \A y \in T : y <= t
  BY <1>1, <1>2, LargestExists
<1>4. PICK m \in S : t = n - m
  BY <1>3
<1>5. ASSUME NEW x \in S PROVE m <= x
  <2>1. n - x \in T
    OBVIOUS
  <2>2. n - x <= n - m
    BY <1>3, <1>4, <2>1
  <2> QED
    BY <2>2
<1> QED
  BY <1>5

LEMMA DomainFacts ==
    ASSUME NEW X, NEW seq \in Seq(X)
    PROVE  /\ Len(seq) \in Nat /\ DOMAIN seq = 1..Len(seq)
           /\ IsFiniteSet(DOMAIN seq) /\ Cardinality(DOMAIN seq) = Len(seq)
<1>1. Len(seq) \in Nat /\ DOMAIN seq = 1..Len(seq)
  OBVIOUS
<1>2. PICK n \in Nat : n = Len(seq)
  BY <1>1
<1>3. IsFiniteSet(1..n) /\ Cardinality(1..n) = n
  BY FS_Interval
<1> QED
  BY <1>1, <1>2, <1>3

(* The positions a sequence is rearranged by.                              *)
LEMMA ArrangedFacts ==
    ASSUME NEW X, NEW seq \in Seq(X), NEW K \in SUBSET DOMAIN seq, NEW before,
           TotalOrder(before, K)
    PROVE  /\ Arranged(seq, K, before) \in Seq(X)
           /\ Len(Arranged(seq, K, before)) = Cardinality(K)
           /\ DOMAIN Arranged(seq, K, before) = 1..Cardinality(K)
           /\ IsFiniteSet(K) /\ Cardinality(K) \in Nat /\ Cardinality(K) <= Len(seq)
           /\ \E o \in [1..Cardinality(K) -> K] :
                 /\ \A i \in 1..Cardinality(K) : Arranged(seq, K, before)[i] = seq[o[i]]
                 /\ \A i, k \in 1..Cardinality(K) : i < k => <<o[i], o[k]>> \in before
<1> DEFINE n == Cardinality(K)
           o == Ordered(K, before)
           a == Arranged(seq, K, before)
<1>1. Len(seq) \in Nat /\ DOMAIN seq = 1..Len(seq)
  OBVIOUS
<1>2. IsFiniteSet(DOMAIN seq) /\ Cardinality(DOMAIN seq) = Len(seq)
  BY DomainFacts
<1>3. IsFiniteSet(K) /\ n <= Len(seq)
  BY <1>2, FS_Subset
<1>4. /\ n \in Nat /\ o \in [1..n -> K]
      /\ \A i, k \in 1..n : i < k => <<o[i], o[k]>> \in before
  BY <1>3, OrderedFacts, Zenon
<1>5. a = [i \in 1..n |-> seq[o[i]]]
  BY DEF Arranged
<1> HIDE DEF n, o, a
<1>6. a \in Seq(X) /\ Len(a) = n /\ DOMAIN a = 1..n
  BY <1>1, <1>4, <1>5
<1>7. \A i \in 1..n : a[i] = seq[o[i]]
  BY <1>5
<1> QED
  BY <1>3, <1>4, <1>6, <1>7 DEF n, o, a

(* What is picked from a sequence keeps its order.                         *)
Picks(sub, seq, K) ==
    \E o \in [1..Cardinality(K) -> K] :
        /\ \A i \in 1..Cardinality(K) : sub[i] = seq[o[i]]
        /\ \A i, k \in 1..Cardinality(K) : i < k => o[i] < o[k]

LEMMA PickedFacts ==
    ASSUME NEW X, NEW seq \in Seq(X), NEW K \in SUBSET DOMAIN seq
    PROVE  /\ Picked(seq, K) \in Seq(X)
           /\ Len(Picked(seq, K)) = Cardinality(K)
           /\ DOMAIN Picked(seq, K) = 1..Cardinality(K)
           /\ IsFiniteSet(K) /\ Cardinality(K) \in Nat /\ Cardinality(K) <= Len(seq)
           /\ Picks(Picked(seq, K), seq, K)
<1> DEFINE before == {p \in K \X K : p[1] < p[2]}
<1>1. \A x \in K : x \in Nat
  BY SMT
<1>2. \A x, y \in K : <<x, y>> \in before <=> x < y
  BY Zenon
<1> HIDE DEF before
<1>3. TotalOrder(before, K)
  BY <1>1, <1>2 DEF TotalOrder
<1>4. Picked(seq, K) = Arranged(seq, K, before)
  BY DEF Picked, before
<1>5. /\ Picked(seq, K) \in Seq(X) /\ Len(Picked(seq, K)) = Cardinality(K)
      /\ DOMAIN Picked(seq, K) = 1..Cardinality(K)
      /\ IsFiniteSet(K) /\ Cardinality(K) \in Nat /\ Cardinality(K) <= Len(seq)
  BY <1>3, <1>4, ArrangedFacts
<1>6. PICK o \in [1..Cardinality(K) -> K] :
        /\ \A i \in 1..Cardinality(K) : Picked(seq, K)[i] = seq[o[i]]
        /\ \A i, k \in 1..Cardinality(K) : i < k => <<o[i], o[k]>> \in before
  BY <1>3, <1>4, ArrangedFacts
<1>7. \A i, k \in 1..Cardinality(K) : i < k => o[i] < o[k]
  BY <1>2, <1>6
<1>8. Picks(Picked(seq, K), seq, K)
  BY <1>6, <1>7 DEF Picks
<1> QED
  BY <1>5, <1>8

(* The beginning of a sequence.                                            *)
LEMMA SubSeqFacts ==
    ASSUME NEW X, NEW seq \in Seq(X), NEW n \in 0..Len(seq)
    PROVE  /\ SubSeq(seq, 1, n) \in Seq(X) /\ Len(SubSeq(seq, 1, n)) = n
           /\ DOMAIN SubSeq(seq, 1, n) = 1..n /\ 1..n \subseteq DOMAIN seq
           /\ \A i \in 1..n : SubSeq(seq, 1, n)[i] = seq[i]
<1>1. n \in Nat /\ Len(seq) \in Nat /\ n <= Len(seq) /\ DOMAIN seq = 1..Len(seq)
  OBVIOUS
<1>2. \A i \in 1..n : seq[i] \in X /\ i \in DOMAIN seq
  BY <1>1
<1>3. SubSeq(seq, 1, n) = [i \in 1..n |-> seq[i]]
  BY <1>1
<1> QED
  BY <1>1, <1>2, <1>3

LEMMA TruncatedFacts ==
    ASSUME NEW X, NEW seq \in Seq(X), NEW n \in Nat
    PROVE  /\ Truncated(seq, n) \in Seq(X) /\ Len(Truncated(seq, n)) <= n
           /\ \E m \in 0..Len(seq) : Truncated(seq, n) = SubSeq(seq, 1, m)
<1>1. Len(seq) \in Nat /\ DOMAIN seq = 1..Len(seq)
  OBVIOUS
<1>2. CASE Len(seq) > n
  <2>1. n \in 0..Len(seq)
    BY <1>1, <1>2
  <2>2. Truncated(seq, n) = SubSeq(seq, 1, n)
    BY <1>2 DEF Truncated
  <2> QED
    BY <2>1, <2>2, SubSeqFacts
<1>3. CASE ~(Len(seq) > n)
  <2>1. Len(seq) \in 0..Len(seq)
    BY <1>1
  <2>2. Truncated(seq, n) = seq
    BY <1>3 DEF Truncated
  <2>3. SubSeq(seq, 1, Len(seq)) = seq
    <3>1. SubSeq(seq, 1, Len(seq)) = [i \in 1..Len(seq) |-> seq[i]]
      BY <1>1
    <3>2. seq = [i \in 1..Len(seq) |-> seq[i]]
      BY <1>1
    <3> QED
      BY <3>1, <3>2
  <2>4. \E m \in 0..Len(seq) : Truncated(seq, n) = SubSeq(seq, 1, m)
    BY <2>1, <2>2, <2>3, Zenon
  <2>5. Truncated(seq, n) \in Seq(X) /\ Len(Truncated(seq, n)) <= n
    BY <1>1, <1>3, <2>2
  <2> QED
    BY <2>4, <2>5
<1> QED
  BY <1>2, <1>3

(* sub is seq with some elements left out.                                 *)
Subsequence(sub, seq) ==
    \E o \in [DOMAIN sub -> DOMAIN seq] :
        /\ \A i \in DOMAIN sub : sub[i] = seq[o[i]]
        /\ \A i, k \in DOMAIN sub : i < k => o[i] < o[k]

LEMMA PickedSubsequence ==
    ASSUME NEW X, NEW seq \in Seq(X), NEW K \in SUBSET DOMAIN seq
    PROVE  Subsequence(Picked(seq, K), seq)
<1>4. Picks(Picked(seq, K), seq, K)
  BY PickedFacts
<1>1. PICK o \in [1..Cardinality(K) -> K] :
        /\ \A i \in 1..Cardinality(K) : Picked(seq, K)[i] = seq[o[i]]
        /\ \A i, k \in 1..Cardinality(K) : i < k => o[i] < o[k]
  BY <1>4 DEF Picks
<1>2. DOMAIN Picked(seq, K) = 1..Cardinality(K)
  BY PickedFacts
<1>3. o \in [DOMAIN Picked(seq, K) -> DOMAIN seq]
  BY <1>2
<1> QED
  BY <1>1, <1>2, <1>3, Zenon DEF Subsequence

LEMMA PrefixSubsequence ==
    ASSUME NEW X, NEW seq \in Seq(X), NEW n \in 0..Len(seq)
    PROVE  Subsequence(SubSeq(seq, 1, n), seq)
<1> DEFINE o == [i \in 1..n |-> i]
           sub == SubSeq(seq, 1, n)
<1>1. DOMAIN sub = 1..n /\ 1..n \subseteq DOMAIN seq /\ \A i \in 1..n : sub[i] = seq[i]
  BY SubSeqFacts
<1> HIDE DEF sub
<1>2. o \in [DOMAIN sub -> DOMAIN seq]
  BY <1>1
<1>3. \A i \in DOMAIN sub : sub[i] = seq[o[i]]
  BY <1>1
<1>4. \A i, k \in DOMAIN sub : i < k => o[i] < o[k]
  BY <1>1
<1> HIDE DEF o
<1>5. Subsequence(sub, seq)
  BY <1>2, <1>3, <1>4 DEF Subsequence
<1> QED
  BY <1>5 DEF sub

LEMMA TruncatedSubsequence ==
    ASSUME NEW X, NEW seq \in Seq(X), NEW n \in Nat
    PROVE  Subsequence(Truncated(seq, n), seq)
BY TruncatedFacts, PrefixSubsequence

(* A stable sort, best first: points rank the positions, and equal ones    *)
(* stay as they were.                                                      *)
RanksBy(before, points, K) ==
    /\ \A x \in K : points[x] \in Int
    /\ \A x, y \in K : <<x, y>> \in before <=>
          points[x] > points[y] \/ (points[x] = points[y] /\ x < y)

Ranks(sub, seq, K, points) ==
    \E o \in [DOMAIN sub -> K] :
        /\ \A i \in DOMAIN sub : sub[i] = seq[o[i]]
        /\ \A i, k \in DOMAIN sub : i < k => points[o[i]] >= points[o[k]]

LEMMA RankedFacts ==
    ASSUME NEW X, NEW seq \in Seq(X), NEW K \in SUBSET DOMAIN seq,
           NEW points, NEW before, RanksBy(before, points, K)
    PROVE  /\ Arranged(seq, K, before) \in Seq(X)
           /\ Ranks(Arranged(seq, K, before), seq, K, points)
<1>1. \A x \in K : x \in Nat
  BY SMT
<1>2. TotalOrder(before, K)
  <2>1. \A x \in K : <<x, x>> \notin before
    BY <1>1 DEF RanksBy
  <2>2. \A x, y \in K : x # y => <<x, y>> \in before \/ <<y, x>> \in before
    BY <1>1 DEF RanksBy
  <2>3. \A x, y, z \in K : <<x, y>> \in before /\ <<y, z>> \in before => <<x, z>> \in before
    BY <1>1 DEF RanksBy
  <2> QED
    BY <2>1, <2>2, <2>3 DEF TotalOrder
<1>3. /\ Arranged(seq, K, before) \in Seq(X)
      /\ DOMAIN Arranged(seq, K, before) = 1..Cardinality(K)
  BY <1>2, ArrangedFacts
<1>4. PICK o \in [1..Cardinality(K) -> K] :
        /\ \A i \in 1..Cardinality(K) : Arranged(seq, K, before)[i] = seq[o[i]]
        /\ \A i, k \in 1..Cardinality(K) : i < k => <<o[i], o[k]>> \in before
  BY <1>2, ArrangedFacts
<1>5. \A i, k \in 1..Cardinality(K) : i < k => points[o[i]] >= points[o[k]]
  <2> SUFFICES ASSUME NEW i \in 1..Cardinality(K), NEW k \in 1..Cardinality(K), i < k
               PROVE  points[o[i]] >= points[o[k]]
    OBVIOUS
  <2>1. o[i] \in K /\ o[k] \in K /\ <<o[i], o[k]>> \in before
    BY <1>4
  <2> QED
    BY <2>1 DEF RanksBy
<1> QED
  BY <1>3, <1>4, <1>5, Zenon DEF Ranks
=============================================================================
