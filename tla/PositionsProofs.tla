-------------------------- MODULE PositionsProofs --------------------------
(***************************************************************************)
(* Lemmas about data, on which all other proofs rest: induction over the   *)
(* numbers, the positions of a set, and the subsequence at them.           *)
(***************************************************************************)
EXTENDS Positions, FiniteSetTheorems, SequenceTheorems, WellFoundedInduction,
        TLAPS

(***************************************************************************)
(* Induction.  The induction theorems of the library take a predicate, and *)
(* the provers cannot instantiate it; a set of numbers they can, and for   *)
(* sets induction follows from < being well-founded.                       *)
(***************************************************************************)
LEMMA SmallestExists ==
    ASSUME NEW K \in SUBSET Nat, K # {}
    PROVE  \E i \in K : \A j \in K : i <= j
<1> DEFINE R == OpToRel(<, Nat)
<1>1. IsWellFoundedOn(R, Nat)
  BY NatLessThanWellFounded, Zenon
<1>2. \E i \in K : \A j \in K : ~(<<j, i>> \in R)
  <2> HIDE DEF R
  <2> QED
    BY <1>1, WFMin
<1>3. ASSUME NEW i \in Nat, NEW j \in Nat, ~(<<j, i>> \in R)
      PROVE  i <= j
  BY <1>3 DEF OpToRel
<1> QED
  BY <1>2, <1>3

LEMMA SmallestChosen ==
    ASSUME NEW K \in SUBSET Nat, NEW i \in K, \A j \in K : i <= j
    PROVE  (CHOOSE k \in K : \A j \in K : k <= j) = i
<1> DEFINE k == CHOOSE k \in K : \A j \in K : k <= j
<1>1. k \in K /\ \A j \in K : k <= j
  <2>1. \E m \in K : \A j \in K : m <= j
    OBVIOUS
  <2> QED
    BY <2>1, Zenon
<1> HIDE DEF k
<1>2. k \in Nat /\ i \in Nat /\ k <= i /\ i <= k
  BY <1>1
<1>3. k = i
  BY <1>2
<1> QED
  BY <1>3 DEF k

LEMMA SetInduction ==
    ASSUME NEW K, 0 \in K, \A n \in Nat : n \in K => n + 1 \in K
    PROVE  Nat \subseteq K
<1> DEFINE T == {n \in Nat : n \notin K}
<1>1. SUFFICES ASSUME T # {} PROVE FALSE
  OBVIOUS
<1>2. PICK i \in T : \A j \in T : i <= j
  BY <1>1, SmallestExists
<1>3. i # 0 /\ i - 1 \in Nat /\ i - 1 \notin T
  BY <1>2
<1> QED
  BY <1>2, <1>3

\* The same for sequences, one element after the other.
LEMMA SeqInduction ==
    ASSUME NEW S, NEW K, << >> \in K,
           \A s \in Seq(S) : \A e \in S : s \in K => Append(s, e) \in K
    PROVE  Seq(S) \subseteq K
<1> DEFINE L == {n \in Nat : \A s \in Seq(S) : Len(s) = n => s \in K}
<1>1. 0 \in L
  <2> SUFFICES ASSUME NEW s \in Seq(S), Len(s) = 0 PROVE s \in K
    OBVIOUS
  <2>1. s = << >>
    BY EmptySeq
  <2> QED
    BY <2>1
<1>2. ASSUME NEW n \in Nat, n \in L
      PROVE  n + 1 \in L
  <2> SUFFICES ASSUME NEW s \in Seq(S), Len(s) = n + 1 PROVE s \in K
    OBVIOUS
  <2>1. s # << >>
    BY EmptySeq
  <2>2. PICK r \in Seq(S), e \in S : s = Append(r, e)
    BY <2>1, SequenceEmptyOrAppend
  <2>3. Len(r) = n
    BY <2>2, AppendProperties, LenProperties
  <2>4. r \in K
    BY <1>2, <2>3
  <2> QED
    BY <2>2, <2>4
<1>3. Nat \subseteq L
  <2> HIDE DEF L
  <2> QED
    BY <1>1, <1>2, SetInduction
<1> QED
  BY <1>3, LenProperties

\* Two functions that start with the same value and keep having the same value
\* are the same: what tells a loop from its closed form.
LEMMA AgreeUpwards ==
    ASSUME NEW n \in Nat, NEW f, NEW g, f[0] = g[0],
           \A i \in 1..n : f[i - 1] = g[i - 1] => f[i] = g[i]
    PROVE  f[n] = g[n]
<1> DEFINE K == {i \in Nat : i <= n => f[i] = g[i]}
<1>1. 0 \in K
  OBVIOUS
<1>2. ASSUME NEW i \in Nat, i \in K
      PROVE  i + 1 \in K
  <2>1. CASE i + 1 <= n
    <3>1. i + 1 \in 1..n /\ (i + 1) - 1 = i /\ f[i] = g[i]
      BY <1>2, <2>1
    <3> QED
      BY <3>1
  <2> QED
    BY <2>1
<1>3. Nat \subseteq K
  <2> HIDE DEF K
  <2> QED
    BY <1>1, <1>2, SetInduction
<1> QED
  BY <1>3

LEMMA AgreeDownwards ==
    ASSUME NEW n \in Nat \ {0}, NEW f, NEW g, f[n] = g[n],
           \A i \in 1..n : i < n /\ f[i + 1] = g[i + 1] => f[i] = g[i]
    PROVE  f[1] = g[1]
<1> DEFINE K == {k \in Nat : k < n => f[n - k] = g[n - k]}
<1>1. 0 \in K
  OBVIOUS
<1>2. ASSUME NEW k \in Nat, k \in K
      PROVE  k + 1 \in K
  <2>1. CASE k + 1 < n
    <3> DEFINE i == n - (k + 1)
    <3>1. i \in 1..n /\ i < n /\ i + 1 = n - k /\ f[n - k] = g[n - k]
      BY <1>2, <2>1
    <3>2. f[i] = g[i]
      <4> HIDE DEF i
      <4> QED
        BY <3>1
    <3> QED
      BY <3>2
  <2> QED
    BY <2>1
<1>3. Nat \subseteq K
  <2> HIDE DEF K
  <2> QED
    BY <1>1, <1>2, SetInduction
<1>4. n - 1 \in K /\ n - 1 < n /\ n - (n - 1) = 1
  BY <1>3
<1> QED
  BY <1>4

(***************************************************************************)
(* Choosing positions.  Rank is one-to-one on a finite set of numbers, and *)
(* a one-to-one function between sets of the same size reaches everything: *)
(* that is why Nth exists.                                                 *)
(***************************************************************************)
LEMMA RankInjective ==
    ASSUME NEW K \in SUBSET Nat, IsFiniteSet(K), NEW a \in K, NEW b \in K, a < b
    PROVE  Rank(K, a) < Rank(K, b)
<1> DEFINE A == {j \in K : j <= a}
           B == {j \in K : j <= b}
<1>1. IsFiniteSet(B) /\ Cardinality(B) \in Nat
  BY FS_Subset, FS_CardinalityType
<1>2. A \in SUBSET B
  <2>1. a \in Nat /\ b \in Nat /\ \A j \in K : j \in Nat
    OBVIOUS
  <2>2. \A j \in K : j <= a => j <= b
    BY <2>1
  <2> QED
    BY <2>2
<1>3. IsFiniteSet(A) /\ Cardinality(A) \in Nat /\ Cardinality(A) <= Cardinality(B)
  BY <1>1, <1>2, FS_Subset, FS_CardinalityType
<1>4. A # B
  OBVIOUS
<1>5. Cardinality(A) # Cardinality(B)
  BY <1>1, <1>2, <1>4, FS_Subset
<1> QED
  BY <1>1, <1>3, <1>5 DEF Rank

LEMMA RankRange ==
    ASSUME NEW K \in SUBSET Nat, IsFiniteSet(K), NEW a \in K
    PROVE  Rank(K, a) \in 1..Cardinality(K)
<1> DEFINE A == {j \in K : j <= a}
<1>1. A \in SUBSET K /\ A # {}
  OBVIOUS
<1>2. IsFiniteSet(A) /\ Cardinality(A) <= Cardinality(K)
  BY <1>1, FS_Subset
<1>3. Cardinality(A) \in Nat /\ Cardinality(K) \in Nat
  BY <1>2, FS_CardinalityType
<1>4. Cardinality(A) # 0
  BY <1>1, <1>2, FS_EmptySet
<1> QED
  BY <1>2, <1>3, <1>4 DEF Rank

LEMMA NthExists ==
    ASSUME NEW K \in SUBSET Nat, IsFiniteSet(K), NEW n \in 1..Cardinality(K)
    PROVE  Nth(K, n) \in K /\ Rank(K, Nth(K, n)) = n
<1> DEFINE size == Cardinality(K)
           f == [k \in K |-> Rank(K, k)]
<1>1. size \in Nat
  BY FS_CardinalityType
<1>2. IsFiniteSet(1..size) /\ Cardinality(1..size) = size
  BY <1>1, FS_Interval
<1>3. f \in [K -> 1..size]
  BY RankRange
<1>4. ASSUME NEW a \in K, NEW b \in K, f[a] = f[b]
      PROVE  a = b
  <2>1. Rank(K, a) = Rank(K, b)
    BY <1>4
  <2>2. ~(a < b) /\ ~(b < a)
    <3>1. ASSUME a < b PROVE FALSE
      <4>1. Rank(K, a) < Rank(K, b)
        BY <3>1, RankInjective
      <4> QED
        BY <4>1, <2>1, <1>1, RankRange
    <3>2. ASSUME b < a PROVE FALSE
      <4>1. Rank(K, b) < Rank(K, a)
        BY <3>2, RankInjective
      <4> QED
        BY <4>1, <2>1, <1>1, RankRange
    <3> QED
      BY <3>1, <3>2
  <2> QED
    BY <2>2
<1>5. f \in Injection(K, 1..size)
  BY <1>3, <1>4, Zenon DEF Injection, IsInjective
<1>6. f \in Surjection(K, 1..size)
  BY <1>2, <1>5, FS_Injection
<1>7. \E k \in K : f[k] = n
  BY <1>6 DEF Surjection
<1>8. \E k \in K : Rank(K, k) = n
  BY <1>7
<1> QED
  BY <1>8, Zenon DEF Nth

LEMMA NthOfRank ==
    ASSUME NEW K \in SUBSET Nat, IsFiniteSet(K), NEW k \in K
    PROVE  Nth(K, Rank(K, k)) = k
<1> DEFINE m == Nth(K, Rank(K, k))
<1>1. m \in K /\ Rank(K, m) = Rank(K, k)
  BY RankRange, NthExists
<1> HIDE DEF m
<1>2. Rank(K, k) \in Nat
  BY RankRange, FS_CardinalityType
<1>3. ~(m < k) /\ ~(k < m)
  BY <1>1, <1>2, RankInjective
<1>4. m \in Nat /\ k \in Nat
  BY <1>1
<1> QED
  BY <1>3, <1>4 DEF m

\* A position beyond all others is the last one.
LEMMA NthWithLast ==
    ASSUME NEW K \in SUBSET Nat, IsFiniteSet(K), NEW m \in Nat, \A k \in K : k < m
    PROVE  /\ IsFiniteSet(K \cup {m}) /\ K \cup {m} \in SUBSET Nat
           /\ Cardinality(K \cup {m}) = Cardinality(K) + 1
           /\ \A n \in 1..Cardinality(K) : Nth(K \cup {m}, n) = Nth(K, n)
           /\ Nth(K \cup {m}, Cardinality(K) + 1) = m
<1> DEFINE L == K \cup {m}
<1>1. m \notin K
  OBVIOUS
<1>2. IsFiniteSet(L) /\ Cardinality(L) = Cardinality(K) + 1
  BY <1>1, FS_AddElement
<1>3. L \in SUBSET Nat
  OBVIOUS
<1>4. Cardinality(K) \in Nat
  BY FS_CardinalityType
<1>5. ASSUME NEW n \in 1..Cardinality(K)
      PROVE  Nth(L, n) = Nth(K, n)
  <2> DEFINE k == Nth(K, n)
  <2>1. k \in K /\ Rank(K, k) = n
    BY NthExists
  <2> HIDE DEF k
  <2>2. {j \in L : j <= k} = {j \in K : j <= k}
    <3>1. k \in Nat /\ k < m /\ \A j \in K : j \in Nat
      BY <2>1
    <3> QED
      BY <3>1
  <2>3. Rank(L, k) = n
    BY <2>1, <2>2 DEF Rank
  <2>4. Nth(L, Rank(L, k)) = k
    BY <1>2, <1>3, <2>1, NthOfRank
  <2> QED
    BY <2>3, <2>4 DEF k
<1>6. Nth(L, Cardinality(K) + 1) = m
  <2>1. {j \in L : j <= m} = L
    <3>1. m <= m /\ \A j \in K : j <= m
      OBVIOUS
    <3> QED
      BY <3>1
  <2>2. Rank(L, m) = Cardinality(K) + 1
    BY <1>2, <2>1 DEF Rank
  <2>3. Nth(L, Rank(L, m)) = m
    BY <1>2, <1>3, NthOfRank
  <2> QED
    BY <2>2, <2>3
<1> QED
  BY <1>2, <1>3, <1>5, <1>6

LEMMA NthOfStretch ==
    ASSUME NEW a \in Nat, NEW b \in Nat, NEW K, K = (a + 1)..b,
           NEW n \in 1..Cardinality(K)
    PROVE  Nth(K, n) = a + n /\ a + n \in K
<1>1. IsFiniteSet(K) /\ K \in SUBSET Nat
  BY FS_Interval
<1> DEFINE k == Nth(K, n)
<1>2. k \in K /\ Rank(K, k) = n
  BY <1>1, NthExists
<1> HIDE DEF k
<1>3. k \in Nat /\ a + 1 <= k /\ k <= b
  BY <1>2
<1>4. {j \in K : j <= k} = (a + 1)..k
  BY <1>3
<1>5. Cardinality((a + 1)..k) = k - (a + 1) + 1
  <2>1. a + 1 \in Int /\ k \in Int
    BY <1>3
  <2>2. Cardinality((a + 1)..k) = IF a + 1 > k THEN 0 ELSE k - (a + 1) + 1
    BY <2>1, FS_Interval
  <2> QED
    BY <1>3, <2>2
<1>6. n = k - a
  <2>1. Rank(K, k) = Cardinality((a + 1)..k)
    BY <1>4, Zenon DEF Rank
  <2> QED
    BY <1>2, <1>3, <1>5, <2>1
<1>7. k = a + n
  BY <1>3, <1>6
<1> QED
  BY <1>2, <1>7 DEF k

LEMMA LenFromDomain ==
    ASSUME NEW S, NEW s \in Seq(S), NEW n \in Nat, DOMAIN s = 1..n
    PROVE  Len(s) = n
<1>1. DOMAIN s = 1..Len(s) /\ Len(s) \in Nat
  BY LenProperties
<1> QED
  BY <1>1

LEMMA SeqByParts ==
    ASSUME NEW S, NEW n \in Nat, NEW f, f = [i \in 1..n |-> f[i]],
           \A i \in 1..n : f[i] \in S
    PROVE  f \in Seq(S) /\ Len(f) = n
<1>1. f \in [1..n -> S] /\ DOMAIN f = 1..n
  OBVIOUS
<1>2. f \in Seq(S)
  BY <1>1
<1> QED
  BY <1>1, <1>2, LenFromDomain

LEMMA AppendByParts ==
    ASSUME NEW S, NEW s \in Seq(S), NEW e \in S, NEW u \in Seq(S),
           Len(u) = Len(s) + 1, u[Len(s) + 1] = e,
           \A i \in 1..Len(s) : u[i] = s[i]
    PROVE  u = Append(s, e)
<1> DEFINE v == Append(s, e)
<1>1. /\ Len(s) \in Nat /\ v \in Seq(S) /\ Len(v) = Len(s) + 1
      /\ v[Len(s) + 1] = e /\ \A i \in 1..Len(s) : v[i] = s[i]
  BY LenProperties, AppendProperties
<1> HIDE DEF v
<1>2. Len(u) = Len(v) /\ \A i \in 1..Len(u) : u[i] = v[i]
  BY <1>1
<1>3. u = v
  BY <1>1, <1>2, SeqEqual
<1> QED
  BY <1>3 DEF v

LEMMA SubSeqAgrees ==
    ASSUME NEW s, NEW t, NEW a \in Int, NEW b \in Int, \A i \in a..b : s[i] = t[i]
    PROVE  SubSeq(s, a, b) = SubSeq(t, a, b)
OBVIOUS

LEMMA SubSeqAtType ==
    ASSUME NEW S, NEW s \in Seq(S), NEW K \in SUBSET DOMAIN s
    PROVE  /\ SubSeqAt(s, K) \in Seq(S)
           /\ \A n \in DOMAIN SubSeqAt(s, K) :
                 \E i \in K : SubSeqAt(s, K)[n] = s[i]
<1>1. /\ DOMAIN s = 1..Len(s) /\ Len(s) \in Nat
      /\ \A i \in DOMAIN s : s[i] \in S
  BY ElementOfSeq, LenProperties
<1>2. IsFiniteSet(DOMAIN s)
  BY <1>1, FS_Interval
<1>3. IsFiniteSet(K) /\ K \in SUBSET Nat
  BY <1>1, <1>2, FS_Subset
<1>4. Cardinality(K) \in Nat
  BY <1>3, FS_CardinalityType
<1>5. \A n \in 1..Cardinality(K) : Nth(K, n) \in K
  BY <1>3, NthExists
<1>6. \A n \in 1..Cardinality(K) : s[Nth(K, n)] \in S
  BY <1>1, <1>5
<1>7. SubSeqAt(s, K) \in Seq(S)
  BY <1>4, <1>6 DEF SubSeqAt
<1>8. DOMAIN SubSeqAt(s, K) = 1..Cardinality(K)
  BY DEF SubSeqAt
<1>9. \A n \in 1..Cardinality(K) : SubSeqAt(s, K)[n] = s[Nth(K, n)]
  BY DEF SubSeqAt
<1> QED
  BY <1>5, <1>7, <1>8, <1>9, Zenon

\* There are not more positions than elements.
LEMMA SubSeqAtShorter ==
    ASSUME NEW S, NEW s \in Seq(S), NEW K \in SUBSET DOMAIN s
    PROVE  SubSeqAt(s, K) \in Seq(S) /\ Len(SubSeqAt(s, K)) <= Len(s)
<1>1. DOMAIN s = 1..Len(s) /\ Len(s) \in Nat
  BY LenProperties
<1>2. IsFiniteSet(DOMAIN s) /\ Cardinality(DOMAIN s) = Len(s)
  <2>1. /\ IsFiniteSet(1..Len(s))
        /\ Cardinality(1..Len(s)) = IF 1 > Len(s) THEN 0 ELSE Len(s) - 1 + 1
    BY <1>1, FS_Interval
  <2> QED
    BY <1>1, <2>1
<1>3. Cardinality(K) <= Cardinality(DOMAIN s) /\ IsFiniteSet(K)
  BY <1>2, FS_Subset
<1>4. Cardinality(K) \in Nat
  BY <1>3, FS_CardinalityType
<1>5. SubSeqAt(s, K) \in Seq(S)
  BY SubSeqAtType
<1>6. DOMAIN SubSeqAt(s, K) = 1..Cardinality(K)
  BY DEF SubSeqAt
<1>7. Len(SubSeqAt(s, K)) = Cardinality(K)
  BY <1>4, <1>5, <1>6, LenFromDomain
<1> QED
  BY <1>2, <1>3, <1>5, <1>7

\* The loop that comes to a position it keeps appends what is there.
LEMMA SubSeqAtAgrees ==
    ASSUME NEW K \in SUBSET Nat, NEW s, NEW t, IsFiniteSet(K),
           \A k \in K : s[k] = t[k]
    PROVE  SubSeqAt(s, K) = SubSeqAt(t, K)
<1>1. \A n \in 1..Cardinality(K) : Nth(K, n) \in K
  BY NthExists
<1> QED
  BY <1>1 DEF SubSeqAt

LEMMA SubSeqAtWithLast ==
    ASSUME NEW S, NEW s \in Seq(S), NEW K \in SUBSET DOMAIN s,
           NEW m \in DOMAIN s, \A k \in K : k < m
    PROVE  SubSeqAt(s, K \cup {m}) = Append(SubSeqAt(s, K), s[m])
<1> DEFINE L == K \cup {m}
           n == Cardinality(K)
<1>1. DOMAIN s = 1..Len(s) /\ Len(s) \in Nat
  BY LenProperties
<1>2. K \in SUBSET Nat /\ m \in Nat
  BY <1>1
<1>3. IsFiniteSet(K)
  <2>1. IsFiniteSet(DOMAIN s)
    BY <1>1, FS_Interval
  <2> QED
    BY <2>1, FS_Subset
<1>4. n \in Nat
  BY <1>3, FS_CardinalityType
<1>5. /\ Cardinality(L) = n + 1
      /\ \A i \in 1..n : Nth(L, i) = Nth(K, i)
      /\ Nth(L, n + 1) = m
  BY <1>2, <1>3, NthWithLast
<1>6. SubSeqAt(s, K) \in Seq(S) /\ Len(SubSeqAt(s, K)) = n /\ s[m] \in S
  <2>1. SubSeqAt(s, K) \in Seq(S)
    BY SubSeqAtType
  <2>2. DOMAIN SubSeqAt(s, K) = 1..n
    BY DEF SubSeqAt
  <2> QED
    BY <1>4, <2>1, <2>2, LenProperties, ElementOfSeq, <1>1
<1>7. SubSeqAt(s, L) \in Seq(S) /\ Len(SubSeqAt(s, L)) = n + 1
  <2>1. L \in SUBSET DOMAIN s
    OBVIOUS
  <2>2. SubSeqAt(s, L) \in Seq(S)
    BY <2>1, SubSeqAtType
  <2>3. DOMAIN SubSeqAt(s, L) = 1..(n + 1)
    BY <1>5 DEF SubSeqAt
  <2> QED
    BY <1>4, <2>2, <2>3, LenProperties
<1> DEFINE t == Append(SubSeqAt(s, K), s[m])
<1>8. /\ t \in Seq(S) /\ Len(t) = n + 1
      /\ \A i \in 1..n : t[i] = SubSeqAt(s, K)[i]
      /\ t[n + 1] = s[m]
  BY <1>6, AppendProperties
<1> HIDE DEF t
<1>9. ASSUME NEW i \in 1..(n + 1)
      PROVE  SubSeqAt(s, L)[i] = t[i]
  <2>1. CASE i = n + 1
    BY <1>4, <1>5, <1>8, <2>1 DEF SubSeqAt
  <2>2. CASE i \in 1..n
    <3>1. SubSeqAt(s, L)[i] = s[Nth(L, i)]
      BY <1>5 DEF SubSeqAt
    <3>2. SubSeqAt(s, K)[i] = s[Nth(K, i)]
      BY <2>2 DEF SubSeqAt
    <3> QED
      BY <1>5, <1>8, <2>2, <3>1, <3>2
  <2> QED
    BY <1>4, <2>1, <2>2
<1>10. SubSeqAt(s, L) = t
  BY <1>7, <1>8, <1>9, SeqEqual
<1> QED
  BY <1>10 DEF t

LEMMA SubSeqAtNothing ==
    ASSUME NEW s PROVE SubSeqAt(s, {}) = << >>
BY FS_EmptySet DEF SubSeqAt

LEMMA SubSeqAtStretch ==
    ASSUME NEW S, NEW s \in Seq(S), NEW a \in 0..Len(s)
    PROVE  SubSeqAt(s, (a + 1)..Len(s)) = SubSeq(s, a + 1, Len(s))
<1> DEFINE K == (a + 1)..Len(s)
           n == Len(s) - a
<1>1. DOMAIN s = 1..Len(s) /\ Len(s) \in Nat /\ n \in Nat
  BY LenProperties
<1>2. Cardinality(K) = n
  <2>1. a + 1 \in Int /\ Len(s) \in Int
    BY <1>1
  <2>2. Cardinality(K) = IF a + 1 > Len(s) THEN 0 ELSE Len(s) - (a + 1) + 1
    BY <2>1, FS_Interval
  <2> QED
    BY <1>1, <2>2
<1>3. SubSeqAt(s, K) \in Seq(S) /\ Len(SubSeqAt(s, K)) = n
  <2>1. K \in SUBSET DOMAIN s
    BY <1>1
  <2>2. SubSeqAt(s, K) \in Seq(S)
    BY <2>1, SubSeqAtType
  <2>3. DOMAIN SubSeqAt(s, K) = 1..n
    BY <1>2 DEF SubSeqAt
  <2> HIDE DEF n
  <2> QED
    BY <1>1, <2>2, <2>3, LenFromDomain
<1>4. \A i \in (a + 1)..Len(s) : s[i] \in S
  BY <1>1, ElementOfSeq
<1>5. /\ SubSeq(s, a + 1, Len(s)) \in Seq(S)
      /\ Len(SubSeq(s, a + 1, Len(s))) = n
      /\ \A i \in 1..n : SubSeq(s, a + 1, Len(s))[i] = s[a + i]
  <2>1. a + 1 \in Int /\ Len(s) \in Int /\ Len(s) - (a + 1) + 1 = n
        /\ \A i \in 1..n : (a + 1) + i - 1 = a + i
    BY <1>1
  <2>2. /\ SubSeq(s, a + 1, Len(s)) \in Seq(S)
        /\ Len(SubSeq(s, a + 1, Len(s)))
              = IF a + 1 <= Len(s) THEN Len(s) - (a + 1) + 1 ELSE 0
        /\ \A i \in 1..(Len(s) - (a + 1) + 1) :
              SubSeq(s, a + 1, Len(s))[i] = s[(a + 1) + i - 1]
    BY <1>4, <2>1, SubSeqProperties
  <2>3. a \in Int /\ a <= Len(s) /\ Len(s) \in Int
    BY <1>1
  <2>4. Len(s) - (a + 1) + 1 = Len(s) - a /\ (~(a + 1 <= Len(s)) => Len(s) - a = 0)
    BY <2>3
  <2>5. Len(SubSeq(s, a + 1, Len(s))) = n
    BY <2>2, <2>4
  <2>6. \A i \in 1..n : SubSeq(s, a + 1, Len(s))[i] = s[a + i]
    <3> SUFFICES ASSUME NEW i \in 1..n
                 PROVE  SubSeq(s, a + 1, Len(s))[i] = s[a + i]
      OBVIOUS
    <3>1. i \in 1..(Len(s) - (a + 1) + 1) /\ (a + 1) + i - 1 = a + i
      BY <2>3
    <3>2. SubSeq(s, a + 1, Len(s))[i] = s[(a + 1) + i - 1]
      BY <2>2, <3>1
    <3> QED
      BY <3>1, <3>2
  <2> QED
    BY <2>2, <2>5, <2>6
<1>6. \A i \in 1..n : SubSeqAt(s, K)[i] = s[a + i]
  <2> SUFFICES ASSUME NEW i \in 1..n PROVE SubSeqAt(s, K)[i] = s[a + i]
    OBVIOUS
  <2>1. SubSeqAt(s, K)[i] = s[Nth(K, i)]
    BY <1>2 DEF SubSeqAt
  <2>2. Nth(K, i) = a + i
    <3>1. a \in Nat /\ Len(s) \in Nat /\ i \in 1..Cardinality(K)
      BY <1>1, <1>2
    <3> QED
      BY <3>1, NthOfStretch
  <2> QED
    BY <2>1, <2>2
<1> HIDE DEF K
<1>7. \A i \in 1..Len(SubSeqAt(s, K)) :
          SubSeqAt(s, K)[i] = SubSeq(s, a + 1, Len(s))[i]
  BY <1>3, <1>5, <1>6
<1>8. SubSeqAt(s, K) = SubSeq(s, a + 1, Len(s))
  BY <1>3, <1>5, <1>7, SeqEqual
<1> QED
  BY <1>8 DEF K

=============================================================================
