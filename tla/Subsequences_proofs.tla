------------------------ MODULE Subsequences_proofs ------------------------
(***************************************************************************)
(* What the operator Only returns, for every sequence and every set, and   *)
(* what the operators on sequences do to the set of elements and to the    *)
(* absence of duplicates: facts that the proofs about queues rest on.      *)
(***************************************************************************)
EXTENDS Subsequences, SequencesExt, FiniteSetTheorems, TLAPS

(* A place that comes later has the higher rank.                            *)
LEMMA RankGrows ==
  ASSUME NEW P \in SUBSET Nat, IsFiniteSet(P), NEW i \in P, NEW j \in P, i < j
  PROVE  Rank(i, P) < Rank(j, P)
<1> DEFINE I == {k \in P : k <= i}
           J == {k \in P : k <= j}
<1>1. IsFiniteSet(J) /\ I \in SUBSET J /\ j \in J /\ j \notin I
  <2>1. J \in SUBSET P
    OBVIOUS
  <2>2. IsFiniteSet(J)
    BY <2>1, FS_Subset
  <2>3. i \in Nat /\ j \in Nat /\ \A k \in P : k \in Nat
    OBVIOUS
  <2>4. \A k \in P : k <= i => k <= j
    BY <2>3
  <2>5. j <= j /\ ~ j <= i
    BY <2>3
  <2> QED BY <2>2, <2>4, <2>5
<1>2. Cardinality(I) <= Cardinality(J) /\ Cardinality(I) # Cardinality(J)
  BY <1>1, FS_Subset
<1>3. Cardinality(I) \in Nat /\ Cardinality(J) \in Nat
  BY <1>1, FS_Subset, FS_CardinalityType
<1> QED BY <1>2, <1>3 DEF Rank

(* Every number up to the size of the set is the rank of one place.         *)
LEMMA RanksAreAll ==
  ASSUME NEW P \in SUBSET Nat, IsFiniteSet(P)
  PROVE  /\ \A i \in P : Rank(i, P) \in 1 .. Cardinality(P)
         /\ \A k \in 1 .. Cardinality(P) : \E i \in P : Rank(i, P) = k
<1> DEFINE n == Cardinality(P)
           f == [i \in P |-> Rank(i, P)]
<1>1. n \in Nat
  BY FS_CardinalityType
<1>2. ASSUME NEW i \in P
      PROVE  Rank(i, P) \in 1 .. n
  <2> DEFINE I == {k \in P : k <= i}
  <2>1. I \in SUBSET P /\ i \in I
    OBVIOUS
  <2>2. IsFiniteSet(I) /\ Cardinality(I) <= n
    BY <2>1, FS_Subset
  <2>3. Cardinality(I) \in Nat /\ Cardinality(I) # 0
    BY <2>1, <2>2, FS_CardinalityType, FS_EmptySet
  <2> QED BY <1>1, <2>2, <2>3 DEF Rank
<1>3. f \in [P -> 1 .. n]
  BY <1>2
<1>4. ASSUME NEW i \in P, NEW j \in P, f[i] = f[j]
      PROVE  i = j
  <2>1. Rank(i, P) \in Nat /\ Rank(j, P) \in Nat /\ Rank(i, P) = Rank(j, P)
    BY <1>1, <1>2, <1>4
  <2>2. ~ i < j /\ ~ j < i
    BY <2>1, RankGrows
  <2>3. i \in Nat /\ j \in Nat
    OBVIOUS
  <2> QED BY <2>2, <2>3
<1>5. f \in Injection(P, 1 .. n)
  BY <1>3, <1>4 DEF Injection, IsInjective
<1>6. IsFiniteSet(1 .. n) /\ Cardinality(1 .. n) = n
  BY <1>1, FS_Interval
<1>7. f \in Surjection(P, 1 .. n)
  BY <1>5, <1>6, FS_Injection
<1>8. ASSUME NEW k \in 1 .. n
      PROVE  \E i \in P : Rank(i, P) = k
  BY <1>7 DEF Surjection
<1> QED BY <1>2, <1>8

(* The k-th place has rank k, and the later ones are later.                 *)
LEMMA NthIsInOrder ==
  ASSUME NEW P \in SUBSET Nat, IsFiniteSet(P)
  PROVE  /\ \A k \in 1 .. Cardinality(P) : Nth(k, P) \in P /\ Rank(Nth(k, P), P) = k
         /\ \A i \in P : Nth(Rank(i, P), P) = i
         /\ \A k, l \in 1 .. Cardinality(P) : k < l => Nth(k, P) < Nth(l, P)
<1>0. Cardinality(P) \in Nat
  BY FS_CardinalityType
<1>1. ASSUME NEW k \in 1 .. Cardinality(P)
      PROVE  Nth(k, P) \in P /\ Rank(Nth(k, P), P) = k
  BY RanksAreAll DEF Nth
<1>2. ASSUME NEW i \in P, NEW j \in P, Rank(i, P) = Rank(j, P)
      PROVE  i = j
  <2>1. Rank(i, P) \in Nat
    BY <1>0, RanksAreAll
  <2>2. ~ i < j /\ ~ j < i
    BY <2>1, <1>2, RankGrows
  <2>3. i \in Nat /\ j \in Nat
    OBVIOUS
  <2> QED BY <2>2, <2>3
<1>3. ASSUME NEW i \in P
      PROVE  Nth(Rank(i, P), P) = i
  <2>1. Rank(i, P) \in 1 .. Cardinality(P)
    BY RanksAreAll
  <2> QED BY <2>1, <1>1, <1>2
<1>4. ASSUME NEW k \in 1 .. Cardinality(P), NEW l \in 1 .. Cardinality(P), k < l
      PROVE  Nth(k, P) < Nth(l, P)
  <2> DEFINE a == Nth(k, P)
             b == Nth(l, P)
  <2>1. a \in P /\ b \in P /\ Rank(a, P) = k /\ Rank(b, P) = l
    BY <1>1
  <2>2. ~ b < a
    <3>1. b < a => Rank(b, P) < Rank(a, P)
      BY <2>1, RankGrows
    <3> QED BY <3>1, <2>1, <1>4, <1>0
  <2>3. a # b
    BY <2>1, <1>4, <1>0
  <2>4. a \in Nat /\ b \in Nat
    BY <2>1
  <2> QED BY <2>2, <2>3, <2>4
<1> QED BY <1>1, <1>3, <1>4

(* A finite set of numbers has a least one.                                 *)
LEMMA LeastOf ==
  ASSUME NEW P \in SUBSET Nat, IsFiniteSet(P), P # {}
  PROVE  \E i \in P : \A j \in P : i <= j
<1>1. Cardinality(P) \in Nat \ {0}
  BY FS_CardinalityType, FS_EmptySet
<1>2. Nth(1, P) \in P /\ Rank(Nth(1, P), P) = 1
  BY <1>1, NthIsInOrder
<1>3. ASSUME NEW j \in P, j < Nth(1, P) PROVE FALSE
  <2>1. Rank(j, P) < 1 /\ Rank(j, P) \in 1 .. Cardinality(P)
    BY <1>2, <1>3, RankGrows, RanksAreAll
  <2> QED BY <1>1, <2>1
<1>4. Nth(1, P) \in Nat /\ \A j \in P : j \in Nat
  BY <1>2
<1>5. \A j \in P : Nth(1, P) <= j
  BY <1>3, <1>4
<1> QED BY <1>2, <1>5

LEMMA IndicesAreFinite ==
  ASSUME NEW T, NEW seq \in Seq(T), NEW S
  PROVE  LET P == IndicesIn(seq, S) IN
         P \in SUBSET Nat /\ IsFiniteSet(P) /\ Cardinality(P) \in 0 .. Len(seq)
<1> DEFINE P == IndicesIn(seq, S)
<1>1. Len(seq) \in Nat /\ P \in SUBSET (1 .. Len(seq))
  BY DEF IndicesIn
<1>2. IsFiniteSet(1 .. Len(seq)) /\ Cardinality(1 .. Len(seq)) = Len(seq)
  <2> DEFINE n == Len(seq)
  <2>1. n \in Nat
    BY <1>1
  <2> HIDE DEF n
  <2>2. IsFiniteSet(1 .. n) /\ Cardinality(1 .. n) = n
    BY <2>1, FS_Interval
  <2> QED BY <2>2 DEF n
<1>3. IsFiniteSet(P) /\ Cardinality(P) <= Len(seq) /\ Cardinality(P) \in Nat
  BY <1>1, <1>2, FS_Subset, FS_CardinalityType
<1> QED BY <1>1, <1>3

(* Only keeps the elements that are in the set, each of them, in their      *)
(* order: place k of the result comes from place h[k].                      *)
THEOREM OnlyComesFrom ==
  ASSUME NEW T, NEW seq \in Seq(T), NEW S
  PROVE  /\ Only(seq, S) \in Seq(T)
         /\ Len(Only(seq, S)) <= Len(seq)
         /\ \E h \in [1 .. Len(Only(seq, S)) -> 1 .. Len(seq)] :
              /\ \A k \in 1 .. Len(Only(seq, S)) :
                   Only(seq, S)[k] = seq[h[k]] /\ seq[h[k]] \in S
              /\ \A k, l \in 1 .. Len(Only(seq, S)) : k < l => h[k] < h[l]
              /\ \A i \in 1 .. Len(seq) : seq[i] \in S =>
                   \E k \in 1 .. Len(Only(seq, S)) : h[k] = i
<1> DEFINE P == IndicesIn(seq, S)
           n == Cardinality(P)
           h == [k \in 1 .. n |-> Nth(k, P)]
           r == [k \in 1 .. n |-> seq[Nth(k, P)]]
<1>1. P \in SUBSET Nat /\ IsFiniteSet(P) /\ n \in 0 .. Len(seq)
  BY IndicesAreFinite
<1>2. /\ \A k \in 1 .. n : Nth(k, P) \in P
      /\ \A i \in P : Nth(Rank(i, P), P) = i
      /\ \A k, l \in 1 .. n : k < l => Nth(k, P) < Nth(l, P)
  BY <1>1, NthIsInOrder
<1>3. \A i \in P : Rank(i, P) \in 1 .. n
  BY <1>1, RanksAreAll
<1>4. \A i : i \in P <=> i \in 1 .. Len(seq) /\ seq[i] \in S
  BY DEF IndicesIn
<1>5. Only(seq, S) = r
  BY DEF Only
<1>6. Len(seq) \in Nat /\ n \in Nat /\ \A i \in 1 .. Len(seq) : seq[i] \in T
  BY <1>1
<1> HIDE DEF P, n
<1>7. r \in Seq(T) /\ Len(r) = n
  BY <1>2, <1>4, <1>6
<1>8. h \in [1 .. n -> 1 .. Len(seq)]
  BY <1>2, <1>4
<1>9. \A k \in 1 .. n : r[k] = seq[h[k]] /\ seq[h[k]] \in S
  BY <1>2, <1>4
<1>10. \A k, l \in 1 .. n : k < l => h[k] < h[l]
  BY <1>2
<1>11. \A i \in 1 .. Len(seq) : seq[i] \in S => \E k \in 1 .. n : h[k] = i
  BY <1>2, <1>3, <1>4
<1>12. n <= Len(seq)
  BY <1>1
<1> HIDE DEF r, h
<1> QED BY <1>5, <1>7, <1>8, <1>9, <1>10, <1>11, <1>12

(* So it has the elements of the sequence that are in the set, and none     *)
(* twice that is not twice in the sequence.                                 *)
THEOREM OnlyKeeps ==
  ASSUME NEW T, NEW seq \in Seq(T), NEW S
  PROVE  /\ Only(seq, S) \in Seq(T)
         /\ ToSet(Only(seq, S)) = ToSet(seq) \cap S
         /\ IsInjective(seq) => IsInjective(Only(seq, S))
<1> DEFINE r == Only(seq, S)
<1>1. r \in Seq(T)
  BY OnlyComesFrom
<1>2. PICK h \in [1 .. Len(r) -> 1 .. Len(seq)] :
        /\ \A k \in 1 .. Len(r) : r[k] = seq[h[k]] /\ seq[h[k]] \in S
        /\ \A k, l \in 1 .. Len(r) : k < l => h[k] < h[l]
        /\ \A i \in 1 .. Len(seq) : seq[i] \in S =>
             \E k \in 1 .. Len(r) : h[k] = i
  BY OnlyComesFrom
<1> HIDE DEF r
<1>3. Len(r) \in Nat /\ Len(seq) \in Nat /\ DOMAIN r = 1 .. Len(r)
      /\ DOMAIN seq = 1 .. Len(seq)
  BY <1>1
<1>4. ToSet(r) = ToSet(seq) \cap S
  <2>1. ASSUME NEW x \in ToSet(r) PROVE x \in ToSet(seq) \cap S
    <3>1. PICK k \in 1 .. Len(r) : r[k] = x
      BY <1>3 DEF ToSet
    <3>2. x = seq[h[k]] /\ x \in S /\ h[k] \in 1 .. Len(seq)
      BY <3>1, <1>2
    <3> QED BY <3>2, <1>3 DEF ToSet
  <2>2. ASSUME NEW x \in ToSet(seq) \cap S PROVE x \in ToSet(r)
    <3>1. PICK i \in 1 .. Len(seq) : seq[i] = x
      BY <1>3 DEF ToSet
    <3>2. PICK k \in 1 .. Len(r) : h[k] = i
      BY <3>1, <1>2
    <3> QED BY <3>1, <3>2, <1>2, <1>3 DEF ToSet
  <2> QED BY <2>1, <2>2
<1>5. ASSUME IsInjective(seq) PROVE IsInjective(r)
  <2> SUFFICES ASSUME NEW k \in 1 .. Len(r), NEW l \in 1 .. Len(r), r[k] = r[l]
               PROVE  k = l
    BY <1>3 DEF IsInjective
  <2>1. h[k] = h[l]
    <3>1. seq[h[k]] = seq[h[l]] /\ h[k] \in 1 .. Len(seq) /\ h[l] \in 1 .. Len(seq)
      BY <1>2
    <3> QED BY <3>1, <1>3, <1>5 DEF IsInjective
  <2>2. ~ k < l /\ ~ l < k
    <3>1. h[k] \in Nat
      BY <1>2, <1>3
    <3> QED BY <2>1, <3>1, <1>2
  <2> QED BY <2>2, <1>3
<1> QED BY <1>1, <1>4, <1>5 DEF r

(* What comes earlier in the sequence comes earlier in the result.          *)
THEOREM OnlyKeepsOrder ==
  ASSUME NEW T, NEW seq \in Seq(T), NEW S, NEW R,
         \A i, j \in 1 .. Len(seq) : i < j => <<seq[i], seq[j]>> \in R
  PROVE  \A i, j \in 1 .. Len(Only(seq, S)) :
           i < j => <<Only(seq, S)[i], Only(seq, S)[j]>> \in R
<1> DEFINE r == Only(seq, S)
<1>1. PICK h \in [1 .. Len(r) -> 1 .. Len(seq)] :
        /\ \A k \in 1 .. Len(r) : r[k] = seq[h[k]] /\ seq[h[k]] \in S
        /\ \A k, l \in 1 .. Len(r) : k < l => h[k] < h[l]
  BY OnlyComesFrom
<1> HIDE DEF r
<1> QED BY <1>1 DEF r

--------------------------------------------------------------------------
LEMMA SetOfEmpty == ToSet(<<>>) = {} /\ IsInjective(<<>>)
BY DEF ToSet, IsInjective

LEMMA InSetOf ==
  ASSUME NEW T, NEW seq \in Seq(T)
  PROVE  /\ \A x : x \in ToSet(seq) <=> \E i \in 1 .. Len(seq) : seq[i] = x
         /\ ToSet(seq) \subseteq T
         /\ IsInjective(seq) <=>
              \A i, j \in 1 .. Len(seq) : seq[i] = seq[j] => i = j
<1>1. DOMAIN seq = 1 .. Len(seq) /\ \A i \in 1 .. Len(seq) : seq[i] \in T
  OBVIOUS
<1> QED BY <1>1 DEF ToSet, IsInjective

LEMMA SetOfAppend ==
  ASSUME NEW T, NEW seq \in Seq(T), NEW x \in T
  PROVE  /\ Append(seq, x) \in Seq(T)
         /\ ToSet(Append(seq, x)) = ToSet(seq) \cup {x}
         /\ IsInjective(seq) /\ x \notin ToSet(seq) => IsInjective(Append(seq, x))
<1> DEFINE r == Append(seq, x)
<1>1. /\ r \in Seq(T) /\ Len(seq) \in Nat /\ Len(r) = Len(seq) + 1
      /\ \A i \in 1 .. Len(seq) : r[i] = seq[i]
      /\ r[Len(seq) + 1] = x
  OBVIOUS
<1> HIDE DEF r
<1>2. 1 .. Len(r) = 1 .. Len(seq) \cup {Len(seq) + 1}
  BY <1>1
<1>3. \A y : y \in ToSet(r) <=> \E i \in 1 .. Len(r) : r[i] = y
  BY <1>1, InSetOf
<1>4. \A y : y \in ToSet(seq) <=> \E i \in 1 .. Len(seq) : seq[i] = y
  BY InSetOf
<1>5. ToSet(r) = ToSet(seq) \cup {x}
  BY <1>1, <1>2, <1>3, <1>4
<1>6. ASSUME IsInjective(seq), x \notin ToSet(seq)
      PROVE  \A i, j \in 1 .. Len(r) : r[i] = r[j] => i = j
  <2>1. \A i, j \in 1 .. Len(seq) : seq[i] = seq[j] => i = j
    BY <1>6, InSetOf
  <2> QED BY <2>1, <1>6, <1>1, <1>2, <1>4
<1>7. IsInjective(seq) /\ x \notin ToSet(seq) => IsInjective(r)
  BY <1>1, <1>6, InSetOf
<1> QED BY <1>1, <1>5, <1>7 DEF r

LEMMA SetOfConcat ==
  ASSUME NEW T, NEW a \in Seq(T), NEW b \in Seq(T)
  PROVE  /\ a \o b \in Seq(T)
         /\ ToSet(a \o b) = ToSet(a) \cup ToSet(b)
         /\ IsInjective(a) /\ IsInjective(b) /\ ToSet(a) \cap ToSet(b) = {} =>
              IsInjective(a \o b)
<1> DEFINE r == a \o b
           l == Len(a)
<1>1. /\ r \in Seq(T) /\ l \in Nat /\ Len(b) \in Nat /\ Len(r) = l + Len(b)
      /\ \A i \in 1 .. l : r[i] = a[i]
      /\ \A i \in 1 .. Len(b) : r[l + i] = b[i]
  OBVIOUS
<1> HIDE DEF r
<1>2. /\ \A i \in 1 .. Len(r) : i \in 1 .. l \/ i - l \in 1 .. Len(b)
      /\ \A i \in 1 .. l : i \in 1 .. Len(r)
      /\ \A i \in 1 .. Len(b) : l + i \in 1 .. Len(r)
      /\ \A i \in 1 .. Len(r) : l + (i - l) = i
  BY <1>1 DEF l
<1>3. /\ \A i \in 1 .. l : a[i] \in ToSet(a)
      /\ \A i \in 1 .. Len(b) : b[i] \in ToSet(b)
  BY InSetOf DEF l
<1>4. \A x : x \in ToSet(r) <=> x \in ToSet(a) \/ x \in ToSet(b)
  <2> TAKE x
  <2>1. ASSUME x \in ToSet(a) PROVE x \in ToSet(r)
    <3>1. PICK i \in 1 .. l : a[i] = x
      BY <2>1, InSetOf DEF l
    <3> QED BY <3>1, <1>1, <1>2, InSetOf
  <2>2. ASSUME x \in ToSet(b) PROVE x \in ToSet(r)
    <3>1. PICK i \in 1 .. Len(b) : b[i] = x
      BY <2>2, InSetOf
    <3> QED BY <3>1, <1>1, <1>2, InSetOf
  <2>3. ASSUME x \in ToSet(r) PROVE x \in ToSet(a) \/ x \in ToSet(b)
    <3>1. PICK i \in 1 .. Len(r) : r[i] = x
      BY <2>3, <1>1, InSetOf
    <3>2. CASE i \in 1 .. l
      BY <3>1, <3>2, <1>1, <1>3
    <3>3. CASE i - l \in 1 .. Len(b)
      BY <3>1, <3>3, <1>1, <1>2, <1>3
    <3> QED BY <3>1, <3>2, <3>3, <1>2
  <2> QED BY <2>1, <2>2, <2>3
<1>5. ASSUME IsInjective(a), IsInjective(b), ToSet(a) \cap ToSet(b) = {},
             NEW i \in 1 .. Len(r), NEW j \in 1 .. Len(r), r[i] = r[j]
      PROVE  i = j
  <2>1. CASE i \in 1 .. l /\ j \in 1 .. l
    BY <2>1, <1>1, <1>5, InSetOf DEF l
  <2>2. CASE i - l \in 1 .. Len(b) /\ j - l \in 1 .. Len(b)
    <3>1. b[i - l] = r[i] /\ b[j - l] = r[j]
      BY <2>2, <1>1, <1>2
    <3>2. i - l = j - l
      BY <3>1, <2>2, <1>5, InSetOf
    <3> QED BY <3>2, <1>1
  <2>3. CASE i \in 1 .. l /\ j - l \in 1 .. Len(b)
    <3>1. r[i] \in ToSet(a) /\ r[l + (j - l)] \in ToSet(b)
      BY <2>3, <1>1, <1>3
    <3> QED BY <3>1, <1>2, <1>5
  <2>4. CASE j \in 1 .. l /\ i - l \in 1 .. Len(b)
    <3>1. r[j] \in ToSet(a) /\ r[l + (i - l)] \in ToSet(b)
      BY <2>4, <1>1, <1>3
    <3> QED BY <3>1, <1>2, <1>5
  <2> QED BY <2>1, <2>2, <2>3, <2>4, <1>2
<1>6. IsInjective(a) /\ IsInjective(b) /\ ToSet(a) \cap ToSet(b) = {} => IsInjective(r)
  BY <1>1, <1>5, InSetOf
<1> QED BY <1>1, <1>4, <1>6 DEF r

LEMMA SetOfTail ==
  ASSUME NEW T, NEW seq \in Seq(T), seq # <<>>
  PROVE  /\ Tail(seq) \in Seq(T) /\ Head(seq) \in T
         /\ ToSet(seq) = ToSet(Tail(seq)) \cup {Head(seq)}
         /\ IsInjective(seq) =>
              IsInjective(Tail(seq)) /\ Head(seq) \notin ToSet(Tail(seq))
<1> DEFINE r == Tail(seq)
<1>1. /\ r \in Seq(T) /\ Len(seq) \in Nat /\ Len(seq) >= 1
      /\ Len(r) = Len(seq) - 1 /\ Head(seq) = seq[1] /\ seq[1] \in T
      /\ \A i \in 1 .. Len(r) : r[i] = seq[i + 1]
  OBVIOUS
<1> HIDE DEF r
<1>2. \A y : y \in ToSet(r) <=> \E i \in 1 .. Len(r) : r[i] = y
  BY <1>1, InSetOf
<1>3. \A y : y \in ToSet(seq) <=> \E i \in 1 .. Len(seq) : seq[i] = y
  BY InSetOf
<1>4. \A i \in 1 .. Len(r) : i + 1 \in 1 .. Len(seq) /\ i + 1 # 1
  BY <1>1
<1>5. \A i \in 1 .. Len(seq) : i # 1 => i - 1 \in 1 .. Len(r) /\ (i - 1) + 1 = i
  BY <1>1
<1>6. ToSet(seq) = ToSet(r) \cup {seq[1]}
  <2>1. \A y \in ToSet(r) : y \in ToSet(seq)
    BY <1>1, <1>2, <1>3, <1>4
  <2>2. seq[1] \in ToSet(seq)
    BY <1>1, <1>3
  <2>3. ASSUME NEW y \in ToSet(seq), y # seq[1] PROVE y \in ToSet(r)
    <3>1. PICK i \in 1 .. Len(seq) : seq[i] = y
      BY <1>3
    <3>2. i # 1
      BY <3>1, <2>3
    <3>3. r[i - 1] = y /\ i - 1 \in 1 .. Len(r)
      BY <3>1, <3>2, <1>5, <1>1
    <3> QED BY <3>3, <1>2
  <2> QED BY <2>1, <2>2, <2>3
<1>7. ASSUME IsInjective(seq) PROVE IsInjective(r) /\ seq[1] \notin ToSet(r)
  <2>1. \A i, j \in 1 .. Len(seq) : seq[i] = seq[j] => i = j
    BY <1>7, InSetOf
  <2>2. \A i, j \in 1 .. Len(r) : r[i] = r[j] => i + 1 = j + 1
    BY <2>1, <1>1, <1>4
  <2>3. IsInjective(r)
    BY <2>2, <1>1, InSetOf
  <2>4. seq[1] \notin ToSet(r)
    BY <2>1, <1>1, <1>2, <1>4
  <2> QED BY <2>3, <2>4
<1> QED BY <1>1, <1>6, <1>7 DEF r

LEMMA FrontIs ==
  ASSUME NEW T, NEW seq \in Seq(T), seq # <<>>
  PROVE  /\ Front(seq) \in Seq(T) /\ Len(seq) \in Nat /\ Len(Front(seq)) = Len(seq) - 1
         /\ \A i \in 1 .. Len(Front(seq)) :
              i \in 1 .. Len(seq) /\ Front(seq)[i] = seq[i]
<1>1. Len(seq) \in Nat /\ Len(seq) >= 1
  OBVIOUS
<1>2. Front(seq) = [i \in 1 .. Len(seq) - 1 |-> seq[i]]
  BY <1>1 DEF Front
<1>3. 1 .. Len(seq) - 1 \subseteq 1 .. Len(seq) /\ Len(seq) - 1 \in Nat
  BY <1>1
<1>4. \A i \in 1 .. Len(seq) - 1 : seq[i] \in T
  BY <1>3
<1> QED BY <1>1, <1>2, <1>3, <1>4

LEMMA RemoveAtIs ==
  ASSUME NEW T, NEW seq \in Seq(T), NEW i \in 1 .. Len(seq)
  PROVE  /\ RemoveAt(seq, i) \in Seq(T)
         /\ Len(RemoveAt(seq, i)) = Len(seq) - 1 /\ Len(seq) \in Nat
         /\ \A k \in 1 .. Len(RemoveAt(seq, i)) :
              RemoveAt(seq, i)[k] = IF k < i THEN seq[k] ELSE seq[k + 1]
         /\ IsInjective(seq) =>
              /\ IsInjective(RemoveAt(seq, i))
              /\ ToSet(RemoveAt(seq, i)) = ToSet(seq) \ {seq[i]}
         /\ ToSet(RemoveAt(seq, i)) \subseteq ToSet(seq)
<1> DEFINE r == RemoveAt(seq, i)
           n == Len(seq)
<1>1. n \in Nat /\ i \in 1 .. n /\ \A k \in 1 .. n : seq[k] \in T
  OBVIOUS
<1>2. /\ SubSeq(seq, 1, i - 1) = [k \in 1 .. i - 1 |-> seq[k]]
      /\ SubSeq(seq, i + 1, n) = [k \in 1 .. n - i |-> seq[k + i]]
  BY <1>1
<1>3. r = [k \in 1 .. n - 1 |-> IF k < i THEN seq[k] ELSE seq[k + 1]]
  <2> DEFINE a == [k \in 1 .. i - 1 |-> seq[k]]
             b == [k \in 1 .. n - i |-> seq[k + i]]
  <2>1. \A k \in 1 .. i - 1 : seq[k] \in T
    BY <1>1
  <2>2. \A k \in 1 .. n - i : seq[k + i] \in T
    BY <1>1
  <2>3. a \in Seq(T) /\ Len(a) = i - 1 /\ b \in Seq(T) /\ Len(b) = n - i
    BY <1>1, <2>1, <2>2
  <2>4. r = a \o b
    BY <1>2 DEF RemoveAt
  <2>5. r \in Seq(T) /\ Len(r) = n - 1
    BY <1>1, <2>3, <2>4
  <2>6. ASSUME NEW k \in 1 .. n - 1
        PROVE  r[k] = IF k < i THEN seq[k] ELSE seq[k + 1]
    <3>1. CASE k < i
      <4>1. k \in 1 .. Len(a)
        BY <3>1, <1>1, <2>3
      <4>2. r[k] = a[k]
        BY <4>1, <2>3, <2>4
      <4> QED BY <4>1, <4>2, <3>1, <2>3
    <3>2. CASE ~ k < i
      <4>1. k - Len(a) \in 1 .. n - i /\ k \in Len(a) + 1 .. Len(a) + Len(b)
        BY <3>2, <1>1, <2>3
      <4>2. r[k] = b[k - Len(a)]
        BY <4>1, <2>3, <2>4
      <4>3. (k - Len(a)) + i = k + 1
        BY <1>1, <2>3
      <4> QED BY <4>1, <4>2, <4>3, <3>2
    <3> QED BY <3>1, <3>2
  <2> HIDE DEF a, b, r
  <2> QED BY <2>5, <2>6
<1>4. \A k \in 1 .. n - 1 : k \in 1 .. n /\ k + 1 \in 1 .. n
  BY <1>1
<1>5. /\ r \in Seq(T) /\ Len(r) = n - 1
      /\ \A k \in 1 .. Len(r) : r[k] = IF k < i THEN seq[k] ELSE seq[k + 1]
  BY <1>1, <1>3, <1>4
<1> HIDE DEF r, n
<1>6. /\ \A x : x \in ToSet(r) <=> \E k \in 1 .. Len(r) : r[k] = x
      /\ \A x : x \in ToSet(seq) <=> \E k \in 1 .. n : seq[k] = x
  BY <1>5, InSetOf DEF n
<1>7. ToSet(r) \subseteq ToSet(seq)
  BY <1>4, <1>5, <1>6
<1>8. ASSUME IsInjective(seq)
      PROVE  IsInjective(r) /\ ToSet(r) = ToSet(seq) \ {seq[i]}
  <2>1. \A k, l \in 1 .. n : seq[k] = seq[l] => k = l
    BY <1>8, InSetOf DEF n
  <2>2. \A k, l \in 1 .. Len(r) : r[k] = r[l] => k = l
    <3> SUFFICES ASSUME NEW k \in 1 .. Len(r), NEW l \in 1 .. Len(r), r[k] = r[l]
                 PROVE  k = l
      OBVIOUS
    <3> DEFINE f == IF k < i THEN k ELSE k + 1
               g == IF l < i THEN l ELSE l + 1
    <3>1. f \in 1 .. n /\ g \in 1 .. n /\ r[k] = seq[f] /\ r[l] = seq[g]
      BY <1>4, <1>5
    <3>2. f = g
      BY <3>1, <2>1
    <3>3. k \in Int /\ l \in Int /\ i \in Int
      BY <1>1
    <3> QED BY <3>2, <3>3
  <2>3. ASSUME NEW x \in ToSet(r) PROVE x # seq[i]
    <3>1. PICK k \in 1 .. Len(r) : r[k] = x
      BY <1>6
    <3>2. (r[k] = seq[k] /\ k # i) \/ (r[k] = seq[k + 1] /\ k + 1 # i)
      BY <1>1, <1>5
    <3> QED BY <3>1, <3>2, <2>1, <1>1, <1>4, <1>5
  <2>4. ASSUME NEW x \in ToSet(seq), x # seq[i] PROVE x \in ToSet(r)
    <3>1. PICK k \in 1 .. n : seq[k] = x
      BY <1>6
    <3>2. k # i
      BY <3>1, <2>4
    <3>3. CASE k < i
      <4>1. k \in 1 .. Len(r)
        BY <3>3, <1>1, <1>5
      <4> QED BY <4>1, <3>1, <3>3, <1>5, <1>6
    <3>4. CASE i < k
      <4>1. k - 1 \in 1 .. Len(r) /\ ~ k - 1 < i /\ (k - 1) + 1 = k
        BY <3>4, <1>1, <1>5
      <4> QED BY <4>1, <3>1, <1>5, <1>6
    <3> QED BY <3>2, <3>3, <3>4, <1>1
  <2>5. IsInjective(r)
    BY <2>2, <1>5, InSetOf
  <2> QED BY <2>3, <2>4, <2>5, <1>7
<1> QED BY <1>1, <1>5, <1>7, <1>8 DEF r, n

LEMMA AppendIs ==
  ASSUME NEW T, NEW seq \in Seq(T), NEW x \in T, NEW r, r = Append(seq, x)
  PROVE  /\ r \in Seq(T) /\ Len(seq) \in Nat /\ Len(r) = Len(seq) + 1
         /\ r[Len(seq) + 1] = x /\ \A i \in 1 .. Len(seq) : r[i] = seq[i]
         /\ 1 .. Len(r) = 1 .. Len(seq) \cup {Len(seq) + 1}
         /\ Len(seq) + 1 \notin 1 .. Len(seq)
<1>1. /\ r \in Seq(T) /\ Len(seq) \in Nat /\ Len(r) = Len(seq) + 1
      /\ r[Len(seq) + 1] = x /\ \A i \in 1 .. Len(seq) : r[i] = seq[i]
  OBVIOUS
<1> QED BY <1>1
=============================================================================
