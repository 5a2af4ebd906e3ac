---------------------------- MODULE IndexProofs ----------------------------
(***************************************************************************)
(* Theorems about EventIngest, for any finite set of items and any events,  *)
(* configurations, sizes of buffers and caches and number of steps: the     *)
(* co-occurrence matrix stays symmetric, and no item keeps more neighbours  *)
(* than it may.  And about SimilarityCache, for any finite sets of keys and *)
(* items, any limit and any readers: its structures agree, and it           *)
(* implements ResultCache.  The operations of both are loops; what a loop   *)
(* keeps is shown by way of the least round that would break it.            *)
(***************************************************************************)
EXTENDS EventIngest, SimilarityCache, FunctionTheorems, FiniteSetTheorems, SequenceTheorems, WellFoundedInduction, TLAPS

-----------------------------------------------------------------------------
(* Numbers.                                                                 *)

\* A set of numbers has a least one.
LEMMA LeastNumber ==
  ASSUME NEW T \in SUBSET Nat, T # {}
  PROVE  \E x \in T : \A y \in T : x <= y
<1> DEFINE R == OpToRel(<, Nat)
<1>1. IsWellFoundedOn(R, Nat)
  BY NatLessThanWellFounded
<1>2. \A x, y \in Nat : y < x => <<y, x>> \in R
  BY DEF OpToRel
<1> HIDE DEF R
<1>3. PICK x \in T : \A y \in T : ~(<<y, x>> \in R)
  BY <1>1, WFMin
<1>4. \A y \in T : ~(y < x)
  BY <1>2, <1>3
<1> QED  BY <1>4

\* What holds of 0, and of every number as soon as it holds of the one before, holds of all.
LEMMA NoLeastFailure ==
  ASSUME NEW n \in Nat, NEW Bad \in SUBSET (0..n), 0 \notin Bad,
         \A k \in 1..n : k - 1 \notin Bad => k \notin Bad
  PROVE  Bad = {}
<1> SUFFICES ASSUME Bad # {} PROVE FALSE
  OBVIOUS
<1>1. PICK x \in Bad : \A y \in Bad : x <= y
  BY LeastNumber
<1>2. x \in 1..n /\ x - 1 \in 0..n /\ ~(x <= x - 1)
  BY <1>1
<1> QED
  BY <1>1, <1>2

\* The ranks of the members of a finite set are 1, 2, ... without a gap.
LEMMA RankIsBijection ==
  ASSUME NEW keep \in SUBSET Nat, IsFiniteSet(keep)
  PROVE  /\ Cardinality(keep) \in Nat
         /\ [j \in keep |-> Rank(keep, j)] \in Bijection(keep, 1..Cardinality(keep))
<1> DEFINE Below(j) == {k \in keep : k <= j}
           f == [j \in keep |-> Rank(keep, j)]
<1>2. IsFiniteSet(keep)
  OBVIOUS
<1>3. Cardinality(keep) \in Nat
  BY <1>2, FS_CardinalityType
<1>4. \A j \in keep : IsFiniteSet(Below(j)) /\ Cardinality(Below(j)) \in Nat
                      /\ Cardinality(Below(j)) <= Cardinality(keep)
  <2> TAKE j \in keep
  <2>1. Below(j) \subseteq keep
    OBVIOUS
  <2> QED
    BY <2>1, <1>2, FS_Subset, FS_CardinalityType
<1>5. \A j \in keep : Cardinality(Below(j)) # 0
  BY <1>4, FS_EmptySet
<1>6. \A i, j \in keep : i < j => Cardinality(Below(i)) < Cardinality(Below(j))
  <2> TAKE i, j \in keep
  <2> HAVE i < j
  <2>1. Below(i) \subseteq Below(j) /\ j \in Below(j) /\ j \notin Below(i)
    <3>1. \A k \in keep : k \in Nat
      OBVIOUS
    <3>2. \A k \in Below(i) : k \in Below(j)
      BY <3>1
    <3>3. j <= j /\ ~(j <= i)
      BY <3>1
    <3> QED
      BY <3>2, <3>3
  <2>2. Below(i) # Below(j)
    BY <2>1
  <2> QED
    BY <2>1, <2>2, <1>4, FS_Subset
<1>7. f \in [keep -> 1..Cardinality(keep)]
  <2>1. \A j \in keep : Cardinality(Below(j)) \in 1..Cardinality(keep)
    BY <1>3, <1>4, <1>5
  <2> QED
    BY <2>1 DEF Rank
<1>8. \A i, j \in keep : f[i] = f[j] => i = j
  <2> TAKE i, j \in keep
  <2> HAVE f[i] = f[j]
  <2>1. Cardinality(Below(i)) = Cardinality(Below(j))
    BY DEF Rank
  <2>2. i \in Nat /\ j \in Nat
    OBVIOUS
  <2>3. ~(i < j) /\ ~(j < i)
    BY <2>1, <1>4, <1>6
  <2> QED
    BY <2>2, <2>3
<1>9. f \in Injection(keep, 1..Cardinality(keep))
  BY <1>7, <1>8, Fun_IsInj
<1>10. IsFiniteSet(1..Cardinality(keep)) /\ Cardinality(1..Cardinality(keep)) = Cardinality(keep)
  BY <1>3, FS_Interval
<1>11. f \in Surjection(keep, 1..Cardinality(keep))
  <2> HIDE DEF f
  <2> QED
    BY <1>9, <1>10, FS_Injection
<1> QED
  BY <1>3, <1>9, <1>11, Zenon DEF Bijection


\* Every member of a finite set stands in its list in the order of ranks.
LEMMA RankList ==
  ASSUME NEW S \in SUBSET Nat, IsFiniteSet(S),
         NEW l, l = InOrder(S)
  PROVE  l \in Seq(S) /\ \A i \in S : \E k \in 1..Len(l) : l[k] = i
<1> DEFINE n == Cardinality(S)
           f == [j \in S |-> Rank(S, j)]
<1>1. n \in Nat /\ f \in Bijection(S, 1..n)
  BY RankIsBijection
<1>2. /\ \A j \in S : f[j] \in 1..n
      /\ \A i, j \in S : f[i] = f[j] => i = j
      /\ \A i \in 1..n : \E j \in S : f[j] = i
  BY <1>1 DEF Bijection, Injection, Surjection, IsInjective
<1>3. \A j \in S : f[j] = Rank(S, j)
  OBVIOUS
<1>4. l = [k \in 1..n |-> CHOOSE i \in S : Rank(S, i) = k]
  BY DEF InOrder
<1> HIDE DEF n, f
<1>5. ASSUME NEW k \in 1..n PROVE l[k] \in S /\ f[l[k]] = k
  <2>1. \E i \in S : Rank(S, i) = k
    BY <1>2, <1>3
  <2>2. l[k] = CHOOSE i \in S : Rank(S, i) = k
    BY <1>4
  <2>3. l[k] \in S /\ Rank(S, l[k]) = k
    BY <2>1, <2>2, Zenon
  <2> QED
    BY <1>3, <2>3
<1>6. l \in [1..n -> S]
  BY <1>4, <1>5
<1>7. l \in Seq(S) /\ Len(l) = n
  <2>1. \A h \in [1..n -> S] : h \in Seq(S) /\ Len(h) = n
    BY <1>1
  <2> QED
    BY <1>6, <2>1
<1>8. ASSUME NEW i \in S PROVE f[i] \in 1..n /\ l[f[i]] = i
  <2>1. f[i] \in 1..n
    BY <1>2
  <2>2. l[f[i]] \in S /\ f[l[f[i]]] = f[i]
    BY <1>5, <2>1
  <2> QED
    BY <1>2, <2>1, <2>2
<1> QED
  BY <1>7, <1>8

\* Compaction leaves some of the rows.
LEMMA CompactRows ==
  ASSUME NEW R, NEW s \in Seq(R), NEW keep \in SUBSET DOMAIN s
  PROVE  Compact(s, keep) \in Seq(R)
<1> DEFINE n == Cardinality(keep)
           f == [j \in keep |-> Rank(keep, j)]
           c == Compact(s, keep)
<1>1. DOMAIN s = 1..Len(s) /\ Len(s) \in Nat /\ keep \in SUBSET Nat
  OBVIOUS
<1>2. IsFiniteSet(keep)
  <2>1. IsFiniteSet(1..Len(s))
    BY <1>1, FS_Interval
  <2> QED
    BY <1>1, <2>1, FS_Subset
<1>3. n \in Nat /\ f \in Bijection(keep, 1..n)
  BY <1>1, <1>2, RankIsBijection
<1>4. \A i \in 1..n : \E j \in keep : f[j] = i
  BY <1>3 DEF Bijection, Surjection
<1>5. \A j \in keep : f[j] = Rank(keep, j)
  OBVIOUS
<1>6. c = [i \in 1..n |-> s[CHOOSE j \in keep : Rank(keep, j) = i]]
  BY DEF Compact
<1> HIDE DEF n, f, c
<1>7. \A i \in 1..n : (CHOOSE j \in keep : Rank(keep, j) = i) \in keep
  BY <1>4, <1>5
<1>8. \A i \in 1..n : c[i] \in R
  <2> TAKE i \in 1..n
  <2> DEFINE j == CHOOSE j \in keep : Rank(keep, j) = i
  <2>1. j \in keep /\ c[i] = s[j]
    BY <1>6, <1>7
  <2> HIDE DEF j
  <2> QED
    BY <2>1, <1>1
<1>9. c \in [1..n -> R]
  BY <1>6, <1>8
<1>10. c \in Seq(R)
  BY <1>3, <1>9
<1> QED
  BY <1>10 DEF c

-----------------------------------------------------------------------------
(* The matrix.                                                              *)

\* A matrix over the items that reads the same in both directions.
Balanced(m) ==
  /\ DOMAIN m \subseteq Items \X Items
  /\ \A i, j \in Items :
       <<i, j>> \in DOMAIN m => <<j, i>> \in DOMAIN m /\ m[<<j, i>>] = m[<<i, j>>]

\* Item i has no more neighbours than the configuration c allows.
Limited(c, m, i) == Cardinality(Neighbours(m, i)) <= c.max_neighbors

ConfigShape == [max_neighbors : Nat, min_support : Nat, negative_signals : BOOLEAN]

LEMMA NeighboursFinite ==
  ASSUME NEW m, NEW i
  PROVE  Neighbours(m, i) \subseteq Items /\ IsFiniteSet(Neighbours(m, i))
         /\ Cardinality(Neighbours(m, i)) \in Nat
<1>1. Neighbours(m, i) \subseteq Items
  BY DEF Neighbours
<1>2. IsFiniteSet(Neighbours(m, i))
  BY <1>1, CoOccurrenceConstants, FS_Subset
<1> QED
  BY <1>1, <1>2, FS_CardinalityType

\* An item keeps to its limit in a matrix with fewer entries of it.
LEMMA LimitKept ==
  ASSUME NEW c \in ConfigShape, NEW m, NEW x, NEW i,
         Neighbours(x, i) \subseteq Neighbours(m, i), Limited(c, m, i)
  PROVE  Limited(c, x, i)
<1>1. Cardinality(Neighbours(x, i)) <= Cardinality(Neighbours(m, i))
  BY NeighboursFinite, FS_Subset
<1>2. c.max_neighbors \in Nat
  BY DEF ConfigShape
<1> QED
  BY <1>1, <1>2, NeighboursFinite DEF Limited

LEMMA FewerNeighbours ==
  ASSUME NEW m, NEW x, DOMAIN x \subseteq DOMAIN m, NEW i
  PROVE  Neighbours(x, i) \subseteq Neighbours(m, i)
BY DEF Neighbours

LEMMA AddScoreBalanced ==
  ASSUME NEW m, Balanced(m), NEW i \in Items, NEW j \in Items, NEW s, NEW r, r = AddScore(m, i, j, s)
  PROVE  Balanced(r) /\ DOMAIN r = DOMAIN m \cup {<<i, j>>, <<j, i>>}
<1> DEFINE both == {<<i, j>>, <<j, i>>}
<1>1. r = [p \in DOMAIN m \cup both |-> Score(m, p) + IF p \in both THEN s ELSE 0]
  BY DEF AddScore
<1>2. DOMAIN r = DOMAIN m \cup both
  BY <1>1
<1>3. DOMAIN r \subseteq Items \X Items
  BY <1>2 DEF Balanced
<1>4. ASSUME NEW a \in Items, NEW b \in Items, <<a, b>> \in DOMAIN r
      PROVE  <<b, a>> \in DOMAIN r /\ r[<<b, a>>] = r[<<a, b>>]
  <2>1. <<a, b>> \in both <=> <<b, a>> \in both
    OBVIOUS
  <2>2. <<a, b>> \in DOMAIN m <=> <<b, a>> \in DOMAIN m
    BY DEF Balanced
  <2>3. Score(m, <<a, b>>) = Score(m, <<b, a>>)
    BY <2>2 DEF Balanced, Score
  <2>4. <<b, a>> \in DOMAIN r
    BY <1>2, <1>4, <2>1, <2>2
  <2> HIDE DEF both
  <2>5. /\ r[<<a, b>>] = Score(m, <<a, b>>) + IF <<a, b>> \in both THEN s ELSE 0
        /\ r[<<b, a>>] = Score(m, <<b, a>>) + IF <<b, a>> \in both THEN s ELSE 0
    BY <1>1, <1>2, <1>4, <2>4
  <2> QED
    BY <2>1, <2>3, <2>4, <2>5
<1> QED
  BY <1>2, <1>3, <1>4 DEF Balanced

LEMMA RemoveBalanced ==
  ASSUME NEW m, Balanced(m), NEW i, NEW gone, NEW r, r = RemoveNeighbours(m, i, gone)
  PROVE  /\ Balanced(r) /\ DOMAIN r \subseteq DOMAIN m
         /\ Neighbours(r, i) \subseteq Neighbours(m, i) \ gone
<1> DEFINE left == {q \in DOMAIN m : ~(q[1] = i /\ q[2] \in gone) /\ ~(q[2] = i /\ q[1] \in gone)}
<1>1. r = [p \in left |-> m[p]]
  BY DEF RemoveNeighbours, Without
<1>2. DOMAIN r = left /\ \A p \in left : r[p] = m[p]
  BY <1>1
<1>3. ASSUME NEW a \in Items, NEW b \in Items
      PROVE  <<a, b>> \in left => <<b, a>> \in left /\ m[<<b, a>>] = m[<<a, b>>]
  <2>1. <<a, b>>[1] = a /\ <<a, b>>[2] = b /\ <<b, a>>[1] = b /\ <<b, a>>[2] = a
    OBVIOUS
  <2>2. <<a, b>> \in DOMAIN m => <<b, a>> \in DOMAIN m /\ m[<<b, a>>] = m[<<a, b>>]
    BY DEF Balanced
  <2> QED
    BY <2>1, <2>2
<1>4. \A j \in Items : <<i, j>> \in left => <<i, j>> \in DOMAIN m /\ j \notin gone
  <2> TAKE j \in Items
  <2>1. <<i, j>>[1] = i /\ <<i, j>>[2] = j
    OBVIOUS
  <2> QED
    BY <2>1
<1>5. left \subseteq DOMAIN m
  OBVIOUS
<1> HIDE DEF left
<1>6. Balanced(r)
  BY <1>2, <1>3, <1>5 DEF Balanced
<1>7. Neighbours(r, i) \subseteq Neighbours(m, i) \ gone
  BY <1>2, <1>4 DEF Neighbours
<1> QED
  BY <1>2, <1>5, <1>6, <1>7

\* Pruning an item takes entries away in both directions, and leaves it within its limit.
LEMMA PruneItemKeeps ==
  ASSUME NEW c \in ConfigShape, NEW m, Balanced(m), NEW i, NEW r \in PruneItem(c, m, i)
  PROVE  /\ Balanced(r) /\ DOMAIN r \subseteq DOMAIN m
         /\ c.max_neighbors > 0 => Limited(c, r, i)
<1> DEFINE weak == {j \in Neighbours(m, i) : Abs(m[<<i, j>>]) < c.min_support}
           kept == RemoveNeighbours(m, i, weak)
           nbrs == Neighbours(kept, i)
           excess == IF c.max_neighbors = 0 THEN 0 ELSE Cardinality(nbrs) - c.max_neighbors
           Lowest(d) == \A x \in d, y \in nbrs \ d : Abs(kept[<<i, x>>]) <= Abs(kept[<<i, y>>])
<1>1. \/ excess <= 0 /\ r = kept
      \/ ~(excess <= 0) /\ \E d \in kSubset(excess, nbrs) : r = RemoveNeighbours(kept, i, d)
  <2>1. r \in IF excess <= 0 THEN {kept}
              ELSE {RemoveNeighbours(kept, i, d) : d \in {d \in kSubset(excess, nbrs) : Lowest(d)}}
    BY DEF PruneItem
  <2> HIDE DEF excess, kept, nbrs, Lowest
  <2> QED
    BY <2>1
<1>2. Balanced(kept) /\ DOMAIN kept \subseteq DOMAIN m
  <2> HIDE DEF weak
  <2> QED
    BY RemoveBalanced
<1> HIDE DEF kept
<1>3. nbrs \subseteq Items /\ IsFiniteSet(nbrs) /\ Cardinality(nbrs) \in Nat
  BY NeighboursFinite
<1>4. c.max_neighbors \in Nat
  BY DEF ConfigShape
<1>5. CASE excess <= 0 /\ r = kept
  <2>1. c.max_neighbors > 0 => Cardinality(nbrs) <= c.max_neighbors
    BY <1>3, <1>4, <1>5
  <2> QED
    BY <1>2, <1>5, <2>1 DEF Limited
<1>6. CASE ~(excess <= 0) /\ \E d \in kSubset(excess, nbrs) : r = RemoveNeighbours(kept, i, d)
  <2>1. PICK d \in kSubset(excess, nbrs) : r = RemoveNeighbours(kept, i, d)
    BY <1>6
  <2>2. d \subseteq nbrs /\ Cardinality(d) = excess
    BY <2>1 DEF kSubset
  <2>3. Balanced(r) /\ DOMAIN r \subseteq DOMAIN kept /\ Neighbours(r, i) \subseteq nbrs \ d
    BY <1>2, <2>1, RemoveBalanced
  <2>4. IsFiniteSet(d) /\ IsFiniteSet(nbrs \ d)
    BY <1>3, <2>2, FS_Subset
  <2>5. Cardinality(nbrs \ d) = Cardinality(nbrs) - Cardinality(nbrs \cap d)
    BY <1>3, <2>4, FS_Difference
  <2>6. nbrs \cap d = d
    BY <2>2
  <2>7. Cardinality(Neighbours(r, i)) <= Cardinality(nbrs \ d)
    BY <2>3, <2>4, FS_Subset
  <2>8. c.max_neighbors > 0 => excess = Cardinality(nbrs) - c.max_neighbors
    BY <1>4
  <2>9. c.max_neighbors > 0 => Cardinality(nbrs \ d) = c.max_neighbors
    <3>1. Cardinality(nbrs \ d) = Cardinality(nbrs) - excess
      BY <2>2, <2>5, <2>6
    <3> HIDE DEF excess, nbrs
    <3> QED
      BY <1>3, <1>4, <2>8, <3>1
  <2>10. c.max_neighbors > 0 => Limited(c, r, i)
    BY <2>7, <2>9 DEF Limited
  <2> QED
    BY <1>2, <2>3, <2>10
<1> QED
  BY <1>1, <1>5, <1>6

LEMMA DecayBalanced ==
  ASSUME NEW c, NEW m, Balanced(m), NEW r, r = ApplyDecay(c, m)
  PROVE  Balanced(r) /\ DOMAIN r \subseteq DOMAIN m
<1> DEFINE half == [p \in DOMAIN m |-> m[p] \div 2]
           least == IF c.min_support > 0 THEN c.min_support ELSE 1
           gone == {p \in DOMAIN m : Abs(half[p]) < least}
<1>1. r = [p \in DOMAIN m \ gone |-> half[p]]
  BY DEF ApplyDecay
<1>2. \A i, j \in Items : <<i, j>> \in DOMAIN m => <<j, i>> \in DOMAIN m /\ half[<<j, i>>] = half[<<i, j>>]
  BY DEF Balanced
<1> HIDE DEF half
<1>3. \A i, j \in Items : <<i, j>> \in DOMAIN m \ gone => <<j, i>> \in DOMAIN m \ gone
  BY <1>2
<1>4. DOMAIN m \ gone \subseteq DOMAIN m
  OBVIOUS
<1> HIDE DEF gone
<1> QED
  BY <1>1, <1>2, <1>3, <1>4 DEF Balanced

LEMMA RestoreBalanced ==
  ASSUME NEW m, Balanced(m), NEW r, r = RestoreScores(m)
  PROVE  Balanced(r) /\ DOMAIN r = DOMAIN m
<1>1. {<<q[2], q[1]>> : q \in DOMAIN m} \subseteq DOMAIN m
  <2> SUFFICES ASSUME NEW q \in DOMAIN m PROVE <<q[2], q[1]>> \in DOMAIN m
    OBVIOUS
  <2>1. PICK a \in Items, b \in Items : q = <<a, b>>
    BY DEF Balanced
  <2> QED
    BY <2>1 DEF Balanced
<1>2. DOMAIN r = DOMAIN m /\ \A p \in DOMAIN m : r[p] = m[p]
  BY <1>1 DEF RestoreScores
<1> QED
  BY <1>2 DEF Balanced

-----------------------------------------------------------------------------
(* The loops.  First, that each has its rounds; then what the rounds keep.   *)

LEMMA AddPairsRounds ==
  ASSUME NEW m, NEW prior, NEW new, NEW n \in Nat
  PROVE  \E f : f = [k \in 0..n |-> IF k = 0 THEN m ELSE AddPair(f[k-1], prior[k], new)]
<1> DEFINE Runs(x, f) == f = [k \in 0..x |-> IF k = 0 THEN m ELSE AddPair(f[k-1], prior[k], new)]
           Bad == {x \in 0..n : ~\E f : Runs(x, f)}
<1>1. 0 \notin Bad
  <2> DEFINE g == [k \in 0..0 |-> m]
  <2>1. Runs(0, g)
    OBVIOUS
  <2> QED
    BY <2>1
<1>2. ASSUME NEW x \in 1..n, x - 1 \notin Bad PROVE x \notin Bad
  <2>1. x - 1 \in 0..n
    OBVIOUS
  <2>2. PICK f : Runs(x - 1, f)
    BY <1>2, <2>1
  <2> DEFINE g == [k \in 0..x |-> IF k = x THEN AddPair(f[x-1], prior[x], new) ELSE f[k]]
  <2>3. \A k \in 0..x-1 : g[k] = f[k]
    OBVIOUS
  <2>4. ASSUME NEW k \in 0..x
        PROVE  g[k] = IF k = 0 THEN m ELSE AddPair(g[k-1], prior[k], new)
    <3>1. CASE k = x
      <4>1. g[k] = AddPair(f[k-1], prior[k], new) /\ k - 1 \in 0..x-1 /\ k # 0
        BY <3>1
      <4>2. g[k-1] = f[k-1]
        BY <2>3, <4>1
      <4> HIDE DEF g
      <4> QED
        BY <4>1, <4>2
    <3>2. CASE k # x
      <4>1. k \in 0..x-1 /\ (k # 0 => k - 1 \in 0..x-1)
        BY <3>2
      <4>2. f[k] = IF k = 0 THEN m ELSE AddPair(f[k-1], prior[k], new)
        BY <2>2, <4>1
      <4>3. g[k] = f[k] /\ (k # 0 => g[k-1] = f[k-1])
        BY <2>3, <4>1
      <4> HIDE DEF g
      <4> QED
        BY <4>2, <4>3
    <3> QED
      BY <3>1, <3>2
  <2>5. Runs(x, g)
    <3>1. g = [k \in 0..x |-> g[k]]
      OBVIOUS
    <3> HIDE DEF g
    <3> QED
      BY <2>4, <3>1
  <2> QED
    BY <2>5
<1>3. Bad = {}
  <2> HIDE DEF Bad
  <2>1. Bad \in SUBSET (0..n)
    BY DEF Bad
  <2> QED
    BY <1>1, <1>2, <2>1, NoLeastFailure
<1> QED
  BY <1>3

LEMMA AddPairBalanced ==
  ASSUME NEW x, Balanced(x), NEW e \in Events, NEW new \in Events, NEW r, r = AddPair(x, e, new)
  PROVE  Balanced(r) /\ DOMAIN r \subseteq DOMAIN x \cup {<<new.id, e.id>>, <<e.id, new.id>>}
<1> DEFINE i == new.id
           j == e.id
           s == PairScore(new, e)
<1>1. i \in Items /\ j \in Items
  BY DEF Events
<1>2. r = x \/ r = AddScore(x, i, j, s)
  BY DEF AddPair
<1> HIDE DEF i, j, s
<1>3. CASE r = x
  BY <1>3
<1>4. CASE r = AddScore(x, i, j, s)
  <2>1. Balanced(r)
    BY <1>1, <1>4, AddScoreBalanced
  <2>2. DOMAIN r = DOMAIN x \cup {<<i, j>>, <<j, i>>}
    BY <1>4 DEF AddScore
  <2> QED
    BY <2>1, <2>2 DEF i, j
<1> QED
  BY <1>2, <1>3, <1>4

\* The items of an event and of the events before it in its buffer.
Touched(prior, new) == {new.id} \cup {prior[k].id : k \in DOMAIN prior}

\* The pairs of a new event: entries appear only between the items of the context's buffer.
LEMMA PairsAdded ==
  ASSUME NEW m, Balanced(m), NEW prior \in Seq(Events), NEW new \in Events,
         NEW A, A = Touched(prior, new)
  PROVE  /\ Balanced(AddPairs(m, prior, new))
         /\ DOMAIN AddPairs(m, prior, new) \subseteq DOMAIN m \cup (A \X A)
<1> DEFINE n == Len(prior)
           f == CHOOSE f : f = [k \in 0..n |-> IF k = 0 THEN m ELSE AddPair(f[k-1], prior[k], new)]
           Good(x) == Balanced(x) /\ DOMAIN x \subseteq DOMAIN m \cup (A \X A)
           Bad == {k \in 0..n : ~Good(f[k])}
<1>1. n \in Nat /\ DOMAIN prior = 1..n
  OBVIOUS
<1>2. f = [k \in 0..n |-> IF k = 0 THEN m ELSE AddPair(f[k-1], prior[k], new)]
  BY <1>1, AddPairsRounds, SMTT(30)
<1>3. AddPairs(m, prior, new) = f[n]
  BY DEF AddPairs
<1> HIDE DEF f
<1>4. 0 \notin Bad
  BY <1>1, <1>2
<1>5. ASSUME NEW k \in 1..n, k - 1 \notin Bad PROVE k \notin Bad
  <2> DEFINE e == prior[k]
             x == f[k-1]
  <2>1. k - 1 \in 0..n /\ k \in 0..n /\ k # 0
    BY <1>1
  <2>2. Good(x)
    BY <1>5, <2>1
  <2>3. f[k] = AddPair(x, e, new)
    BY <1>2, <2>1
  <2>4. e \in Events /\ e.id \in A /\ new.id \in A
    BY <1>1 DEF Touched
  <2> HIDE DEF e, x
  <2>6. /\ Balanced(f[k])
        /\ DOMAIN f[k] \subseteq DOMAIN x \cup {<<new.id, e.id>>, <<e.id, new.id>>}
    BY <2>2, <2>3, <2>4, AddPairBalanced
  <2>7. <<new.id, e.id>> \in A \X A /\ <<e.id, new.id>> \in A \X A
    BY <2>4
  <2> QED
    BY <2>2, <2>6, <2>7
<1>6. Bad = {}
  <2>1. Bad \in SUBSET (0..n)
    OBVIOUS
  <2> HIDE DEF Bad, n
  <2> QED
    BY <1>1, <1>4, <1>5, <2>1, NoLeastFailure
<1>7. n \in 0..n
  BY <1>1
<1> QED
  BY <1>3, <1>6, <1>7

\* f is the run of the loop that prunes the first n items of ids, from the matrices in base.
PruneRun(c, base, ids, n, f) == f = [k \in 0..n |-> IF k = 0 THEN base ELSE PruneEach(c, f[k-1], ids[k])]

LEMMA PruneRounds ==
  ASSUME NEW c, NEW base, NEW ids, NEW n \in Nat
  PROVE  \E f : PruneRun(c, base, ids, n, f)
<1> DEFINE Runs(x, f) == f = [k \in 0..x |-> IF k = 0 THEN base ELSE PruneEach(c, f[k-1], ids[k])]
           Bad == {x \in 0..n : ~\E f : Runs(x, f)}
<1>1. 0 \notin Bad
  <2> DEFINE g == [k \in 0..0 |-> base]
  <2>1. Runs(0, g)
    OBVIOUS
  <2> QED
    BY <2>1
<1>2. ASSUME NEW x \in 1..n, x - 1 \notin Bad PROVE x \notin Bad
  <2>1. x - 1 \in 0..n
    OBVIOUS
  <2>2. PICK f : Runs(x - 1, f)
    BY <1>2, <2>1
  <2> DEFINE g == [k \in 0..x |-> IF k = x THEN PruneEach(c, f[x-1], ids[x]) ELSE f[k]]
  <2>3. \A k \in 0..x-1 : g[k] = f[k]
    OBVIOUS
  <2>4. ASSUME NEW k \in 0..x
        PROVE  g[k] = IF k = 0 THEN base ELSE PruneEach(c, g[k-1], ids[k])
    <3>1. CASE k = x
      <4>1. g[k] = PruneEach(c, f[k-1], ids[k]) /\ k - 1 \in 0..x-1 /\ k # 0
        BY <3>1
      <4>2. g[k-1] = f[k-1]
        BY <2>3, <4>1
      <4> HIDE DEF g
      <4> QED
        BY <4>1, <4>2
    <3>2. CASE k # x
      <4>1. k \in 0..x-1 /\ (k # 0 => k - 1 \in 0..x-1)
        BY <3>2
      <4>2. f[k] = IF k = 0 THEN base ELSE PruneEach(c, f[k-1], ids[k])
        BY <2>2, <4>1
      <4>3. g[k] = f[k] /\ (k # 0 => g[k-1] = f[k-1])
        BY <2>3, <4>1
      <4> HIDE DEF g
      <4> QED
        BY <4>2, <4>3
    <3> QED
      BY <3>1, <3>2
  <2>5. Runs(x, g)
    <3>1. g = [k \in 0..x |-> g[k]]
      OBVIOUS
    <3> HIDE DEF g
    <3> QED
      BY <2>4, <3>1
  <2> QED
    BY <2>5
<1>3. Bad = {}
  <2> HIDE DEF Bad
  <2>1. Bad \in SUBSET (0..n)
    BY DEF Bad
  <2> QED
    BY <1>1, <1>2, <2>1, NoLeastFailure
<1>4. \E f : Runs(n, f)
  BY <1>3
<1> QED
  BY <1>4, Zenon DEF PruneRun

LEMMA DampenRounds ==
  ASSUME NEW m, NEW removed, NEW prior, NEW n \in Nat
  PROVE  \E f : f = [k \in 0..n |-> IF k = 0 THEN m ELSE Dampen(f[k-1], removed, prior[k])]
<1> DEFINE Runs(x, f) == f = [k \in 0..x |-> IF k = 0 THEN m ELSE Dampen(f[k-1], removed, prior[k])]
           Bad == {x \in 0..n : ~\E f : Runs(x, f)}
<1>1. 0 \notin Bad
  <2> DEFINE g == [k \in 0..0 |-> m]
  <2>1. Runs(0, g)
    OBVIOUS
  <2> QED
    BY <2>1
<1>2. ASSUME NEW x \in 1..n, x - 1 \notin Bad PROVE x \notin Bad
  <2>1. x - 1 \in 0..n
    OBVIOUS
  <2>2. PICK f : Runs(x - 1, f)
    BY <1>2, <2>1
  <2> DEFINE g == [k \in 0..x |-> IF k = x THEN Dampen(f[x-1], removed, prior[x]) ELSE f[k]]
  <2>3. \A k \in 0..x-1 : g[k] = f[k]
    OBVIOUS
  <2>4. ASSUME NEW k \in 0..x
        PROVE  g[k] = IF k = 0 THEN m ELSE Dampen(g[k-1], removed, prior[k])
    <3>1. CASE k = x
      <4>1. g[k] = Dampen(f[k-1], removed, prior[k]) /\ k - 1 \in 0..x-1 /\ k # 0
        BY <3>1
      <4>2. g[k-1] = f[k-1]
        BY <2>3, <4>1
      <4> HIDE DEF g
      <4> QED
        BY <4>1, <4>2
    <3>2. CASE k # x
      <4>1. k \in 0..x-1 /\ (k # 0 => k - 1 \in 0..x-1)
        BY <3>2
      <4>2. f[k] = IF k = 0 THEN m ELSE Dampen(f[k-1], removed, prior[k])
        BY <2>2, <4>1
      <4>3. g[k] = f[k] /\ (k # 0 => g[k-1] = f[k-1])
        BY <2>3, <4>1
      <4> HIDE DEF g
      <4> QED
        BY <4>2, <4>3
    <3> QED
      BY <3>1, <3>2
  <2>5. Runs(x, g)
    <3>1. g = [k \in 0..x |-> g[k]]
      OBVIOUS
    <3> HIDE DEF g
    <3> QED
      BY <2>4, <3>1
  <2> QED
    BY <2>5
<1>3. Bad = {}
  <2> HIDE DEF Bad
  <2>1. Bad \in SUBSET (0..n)
    BY DEF Bad
  <2> QED
    BY <1>1, <1>2, <2>1, NoLeastFailure
<1> QED
  BY <1>3

\* Pruning a list of items keeps the matrix balanced, adds nothing, and leaves each of the
\* items within its limit, whichever are pruned after it.
LEMMA ItemsPruned ==
  ASSUME NEW c \in ConfigShape, NEW m, Balanced(m), NEW ids \in Seq(Items), NEW r \in PruneItems(c, m, ids)
  PROVE  /\ Balanced(r) /\ DOMAIN r \subseteq DOMAIN m
         /\ c.max_neighbors > 0 => \A k \in 1..Len(ids) : Limited(c, r, ids[k])
<1> DEFINE n == Len(ids)
           base == {m}
           f == CHOOSE f : f = [k \in 0..n |-> IF k = 0 THEN base ELSE PruneEach(c, f[k-1], ids[k])]
           Good(x, k) == /\ Balanced(x) /\ DOMAIN x \subseteq DOMAIN m
                         /\ c.max_neighbors > 0 => \A l \in 1..k : Limited(c, x, ids[l])
           Bad == {k \in 0..n : \E x \in f[k] : ~Good(x, k)}
<1>1. n \in Nat
  OBVIOUS
<1>2. f = [k \in 0..n |-> IF k = 0 THEN base ELSE PruneEach(c, f[k-1], ids[k])]
  <2> HIDE DEF base, n, f, Good, Bad
  <2>1. \E g : PruneRun(c, base, ids, n, g)
    BY <1>1, PruneRounds
  <2> QED
    BY <2>1 DEF f, PruneRun
<1>3. PruneItems(c, m, ids) = f[n]
  BY DEF PruneItems
<1> HIDE DEF f
<1>4. 0 \notin Bad
  BY <1>1, <1>2
<1>5. ASSUME NEW k \in 1..n, k - 1 \notin Bad PROVE k \notin Bad
  <2>1. k - 1 \in 0..n /\ k \in 0..n /\ k # 0
    BY <1>1
  <2>2. \A y \in f[k-1] : Good(y, k - 1)
    BY <1>5, <2>1
  <2>3. f[k] = PruneEach(c, f[k-1], ids[k])
    BY <1>2, <2>1
  <2>4. ASSUME NEW x \in f[k] PROVE Good(x, k)
    <3>1. PICK y \in f[k-1] : x \in PruneItem(c, y, ids[k])
      BY <2>3, <2>4 DEF PruneEach
    <3>2. Good(y, k - 1)
      BY <2>2
    <3>3. Balanced(x) /\ DOMAIN x \subseteq DOMAIN y /\ (c.max_neighbors > 0 => Limited(c, x, ids[k]))
      BY <3>1, <3>2, PruneItemKeeps
    <3>4. ASSUME c.max_neighbors > 0, NEW l \in 1..k PROVE Limited(c, x, ids[l])
      <4>1. CASE l = k
        BY <3>3, <3>4, <4>1
      <4>2. CASE l # k
        <5>1. l \in 1..(k - 1)
          BY <4>2
        <5>2. Limited(c, y, ids[l])
          BY <3>2, <3>4, <5>1
        <5>3. Neighbours(x, ids[l]) \subseteq Neighbours(y, ids[l])
          BY <3>3, FewerNeighbours
        <5> QED
          BY <5>2, <5>3, LimitKept
      <4> QED
        BY <4>1, <4>2
    <3> QED
      BY <3>2, <3>3, <3>4
  <2> QED
    BY <2>4
<1>6. Bad = {}
  <2>1. Bad \in SUBSET (0..n)
    OBVIOUS
  <2> HIDE DEF Bad, n
  <2> QED
    BY <1>1, <1>4, <1>5, <2>1, NoLeastFailure
<1>7. n \in 0..n
  BY <1>1
<1>8. Good(r, n)
  BY <1>3, <1>6, <1>7
<1> QED
  BY <1>8

\* A negative signal changes entries in both directions.
LEMMA SignalBalanced ==
  ASSUME NEW m, Balanced(m), NEW removed \in Items, NEW prior \in Seq(Events)
  PROVE  Balanced(ApplyNegativeSignal(m, removed, prior))
<1> DEFINE n == Len(prior)
           f == CHOOSE f : f = [k \in 0..n |-> IF k = 0 THEN m ELSE Dampen(f[k-1], removed, prior[k])]
           Bad == {k \in 0..n : ~Balanced(f[k])}
<1>1. n \in Nat
  OBVIOUS
<1>2. f = [k \in 0..n |-> IF k = 0 THEN m ELSE Dampen(f[k-1], removed, prior[k])]
  BY <1>1, DampenRounds, SMTT(30)
<1>3. ApplyNegativeSignal(m, removed, prior) = f[n]
  BY DEF ApplyNegativeSignal
<1> HIDE DEF f
<1>4. 0 \notin Bad
  BY <1>1, <1>2
<1>5. ASSUME NEW k \in 1..n, k - 1 \notin Bad PROVE k \notin Bad
  <2> DEFINE e == prior[k]
             x == f[k-1]
  <2>1. k - 1 \in 0..n /\ k \in 0..n /\ k # 0
    BY <1>1
  <2>2. Balanced(x)
    BY <1>5, <2>1
  <2>3. f[k] = Dampen(x, removed, e)
    BY <1>2, <2>1
  <2>4. e \in Events
    BY <1>1
  <2>5. e.id \in Items
    BY <2>4 DEF Events
  <2> HIDE DEF e, x
  <2>6. CASE f[k] = x
    BY <2>2, <2>6
  <2>7. CASE f[k] = AddScore(x, removed, e.id, -(e.score * Unit) \div 2)
    <3> DEFINE s == -(e.score * Unit) \div 2
    <3> HIDE DEF s
    <3>1. f[k] = AddScore(x, removed, e.id, s)
      BY <2>7 DEF s
    <3>2. Balanced(f[k])
      BY <2>2, <2>5, <3>1, AddScoreBalanced
    <3> QED
      BY <3>2
  <2> QED
    BY <2>3, <2>6, <2>7 DEF Dampen
<1>6. Bad = {}
  <2>1. Bad \in SUBSET (0..n)
    OBVIOUS
  <2> HIDE DEF Bad, n
  <2> QED
    BY <1>1, <1>4, <1>5, <2>1, NoLeastFailure
<1>7. n \in 0..n
  BY <1>1
<1> QED
  BY <1>3, <1>6, <1>7

\* The items to prune are those an ingestion touches, each of them.
LEMMA AffectedItems ==
  ASSUME NEW prior \in Seq(Events), NEW new \in Events, NEW A, A = Touched(prior, new)
  PROVE  /\ A \subseteq Items /\ AffectedIds(prior, new) \in Seq(Items)
         /\ \A i \in A : \E k \in 1..Len(AffectedIds(prior, new)) : AffectedIds(prior, new)[k] = i
<1> DEFINE l == AffectedIds(prior, new)
<1>1. A \subseteq Items
  <2>1. new.id \in Items
    BY DEF Events
  <2>2. ASSUME NEW k \in DOMAIN prior PROVE prior[k].id \in Items
    <3>1. prior[k] \in Events
      OBVIOUS
    <3> QED
      BY <3>1 DEF Events
  <2> QED
    BY <2>1, <2>2 DEF Touched
<1>2. A \in SUBSET Nat /\ IsFiniteSet(A)
  BY <1>1, CoOccurrenceConstants, FS_Subset
<1>3. l = InOrder(A)
  BY DEF AffectedIds, Touched
<1> HIDE DEF l
<1>4. l \in Seq(A) /\ \A i \in A : \E k \in 1..Len(l) : l[k] = i
  <2>1. \A T \in SUBSET Nat : IsFiniteSet(T) => InOrder(T) \in Seq(T)
    BY RankList
  <2>2. \A T \in SUBSET Nat : IsFiniteSet(T) => \A i \in T : \E k \in 1..Len(InOrder(T)) : InOrder(T)[k] = i
    BY RankList
  <2> QED
    BY <1>2, <1>3, <2>1, <2>2
<1>5. l \in Seq(Items)
  BY <1>1, <1>4
<1> QED
  BY <1>1, <1>4, <1>5 DEF l

\* The matrix is balanced, and no item is beyond its limit where there is one.
MatrixFits(c, m) ==
  /\ Balanced(m)
  /\ (c.max_neighbors > 0 /\ ~c.negative_signals) => \A i \in Items : Limited(c, m, i)

LEMMA IncrementFits ==
  ASSUME NEW c \in ConfigShape, NEW m, MatrixFits(c, m), NEW prior \in Seq(Events), NEW new \in Events,
         NEW r \in AddEventIncremental(c, m, prior, new)
  PROVE  MatrixFits(c, r)
<1> DEFINE A == Touched(prior, new)
           added == AddPairs(m, prior, new)
           ids == AffectedIds(prior, new)
<1>1. Balanced(m) /\ Balanced(added) /\ DOMAIN added \subseteq DOMAIN m \cup (A \X A)
  BY PairsAdded DEF MatrixFits
<1>2. A \subseteq Items /\ ids \in Seq(Items) /\ \A i \in A : \E k \in 1..Len(ids) : ids[k] = i
  BY AffectedItems
<1>3. c.max_neighbors \in Nat
  BY DEF ConfigShape
<1>4. \/ r = m
      \/ r = added /\ c.max_neighbors = 0
      \/ r \in PruneItems(c, added, ids)
  BY DEF AddEventIncremental
<1> HIDE DEF A, added, ids
<1>5. CASE r = m
  BY <1>5
<1>6. CASE r = added /\ c.max_neighbors = 0
  BY <1>1, <1>3, <1>6 DEF MatrixFits
<1>7. CASE r \in PruneItems(c, added, ids)
  <2>1. /\ Balanced(r) /\ DOMAIN r \subseteq DOMAIN added
        /\ c.max_neighbors > 0 => \A k \in 1..Len(ids) : Limited(c, r, ids[k])
    BY <1>1, <1>2, <1>7, ItemsPruned
  <2>2. ASSUME c.max_neighbors > 0, ~c.negative_signals, NEW i \in Items PROVE Limited(c, r, i)
    <3>1. CASE i \in A
      BY <1>2, <2>1, <2>2, <3>1
    <3>2. CASE i \notin A
      <4>1. Neighbours(r, i) \subseteq Neighbours(m, i)
        BY <1>1, <2>1, <3>2 DEF Neighbours
      <4>2. Limited(c, m, i)
        BY <2>2 DEF MatrixFits
      <4> QED
        BY <4>1, <4>2, LimitKept
    <3> QED
      BY <3>1, <3>2
  <2> QED
    BY <2>1, <2>2 DEF MatrixFits
<1> QED
  BY <1>4, <1>5, <1>6, <1>7

LEMMA IngestionFits ==
  ASSUME NEW c \in ConfigShape, NEW m, MatrixFits(c, m), NEW prior \in Seq(Events), NEW new \in Events,
         NEW r \in ApplyIngestedEvent(c, m, prior, new)
  PROVE  MatrixFits(c, r)
<1>1. CASE r \in AddEventIncremental(c, m, prior, new)
  BY <1>1, IncrementFits
<1>2. CASE c.negative_signals
           /\ \E x \in AddEventIncremental(c, m, prior, new) : r = ApplyNegativeSignal(x, new.id, prior)
  <2>1. PICK x \in AddEventIncremental(c, m, prior, new) : r = ApplyNegativeSignal(x, new.id, prior)
    BY <1>2
  <2>2. Balanced(x)
    BY <2>1, IncrementFits DEF MatrixFits
  <2>3. new.id \in Items
    BY DEF Events
  <2>4. Balanced(r)
    BY <2>1, <2>2, <2>3, SignalBalanced
  <2> QED
    BY <1>2, <2>4 DEF MatrixFits
<1> QED
  BY <1>1, <1>2 DEF ApplyIngestedEvent

\* Fewer entries, balanced, are within the limits too.
LEMMA FewerFits ==
  ASSUME NEW c \in ConfigShape, NEW m, MatrixFits(c, m), NEW r, Balanced(r), DOMAIN r \subseteq DOMAIN m
  PROVE  MatrixFits(c, r)
BY FewerNeighbours, LimitKept DEF MatrixFits

LEMMA MaintenanceFits ==
  ASSUME config \in ConfigShape, MatrixFits(config, co), NEW prune \in BOOLEAN,
         NEW r \in MaintenanceResults(prune)
  PROVE  MatrixFits(config, r)
<1> DEFINE d == ApplyDecay(config, co)
           S == {p[1] : p \in DOMAIN d}
<1>1. Balanced(d) /\ DOMAIN d \subseteq DOMAIN co
  BY DecayBalanced DEF MatrixFits
<1>2. r = d \/ r \in Prune(config, d)
  BY DEF MaintenanceResults
<1> HIDE DEF d
<1>3. MatrixFits(config, d)
  BY <1>1, FewerFits
<1>4. CASE r \in Prune(config, d)
  <2>1. PICK order \in SetToSeqs(S) : r \in PruneItems(config, d, order)
    BY <1>4 DEF Prune
  <2>2. S \subseteq Items
    BY <1>1 DEF Balanced
  <2>3. IsFiniteSet(S)
    BY <2>2, CoOccurrenceConstants, FS_Subset
  <2>4. Cardinality(S) \in Nat
    BY <2>3, FS_CardinalityType
  <2>5. order \in [1..Cardinality(S) -> S]
    BY <2>1 DEF SetToSeqs
  <2> HIDE DEF S
  <2>6. order \in Seq(Items)
    BY <2>2, <2>4, <2>5
  <2>7. Balanced(r) /\ DOMAIN r \subseteq DOMAIN d
    BY <1>1, <2>1, <2>6, ItemsPruned
  <2> QED
    BY <1>3, <2>7, FewerFits
<1> QED
  BY <1>2, <1>3, <1>4

-----------------------------------------------------------------------------
(* The buffers.                                                             *)

\* The positions that a ring buffer reports hold events.
RingShape == [buffer : [0..BufferSize-1 -> Events \cup {NoEvent}], head : 0..BufferSize-1, size : 0..BufferSize]
Rings == {r \in RingShape : /\ r.size < BufferSize => r.head = r.size
                            /\ \A k \in 0..BufferSize-1 : k < r.size => r.buffer[k] \in Events}
Slots == [key : Contexts, ring : Rings]
StoreFits(s) == DOMAIN s = {"ctxs", "dedup", "state"} /\ s.ctxs \in Seq(Slots)

LEMMA Sizes == BufferSize \in Nat /\ BufferSize > 0 /\ MaxContexts \in Nat
BY IngestConstants

LEMMA Wraps ==
  ASSUME NEW h \in 0..BufferSize-1
  PROVE  (h + 1) % BufferSize = IF h + 1 = BufferSize THEN 0 ELSE h + 1
BY Sizes

LEMMA NewRingFits == NewRing \in Rings
<1> DEFINE b == [k \in 0..BufferSize-1 |-> NoEvent]
           r == NewRing
<1>1. b \in [0..BufferSize-1 -> Events \cup {NoEvent}]
  OBVIOUS
<1> HIDE DEF b
<1>2. r = [buffer |-> b, head |-> 0, size |-> 0]
  BY DEF NewRing, b
<1> HIDE DEF r
<1>3. r \in RingShape /\ r.head = 0 /\ r.size = 0
  BY <1>1, <1>2, Sizes DEF RingShape
<1>4. r \in Rings
  BY <1>3, Sizes DEF Rings
<1> QED
  BY <1>4 DEF r

LEMMA PushFits ==
  ASSUME NEW r \in Rings, NEW e \in Events
  PROVE  Push(r, e) \in Rings
<1> DEFINE q == Push(r, e)
           B == BufferSize
<1>1. /\ r.buffer \in [0..B-1 -> Events \cup {NoEvent}] /\ r.head \in 0..B-1 /\ r.size \in 0..B
      /\ r.size < B => r.head = r.size
      /\ \A k \in 0..B-1 : k < r.size => r.buffer[k] \in Events
  BY DEF Rings, RingShape
<1>2. q = [buffer |-> [r.buffer EXCEPT ![r.head] = e], head |-> (r.head + 1) % B,
           size |-> IF r.size < B THEN r.size + 1 ELSE r.size]
  BY DEF Push
<1>3. /\ q.buffer = [r.buffer EXCEPT ![r.head] = e]
      /\ q.head = (r.head + 1) % B
      /\ q.size = IF r.size < B THEN r.size + 1 ELSE r.size
  BY <1>2
<1>4. q.head = IF r.head + 1 = B THEN 0 ELSE r.head + 1
  BY <1>1, <1>3, Wraps
<1>5. B \in Nat /\ B > 0
  BY Sizes
<1>6. q.head \in 0..B-1 /\ q.size \in 0..B /\ (q.size < B => q.head = q.size)
  BY <1>1, <1>3, <1>4, <1>5
<1>7. q.buffer \in [0..B-1 -> Events \cup {NoEvent}]
  BY <1>1, <1>3
<1>8. ASSUME NEW k \in 0..B-1, k < q.size PROVE q.buffer[k] \in Events
  <2>1. CASE k = r.head
    BY <1>1, <1>3, <2>1
  <2>2. CASE k # r.head
    <3>1. q.buffer[k] = r.buffer[k]
      BY <1>1, <1>3, <2>2
    <3>2. k < r.size
      BY <1>1, <1>3, <1>5, <1>8, <2>2
    <3> QED
      BY <1>1, <3>1, <3>2
  <2> QED
    BY <2>1, <2>2
<1>9. q \in RingShape
  <2> HIDE DEF q
  <2>1. q = [buffer |-> q.buffer, head |-> q.head, size |-> q.size]
    BY <1>2, <1>3
  <2> QED
    BY <1>6, <1>7, <2>1 DEF RingShape
<1>10. q \in Rings
  <2> HIDE DEF q
  <2> QED
    BY <1>6, <1>8, <1>9 DEF Rings
<1> QED
  BY <1>10 DEF q

LEMMA AllEvents ==
  ASSUME NEW r \in Rings
  PROVE  GetAll(r) \in Seq(Events)
<1> DEFINE B == BufferSize
<1>1. /\ r.buffer \in [0..B-1 -> Events \cup {NoEvent}] /\ r.head \in 0..B-1 /\ r.size \in 0..B
      /\ \A k \in 0..B-1 : k < r.size => r.buffer[k] \in Events
  BY DEF Rings, RingShape
<1>2. B \in Nat /\ B > 0
  BY Sizes
<1>3. ASSUME NEW k \in 1..r.size
      PROVE  (IF r.size < B THEN r.buffer[k - 1] ELSE r.buffer[(r.head + k - 1) % B]) \in Events
  <2>1. CASE r.size < B
    BY <1>1, <1>2, <2>1
  <2>2. CASE ~(r.size < B)
    <3>1. r.size = B
      BY <1>1, <1>2, <2>2
    <3>2. r.head + k - 1 \in Nat
      BY <1>1, <1>2
    <3>3. (r.head + k - 1) % B \in 0..B-1
      BY <1>2, <3>2
    <3>4. r.buffer[(r.head + k - 1) % B] \in Events
      BY <1>1, <1>2, <3>1, <3>3
    <3> QED
      BY <2>2, <3>4
  <2> QED
    BY <2>1, <2>2
<1>4. r.size \in Nat
  BY <1>1, <1>2
<1>5. GetAll(r) = [k \in 1..r.size |-> IF r.size < B THEN r.buffer[k - 1]
                                       ELSE r.buffer[(r.head + k - 1) % B]]
  BY DEF GetAll
<1>6. GetAll(r) \in [1..r.size -> Events]
  BY <1>3, <1>5
<1> QED
  BY <1>4, <1>6

LEMMA PutFrontTyped ==
  ASSUME NEW R, NEW s \in Seq(R), NEW x \in R, NEW max \in Nat
  PROVE  PutFront(s, x, max) \in Seq(R)
<1> DEFINE kept == IF Full(s, x.key, max) THEN Front(s) ELSE s
           keep == {k \in DOMAIN kept : kept[k].key # x.key}
<1>1. kept \in Seq(R)
  <2>1. CASE Full(s, x.key, max)
    <3>1. Len(s) >= max /\ max > 0
      BY <2>1 DEF Full
    <3>2. Len(s) \in Nat /\ Len(s) > 0
      BY <3>1
    <3>3. SubSeq(s, 1, Len(s)-1) \in Seq(R)
      BY <3>2, SubSeqProperties
    <3> QED
      BY <2>1, <3>3 DEF Front
  <2>2. CASE ~Full(s, x.key, max)
    BY <2>2
  <2> QED
    BY <2>1, <2>2
<1>2. PutFront(s, x, max) = <<x>> \o Compact(kept, keep)
  BY DEF PutFront
<1> HIDE DEF kept
<1>3. keep \in SUBSET DOMAIN kept
  OBVIOUS
<1> HIDE DEF keep
<1>4. Compact(kept, keep) \in Seq(R)
  BY <1>1, <1>3, CompactRows
<1>5. <<x>> \in Seq(R)
  OBVIOUS
<1> QED
  BY <1>2, <1>4, <1>5

LEMMA RingFits ==
  ASSUME NEW s, StoreFits(s), NEW c
  PROVE  RingOf(s, c) \in Rings
<1>1. CASE Has(s.ctxs, c)
  <2>1. \E x \in ToSet(s.ctxs) : x.key = c
    BY <1>1 DEF Has
  <2>2. Entry(s.ctxs, c) \in ToSet(s.ctxs)
    BY <2>1 DEF Entry
  <2>3. ToSet(s.ctxs) \subseteq Slots
    BY DEF ToSet, StoreFits
  <2>4. Entry(s.ctxs, c).ring \in Rings
    BY <2>2, <2>3 DEF Slots
  <2> QED
    BY <1>1, <2>4 DEF RingOf
<1>2. CASE ~Has(s.ctxs, c)
  BY <1>2, NewRingFits DEF RingOf
<1> QED
  BY <1>1, <1>2

LEMMA StoreEventFits ==
  ASSUME NEW s, StoreFits(s), NEW e \in Events
  PROVE  StoreFits(StoreEvent(s, e))
<1> DEFINE x == [key |-> e.ctx, ring |-> Push(RingOf(s, e.ctx), e)]
           t == StoreEvent(s, e)
<1>1. Push(RingOf(s, e.ctx), e) \in Rings
  BY RingFits, PushFits
<1>2. e.ctx \in Contexts
  BY DEF Events, Contexts
<1>3. x \in Slots
  BY <1>1, <1>2 DEF Slots
<1>4. t = [s EXCEPT !.ctxs = PutFront(s.ctxs, x, MaxContexts)]
  BY DEF StoreEvent
<1> HIDE DEF x, t
<1>5. PutFront(s.ctxs, x, MaxContexts) \in Seq(Slots)
  BY <1>3, Sizes, PutFrontTyped DEF StoreFits
<1>6. DOMAIN t = DOMAIN s /\ t.ctxs = PutFront(s.ctxs, x, MaxContexts)
  BY <1>4 DEF StoreFits
<1>7. StoreFits(t)
  BY <1>5, <1>6 DEF StoreFits
<1> QED
  BY <1>7 DEF t

LEMMA CheckedFits ==
  ASSUME NEW s, StoreFits(s), NEW e, NEW t
  PROVE  StoreFits(Checked(s, e, t))
BY DEF Checked, StoreFits

LEMMA RestoreEventFits ==
  ASSUME NEW s, StoreFits(s), NEW e \in Events
  PROVE  StoreFits(RestoreEvent(s, e))
<1> DEFINE t == StoreEvent(s, e)
           u == CheckAndUpdate(s, e)
<1>1. StoreFits(t)
  BY StoreEventFits
<1>2. RestoreEvent(s, e) = IF e.type = "ADD" THEN t ELSE [t EXCEPT !.state = u]
  BY DEF RestoreEvent
<1> HIDE DEF t, u
<1> QED
  BY <1>1, <1>2 DEF StoreFits

LEMMA EmptyStoreFits == StoreFits(EmptyEventStore)
BY DEF StoreFits, EmptyEventStore

LEMMA RestoreRounds ==
  ASSUME NEW s, NEW events, NEW n \in Nat
  PROVE  \E f : f = [k \in 0..n |-> IF k = 0 THEN s ELSE RestoreEvent(f[k-1], events[k])]
<1> DEFINE Runs(x, f) == f = [k \in 0..x |-> IF k = 0 THEN s ELSE RestoreEvent(f[k-1], events[k])]
           Bad == {x \in 0..n : ~\E f : Runs(x, f)}
<1>1. 0 \notin Bad
  <2> DEFINE g == [k \in 0..0 |-> s]
  <2>1. Runs(0, g)
    OBVIOUS
  <2> QED
    BY <2>1
<1>2. ASSUME NEW x \in 1..n, x - 1 \notin Bad PROVE x \notin Bad
  <2>1. x - 1 \in 0..n
    OBVIOUS
  <2>2. PICK f : Runs(x - 1, f)
    BY <1>2, <2>1
  <2> DEFINE g == [k \in 0..x |-> IF k = x THEN RestoreEvent(f[x-1], events[x]) ELSE f[k]]
  <2>3. \A k \in 0..x-1 : g[k] = f[k]
    OBVIOUS
  <2>4. ASSUME NEW k \in 0..x
        PROVE  g[k] = IF k = 0 THEN s ELSE RestoreEvent(g[k-1], events[k])
    <3>1. CASE k = x
      <4>1. g[k] = RestoreEvent(f[k-1], events[k]) /\ k - 1 \in 0..x-1 /\ k # 0
        BY <3>1
      <4>2. g[k-1] = f[k-1]
        BY <2>3, <4>1
      <4> HIDE DEF g
      <4> QED
        BY <4>1, <4>2
    <3>2. CASE k # x
      <4>1. k \in 0..x-1 /\ (k # 0 => k - 1 \in 0..x-1)
        BY <3>2
      <4>2. f[k] = IF k = 0 THEN s ELSE RestoreEvent(f[k-1], events[k])
        BY <2>2, <4>1
      <4>3. g[k] = f[k] /\ (k # 0 => g[k-1] = f[k-1])
        BY <2>3, <4>1
      <4> HIDE DEF g
      <4> QED
        BY <4>2, <4>3
    <3> QED
      BY <3>1, <3>2
  <2>5. Runs(x, g)
    <3>1. g = [k \in 0..x |-> g[k]]
      OBVIOUS
    <3> HIDE DEF g
    <3> QED
      BY <2>4, <3>1
  <2> QED
    BY <2>5
<1>3. Bad = {}
  <2> HIDE DEF Bad
  <2>1. Bad \in SUBSET (0..n)
    BY DEF Bad
  <2> QED
    BY <1>1, <1>2, <2>1, NoLeastFailure
<1> QED
  BY <1>3

LEMMA ContextRounds ==
  ASSUME NEW base, NEW contexts, NEW n \in Nat
  PROVE  \E f : f = [k \in 0..n |-> IF k = 0 THEN base ELSE RestoreContext(f[k-1], contexts[k])]
<1> DEFINE Runs(x, f) == f = [k \in 0..x |-> IF k = 0 THEN base ELSE RestoreContext(f[k-1], contexts[k])]
           Bad == {x \in 0..n : ~\E f : Runs(x, f)}
<1>1. 0 \notin Bad
  <2> DEFINE g == [k \in 0..0 |-> base]
  <2>1. Runs(0, g)
    OBVIOUS
  <2> QED
    BY <2>1
<1>2. ASSUME NEW x \in 1..n, x - 1 \notin Bad PROVE x \notin Bad
  <2>1. x - 1 \in 0..n
    OBVIOUS
  <2>2. PICK f : Runs(x - 1, f)
    BY <1>2, <2>1
  <2> DEFINE g == [k \in 0..x |-> IF k = x THEN RestoreContext(f[x-1], contexts[x]) ELSE f[k]]
  <2>3. \A k \in 0..x-1 : g[k] = f[k]
    OBVIOUS
  <2>4. ASSUME NEW k \in 0..x
        PROVE  g[k] = IF k = 0 THEN base ELSE RestoreContext(g[k-1], contexts[k])
    <3>1. CASE k = x
      <4>1. g[k] = RestoreContext(f[k-1], contexts[k]) /\ k - 1 \in 0..x-1 /\ k # 0
        BY <3>1
      <4>2. g[k-1] = f[k-1]
        BY <2>3, <4>1
      <4> HIDE DEF g
      <4> QED
        BY <4>1, <4>2
    <3>2. CASE k # x
      <4>1. k \in 0..x-1 /\ (k # 0 => k - 1 \in 0..x-1)
        BY <3>2
      <4>2. f[k] = IF k = 0 THEN base ELSE RestoreContext(f[k-1], contexts[k])
        BY <2>2, <4>1
      <4>3. g[k] = f[k] /\ (k # 0 => g[k-1] = f[k-1])
        BY <2>3, <4>1
      <4> HIDE DEF g
      <4> QED
        BY <4>2, <4>3
    <3> QED
      BY <3>1, <3>2
  <2>5. Runs(x, g)
    <3>1. g = [k \in 0..x |-> g[k]]
      OBVIOUS
    <3> HIDE DEF g
    <3> QED
      BY <2>4, <3>1
  <2> QED
    BY <2>5
<1>3. Bad = {}
  <2> HIDE DEF Bad
  <2>1. Bad \in SUBSET (0..n)
    BY DEF Bad
  <2> QED
    BY <1>1, <1>2, <2>1, NoLeastFailure
<1> QED
  BY <1>3

LEMMA ContextRestored ==
  ASSUME NEW s, StoreFits(s), NEW events \in Seq(Events)
  PROVE  StoreFits(RestoreContext(s, events))
<1> DEFINE n == Len(events)
           f == CHOOSE f : f = [k \in 0..n |-> IF k = 0 THEN s ELSE RestoreEvent(f[k-1], events[k])]
           Bad == {k \in 0..n : ~StoreFits(f[k])}
<1>1. n \in Nat
  OBVIOUS
<1>2. f = [k \in 0..n |-> IF k = 0 THEN s ELSE RestoreEvent(f[k-1], events[k])]
  BY <1>1, RestoreRounds, SMTT(30)
<1>3. RestoreContext(s, events) = f[n]
  BY DEF RestoreContext
<1> HIDE DEF f
<1>4. 0 \notin Bad
  BY <1>1, <1>2
<1>5. ASSUME NEW k \in 1..n, k - 1 \notin Bad PROVE k \notin Bad
  <2>1. k - 1 \in 0..n /\ k \in 0..n /\ k # 0
    BY <1>1
  <2>2. StoreFits(f[k-1])
    BY <1>5, <2>1
  <2>3. f[k] = RestoreEvent(f[k-1], events[k])
    BY <1>2, <2>1
  <2>4. events[k] \in Events
    BY <1>1
  <2> QED
    BY <2>2, <2>3, <2>4, RestoreEventFits
<1>6. Bad = {}
  <2>1. Bad \in SUBSET (0..n)
    OBVIOUS
  <2> HIDE DEF Bad, n
  <2> QED
    BY <1>1, <1>4, <1>5, <2>1, NoLeastFailure
<1>7. n \in 0..n
  BY <1>1
<1> QED
  BY <1>3, <1>6, <1>7

LEMMA ContextsRestored ==
  ASSUME NEW contexts, NEW n \in Nat, n = Len(contexts), \A k \in 1..n : contexts[k] \in Seq(Events)
  PROVE  StoreFits(RestoreContexts(contexts))
<1> DEFINE base == EmptyEventStore
           f == CHOOSE f : f = [k \in 0..n |-> IF k = 0 THEN base ELSE RestoreContext(f[k-1], contexts[k])]
           Bad == {k \in 0..n : ~StoreFits(f[k])}
<1>1. n \in Nat
  OBVIOUS
<1>2. f = [k \in 0..n |-> IF k = 0 THEN base ELSE RestoreContext(f[k-1], contexts[k])]
  <2> HIDE DEF base
  <2> QED
    BY <1>1, ContextRounds, SMTT(30)
<1>3. RestoreContexts(contexts) = f[n]
  BY DEF RestoreContexts
<1> HIDE DEF f
<1>4. 0 \notin Bad
  BY <1>1, <1>2, EmptyStoreFits
<1>5. ASSUME NEW k \in 1..n, k - 1 \notin Bad PROVE k \notin Bad
  <2>1. k - 1 \in 0..n /\ k \in 0..n /\ k # 0
    BY <1>1
  <2>2. StoreFits(f[k-1])
    BY <1>5, <2>1
  <2>3. f[k] = RestoreContext(f[k-1], contexts[k])
    BY <1>2, <2>1
  <2>5. contexts[k] \in Seq(Events)
    BY <1>1
  <2> QED
    BY <2>2, <2>3, <2>5, ContextRestored
<1>6. Bad = {}
  <2>1. Bad \in SUBSET (0..n)
    OBVIOUS
  <2> HIDE DEF Bad
  <2> QED
    BY <1>1, <1>4, <1>5, <2>1, NoLeastFailure
<1>7. n \in 0..n
  BY <1>1
<1> QED
  BY <1>3, <1>6, <1>7

LEMMA StoresRestored ==
  ASSUME NEW img, img.events \in Seq(Seq(Events)), NEW s \in RestoredStores(img)
  PROVE  StoreFits(s)
<1> DEFINE D == DOMAIN img.events
<1>1. PICK order \in SetToSeqs(D) : s = RestoreContexts([k \in DOMAIN order |-> img.events[order[k]]])
  BY DEF RestoredStores
<1>2. order \in [1..Cardinality(D) -> D]
  BY <1>1 DEF SetToSeqs
<1>3. D = 1..Len(img.events) /\ Len(img.events) \in Nat
  OBVIOUS
<1>4. IsFiniteSet(D)
  BY <1>3, FS_Interval
<1>5. Cardinality(D) \in Nat
  BY <1>4, FS_CardinalityType
<1> DEFINE n == Cardinality(D)
           contexts == [k \in 1..n |-> img.events[order[k]]]
<1>6. \A k \in 1..n : order[k] \in D
  BY <1>2
<1>7. \A d \in D : img.events[d] \in Seq(Events)
  OBVIOUS
<1>8. s = RestoreContexts(contexts)
  BY <1>1, <1>2
<1> HIDE DEF n, D
<1>9. contexts \in [1..n -> Seq(Events)]
  BY <1>6, <1>7
<1> HIDE DEF contexts
<1>10. n \in Nat /\ n = Len(contexts) /\ \A k \in 1..n : contexts[k] \in Seq(Events)
  BY <1>5, <1>9 DEF n
<1> QED
  BY <1>8, <1>10, ContextsRestored

-----------------------------------------------------------------------------
(* The inductive invariant.                                                 *)

MaintenanceRecord == [type : {"maintenance"}, prune : BOOLEAN]

\* The matrix and its saved copy fit; what the steps to come add to it are events.
IngestInv ==
  /\ config \in ConfigShape /\ now \in Nat
  /\ MatrixFits(config, co) /\ MatrixFits(config, image.co)
  /\ StoreFits(store) /\ image.events \in Seq(Seq(Events))
  /\ log \in Seq(Events \cup MaintenanceRecord)
  /\ DOMAIN server = {"phase", "read_only", "at"} /\ server.at \in Nat \ {0}
  /\ pending # NoPending => pending.event \in Events

LEMMA IngestInit == EInit => IngestInv
<1> SUFFICES ASSUME EInit PROVE IngestInv
  OBVIOUS
<1>1. config \in ConfigShape /\ now \in Nat
  BY IngestConstants DEF EInit, ConfigShape
<1>2. \A c \in ConfigShape : MatrixFits(c, EmptyMatrix)
  <2> TAKE c \in ConfigShape
  <2>1. Balanced(EmptyMatrix) /\ \A i \in Items : Neighbours(EmptyMatrix, i) = {}
    BY DEF Balanced, EmptyMatrix, Neighbours
  <2>2. Cardinality({}) = 0
    BY FS_EmptySet
  <2> QED
    BY <2>1, <2>2 DEF MatrixFits, Limited, ConfigShape
<1>3. co = EmptyMatrix /\ image.co = EmptyMatrix /\ image.events = <<>>
  BY DEF EInit, EmptyImage
<1>4. MatrixFits(config, co) /\ MatrixFits(config, image.co)
  BY <1>1, <1>2, <1>3
<1>5. image.events \in Seq(Seq(Events)) /\ log \in Seq(Events \cup MaintenanceRecord)
  BY <1>3 DEF EInit
<1>6. StoreFits(store)
  BY EmptyStoreFits DEF EInit
<1>7. DOMAIN server = {"phase", "read_only", "at"} /\ server.at \in Nat \ {0} /\ pending = NoPending
  BY DEF EInit
<1> QED
  BY <1>1, <1>4, <1>5, <1>6, <1>7 DEF IngestInv

LEMMA PrepareKeeps ==
  ASSUME IngestInv, NEW e \in Events, PrepareEvent(e)
  PROVE  IngestInv'
<1> DEFINE r == [e EXCEPT !.ts = IF @ = 0 THEN now ELSE @, !.score = IF e.type = "DEL" THEN 0 ELSE @]
<1>1. pending'.event = r
  BY DEF PrepareEvent
<1>2. r \in Events
  <2>1. /\ e = [ctx |-> e.ctx, id |-> e.id, score |-> e.score, type |-> e.type, ts |-> e.ts]
        /\ e.ctx \in {o.ctx : o \in Offers} /\ e.id \in Items /\ e.score \in Int
        /\ e.type \in {"ADD", "SET", "DEL"} /\ e.ts \in Nat
    BY DEF Events
  <2>2. r = [ctx |-> e.ctx, id |-> e.id, score |-> IF e.type = "DEL" THEN 0 ELSE e.score,
             type |-> e.type, ts |-> IF e.ts = 0 THEN now ELSE e.ts]
    <3>1. DOMAIN e = {"ctx", "id", "score", "type", "ts"}
      BY <2>1
    <3>2. DOMAIN r = {"ctx", "id", "score", "type", "ts"}
      BY <3>1
    <3>3. /\ r.ctx = e.ctx /\ r.id = e.id /\ r.type = e.type
          /\ r.score = IF e.type = "DEL" THEN 0 ELSE e.score
          /\ r.ts = IF e.ts = 0 THEN now ELSE e.ts
      BY <3>1
    <3>4. r = [x \in DOMAIN r |-> r[x]]
      OBVIOUS
    <3> HIDE DEF r
    <3> QED
      BY <3>2, <3>3, <3>4
  <2>3. now \in Nat
    BY DEF IngestInv
  <2> QED
    BY <2>1, <2>2, <2>3 DEF Events
<1> HIDE DEF r
<1> QED
  BY <1>1, <1>2 DEF IngestInv, PrepareEvent, MatrixFits, StoreFits

LEMMA FinishKeeps ==
  ASSUME IngestInv, NEW rec \in Events \cup {NoEvent}, NEW ok, Finish(rec, ok)
  PROVE  /\ log' \in Seq(Events \cup MaintenanceRecord)
         /\ DOMAIN server' = {"phase", "read_only", "at"} /\ server'.at \in Nat \ {0}
         /\ pending' = NoPending
<1>1. log' \in Seq(Events \cup MaintenanceRecord)
  <2>1. CASE log' = log
    BY <2>1 DEF IngestInv
  <2>2. CASE rec # NoEvent /\ log' = Append(log, rec)
    <3>1. rec \in Events \cup MaintenanceRecord
      BY <2>2
    <3> QED
      BY <2>2, <3>1 DEF IngestInv
  <2> QED
    BY <2>1, <2>2 DEF Finish
<1>2. DOMAIN server' = {"phase", "read_only", "at"} /\ server'.at \in Nat \ {0}
  BY DEF Finish, IngestInv
<1> QED
  BY <1>1, <1>2 DEF Finish

LEMMA AddKeeps ==
  ASSUME IngestInv, NEW e \in Events, NEW again, AddEventAndGetPrior(e, again)
  PROVE  StoreFits(store')
<1> DEFINE checked == Checked(store, e, now)
<1>1. StoreFits(checked)
  BY CheckedFits DEF IngestInv
<1>2. store' = checked \/ store' = StoreEvent(checked, e)
  BY DEF AddEventAndGetPrior
<1> HIDE DEF checked
<1> QED
  BY <1>1, <1>2, StoreEventFits

LEMMA CommitDuplicateKeeps ==
  ASSUME IngestInv, CommitDuplicate
  PROVE  IngestInv'
<1> DEFINE e == pending.event
           again == IsDuplicate(store, e, now)
<1>1. e \in Events
  BY DEF IngestInv, CommitDuplicate
<1>2. AddEventAndGetPrior(e, again) /\ Finish(NoEvent, again) /\ UNCHANGED <<config, co, image, now>>
  BY DEF CommitDuplicate
<1> HIDE DEF e, again
<1>3. StoreFits(store')
  BY <1>1, <1>2, AddKeeps
<1>4. /\ log' \in Seq(Events \cup MaintenanceRecord)
      /\ DOMAIN server' = {"phase", "read_only", "at"} /\ server'.at \in Nat \ {0}
      /\ pending' = NoPending
  BY <1>2, FinishKeeps
<1> QED
  BY <1>2, <1>3, <1>4 DEF IngestInv, MatrixFits, StoreFits

LEMMA CommitEventKeeps ==
  ASSUME IngestInv, CommitEvent
  PROVE  IngestInv'
<1> DEFINE e == pending.event
           again == IsDuplicate(store, e, now)
           prior == PriorEvents(store, e)
<1>1. e \in Events
  BY DEF IngestInv, CommitEvent
<1>2. /\ AddEventAndGetPrior(e, again) /\ Finish(LogRecord(pending), ~again)
      /\ co' \in IF again THEN {co} ELSE ApplyIngestedEvent(config, co, prior, e)
      /\ UNCHANGED <<config, image, now>>
  BY DEF CommitEvent
<1>3. LogRecord(pending) = e
  BY DEF LogRecord
<1>4. prior \in Seq(Events)
  BY RingFits, AllEvents DEF PriorEvents, GetEvents, IngestInv
<1> HIDE DEF e, again, prior
<1>5. StoreFits(store')
  BY <1>1, <1>2, AddKeeps
<1>6. /\ log' \in Seq(Events \cup MaintenanceRecord)
      /\ DOMAIN server' = {"phase", "read_only", "at"} /\ server'.at \in Nat \ {0}
      /\ pending' = NoPending
  BY <1>1, <1>2, <1>3, FinishKeeps
<1>7. MatrixFits(config, co')
  <2>1. CASE co' = co
    BY <2>1 DEF IngestInv
  <2>2. CASE co' \in ApplyIngestedEvent(config, co, prior, e)
    BY <1>1, <1>4, <2>2, IngestionFits DEF IngestInv
  <2> QED
    BY <1>2, <2>1, <2>2
<1> QED
  BY <1>2, <1>5, <1>6, <1>7 DEF IngestInv, MatrixFits, StoreFits

LEMMA MaintainKeeps ==
  ASSUME IngestInv, Maintain
  PROVE  IngestInv'
<1>1. PICK prune \in BOOLEAN : /\ co' \in MaintenanceResults(prune)
                               /\ log' = Append(log, [type |-> "maintenance", prune |-> prune])
  BY DEF Maintain
<1>2. MatrixFits(config, co')
  BY <1>1, MaintenanceFits DEF IngestInv
<1>3. [type |-> "maintenance", prune |-> prune] \in Events \cup MaintenanceRecord
  BY DEF MaintenanceRecord
<1>4. log' \in Seq(Events \cup MaintenanceRecord)
  BY <1>1, <1>3 DEF IngestInv
<1>5. UNCHANGED <<config, store, image, now, server, pending>>
  BY DEF Maintain
<1> QED
  BY <1>2, <1>4, <1>5 DEF IngestInv, MatrixFits, StoreFits

LEMMA ReplayMaintenanceKeeps ==
  ASSUME IngestInv, ReplayMaintenance
  PROVE  IngestInv'
<1>1. server.at \in 1..Len(log) /\ log[server.at].type = "maintenance"
  BY DEF ReplayMaintenance, IngestInv
<1>2. log[server.at] \in Events \cup MaintenanceRecord
  BY <1>1 DEF IngestInv
<1>3. log[server.at].prune \in BOOLEAN
  BY <1>1, <1>2 DEF Events, MaintenanceRecord
<1>4. co' \in MaintenanceResults(log[server.at].prune) /\ Finish(NoEvent, TRUE)
      /\ UNCHANGED <<config, store, image, now>>
  BY DEF ReplayMaintenance
<1>5. MatrixFits(config, co')
  BY <1>3, <1>4, MaintenanceFits DEF IngestInv
<1>6. /\ log' \in Seq(Events \cup MaintenanceRecord)
      /\ DOMAIN server' = {"phase", "read_only", "at"} /\ server'.at \in Nat \ {0}
      /\ pending' = NoPending
  BY <1>4, FinishKeeps
<1> QED
  BY <1>4, <1>5, <1>6 DEF IngestInv, MatrixFits, StoreFits

LEMMA SaveKeeps ==
  ASSUME IngestInv, Save
  PROVE  IngestInv'
<1> DEFINE events == [k \in DOMAIN store.ctxs |-> GetAll(store.ctxs[k].ring)]
<1>1. image'.co = co /\ image'.events = events
  BY DEF Save, ImageOf
<1>2. store.ctxs \in Seq(Slots)
  BY DEF IngestInv, StoreFits
<1>3. ASSUME NEW k \in DOMAIN store.ctxs PROVE GetAll(store.ctxs[k].ring) \in Seq(Events)
  <2>1. store.ctxs[k] \in Slots
    BY <1>2
  <2>2. store.ctxs[k].ring \in Rings
    BY <2>1 DEF Slots
  <2> QED
    BY <2>2, AllEvents
<1>4. DOMAIN store.ctxs = 1..Len(store.ctxs) /\ Len(store.ctxs) \in Nat
  BY <1>2
<1>5. events \in [1..Len(store.ctxs) -> Seq(Events)]
  BY <1>3, <1>4
<1> HIDE DEF events
<1>6. events \in Seq(Seq(Events))
  BY <1>4, <1>5
<1>7. log' \in Seq(Events \cup MaintenanceRecord)
  BY DEF Save
<1>8. UNCHANGED <<config, store, co, now, server, pending>>
  BY DEF Save
<1> QED
  BY <1>1, <1>6, <1>7, <1>8 DEF IngestInv, MatrixFits, StoreFits

LEMMA RestartKeeps ==
  ASSUME IngestInv, Restart
  PROVE  IngestInv'
<1>1. store' \in RestoredStores(image) /\ co' = RestoreScores(image.co) /\ pending' = NoPending
      /\ server' = [phase |-> "replaying", read_only |-> FALSE, at |-> 1]
      /\ UNCHANGED <<config, log, image, now>>
  BY DEF Restart
<1>2. StoreFits(store')
  BY <1>1, StoresRestored DEF IngestInv
<1>3. Balanced(co') /\ DOMAIN co' = DOMAIN image.co
  BY <1>1, RestoreBalanced DEF IngestInv, MatrixFits
<1>4. MatrixFits(config, co')
  BY <1>3, FewerFits DEF IngestInv
<1>5. DOMAIN server' = {"phase", "read_only", "at"} /\ server'.at \in Nat \ {0}
  BY <1>1
<1> QED
  BY <1>1, <1>2, <1>4, <1>5 DEF IngestInv, MatrixFits, StoreFits

LEMMA IngestNext == IngestInv /\ [ENext]_ingestVars => IngestInv'
<1> SUFFICES ASSUME IngestInv, [ENext]_ingestVars PROVE IngestInv'
  OBVIOUS
<1>1. CASE HandleEvent
  <2>1. PICK e \in Offers : PrepareEvent(e)
    BY <1>1 DEF HandleEvent
  <2>2. e \in Events
    BY IngestConstants
  <2> QED
    BY <2>1, <2>2, PrepareKeeps
<1>2. CASE ReplayEvent
  <2>1. server.at \in 1..Len(log) /\ log[server.at].type \in {"ADD", "SET", "DEL"}
    BY <1>2 DEF ReplayEvent, IngestInv
  <2>2. log[server.at] \in Events \cup MaintenanceRecord
    BY <2>1 DEF IngestInv
  <2>3. log[server.at] \in Events
    BY <2>1, <2>2 DEF MaintenanceRecord
  <2> QED
    BY <1>2, <2>3, PrepareKeeps DEF ReplayEvent
<1>3. CASE CommitDuplicate
  BY <1>3, CommitDuplicateKeeps
<1>4. CASE CommitEvent
  BY <1>4, CommitEventKeeps
<1>5. CASE Maintain
  BY <1>5, MaintainKeeps
<1>6. CASE ReplayMaintenance
  BY <1>6, ReplayMaintenanceKeeps
<1>7. CASE Save
  BY <1>7, SaveKeeps
<1>8. CASE Restart
  BY <1>8, RestartKeeps
<1>9. CASE Serve
  BY <1>9 DEF Serve, IngestInv, MatrixFits, StoreFits
<1>10. CASE Tick
  <2>1. now' \in Nat
    BY <1>10, IngestConstants DEF Tick, IngestInv
  <2> QED
    BY <1>10, <2>1 DEF Tick, IngestInv, MatrixFits, StoreFits
<1>11. CASE UNCHANGED ingestVars
  BY <1>11 DEF ingestVars, IngestInv, MatrixFits, StoreFits
<1> QED
  BY <1>1, <1>2, <1>3, <1>4, <1>5, <1>6, <1>7, <1>8, <1>9, <1>10, <1>11 DEF ENext

\* Whatever is ingested, pruned, dampened by a negative signal, decayed, saved and replayed,
\* the entry of a pair of items is the same in both directions: readers look at one only.
THEOREM MatrixStaysSymmetric == ESpec => []Symmetric
<1>1. IngestInv => Symmetric
  <2> SUFFICES ASSUME IngestInv, NEW p \in DOMAIN co
               PROVE  <<p[2], p[1]>> \in DOMAIN co /\ co[<<p[2], p[1]>>] = co[p]
    BY DEF Symmetric
  <2>1. Balanced(co)
    BY DEF IngestInv, MatrixFits
  <2>2. PICK i \in Items, j \in Items : p = <<i, j>>
    BY <2>1 DEF Balanced
  <2> QED
    BY <2>1, <2>2 DEF Balanced
<1> QED
  BY <1>1, IngestInit, IngestNext, PTL DEF ESpec

\* With max_neighbors_per_item set and negative signals off no item has more neighbours
\* than that after any ingestion, although a new event touches every item of its context.
THEOREM NeighboursLimited == ESpec => []NeighbourLimit
<1>1. IngestInv => NeighbourLimit
  BY DEF IngestInv, MatrixFits, Limited, NeighbourLimit
<1> QED
  BY <1>1, IngestInit, IngestNext, PTL DEF ESpec

-----------------------------------------------------------------------------
(* Sums.                                                                    *)

\* The member of s that a sum takes first.
First(s) == CHOOSE x \in s : TRUE

\* it maps each subset of S to the sum of f over it.
SumRun(f, S, it) == it = [s \in SUBSET S |-> IF s = {} THEN 0 ELSE f[First(s)] + it[s \ {First(s)}]]

\* What is true of a finite set if it is true of the empty one, and of a set if of all that
\* have one member less, without an operator for it: Bad is the set of exceptions.
LEMMA NoSmallestFailure ==
  ASSUME NEW S, IsFiniteSet(S), NEW Bad \in SUBSET SUBSET S, {} \notin Bad,
         \A s \in SUBSET S : s # {} /\ (\A x \in s : s \ {x} \notin Bad) => s \notin Bad
  PROVE  Bad = {}
<1> DEFINE n == Cardinality(S)
           Counts == {k \in 0..n : \E s \in Bad : Cardinality(s) = k}
<1>1. n \in Nat /\ \A s \in SUBSET S : IsFiniteSet(s) /\ Cardinality(s) \in 0..n
  <2>1. n \in Nat
    BY FS_CardinalityType
  <2>2. ASSUME NEW s \in SUBSET S PROVE IsFiniteSet(s) /\ Cardinality(s) \in 0..n
    <3>1. IsFiniteSet(s) /\ Cardinality(s) <= n
      BY FS_Subset
    <3>2. Cardinality(s) \in Nat
      BY <3>1, FS_CardinalityType
    <3> QED
      BY <3>1, <3>2, <2>1
  <2> QED
    BY <2>1, <2>2
<1> HIDE DEF n
<1>2. 0 \notin Counts
  BY <1>1, FS_EmptySet
<1>3. ASSUME NEW k \in 1..n, k - 1 \notin Counts PROVE k \notin Counts
  <2> SUFFICES ASSUME NEW s \in Bad, Cardinality(s) = k PROVE FALSE
    OBVIOUS
  <2>1. s \in SUBSET S /\ IsFiniteSet(s) /\ s # {}
    BY <1>1, <1>2
  <2>2. ASSUME NEW x \in s PROVE s \ {x} \notin Bad
    <3>1. Cardinality(s \ {x}) = k - 1
      BY <2>1, FS_RemoveElement
    <3>2. k - 1 \in 0..n
      BY <1>1
    <3> QED
      BY <3>1, <3>2, <1>3
  <2> QED
    BY <2>1, <2>2
<1>4. Counts = {}
  <2>1. Counts \in SUBSET (0..n)
    OBVIOUS
  <2> HIDE DEF Counts
  <2> QED
    BY <1>1, <1>2, <1>3, <2>1, NoLeastFailure
<1> QED
  BY <1>1, <1>4

LEMMA SumRounds ==
  ASSUME NEW f, NEW S, IsFiniteSet(S)
  PROVE  \E it : SumRun(f, S, it)
<1> DEFINE n == Cardinality(S)
           Body(g, s) == IF s = {} THEN 0 ELSE f[First(s)] + g[s \ {First(s)}]
           Fits(g, k) == /\ g = [s \in SUBSET S |-> g[s]]
                         /\ \A s \in SUBSET S : Cardinality(s) <= k => g[s] = Body(g, s)
           Bad == {k \in 0..n : ~\E g : Fits(g, k)}
<1>1. n \in Nat /\ \A s \in SUBSET S : IsFiniteSet(s) /\ Cardinality(s) \in Nat /\ Cardinality(s) <= n
  <2>1. n \in Nat
    BY FS_CardinalityType
  <2>2. ASSUME NEW s \in SUBSET S PROVE IsFiniteSet(s) /\ Cardinality(s) \in Nat /\ Cardinality(s) <= n
    BY FS_Subset, FS_CardinalityType
  <2> QED
    BY <2>1, <2>2
<1> HIDE DEF n
<1>2. 0 \notin Bad
  <2> DEFINE g == [s \in SUBSET S |-> 0]
  <2>1. \A s \in SUBSET S : Cardinality(s) <= 0 => s = {}
    BY <1>1, FS_EmptySet
  <2>2. Fits(g, 0)
    BY <2>1
  <2> QED
    BY <2>2
<1>3. ASSUME NEW k \in 1..n, k - 1 \notin Bad PROVE k \notin Bad
  <2>1. k - 1 \in 0..n /\ k \in Nat
    BY <1>1
  <2>2. PICK g : Fits(g, k - 1)
    BY <1>3, <2>1
  <2> DEFINE h == [s \in SUBSET S |-> IF Cardinality(s) = k THEN Body(g, s) ELSE g[s]]
  <2>3. ASSUME NEW s \in SUBSET S, Cardinality(s) <= k PROVE h[s] = Body(h, s)
    <3>1. CASE s = {}
      <4>1. Cardinality(s) = 0
        BY <3>1, FS_EmptySet
      <4>a. Cardinality(s) # k /\ Cardinality(s) <= k - 1
        BY <4>1, <2>1
      <4>2. h[s] = g[s] /\ g[s] = Body(g, s)
        BY <4>a, <2>2
      <4> QED
        BY <3>1, <4>2
    <3>2. CASE s # {}
      <4> DEFINE r == s \ {First(s)}
      <4>1. First(s) \in s
        BY <3>2 DEF First
      <4>2. r \in SUBSET S /\ Cardinality(r) = Cardinality(s) - 1
        BY <4>1, <1>1, FS_RemoveElement
      <4>3. h[r] = g[r]
        BY <4>2, <1>1, <2>1, <2>3
      <4>4. h[s] = Body(g, s)
        <5>1. Cardinality(s) \in Nat
          BY <1>1
        <5>2. Cardinality(s) = k \/ Cardinality(s) <= k - 1
          BY <5>1, <2>1, <2>3
        <5> QED
          BY <5>2, <2>2
      <4> HIDE DEF h
      <4> QED
        BY <3>2, <4>3, <4>4
    <3> QED
      BY <3>1, <3>2
  <2>4. h = [s \in SUBSET S |-> h[s]]
    OBVIOUS
  <2> HIDE DEF h
  <2>5. Fits(h, k)
    BY <2>3, <2>4
  <2> QED
    BY <2>5
<1>4. Bad = {}
  <2>1. Bad \in SUBSET (0..n)
    OBVIOUS
  <2> HIDE DEF Bad
  <2> QED
    BY <1>1, <1>2, <1>3, <2>1, NoLeastFailure
<1>5. PICK g : Fits(g, n)
  <2>1. n \in 0..n
    BY <1>1
  <2> QED
    BY <1>4, <2>1
<1>6. \A s \in SUBSET S : g[s] = Body(g, s)
  BY <1>1, <1>5
<1>7. g = [s \in SUBSET S |-> Body(g, s)]
  BY <1>5, <1>6
<1> QED
  BY <1>7 DEF SumRun

\* The sum of the values of f, by way of the sums over the subsets of its domain.
LEMMA SumIsRun ==
  ASSUME NEW f, IsFiniteSet(DOMAIN f)
  PROVE  \E it : SumRun(f, DOMAIN f, it) /\ SumOf(f) = it[DOMAIN f]
<1> DEFINE S == DOMAIN f
           chosen == CHOOSE it : SumRun(f, S, it)
<1>1. SumRun(f, S, chosen)
  BY SumRounds
<1>2. SumOf(f) = chosen[S]
  BY DEF SumOf, MapThenSumSet, MapThenFoldSet, SumRun, First
<1> QED
  BY <1>1, <1>2

LEMMA SumRunTyped ==
  ASSUME NEW S, IsFiniteSet(S), NEW f \in [S -> Nat], NEW it, SumRun(f, S, it)
  PROVE  \A s \in SUBSET S : it[s] \in Nat
<1> DEFINE Bad == {s \in SUBSET S : it[s] \notin Nat}
<1>1. \A s \in SUBSET S : it[s] = IF s = {} THEN 0 ELSE f[First(s)] + it[s \ {First(s)}]
  BY DEF SumRun
<1>2. {} \notin Bad
  <2>1. it[{}] = 0
    BY <1>1
  <2> QED
    BY <2>1
<1>3. ASSUME NEW s \in SUBSET S, s # {}, \A x \in s : s \ {x} \notin Bad PROVE s \notin Bad
  <2>1. First(s) \in s
    BY <1>3 DEF First
  <2>2. s \ {First(s)} \in SUBSET S /\ it[s \ {First(s)}] \in Nat
    BY <2>1, <1>3
  <2>3. it[s] = f[First(s)] + it[s \ {First(s)}] /\ f[First(s)] \in Nat
    BY <2>1, <1>1, <1>3
  <2> QED
    BY <2>2, <2>3
<1>4. Bad = {}
  <2>1. Bad \in SUBSET SUBSET S
    OBVIOUS
  <2> HIDE DEF Bad
  <2>2. \A s \in SUBSET S : s # {} /\ (\A x \in s : s \ {x} \notin Bad) => s \notin Bad
    BY <1>3, Zenon
  <2> QED
    BY <1>2, <2>1, <2>2, NoSmallestFailure
<1> QED
  BY <1>4

\* A sum does not depend on which member is taken first.
AnyFirst(f, S, it) == \A s \in SUBSET S : \A x \in s : it[s] = f[x] + it[s \ {x}]

LEMMA SumRunAnyFirst ==
  ASSUME NEW S, IsFiniteSet(S), NEW f \in [S -> Nat], NEW it, SumRun(f, S, it)
  PROVE  AnyFirst(f, S, it)
<1> DEFINE Bad == {s \in SUBSET S : ~\A x \in s : it[s] = f[x] + it[s \ {x}]}
<1>1. \A s \in SUBSET S : it[s] = IF s = {} THEN 0 ELSE f[First(s)] + it[s \ {First(s)}]
  BY DEF SumRun
<1>t. \A s \in SUBSET S : it[s] \in Nat
  BY SumRunTyped
<1>2. {} \notin Bad
  OBVIOUS
<1>3. ASSUME NEW s \in SUBSET S, s # {}, \A x \in s : s \ {x} \notin Bad PROVE s \notin Bad
  <2> DEFINE c == First(s)
  <2>1. c \in s
    BY <1>3 DEF First
  <2>2. it[s] = f[c] + it[s \ {c}]
    BY <1>1, <1>3
  <2> HIDE DEF c
  <2>3. ASSUME NEW x \in s PROVE it[s] = f[x] + it[s \ {x}]
    <3>1. CASE x = c
      BY <3>1, <2>2
    <3>2. CASE x # c
      <4> DEFINE u == s \ {c}
                 v == s \ {x}
                 w == u \ {x}
      <4>1. u \in SUBSET S /\ v \in SUBSET S /\ w \in SUBSET S /\ w = v \ {c} /\ x \in u /\ c \in v
        BY <3>2, <2>1
      <4>2. u \notin Bad /\ v \notin Bad
        BY <1>3, <2>1
      <4>3. it[u] = f[x] + it[w]
        BY <4>1, <4>2
      <4>4. it[v] = f[c] + it[w]
        BY <4>1, <4>2
      <4>5. f[x] \in Nat /\ f[c] \in Nat /\ it[w] \in Nat
        BY <2>1, <4>1, <1>t
      <4> QED
        BY <2>2, <4>3, <4>4, <4>5
    <3> QED
      BY <3>1, <3>2
  <2> QED
    BY <2>3
<1>4. Bad = {}
  <2>1. Bad \in SUBSET SUBSET S
    OBVIOUS
  <2> HIDE DEF Bad
  <2>2. \A s \in SUBSET S : s # {} /\ (\A x \in s : s \ {x} \notin Bad) => s \notin Bad
    BY <1>3, Zenon
  <2> QED
    BY <1>2, <2>1, <2>2, NoSmallestFailure
<1> QED
  BY <1>4 DEF AnyFirst

LEMMA SumTyped ==
  ASSUME NEW S, IsFiniteSet(S), NEW f \in [S -> Nat]
  PROVE  SumOf(f) \in Nat
<1>1. PICK it : SumRun(f, S, it) /\ SumOf(f) = it[S]
  BY SumIsRun
<1> QED
  BY <1>1, SumRunTyped

\* Fewer terms, and none larger, have no larger sum.
LEMMA SumShrinks ==
  ASSUME NEW S, IsFiniteSet(S), NEW f \in [S -> Nat],
         NEW T \in SUBSET S, NEW g \in [T -> Nat], \A x \in T : g[x] <= f[x]
  PROVE  SumOf(g) <= SumOf(f)
<1>0. IsFiniteSet(T)
  BY FS_Subset
<1>1. PICK it : SumRun(f, S, it) /\ SumOf(f) = it[S]
  BY SumIsRun
<1>2. PICK jt : SumRun(g, T, jt) /\ SumOf(g) = jt[T]
  BY <1>0, SumIsRun
<1> DEFINE Bad == {s \in SUBSET S : ~\A t \in SUBSET T : t \subseteq s => jt[t] <= it[s]}
<1>3. /\ \A s \in SUBSET S : it[s] \in Nat
      /\ \A s \in SUBSET S : \A x \in s : it[s] = f[x] + it[s \ {x}]
  <2>1. \A s \in SUBSET S : it[s] \in Nat
    BY <1>1, SumRunTyped
  <2>2. AnyFirst(f, S, it)
    BY <1>1, SumRunAnyFirst
  <2> QED
    BY <2>1, <2>2 DEF AnyFirst
<1>4. /\ \A t \in SUBSET T : jt[t] \in Nat
      /\ \A t \in SUBSET T : \A x \in t : jt[t] = g[x] + jt[t \ {x}]
  <2>1. \A t \in SUBSET T : jt[t] \in Nat
    BY <1>0, <1>2, SumRunTyped
  <2>2. AnyFirst(g, T, jt)
    BY <1>0, <1>2, SumRunAnyFirst
  <2> QED
    BY <2>1, <2>2 DEF AnyFirst
<1>5. {} \notin Bad
  <2>1. jt[{}] = 0
    BY <1>2 DEF SumRun
  <2>2. it[{}] \in Nat
    BY <1>3
  <2> QED
    BY <2>1, <2>2
<1>6. ASSUME NEW s \in SUBSET S, s # {}, \A x \in s : s \ {x} \notin Bad PROVE s \notin Bad
  <2>1. PICK x \in s : TRUE
    BY <1>6
  <2>2. s \ {x} \in SUBSET S /\ it[s] = f[x] + it[s \ {x}] /\ it[s \ {x}] \in Nat /\ f[x] \in Nat
    BY <2>1, <1>3
  <2>3. ASSUME NEW t \in SUBSET T, t \subseteq s PROVE jt[t] <= it[s]
    <3>1. CASE x \in t
      <4>1. jt[t] = g[x] + jt[t \ {x}] /\ t \ {x} \in SUBSET T /\ t \ {x} \subseteq s \ {x}
        BY <3>1, <2>3, <1>4
      <4>2. jt[t \ {x}] <= it[s \ {x}]
        BY <4>1, <2>2, <1>6
      <4>3. g[x] \in Nat /\ g[x] <= f[x] /\ jt[t \ {x}] \in Nat
        BY <3>1, <4>1, <1>4
      <4> QED
        BY <4>1, <4>2, <4>3, <2>2
    <3>2. CASE x \notin t
      <4>1. t \subseteq s \ {x}
        BY <3>2, <2>3
      <4>2. jt[t] <= it[s \ {x}]
        BY <4>1, <2>2, <1>6
      <4>3. jt[t] \in Nat
        BY <1>4
      <4> QED
        BY <4>2, <4>3, <2>2
    <3> QED
      BY <3>1, <3>2
  <2> QED
    BY <2>3
<1>7. Bad = {}
  <2>1. Bad \in SUBSET SUBSET S
    OBVIOUS
  <2> HIDE DEF Bad
  <2>2. \A s \in SUBSET S : s # {} /\ (\A x \in s : s \ {x} \notin Bad) => s \notin Bad
    BY <1>6, Zenon
  <2> QED
    BY <1>5, <2>1, <2>2, NoSmallestFailure
<1>8. \A t \in SUBSET T : t \subseteq S => jt[t] <= it[S]
  BY <1>7
<1> QED
  BY <1>1, <1>2, <1>8
-----------------------------------------------------------------------------
(* Lists of keys.                                                           *)

Distinct(list) == \A a, b \in DOMAIN list : list[a] = list[b] => a = b
Lists(list, x) == \E a \in DOMAIN list : list[a] = x

\* A list without a key keeps the others, each once.
LEMMA UnlinkedList ==
  ASSUME NEW R, NEW list \in Seq(R), Distinct(list), NEW k, NEW l, l = Unlinked(list, k)
  PROVE  l \in Seq(R) /\ Distinct(l) /\ \A x : Lists(l, x) <=> (x # k /\ Lists(list, x))
<1> DEFINE keep == {n \in DOMAIN list : list[n] # k}
           n == Cardinality(keep)
           f == [j \in keep |-> Rank(keep, j)]
<1>1. DOMAIN list = 1..Len(list) /\ Len(list) \in Nat /\ keep \in SUBSET Nat /\ keep \in SUBSET DOMAIN list
  OBVIOUS
<1>2. IsFiniteSet(keep)
  <2>1. IsFiniteSet(1..Len(list))
    BY <1>1, FS_Interval
  <2> QED
    BY <1>1, <2>1, FS_Subset
<1>3. n \in Nat /\ f \in Bijection(keep, 1..n)
  BY <1>1, <1>2, RankIsBijection
<1>4. /\ \A j \in keep : f[j] \in 1..n
      /\ \A i, j \in keep : f[i] = f[j] => i = j
      /\ \A i \in 1..n : \E j \in keep : f[j] = i
  BY <1>3 DEF Bijection, Injection, Surjection, IsInjective
<1>5. \A j \in keep : f[j] = Rank(keep, j)
  OBVIOUS
<1>6. l = [i \in 1..n |-> list[CHOOSE j \in keep : Rank(keep, j) = i]]
  BY DEF Unlinked, Compact
<1>7. l \in Seq(R)
  BY <1>1, CompactRows DEF Unlinked
<1>8. \A j \in DOMAIN list : j \in keep <=> list[j] # k
  OBVIOUS
<1> HIDE DEF n, f, keep
<1>9. ASSUME NEW i \in 1..n
      PROVE  \E j \in keep : f[j] = i /\ l[i] = list[j]
  <2> DEFINE j == CHOOSE j \in keep : Rank(keep, j) = i
  <2>1. \E m \in keep : Rank(keep, m) = i
    BY <1>4, <1>5
  <2>2. j \in keep /\ Rank(keep, j) = i
    BY <2>1
  <2>3. l[i] = list[j]
    BY <1>6
  <2> HIDE DEF j
  <2> QED
    BY <2>2, <2>3, <1>5
<1>10. DOMAIN l = 1..n
  BY <1>6
<1>11. Distinct(l)
  <2> SUFFICES ASSUME NEW a \in 1..n, NEW b \in 1..n, l[a] = l[b] PROVE a = b
    BY <1>10 DEF Distinct
  <2>1. PICK i \in keep : f[i] = a /\ l[a] = list[i]
    BY <1>9
  <2>2. PICK j \in keep : f[j] = b /\ l[b] = list[j]
    BY <1>9
  <2>3. i = j
    BY <2>1, <2>2, <1>1 DEF Distinct
  <2> QED
    BY <2>1, <2>2, <2>3
<1>12. ASSUME NEW x, Lists(l, x) PROVE x # k /\ Lists(list, x)
  <2>1. PICK a \in 1..n : l[a] = x
    BY <1>10, <1>12 DEF Lists
  <2>2. PICK j \in keep : l[a] = list[j]
    BY <1>9
  <2> QED
    BY <2>1, <2>2, <1>1, <1>8 DEF Lists
<1>13. ASSUME NEW x, x # k, Lists(list, x) PROVE Lists(l, x)
  <2>1. PICK j \in DOMAIN list : list[j] = x
    BY <1>13 DEF Lists
  <2>2. j \in keep /\ f[j] \in 1..n
    BY <2>1, <1>13, <1>8, <1>4
  <2>3. PICK m \in keep : f[m] = f[j] /\ l[f[j]] = list[m]
    BY <2>2, <1>9
  <2>4. m = j
    BY <2>2, <2>3, <1>4
  <2> QED
    BY <2>1, <2>2, <2>3, <2>4, <1>10 DEF Lists
<1> QED
  BY <1>7, <1>11, <1>12, <1>13

\* The other way round every key is still there.
LEMMA ReversedList ==
  ASSUME NEW R, NEW list \in Seq(R), NEW l, l = Reverse(list)
  PROVE  l \in Seq(R) /\ Len(l) = Len(list) /\ \A x : Lists(list, x) => Lists(l, x)
<1> DEFINE n == Len(list)
<1>1. n \in Nat /\ DOMAIN list = 1..n /\ l = [i \in 1..n |-> list[(n - i) + 1]]
  BY DEF Reverse
<1> HIDE DEF n
<1>2. \A i \in 1..n : (n - i) + 1 \in 1..n /\ (n - ((n - i) + 1)) + 1 = i
  BY <1>1
<1>3. l \in [1..n -> R]
  BY <1>1, <1>2
<1>4. l \in Seq(R) /\ Len(l) = n
  <2>1. \A h \in [1..n -> R] : h \in Seq(R) /\ Len(h) = n
    BY <1>1
  <2> QED
    BY <1>3, <2>1
<1>5. ASSUME NEW x, Lists(list, x) PROVE Lists(l, x)
  <2>1. PICK a \in 1..n : list[a] = x
    BY <1>1, <1>5 DEF Lists
  <2>2. (n - a) + 1 \in 1..n /\ l[(n - a) + 1] = x
    BY <2>1, <1>1, <1>2
  <2> QED
    BY <2>2, <1>1 DEF Lists
<1> QED
  BY <1>4, <1>5 DEF n

\* The list of a finite set has all its members.
LEMMA SetAsList ==
  ASSUME NEW S, IsFiniteSet(S), NEW l, l = SetToSeq(S)
  PROVE  l \in Seq(S) /\ \A x : Lists(l, x) <=> x \in S
<1> DEFINE n == Cardinality(S)
<1>1. n \in Nat /\ ExistsBijection(1..n, S)
  BY FS_CardinalityType
<1>2. PICK h : h \in Bijection(1..n, S)
  BY <1>1 DEF ExistsBijection
<1>3. h \in [1..n -> S] /\ IsInjective(h)
  BY <1>2 DEF Bijection, Injection
<1>4. l = CHOOSE f \in [1..n -> S] : IsInjective(f)
  BY DEF SetToSeq
<1> HIDE DEF n
<1>5. l \in [1..n -> S] /\ IsInjective(l)
  BY <1>3, <1>4, Zenon
<1>6. l \in Injection(1..n, S)
  BY <1>5 DEF Injection
<1>7. Cardinality(1..n) = n
  BY <1>1, FS_Interval
<1>8. l \in Surjection(1..n, S)
  <2>1. Cardinality(1..n) = Cardinality(S)
    BY <1>7 DEF n
  <2> QED
    BY <1>6, <2>1, FS_Injection
<1>9. \A x \in S : \E a \in 1..n : l[a] = x
  BY <1>8 DEF Surjection
<1>10. l \in Seq(S) /\ DOMAIN l = 1..n
  <2>1. \A g \in [1..n -> S] : g \in Seq(S) /\ DOMAIN g = 1..n
    BY <1>1
  <2> QED
    BY <1>5, <2>1
<1> QED
  BY <1>5, <1>9, <1>10 DEF Lists
-----------------------------------------------------------------------------
(* The members of the cache.                                                *)

EntryShape == [size : Int, ids : Seq(ItemIds), created_at : Nat, live : BOOLEAN, fresh : BOOLEAN]
CacheShape == [cache_map_ : [Keys -> EntryShape], lru_list_ : Seq(Keys),
               item_to_cache_keys_ : [ItemIds -> SUBSET Keys], total_memory_bytes_ : Nat, buckets : Nat]

\* Every entry has a size, and Estimate is defined.
Sized(c) == c \in CacheShape /\ \A k \in StoredKeys(c) : c.cache_map_[k].size \in Nat

\* d has entries and rows of c only, the entries as large as in c.
Within(d, c) ==
  /\ d.buckets = c.buckets /\ StoredKeys(d) \subseteq StoredKeys(c)
  /\ \A k \in StoredKeys(d) : /\ d.cache_map_[k].size = c.cache_map_[k].size
                              /\ d.cache_map_[k].ids = c.cache_map_[k].ids
  /\ \A i \in ItemIds : d.item_to_cache_keys_[i] \subseteq c.item_to_cache_keys_[i]

LEMMA NoEntryShape == NoEntry \in EntryShape
<1>1. <<>> \in Seq(ItemIds)
  OBVIOUS
<1> QED
  BY <1>1 DEF NoEntry, EntryShape

\* The three terms of the estimate.
EntrySizes(c) == [k \in StoredKeys(c) |-> 1 + c.cache_map_[k].size + Len(c.cache_map_[k].ids)]
RowSizes(c) == [i \in Indexed(c) |-> Cardinality(c.item_to_cache_keys_[i])]

LEMMA TermsTyped ==
  ASSUME NEW c, Sized(c)
  PROVE  /\ IsFiniteSet(StoredKeys(c)) /\ EntrySizes(c) \in [StoredKeys(c) -> Nat]
         /\ IsFiniteSet(Indexed(c)) /\ RowSizes(c) \in [Indexed(c) -> Nat]
         /\ \A i \in ItemIds : IsFiniteSet(c.item_to_cache_keys_[i])
<1>1. /\ c.cache_map_ \in [Keys -> EntryShape] /\ c.item_to_cache_keys_ \in [ItemIds -> SUBSET Keys]
      /\ \A k \in StoredKeys(c) : k \in Keys /\ c.cache_map_[k].size \in Nat
  BY DEF Sized, CacheShape, StoredKeys
<1>2. \A k \in StoredKeys(c) : Len(c.cache_map_[k].ids) \in Nat
  BY <1>1 DEF EntryShape
<1>3. \A k \in StoredKeys(c) : 1 + c.cache_map_[k].size + Len(c.cache_map_[k].ids) \in Nat
  BY <1>1, <1>2
<1>4. \A i \in ItemIds : IsFiniteSet(c.item_to_cache_keys_[i]) /\ Cardinality(c.item_to_cache_keys_[i]) \in Nat
  BY <1>1, CacheConstants, FS_Subset, FS_CardinalityType
<1>5. IsFiniteSet(StoredKeys(c)) /\ IsFiniteSet(Indexed(c))
  <2>1. StoredKeys(c) \in SUBSET Keys /\ Indexed(c) \in SUBSET ItemIds
    BY DEF StoredKeys, Indexed
  <2> QED
    BY <2>1, CacheConstants, FS_Subset
<1>6. EntrySizes(c) \in [StoredKeys(c) -> Nat]
  BY <1>3 DEF EntrySizes
<1>7. RowSizes(c) \in [Indexed(c) -> Nat]
  BY <1>4 DEF RowSizes, Indexed
<1> QED
  BY <1>4, <1>5, <1>6, <1>7

LEMMA EstimateTerms ==
  ASSUME NEW c, Sized(c)
  PROVE  /\ EstimateMemoryLocked(c) = IF StoredKeys(c) = {} /\ Indexed(c) = {} THEN 0
                                      ELSE c.buckets + SumOf(EntrySizes(c)) + SumOf(RowSizes(c))
         /\ c.buckets \in Nat /\ SumOf(EntrySizes(c)) \in Nat /\ SumOf(RowSizes(c)) \in Nat
         /\ EstimateMemoryLocked(c) \in Nat
<1>1. SumOf(EntrySizes(c)) \in Nat /\ SumOf(RowSizes(c)) \in Nat
  BY TermsTyped, SumTyped
<1>2. c.buckets \in Nat
  BY DEF Sized, CacheShape
<1>3. EstimateMemoryLocked(c) = IF StoredKeys(c) = {} /\ Indexed(c) = {} THEN 0
                                ELSE c.buckets + SumOf(EntrySizes(c)) + SumOf(RowSizes(c))
  BY DEF EstimateMemoryLocked, EntrySizes, RowSizes
<1> QED
  BY <1>1, <1>2, <1>3

\* Erasing never makes the structures larger.
LEMMA EstimateShrinks ==
  ASSUME NEW c, Sized(c), NEW d, Sized(d), Within(d, c)
  PROVE  EstimateMemoryLocked(d) <= EstimateMemoryLocked(c)
<1>1. SumOf(EntrySizes(d)) <= SumOf(EntrySizes(c))
  <2>1. StoredKeys(d) \in SUBSET StoredKeys(c)
    BY DEF Within
  <2>2. \A k \in StoredKeys(d) : EntrySizes(d)[k] = EntrySizes(c)[k]
    BY <2>1 DEF Within, EntrySizes
  <2>3. \A k \in StoredKeys(d) : EntrySizes(d)[k] <= EntrySizes(c)[k]
    BY <2>1, <2>2, TermsTyped
  <2> QED
    BY <2>1, <2>3, TermsTyped, SumShrinks
<1>2. SumOf(RowSizes(d)) <= SumOf(RowSizes(c))
  <2>1. Indexed(d) \in SUBSET Indexed(c)
    BY DEF Within, Indexed
  <2>2. ASSUME NEW i \in Indexed(d) PROVE RowSizes(d)[i] <= RowSizes(c)[i]
    <3>1. i \in ItemIds /\ i \in Indexed(c)
      BY <2>1 DEF Indexed
    <3>2. d.item_to_cache_keys_[i] \in SUBSET c.item_to_cache_keys_[i]
      BY <3>1 DEF Within
    <3>3. IsFiniteSet(c.item_to_cache_keys_[i])
      BY <3>1, TermsTyped
    <3>4. Cardinality(d.item_to_cache_keys_[i]) <= Cardinality(c.item_to_cache_keys_[i])
      BY <3>2, <3>3, FS_Subset
    <3> QED
      BY <3>1, <3>4 DEF RowSizes
  <2> QED
    BY <2>1, <2>2, TermsTyped, SumShrinks
<1>3. StoredKeys(c) = {} /\ Indexed(c) = {} => StoredKeys(d) = {} /\ Indexed(d) = {}
  BY DEF Within, Indexed
<1>4. d.buckets = c.buckets
  BY DEF Within
<1> QED
  BY <1>1, <1>2, <1>3, <1>4, EstimateTerms

LEMMA EstimateSame ==
  ASSUME NEW c, Sized(c), NEW d, Sized(d), Within(d, c), Within(c, d)
  PROVE  EstimateMemoryLocked(d) = EstimateMemoryLocked(c)
<1>1. EstimateMemoryLocked(d) <= EstimateMemoryLocked(c) /\ EstimateMemoryLocked(c) <= EstimateMemoryLocked(d)
  BY EstimateShrinks
<1> QED
  BY <1>1, EstimateTerms

\* RefreshMemoryLocked settles the account and changes nothing else.
LEMMA Refreshed ==
  ASSUME NEW c, Sized(c), NEW d, d = RefreshMemoryLocked(c)
  PROVE  /\ Sized(d) /\ d.cache_map_ = c.cache_map_ /\ d.lru_list_ = c.lru_list_
         /\ d.item_to_cache_keys_ = c.item_to_cache_keys_ /\ d.buckets = c.buckets
         /\ d.total_memory_bytes_ = EstimateMemoryLocked(d) /\ StoredKeys(d) = StoredKeys(c)
         /\ EstimateMemoryLocked(d) = EstimateMemoryLocked(c)
<1>1. EstimateMemoryLocked(c) \in Nat /\ c \in CacheShape
  BY EstimateTerms DEF Sized
<1>2. d = [c EXCEPT !.total_memory_bytes_ = EstimateMemoryLocked(c)]
  BY DEF RefreshMemoryLocked
<1>3. /\ d \in CacheShape /\ d.cache_map_ = c.cache_map_ /\ d.lru_list_ = c.lru_list_
      /\ d.item_to_cache_keys_ = c.item_to_cache_keys_ /\ d.buckets = c.buckets
      /\ d.total_memory_bytes_ = EstimateMemoryLocked(c)
  BY <1>1, <1>2 DEF CacheShape
<1>4. StoredKeys(d) = StoredKeys(c)
  BY <1>3 DEF StoredKeys
<1>5. Sized(d)
  BY <1>3, <1>4 DEF Sized
<1>6. Within(d, c) /\ Within(c, d)
  BY <1>3, <1>4 DEF Within
<1>7. EstimateMemoryLocked(d) = EstimateMemoryLocked(c)
  BY <1>5, <1>6, EstimateSame
<1> QED
  BY <1>3, <1>4, <1>5, <1>7
-----------------------------------------------------------------------------
(* Each loop of the cache has a run for any number of rounds.               *)

\* f is the run of EraseEach over the first n members of keys.
EraseRun(c, keys, n, f) == f = [k \in 0..n |-> IF k = 0 THEN c ELSE EraseLocked(f[k-1], keys[k])]

LEMMA EraseRounds ==
  ASSUME NEW c, NEW keys, NEW n \in Nat
  PROVE  \E f : EraseRun(c, keys, n, f)
<1> DEFINE Bad == {x \in 0..n : ~\E f : EraseRun(c, keys, x, f)}
<1>1. 0 \notin Bad
  <2> DEFINE g == [k \in 0..0 |-> c]
  <2>1. EraseRun(c, keys, 0, g)
    BY DEF EraseRun
  <2> QED
    BY <2>1
<1>2. ASSUME NEW x \in 1..n, x - 1 \notin Bad PROVE x \notin Bad
  <2>1. x - 1 \in 0..n
    OBVIOUS
  <2>2. PICK f : EraseRun(c, keys, x - 1, f)
    BY <1>2, <2>1
  <2> DEFINE g == [j \in 0..x |-> IF j = x THEN EraseLocked(f[x-1], keys[x]) ELSE f[j]]
  <2>3. \A j \in 0..x-1 : g[j] = f[j]
    OBVIOUS
  <2>4. ASSUME NEW j \in 0..x
        PROVE  g[j] = IF j = 0 THEN c ELSE EraseLocked(g[j-1], keys[j])
    <3>1. CASE j = x
      <4>1. g[j] = EraseLocked(f[j-1], keys[j]) /\ j - 1 \in 0..x-1 /\ j # 0
        BY <3>1
      <4>2. g[j-1] = f[j-1]
        BY <2>3, <4>1
      <4> HIDE DEF g
      <4> QED
        BY <4>1, <4>2
    <3>2. CASE j # x
      <4>1. j \in 0..x-1 /\ (j # 0 => j - 1 \in 0..x-1)
        BY <3>2
      <4>2. f[j] = IF j = 0 THEN c ELSE EraseLocked(f[j-1], keys[j])
        BY <2>2, <4>1 DEF EraseRun
      <4>3. g[j] = f[j] /\ (j # 0 => g[j-1] = f[j-1])
        BY <2>3, <4>1
      <4> HIDE DEF g
      <4> QED
        BY <4>2, <4>3
    <3> QED
      BY <3>1, <3>2
  <2>5. EraseRun(c, keys, x, g)
    <3>1. g = [j \in 0..x |-> g[j]]
      OBVIOUS
    <3> HIDE DEF g
    <3> QED
      BY <2>4, <3>1 DEF EraseRun
  <2> QED
    BY <2>5
<1>3. Bad = {}
  <2>1. Bad \in SUBSET (0..n)
    OBVIOUS
  <2> HIDE DEF Bad
  <2> QED
    BY <1>1, <1>2, <2>1, NoLeastFailure
<1>4. n \in 0..n
  OBVIOUS
<1> QED
  BY <1>3, <1>4

\* f is the run of EvictEach over the first n members of keys.
EvictRun(base, keys, required, n, f) == f = [k \in 0..n |-> IF k = 0 THEN base ELSE EvictNext(f[k-1], keys[k], required)]

LEMMA EvictRounds ==
  ASSUME NEW base, NEW keys, NEW required, NEW n \in Nat
  PROVE  \E f : EvictRun(base, keys, required, n, f)
<1> DEFINE Bad == {x \in 0..n : ~\E f : EvictRun(base, keys, required, x, f)}
<1>1. 0 \notin Bad
  <2> DEFINE g == [k \in 0..0 |-> base]
  <2>1. EvictRun(base, keys, required, 0, g)
    BY DEF EvictRun
  <2> QED
    BY <2>1
<1>2. ASSUME NEW x \in 1..n, x - 1 \notin Bad PROVE x \notin Bad
  <2>1. x - 1 \in 0..n
    OBVIOUS
  <2>2. PICK f : EvictRun(base, keys, required, x - 1, f)
    BY <1>2, <2>1
  <2> DEFINE g == [j \in 0..x |-> IF j = x THEN EvictNext(f[x-1], keys[x], required) ELSE f[j]]
  <2>3. \A j \in 0..x-1 : g[j] = f[j]
    OBVIOUS
  <2>4. ASSUME NEW j \in 0..x
        PROVE  g[j] = IF j = 0 THEN base ELSE EvictNext(g[j-1], keys[j], required)
    <3>1. CASE j = x
      <4>1. g[j] = EvictNext(f[j-1], keys[j], required) /\ j - 1 \in 0..x-1 /\ j # 0
        BY <3>1
      <4>2. g[j-1] = f[j-1]
        BY <2>3, <4>1
      <4> HIDE DEF g
      <4> QED
        BY <4>1, <4>2
    <3>2. CASE j # x
      <4>1. j \in 0..x-1 /\ (j # 0 => j - 1 \in 0..x-1)
        BY <3>2
      <4>2. f[j] = IF j = 0 THEN base ELSE EvictNext(f[j-1], keys[j], required)
        BY <2>2, <4>1 DEF EvictRun
      <4>3. g[j] = f[j] /\ (j # 0 => g[j-1] = f[j-1])
        BY <2>3, <4>1
      <4> HIDE DEF g
      <4> QED
        BY <4>2, <4>3
    <3> QED
      BY <3>1, <3>2
  <2>5. EvictRun(base, keys, required, x, g)
    <3>1. g = [j \in 0..x |-> g[j]]
      OBVIOUS
    <3> HIDE DEF g
    <3> QED
      BY <2>4, <3>1 DEF EvictRun
  <2> QED
    BY <2>5
<1>3. Bad = {}
  <2>1. Bad \in SUBSET (0..n)
    OBVIOUS
  <2> HIDE DEF Bad
  <2> QED
    BY <1>1, <1>2, <2>1, NoLeastFailure
<1>4. n \in 0..n
  OBVIOUS
<1> QED
  BY <1>3, <1>4

\* f is the run of Tracked over the first n members of item_ids.
TrackRun(old, item_ids, n, f) == f = [k \in 0..n |-> IF k = 0 THEN old ELSE Track(f[k-1], item_ids[k])]

LEMMA TrackRounds ==
  ASSUME NEW old, NEW item_ids, NEW n \in Nat
  PROVE  \E f : TrackRun(old, item_ids, n, f)
<1> DEFINE Bad == {x \in 0..n : ~\E f : TrackRun(old, item_ids, x, f)}
<1>1. 0 \notin Bad
  <2> DEFINE g == [k \in 0..0 |-> old]
  <2>1. TrackRun(old, item_ids, 0, g)
    BY DEF TrackRun
  <2> QED
    BY <2>1
<1>2. ASSUME NEW x \in 1..n, x - 1 \notin Bad PROVE x \notin Bad
  <2>1. x - 1 \in 0..n
    OBVIOUS
  <2>2. PICK f : TrackRun(old, item_ids, x - 1, f)
    BY <1>2, <2>1
  <2> DEFINE g == [j \in 0..x |-> IF j = x THEN Track(f[x-1], item_ids[x]) ELSE f[j]]
  <2>3. \A j \in 0..x-1 : g[j] = f[j]
    OBVIOUS
  <2>4. ASSUME NEW j \in 0..x
        PROVE  g[j] = IF j = 0 THEN old ELSE Track(g[j-1], item_ids[j])
    <3>1. CASE j = x
      <4>1. g[j] = Track(f[j-1], item_ids[j]) /\ j - 1 \in 0..x-1 /\ j # 0
        BY <3>1
      <4>2. g[j-1] = f[j-1]
        BY <2>3, <4>1
      <4> HIDE DEF g
      <4> QED
        BY <4>1, <4>2
    <3>2. CASE j # x
      <4>1. j \in 0..x-1 /\ (j # 0 => j - 1 \in 0..x-1)
        BY <3>2
      <4>2. f[j] = IF j = 0 THEN old ELSE Track(f[j-1], item_ids[j])
        BY <2>2, <4>1 DEF TrackRun
      <4>3. g[j] = f[j] /\ (j # 0 => g[j-1] = f[j-1])
        BY <2>3, <4>1
      <4> HIDE DEF g
      <4> QED
        BY <4>2, <4>3
    <3> QED
      BY <3>1, <3>2
  <2>5. TrackRun(old, item_ids, x, g)
    <3>1. g = [j \in 0..x |-> g[j]]
      OBVIOUS
    <3> HIDE DEF g
    <3> QED
      BY <2>4, <3>1 DEF TrackRun
  <2> QED
    BY <2>5
<1>3. Bad = {}
  <2>1. Bad \in SUBSET (0..n)
    OBVIOUS
  <2> HIDE DEF Bad
  <2> QED
    BY <1>1, <1>2, <2>1, NoLeastFailure
<1>4. n \in 0..n
  OBVIOUS
<1> QED
  BY <1>3, <1>4
-----------------------------------------------------------------------------
(* Erasure.                                                                 *)

\* The structures agree, but that the rows of the items in X are gone.
Sound(c, X) ==
  /\ Sized(c) /\ Distinct(c.lru_list_)
  /\ \A k \in Keys : Lists(c.lru_list_, k) <=> k \in StoredKeys(c)
  /\ \A i \in ItemIds, k \in Keys :
       k \in c.item_to_cache_keys_[i] <=>
         (i \notin X /\ k \in StoredKeys(c) /\ i \in ToSet(c.cache_map_[k].ids))

Accounted(c) == c.total_memory_bytes_ = EstimateMemoryLocked(c)

\* d is c after the erasure of some keys.
Erased(d, c) == Within(d, c) /\ \A k \in StoredKeys(d) : d.cache_map_[k] = c.cache_map_[k]

LEMMA ErasedTwice ==
  ASSUME NEW c, Sized(c), NEW d, Erased(d, c), NEW e, Erased(e, d)
  PROVE  Erased(e, c)
<1>1. StoredKeys(e) \subseteq StoredKeys(d) /\ StoredKeys(d) \subseteq StoredKeys(c)
  BY DEF Erased, Within
<1>2. \A k \in StoredKeys(e) : e.cache_map_[k] = c.cache_map_[k]
  BY <1>1 DEF Erased
<1>3. \A i \in ItemIds : e.item_to_cache_keys_[i] \subseteq c.item_to_cache_keys_[i]
  BY DEF Erased, Within
<1>4. e.buckets = c.buckets
  BY DEF Erased, Within
<1> QED
  BY <1>1, <1>2, <1>3, <1>4 DEF Erased, Within

\* EraseLocked by its fields.
LEMMA EraseFields ==
  ASSUME NEW c, Sized(c), Distinct(c.lru_list_), NEW k \in StoredKeys(c), NEW d, d = EraseLocked(c, k)
  PROVE  /\ Sized(d) /\ Accounted(d) /\ d.buckets = c.buckets
         /\ d.lru_list_ = Unlinked(c.lru_list_, k)
         /\ d.cache_map_ = [c.cache_map_ EXCEPT ![k] = NoEntry]
         /\ \A i \in ItemIds : d.item_to_cache_keys_[i] =
              IF i \in ToSet(c.cache_map_[k].ids) THEN c.item_to_cache_keys_[i] \ {k} ELSE c.item_to_cache_keys_[i]
<1> DEFINE rows == [i \in ItemIds |-> IF i \in ToSet(c.cache_map_[k].ids) THEN c.item_to_cache_keys_[i] \ {k}
                                      ELSE c.item_to_cache_keys_[i]]
           list == Unlinked(c.lru_list_, k)
           map == [c.cache_map_ EXCEPT ![k] = NoEntry]
           e == [c EXCEPT !.item_to_cache_keys_ = rows, !.lru_list_ = list, !.cache_map_ = map]
<1>1. /\ c \in CacheShape /\ c.cache_map_ \in [Keys -> EntryShape] /\ c.lru_list_ \in Seq(Keys)
      /\ c.item_to_cache_keys_ \in [ItemIds -> SUBSET Keys] /\ k \in Keys
  BY DEF Sized, CacheShape, StoredKeys
<1>2. rows \in [ItemIds -> SUBSET Keys]
  BY <1>1
<1>3. list \in Seq(Keys)
  BY <1>1, UnlinkedList
<1>4. map \in [Keys -> EntryShape]
  BY <1>1, NoEntryShape
<1>5. d = RefreshMemoryLocked(e)
  BY DEF EraseLocked
<1> HIDE DEF rows, list, map
<1>6. /\ e \in CacheShape /\ e.cache_map_ = map /\ e.lru_list_ = list /\ e.item_to_cache_keys_ = rows
      /\ e.buckets = c.buckets
  BY <1>1, <1>2, <1>3, <1>4 DEF CacheShape
<1> HIDE DEF e
<1>7. \A j \in Keys : map[j] = IF j = k THEN NoEntry ELSE c.cache_map_[j]
  BY <1>1 DEF map
<1>8. \A j \in StoredKeys(e) : j \in StoredKeys(c) /\ e.cache_map_[j] = c.cache_map_[j]
  BY <1>6, <1>7 DEF StoredKeys
<1>9. Sized(e)
  BY <1>6, <1>8 DEF Sized
<1>10. /\ Sized(d) /\ d.cache_map_ = e.cache_map_ /\ d.lru_list_ = e.lru_list_
       /\ d.item_to_cache_keys_ = e.item_to_cache_keys_ /\ d.buckets = e.buckets
       /\ d.total_memory_bytes_ = EstimateMemoryLocked(d)
  BY <1>5, <1>9, Refreshed
<1> QED
  BY <1>6, <1>10 DEF Accounted, rows, list, map

\* Erasing one key.
LEMMA ErasedKey ==
  ASSUME NEW c, NEW X, Sound(c, X), NEW k \in Keys, NEW d, d = EraseLocked(c, k)
  PROVE  /\ Sound(d, X) /\ Erased(d, c)
         /\ StoredKeys(d) = StoredKeys(c) \ {k}
         /\ (k \in StoredKeys(c) \/ Accounted(c)) => Accounted(d)
<1>1. CASE k \notin StoredKeys(c)
  <2>1. d = c
    BY <1>1 DEF EraseLocked
  <2> QED
    BY <1>1, <2>1 DEF Erased, Within
<1>2. CASE k \in StoredKeys(c)
  <2>1. /\ Sized(d) /\ Accounted(d) /\ d.buckets = c.buckets
        /\ d.lru_list_ = Unlinked(c.lru_list_, k)
        /\ d.cache_map_ = [c.cache_map_ EXCEPT ![k] = NoEntry]
        /\ \A i \in ItemIds : d.item_to_cache_keys_[i] =
             IF i \in ToSet(c.cache_map_[k].ids) THEN c.item_to_cache_keys_[i] \ {k} ELSE c.item_to_cache_keys_[i]
    BY <1>2, EraseFields DEF Sound
  <2>2. c.cache_map_ \in [Keys -> EntryShape] /\ c.lru_list_ \in Seq(Keys)
    BY DEF Sound, Sized, CacheShape
  <2>3. \A j \in Keys : d.cache_map_[j] = IF j = k THEN NoEntry ELSE c.cache_map_[j]
    BY <2>1, <2>2
  <2>4. \A j \in Keys : j \in StoredKeys(d) <=> (j \in StoredKeys(c) /\ j # k)
    BY <2>3 DEF StoredKeys
  <2>5. StoredKeys(d) = StoredKeys(c) \ {k}
    BY <2>4 DEF StoredKeys
  <2>6. Distinct(d.lru_list_) /\ \A j \in Keys : Lists(d.lru_list_, j) <=> (j # k /\ Lists(c.lru_list_, j))
    BY <2>1, <2>2, UnlinkedList DEF Sound
  <2>7. ASSUME NEW i \in ItemIds, NEW j \in Keys
        PROVE  j \in d.item_to_cache_keys_[i] <=>
                 (i \notin X /\ j \in StoredKeys(d) /\ i \in ToSet(d.cache_map_[j].ids))
    <3>1. j \in c.item_to_cache_keys_[i] <=>
            (i \notin X /\ j \in StoredKeys(c) /\ i \in ToSet(c.cache_map_[j].ids))
      BY DEF Sound
    <3>2. CASE j = k
      <4>1. j \notin d.item_to_cache_keys_[i]
        BY <3>1, <3>2, <2>1
      <4> QED
        BY <4>1, <3>2, <2>4
    <3>3. CASE j # k
      <4>1. j \in d.item_to_cache_keys_[i] <=> j \in c.item_to_cache_keys_[i]
        BY <3>3, <2>1
      <4>2. d.cache_map_[j] = c.cache_map_[j] /\ (j \in StoredKeys(d) <=> j \in StoredKeys(c))
        BY <3>3, <2>3, <2>4
      <4> QED
        BY <4>1, <4>2, <3>1
    <3> QED
      BY <3>2, <3>3
  <2>8. Sound(d, X)
    BY <2>1, <2>4, <2>6, <2>7 DEF Sound
  <2>9. \A j \in StoredKeys(d) : j \in Keys /\ d.cache_map_[j] = c.cache_map_[j]
    BY <2>3, <2>4 DEF StoredKeys
  <2>10. \A i \in ItemIds : d.item_to_cache_keys_[i] \subseteq c.item_to_cache_keys_[i]
    BY <2>1
  <2>11. Erased(d, c)
    BY <2>1, <2>5, <2>9, <2>10 DEF Erased, Within
  <2> QED
    BY <2>1, <2>5, <2>8, <2>11
<1> QED
  BY <1>1, <1>2

\* Erasing a list of keys.
LEMMA ErasedKeys ==
  ASSUME NEW c, NEW X, Sound(c, X), NEW keys \in Seq(Keys), NEW d, d = EraseEach(c, keys)
  PROVE  /\ Sound(d, X) /\ Erased(d, c)
         /\ \A k \in Keys : k \in StoredKeys(d) <=> (k \in StoredKeys(c) /\ ~Lists(keys, k))
         /\ (Accounted(c) \/ \E k \in StoredKeys(c) : Lists(keys, k)) => Accounted(d)
<1> DEFINE n == Len(keys)
           f == CHOOSE f : f = [k \in 0..n |-> IF k = 0 THEN c ELSE EraseLocked(f[k-1], keys[k])]
           Good(x, m) == /\ Sound(x, X) /\ Erased(x, c)
                         /\ \A k \in Keys : k \in StoredKeys(x) <=> (k \in StoredKeys(c) /\ \A l \in 1..m : keys[l] # k)
                         /\ (Accounted(c) \/ \E l \in 1..m : keys[l] \in StoredKeys(c)) => Accounted(x)
           Bad == {m \in 0..n : ~Good(f[m], m)}
<1>1. n \in Nat /\ DOMAIN keys = 1..n /\ \A l \in 1..n : keys[l] \in Keys
  OBVIOUS
<1>2. EraseRun(c, keys, n, f)
  <2> HIDE DEF n, f, Good, Bad
  <2>1. \E g : EraseRun(c, keys, n, g)
    BY <1>1, EraseRounds
  <2> QED
    BY <2>1 DEF f, EraseRun
<1>3. d = f[n]
  BY DEF EraseEach
<1> HIDE DEF f, n
<1>4. /\ 0 \in 0..n /\ f[0] = c
      /\ \A m \in 1..n : m - 1 \in 0..n /\ f[m] = EraseLocked(f[m-1], keys[m])
  <2>1. 0 \in 0..n /\ \A m \in 1..n : m \in 0..n /\ m # 0 /\ m - 1 \in 0..n
    BY <1>1
  <2> QED
    BY <1>2, <2>1 DEF EraseRun
<1>5. Good(c, 0)
  <2>1. Erased(c, c)
    BY DEF Erased, Within
  <2>2. \A l \in 1..0 : FALSE
    OBVIOUS
  <2> QED
    BY <2>1, <2>2
<1>6. ASSUME NEW m \in 1..n, m - 1 \notin Bad PROVE m \notin Bad
  <2> DEFINE x == f[m-1]
             y == f[m]
             k == keys[m]
  <2>1. Good(x, m - 1) /\ y = EraseLocked(x, k) /\ k \in Keys
    BY <1>1, <1>4, <1>6
  <2> HIDE DEF x, y, k
  <2>2. /\ Sound(y, X) /\ Erased(y, x) /\ StoredKeys(y) = StoredKeys(x) \ {k}
        /\ (k \in StoredKeys(x) \/ Accounted(x)) => Accounted(y)
    BY <2>1, ErasedKey
  <2>3. Erased(y, c)
    BY <2>1, <2>2, ErasedTwice DEF Sound
  <2>4. \A l \in 1..m : l = m \/ l \in 1..(m - 1)
    BY <1>1
  <2>5. \A l \in 1..(m - 1) : l \in 1..m
    BY <1>1
  <2>6. m \in 1..m
    BY <1>1
  <2>7. ASSUME NEW j \in Keys
        PROVE  j \in StoredKeys(y) <=> (j \in StoredKeys(c) /\ \A l \in 1..m : keys[l] # j)
    <3>1. j \in StoredKeys(x) <=> (j \in StoredKeys(c) /\ \A l \in 1..(m - 1) : keys[l] # j)
      BY <2>1
    <3>2. (\A l \in 1..m : keys[l] # j) <=> (j # k /\ \A l \in 1..(m - 1) : keys[l] # j)
      BY <2>4, <2>5, <2>6 DEF k
    <3> QED
      BY <3>1, <3>2, <2>2
  <2>8. ASSUME Accounted(c) \/ \E l \in 1..m : keys[l] \in StoredKeys(c) PROVE Accounted(y)
    <3>1. CASE Accounted(c) \/ \E l \in 1..(m - 1) : keys[l] \in StoredKeys(c)
      BY <3>1, <2>1, <2>2
    <3>2. CASE ~(Accounted(c) \/ \E l \in 1..(m - 1) : keys[l] \in StoredKeys(c))
      <4>1. k \in StoredKeys(c)
        BY <3>2, <2>8, <2>4 DEF k
      <4>2. \A l \in 1..(m - 1) : keys[l] # k
        BY <3>2, <4>1
      <4>3. k \in StoredKeys(x)
        BY <4>1, <4>2, <2>1
      <4> QED
        BY <4>3, <2>2
    <3> QED
      BY <3>1, <3>2
  <2> QED
    BY <2>2, <2>3, <2>7, <2>8 DEF y
<1>7. Bad = {}
  <2>1. Bad \in SUBSET (0..n) /\ 0 \notin Bad
    BY <1>4, <1>5
  <2> HIDE DEF Bad
  <2> QED
    BY <1>1, <1>6, <2>1, NoLeastFailure
<1>8. Good(d, n)
  <2>1. n \in 0..n
    BY <1>1
  <2> QED
    BY <1>3, <1>7, <2>1
<1> QED
  BY <1>1, <1>8 DEF Lists

LEMMA ErasedSet ==
  ASSUME NEW c, NEW X, Sound(c, X), NEW S \in SUBSET Keys, NEW d, d = EraseAll(c, S)
  PROVE  /\ Sound(d, X) /\ Erased(d, c)
         /\ \A k \in Keys : k \in StoredKeys(d) <=> (k \in StoredKeys(c) /\ k \notin S)
         /\ (Accounted(c) \/ \E k \in StoredKeys(c) : k \in S) => Accounted(d)
<1> DEFINE keys == SetToSeq(S)
<1>1. IsFiniteSet(S)
  BY CacheConstants, FS_Subset
<1>2. keys \in Seq(S) /\ \A x : Lists(keys, x) <=> x \in S
  BY <1>1, SetAsList
<1>3. d = EraseEach(c, keys)
  BY DEF EraseAll
<1> HIDE DEF keys
<1>4. keys \in Seq(Keys)
  BY <1>2
<1> QED
  BY <1>2, <1>3, <1>4, ErasedKeys
-----------------------------------------------------------------------------
(* Eviction.                                                                *)

\* An empty cache takes no memory.
LEMMA EmptyEstimate ==
  ASSUME NEW c, Sound(c, {}), Accounted(c), StoredKeys(c) = {}
  PROVE  c.total_memory_bytes_ = 0
<1>1. \A i \in ItemIds : c.item_to_cache_keys_[i] = {}
  <2>1. c.item_to_cache_keys_ \in [ItemIds -> SUBSET Keys]
    BY DEF Sound, Sized, CacheShape
  <2>2. \A i \in ItemIds, k \in Keys : k \notin c.item_to_cache_keys_[i]
    BY DEF Sound
  <2> QED
    BY <2>1, <2>2
<1>2. Indexed(c) = {}
  BY <1>1 DEF Indexed
<1> QED
  BY <1>2 DEF Accounted, EstimateMemoryLocked

\* c with what is required more stays within the limit.
Roomy(c, required) == c.total_memory_bytes_ + required <= MaxMemory

\* The state of the eviction loop.
Evicting(at, c) ==
  /\ at = [c |-> at.c, evicted |-> at.evicted] /\ at.evicted \in Nat
  /\ Sound(at.c, {}) /\ Accounted(at.c) /\ Erased(at.c, c)

\* One round of the eviction.
LEMMA EvictRound ==
  ASSUME NEW c, Sized(c), NEW x, Evicting(x, c), NEW k \in Keys, NEW required \in Nat,
         NEW y, y = EvictNext(x, k, required)
  PROVE  /\ Evicting(y, c) /\ StoredKeys(y.c) \subseteq StoredKeys(x.c)
         /\ \/ k \notin StoredKeys(y.c) /\ ~(Roomy(x.c, required) /\ x.evicted >= BatchSize)
            \/ y = x /\ Roomy(x.c, required) /\ x.evicted >= BatchSize
<1> DEFINE go == x.c.total_memory_bytes_ + required > MaxMemory \/ x.evicted < BatchSize
<1>0. x.c.total_memory_bytes_ \in Nat /\ x.evicted \in Nat /\ MaxMemory \in Nat /\ BatchSize \in Nat
  BY CacheConstants DEF Evicting, Sound, Sized, CacheShape
<1>1. ~go <=> (Roomy(x.c, required) /\ x.evicted >= BatchSize)
  BY <1>0 DEF Roomy
<1>2. y = IF go THEN [c |-> EraseLocked(x.c, k), evicted |-> x.evicted + 1] ELSE x
  BY DEF EvictNext
<1> HIDE DEF go
<1>3. CASE ~go
  BY <1>1, <1>2, <1>3
<1>4. CASE go
  <2>1. y = [c |-> EraseLocked(x.c, k), evicted |-> x.evicted + 1]
    BY <1>2, <1>4
  <2>2. y.c = EraseLocked(x.c, k) /\ y.evicted = x.evicted + 1 /\ y = [c |-> y.c, evicted |-> y.evicted]
    BY <2>1
  <2>3. /\ Sound(y.c, {}) /\ Erased(y.c, x.c) /\ StoredKeys(y.c) = StoredKeys(x.c) \ {k}
        /\ Accounted(y.c)
    BY <2>2, ErasedKey DEF Evicting
  <2>4. Erased(y.c, c)
    BY <2>3, ErasedTwice DEF Evicting
  <2>5. y.evicted \in Nat
    BY <2>2, <1>0
  <2> QED
    BY <1>1, <1>4, <2>2, <2>3, <2>4, <2>5 DEF Evicting
<1> QED
  BY <1>3, <1>4

\* EvictForSpace makes room for what is required, or empties the cache.
LEMMA EvictKeeps ==
  ASSUME NEW c, Sound(c, {}), Accounted(c), NEW required \in Nat, required <= MaxMemory,
         NEW d, d = EvictForSpace(c, required)
  PROVE  Sound(d, {}) /\ Accounted(d) /\ Erased(d, c) /\ Roomy(d, required)
<1>r. Erased(c, c)
  BY DEF Erased, Within
<1>s. Sized(c) /\ c.lru_list_ \in Seq(Keys) /\ c.total_memory_bytes_ \in Nat
  BY DEF Sound, Sized, CacheShape
<1>c. MaxMemory \in Nat
  BY CacheConstants
<1>a. CASE Roomy(c, required)
  <2>1. d = c
    BY <1>a DEF EvictForSpace, Roomy
  <2> QED
    BY <1>a, <1>r, <2>1
<1>b. CASE ~Roomy(c, required)
  <2> DEFINE keys == Reverse(c.lru_list_)
             n == Len(keys)
             base == [c |-> c, evicted |-> 0]
             f == CHOOSE f : f = [k \in 0..n |-> IF k = 0 THEN base ELSE EvictNext(f[k-1], keys[k], required)]
             Good(x, m) == /\ Evicting(x, c)
                           /\ \/ \A l \in 1..m : keys[l] \notin StoredKeys(x.c)
                              \/ Roomy(x.c, required) /\ x.evicted >= BatchSize
             Bad == {m \in 0..n : ~Good(f[m], m)}
  <2>1. keys \in Seq(Keys) /\ \A k \in Keys : Lists(c.lru_list_, k) => Lists(keys, k)
    BY <1>s, ReversedList
  <2>2. d = f[n].c
    BY <1>b DEF EvictForSpace, EvictEach, Roomy
  <2> HIDE DEF keys
  <2>3. n \in Nat /\ DOMAIN keys = 1..n /\ \A l \in 1..n : keys[l] \in Keys
    BY <2>1
  <2>4. EvictRun(base, keys, required, n, f)
    <3> HIDE DEF n, f, Good, Bad, base
    <3>1. \E g : EvictRun(base, keys, required, n, g)
      BY <2>3, EvictRounds
    <3> QED
      BY <3>1 DEF f, EvictRun
  <2>5. Evicting(base, c)
    BY <1>r DEF Evicting
  <2> HIDE DEF f, n, base
  <2>6. /\ 0 \in 0..n /\ n \in 0..n /\ f[0] = base
        /\ \A m \in 1..n : m - 1 \in 0..n /\ f[m] = EvictNext(f[m-1], keys[m], required)
    <3>1. 0 \in 0..n /\ n \in 0..n /\ \A m \in 1..n : m \in 0..n /\ m # 0 /\ m - 1 \in 0..n
      BY <2>3
    <3> QED
      BY <2>4, <3>1 DEF EvictRun
  <2>7. ASSUME NEW m \in 1..n, m - 1 \notin Bad PROVE m \notin Bad
    <3> DEFINE x == f[m-1]
               y == f[m]
               k == keys[m]
    <3>1. Good(x, m - 1) /\ y = EvictNext(x, k, required) /\ k \in Keys
      BY <2>3, <2>6, <2>7
    <3> HIDE DEF x, y, k
    <3>2. /\ Evicting(y, c) /\ StoredKeys(y.c) \subseteq StoredKeys(x.c)
          /\ \/ k \notin StoredKeys(y.c) /\ ~(Roomy(x.c, required) /\ x.evicted >= BatchSize)
             \/ y = x /\ Roomy(x.c, required) /\ x.evicted >= BatchSize
      BY <3>1, <1>s, EvictRound
    <3>3. \A l \in 1..m : l = m \/ l \in 1..(m - 1)
      BY <2>3
    <3>4. CASE y = x /\ Roomy(x.c, required) /\ x.evicted >= BatchSize
      BY <3>2, <3>4 DEF y
    <3>5. CASE k \notin StoredKeys(y.c) /\ ~(Roomy(x.c, required) /\ x.evicted >= BatchSize)
      <4>1. \A l \in 1..(m - 1) : keys[l] \notin StoredKeys(x.c)
        BY <3>1, <3>5
      <4>2. \A l \in 1..m : keys[l] \notin StoredKeys(y.c)
        BY <4>1, <3>2, <3>3, <3>5 DEF k
      <4> QED
        BY <4>2, <3>2 DEF y
    <3> QED
      BY <3>2, <3>4, <3>5
  <2>8. Bad = {}
    <3>1. \A l \in 1..0 : FALSE
      OBVIOUS
    <3>2. Bad \in SUBSET (0..n) /\ 0 \notin Bad
      BY <2>5, <2>6, <3>1
    <3> HIDE DEF Bad
    <3> QED
      BY <2>3, <2>7, <3>2, NoLeastFailure
  <2>9. Good(f[n], n)
    BY <2>6, <2>8
  <2>10. Sound(d, {}) /\ Accounted(d) /\ Erased(d, c)
    BY <2>2, <2>9 DEF Evicting
  <2>11. CASE Roomy(d, required)
    BY <2>10, <2>11
  <2>12. CASE \A l \in 1..n : keys[l] \notin StoredKeys(d)
    <3>1. ASSUME NEW k \in StoredKeys(d) PROVE FALSE
      <4>1. k \in StoredKeys(c) /\ k \in Keys
        BY <2>10 DEF Erased, Within, StoredKeys
      <4>2. Lists(keys, k)
        BY <4>1, <2>1 DEF Sound
      <4> QED
        BY <4>2, <2>3, <2>12 DEF Lists
    <3>2. d.total_memory_bytes_ = 0
      BY <3>1, <2>10, EmptyEstimate
    <3> QED
      BY <3>2, <2>10, <1>c DEF Roomy
  <2> QED
    BY <2>2, <2>9, <2>11, <2>12
<1> QED
  BY <1>a, <1>b
-----------------------------------------------------------------------------
(* Insertion.                                                               *)

LEMMA TrackRound ==
  ASSUME NEW x \in Seq(ItemIds), NEW i \in ItemIds, NEW y, y = Track(x, i)
  PROVE  y \in Seq(ItemIds) /\ ToSet(x) \subseteq ToSet(y)
<1>1. y = x \/ y = Append(x, i)
  BY DEF Track
<1>2. CASE y = x
  BY <1>2
<1>3. CASE y = Append(x, i)
  <2>1. y \in Seq(ItemIds) /\ DOMAIN x \subseteq DOMAIN y /\ \A a \in DOMAIN x : y[a] = x[a]
    BY <1>3
  <2> QED
    BY <2>1 DEF ToSet
<1> QED
  BY <1>1, <1>2, <1>3

\* The ids tracked before stay.
LEMMA TrackedIds ==
  ASSUME NEW old \in Seq(ItemIds), NEW item_ids \in Seq(ItemIds), NEW ids, ids = Tracked(old, item_ids)
  PROVE  ids \in Seq(ItemIds) /\ ToSet(old) \subseteq ToSet(ids)
<1> DEFINE n == Len(item_ids)
           f == CHOOSE f : f = [k \in 0..n |-> IF k = 0 THEN old ELSE Track(f[k-1], item_ids[k])]
           Good(x) == x \in Seq(ItemIds) /\ ToSet(old) \subseteq ToSet(x)
           Bad == {m \in 0..n : ~Good(f[m])}
<1>1. n \in Nat /\ \A l \in 1..n : item_ids[l] \in ItemIds
  OBVIOUS
<1>2. TrackRun(old, item_ids, n, f)
  <2> HIDE DEF n, f, Good, Bad
  <2>1. \E g : TrackRun(old, item_ids, n, g)
    BY <1>1, TrackRounds
  <2> QED
    BY <2>1 DEF f, TrackRun
<1>3. ids = f[n]
  BY DEF Tracked
<1> HIDE DEF f, n
<1>4. /\ 0 \in 0..n /\ n \in 0..n /\ f[0] = old
      /\ \A m \in 1..n : m - 1 \in 0..n /\ f[m] = Track(f[m-1], item_ids[m])
  <2>1. 0 \in 0..n /\ n \in 0..n /\ \A m \in 1..n : m \in 0..n /\ m # 0 /\ m - 1 \in 0..n
    BY <1>1
  <2> QED
    BY <1>2, <2>1 DEF TrackRun
<1>5. ASSUME NEW m \in 1..n, m - 1 \notin Bad PROVE m \notin Bad
  <2>1. Good(f[m-1]) /\ f[m] = Track(f[m-1], item_ids[m]) /\ item_ids[m] \in ItemIds
    BY <1>1, <1>4, <1>5
  <2>2. f[m] \in Seq(ItemIds) /\ ToSet(f[m-1]) \subseteq ToSet(f[m])
    BY <2>1, TrackRound
  <2> QED
    BY <2>1, <2>2
<1>6. Bad = {}
  <2>1. Bad \in SUBSET (0..n) /\ 0 \notin Bad
    BY <1>4
  <2> HIDE DEF Bad
  <2> QED
    BY <1>1, <1>5, <2>1, NoLeastFailure
<1> QED
  BY <1>3, <1>4, <1>6

\* A key put in front of a list.
LEMMA FrontList ==
  ASSUME NEW R, NEW list \in Seq(R), Distinct(list), NEW k \in R, ~Lists(list, k), NEW l, l = <<k>> \o list
  PROVE  l \in Seq(R) /\ Distinct(l) /\ \A x : Lists(l, x) <=> (x = k \/ Lists(list, x))
<1> DEFINE n == Len(list)
<1>1. n \in Nat /\ DOMAIN list = 1..n
  OBVIOUS
<1>2. l \in Seq(R) /\ DOMAIN l = 1..(n + 1) /\ l[1] = k /\ \A a \in 1..n : l[a + 1] = list[a]
  OBVIOUS
<1> HIDE DEF n
<1>3. \A a \in 1..(n + 1) : a = 1 \/ (a - 1 \in 1..n /\ l[a] = list[a - 1])
  <2>1. ASSUME NEW a \in 1..(n + 1), a # 1 PROVE a - 1 \in 1..n /\ l[a] = list[a - 1]
    <3>1. a - 1 \in 1..n /\ (a - 1) + 1 = a
      BY <1>1, <2>1
    <3>2. l[(a - 1) + 1] = list[a - 1]
      BY <3>1, <1>2
    <3> QED
      BY <3>1, <3>2
  <2> QED
    BY <2>1
<1>4. \A a \in 1..n : list[a] # k /\ a + 1 \in 1..(n + 1)
  <2>1. \A a \in 1..n : list[a] # k
    BY <1>1 DEF Lists
  <2>2. \A a \in 1..n : a + 1 \in 1..(n + 1)
    BY <1>1
  <2> QED
    BY <2>1, <2>2
<1>5. ASSUME NEW a \in 1..(n + 1), NEW b \in 1..(n + 1), l[a] = l[b] PROVE a = b
  <2>1. CASE a = 1 /\ b = 1
    BY <2>1
  <2>2. CASE a = 1 /\ b # 1
    <3>1. l[a] = k /\ b - 1 \in 1..n /\ l[b] = list[b - 1]
      BY <2>2, <1>2, <1>3
    <3> QED
      BY <3>1, <1>4, <1>5
  <2>3. CASE a # 1 /\ b = 1
    <3>1. l[b] = k /\ a - 1 \in 1..n /\ l[a] = list[a - 1]
      BY <2>3, <1>2, <1>3
    <3> QED
      BY <3>1, <1>4, <1>5
  <2>4. CASE a # 1 /\ b # 1
    <3>1. a - 1 \in 1..n /\ b - 1 \in 1..n /\ list[a - 1] = list[b - 1]
      BY <2>4, <1>3, <1>5
    <3>2. a - 1 = b - 1
      BY <3>1, <1>1 DEF Distinct
    <3> QED
      BY <3>2
  <2> QED
    BY <2>1, <2>2, <2>3, <2>4
<1>6. Distinct(l)
  BY <1>2, <1>5 DEF Distinct
<1>7. ASSUME NEW x, Lists(l, x) PROVE x = k \/ Lists(list, x)
  BY <1>7, <1>1, <1>2, <1>3 DEF Lists
<1>8. ASSUME NEW x, x = k \/ Lists(list, x) PROVE Lists(l, x)
  <2>1. CASE x = k
    <3>1. 1 \in 1..(n + 1)
      BY <1>1
    <3> QED
      BY <2>1, <3>1, <1>2 DEF Lists
  <2>2. CASE Lists(list, x)
    <3>1. PICK a \in 1..n : list[a] = x
      BY <2>2, <1>1 DEF Lists
    <3>2. a + 1 \in 1..(n + 1) /\ l[a + 1] = x
      BY <3>1, <1>2, <1>4
    <3> QED
      BY <3>2, <1>2 DEF Lists
  <2> QED
    BY <1>8, <2>1, <2>2
<1> QED
  BY <1>2, <1>6, <1>7, <1>8

\* Growing the tables changes the number of buckets only.
LEMMA GrownFields ==
  ASSUME NEW c, Sized(c), NEW d, d = Grown(c)
  PROVE  /\ Sized(d) /\ d.cache_map_ = c.cache_map_ /\ d.lru_list_ = c.lru_list_
         /\ d.item_to_cache_keys_ = c.item_to_cache_keys_ /\ StoredKeys(d) = StoredKeys(c)
<1> DEFINE a == c.buckets
           b == Cardinality(StoredKeys(c)) + Cardinality(Indexed(c))
           m == Max({a, b})
<1>1. a \in Nat /\ b \in Nat /\ c \in CacheShape
  <2>1. Cardinality(StoredKeys(c)) \in Nat /\ Cardinality(Indexed(c)) \in Nat
    BY TermsTyped, FS_CardinalityType
  <2> QED
    BY <2>1 DEF Sized, CacheShape
<1>2. d = [c EXCEPT !.buckets = m]
  BY DEF Grown
<1> HIDE DEF a, b
<1>3. m \in Nat
  <2>1. a \in {a, b} /\ b \in {a, b} /\ ((\A y \in {a, b} : a >= y) \/ (\A y \in {a, b} : b >= y))
    BY <1>1
  <2>2. \E x \in {a, b} : \A y \in {a, b} : x >= y
    BY <2>1
  <2>3. m \in {a, b}
    BY <2>2 DEF Max
  <2> QED
    BY <2>3, <1>1
<1> HIDE DEF m
<1>4. /\ d \in CacheShape /\ d.cache_map_ = c.cache_map_ /\ d.lru_list_ = c.lru_list_
      /\ d.item_to_cache_keys_ = c.item_to_cache_keys_
  BY <1>1, <1>2, <1>3 DEF CacheShape
<1>5. StoredKeys(d) = StoredKeys(c)
  BY <1>4 DEF StoredKeys
<1> QED
  BY <1>4, <1>5 DEF Sized

\* What Sound says does not depend on the account and the buckets.
LEMMA SoundFields ==
  ASSUME NEW c, NEW X, Sound(c, X), NEW d, Sized(d), d.cache_map_ = c.cache_map_, d.lru_list_ = c.lru_list_,
         d.item_to_cache_keys_ = c.item_to_cache_keys_
  PROVE  Sound(d, X)
<1>1. StoredKeys(d) = StoredKeys(c)
  BY DEF StoredKeys
<1> QED
  BY <1>1 DEF Sound
-----------------------------------------------------------------------------
(* The operations on the members of the cache.                              *)

\* c with the new entry e of k.
Added(c, k, e) == Grown([c EXCEPT !.cache_map_[k] = e, !.lru_list_ = <<k>> \o @])

\* A new entry goes to the front of the list; it tracks nothing yet.
LEMMA PutEntry ==
  ASSUME NEW c, Sound(c, {}), NEW k \in Keys, k \notin StoredKeys(c),
         NEW e \in EntryShape, e.size \in Nat, e.ids = <<>>,
         NEW d, d = Added(c, k, e)
  PROVE  Sound(d, {}) /\ d.cache_map_ = [c.cache_map_ EXCEPT ![k] = e] /\ k \in StoredKeys(d)
<1> DEFINE map == [c.cache_map_ EXCEPT ![k] = e]
           list == <<k>> \o c.lru_list_
           p == [c EXCEPT !.cache_map_ = map, !.lru_list_ = list]
<1>1. /\ c \in CacheShape /\ c.cache_map_ \in [Keys -> EntryShape] /\ c.lru_list_ \in Seq(Keys)
      /\ c.item_to_cache_keys_ \in [ItemIds -> SUBSET Keys]
  BY DEF Sound, Sized, CacheShape
<1>2. map \in [Keys -> EntryShape] /\ \A j \in Keys : map[j] = IF j = k THEN e ELSE c.cache_map_[j]
  BY <1>1
<1>3. list \in Seq(Keys) /\ Distinct(list) /\ \A x : Lists(list, x) <=> (x = k \/ Lists(c.lru_list_, x))
  <2>1. ~Lists(c.lru_list_, k) /\ Distinct(c.lru_list_)
    BY DEF Sound
  <2>2. \A old \in Seq(Keys) : Distinct(old) /\ ~Lists(old, k) =>
          LET l == <<k>> \o old
          IN l \in Seq(Keys) /\ Distinct(l) /\ \A x : Lists(l, x) <=> (x = k \/ Lists(old, x))
    BY FrontList
  <2> QED
    BY <1>1, <2>1, <2>2
<1>4. d = Grown(p)
  BY DEF Added
<1>5. ToSet(e.ids) = {} /\ e # NoEntry
  <2>1. DOMAIN e.ids = {}
    OBVIOUS
  <2>2. NoEntry.size = -1
    BY DEF NoEntry
  <2> QED
    BY <2>1, <2>2 DEF ToSet
<1> HIDE DEF map, list
<1>6. /\ p \in CacheShape /\ p.cache_map_ = map /\ p.lru_list_ = list
      /\ p.item_to_cache_keys_ = c.item_to_cache_keys_
  BY <1>1, <1>2, <1>3 DEF CacheShape
<1> HIDE DEF p
<1>7. \A j \in Keys : j \in StoredKeys(p) <=> (j = k \/ j \in StoredKeys(c))
  BY <1>2, <1>5, <1>6 DEF StoredKeys
<1>8. \A j \in StoredKeys(p) : j \in Keys
  BY DEF StoredKeys
<1>9. Sized(p)
  BY <1>2, <1>6, <1>7, <1>8 DEF Sound, Sized
<1>10. ASSUME NEW i \in ItemIds, NEW j \in Keys
       PROVE  j \in p.item_to_cache_keys_[i] <=>
                (i \notin {} /\ j \in StoredKeys(p) /\ i \in ToSet(p.cache_map_[j].ids))
  <2>1. j \in c.item_to_cache_keys_[i] <=>
          (i \notin {} /\ j \in StoredKeys(c) /\ i \in ToSet(c.cache_map_[j].ids))
    BY DEF Sound
  <2>2. CASE j = k
    BY <2>1, <2>2, <1>2, <1>5, <1>6
  <2>3. CASE j # k
    BY <2>1, <2>3, <1>2, <1>6, <1>7
  <2> QED
    BY <2>2, <2>3
<1>11. \A j \in Keys : Lists(p.lru_list_, j) <=> j \in StoredKeys(p)
  BY <1>3, <1>6, <1>7 DEF Sound
<1>12. Sound(p, {})
  BY <1>3, <1>6, <1>9, <1>10, <1>11 DEF Sound
<1>13. /\ Sized(d) /\ d.cache_map_ = p.cache_map_ /\ d.lru_list_ = p.lru_list_
       /\ d.item_to_cache_keys_ = p.item_to_cache_keys_ /\ StoredKeys(d) = StoredKeys(p)
  BY <1>4, <1>9, GrownFields
<1>14. Sound(d, {})
  BY <1>12, <1>13, SoundFields
<1> QED
  BY <1>6, <1>7, <1>13, <1>14 DEF map

\* The entry of k with more ids.
Registered(e, ids) == [e EXCEPT !.ids = ids]

LEMMA RegisteredEntry ==
  ASSUME NEW c, Sound(c, {}), NEW k \in StoredKeys(c), NEW item_ids \in Seq(ItemIds),
         NEW ids, ids = Tracked(c.cache_map_[k].ids, item_ids),
         NEW d, d = RegisterResultItemsLocked(c, k, item_ids)
  PROVE  /\ Sound(d, {}) /\ d.cache_map_ = [c.cache_map_ EXCEPT ![k] = Registered(c.cache_map_[k], ids)]
         /\ StoredKeys(d) = StoredKeys(c)
<1> DEFINE old == c.cache_map_[k]
           e == Registered(old, ids)
           map == [c.cache_map_ EXCEPT ![k] = e]
           rows == [i \in ItemIds |-> IF i \in ToSet(ids) THEN c.item_to_cache_keys_[i] \cup {k}
                                      ELSE c.item_to_cache_keys_[i]]
           p == [c EXCEPT !.cache_map_ = map, !.item_to_cache_keys_ = rows]
<1>1. /\ c \in CacheShape /\ c.cache_map_ \in [Keys -> EntryShape] /\ c.lru_list_ \in Seq(Keys)
      /\ c.item_to_cache_keys_ \in [ItemIds -> SUBSET Keys] /\ k \in Keys /\ old.size \in Nat
  BY DEF Sound, Sized, CacheShape, StoredKeys
<1>2. old \in EntryShape /\ old.ids \in Seq(ItemIds)
  BY <1>1 DEF EntryShape
<1>3. ids \in Seq(ItemIds) /\ ToSet(old.ids) \subseteq ToSet(ids)
  BY <1>2, TrackedIds
<1>4. e \in EntryShape /\ e.size = old.size /\ e.ids = ids /\ e # NoEntry
  <2>1. e \in EntryShape /\ e.size = old.size /\ e.ids = ids
    BY <1>2, <1>3 DEF EntryShape, Registered
  <2>2. NoEntry.size = -1
    BY DEF NoEntry
  <2> HIDE DEF e
  <2> QED
    BY <1>1, <2>1, <2>2
<1>5. d = Grown(p)
  BY <1>1 DEF RegisterResultItemsLocked, Registered
<1> HIDE DEF e, old
<1>6. map \in [Keys -> EntryShape] /\ \A j \in Keys : map[j] = IF j = k THEN e ELSE c.cache_map_[j]
  BY <1>1, <1>4
<1>7. /\ rows \in [ItemIds -> SUBSET Keys]
      /\ \A i \in ItemIds : rows[i] = IF i \in ToSet(ids) THEN c.item_to_cache_keys_[i] \cup {k}
                                      ELSE c.item_to_cache_keys_[i]
  BY <1>1
<1> HIDE DEF map, rows
<1>8. /\ p \in CacheShape /\ p.cache_map_ = map /\ p.lru_list_ = c.lru_list_
      /\ p.item_to_cache_keys_ = rows
  BY <1>1, <1>6, <1>7 DEF CacheShape
<1> HIDE DEF p
<1>9. StoredKeys(p) = StoredKeys(c)
  BY <1>4, <1>6, <1>8 DEF StoredKeys
<1>10. Sized(p)
  <2>1. ASSUME NEW j \in StoredKeys(p) PROVE p.cache_map_[j].size \in Nat
    <3>1. j \in Keys /\ c.cache_map_[j].size \in Nat
      BY <1>9 DEF Sound, Sized, StoredKeys
    <3> QED
      BY <3>1, <1>1, <1>4, <1>6, <1>8
  <2> QED
    BY <1>8, <2>1 DEF Sized
<1>11. ASSUME NEW i \in ItemIds, NEW j \in Keys
       PROVE  j \in p.item_to_cache_keys_[i] <=>
                (i \notin {} /\ j \in StoredKeys(p) /\ i \in ToSet(p.cache_map_[j].ids))
  <2>1. j \in c.item_to_cache_keys_[i] <=>
          (i \notin {} /\ j \in StoredKeys(c) /\ i \in ToSet(c.cache_map_[j].ids))
    BY DEF Sound
  <2>2. CASE j = k
    <3>1. p.cache_map_[j].ids = ids /\ c.cache_map_[j].ids = old.ids
      BY <2>2, <1>4, <1>6, <1>8 DEF old
    <3>2. j \in p.item_to_cache_keys_[i] <=> (i \in ToSet(ids) \/ j \in c.item_to_cache_keys_[i])
      BY <2>2, <1>7, <1>8
    <3> QED
      BY <2>1, <2>2, <3>1, <3>2, <1>3, <1>9
  <2>3. CASE j # k
    <3>1. p.cache_map_[j] = c.cache_map_[j]
      BY <2>3, <1>6, <1>8
    <3>2. j \in p.item_to_cache_keys_[i] <=> j \in c.item_to_cache_keys_[i]
      BY <2>3, <1>7, <1>8
    <3> QED
      BY <2>1, <3>1, <3>2, <1>9
  <2> QED
    BY <2>2, <2>3
<1>12. Sound(p, {})
  BY <1>8, <1>9, <1>10, <1>11 DEF Sound
<1>13. /\ Sized(d) /\ d.cache_map_ = p.cache_map_ /\ d.lru_list_ = p.lru_list_
       /\ d.item_to_cache_keys_ = p.item_to_cache_keys_ /\ StoredKeys(d) = StoredKeys(p)
  BY <1>5, <1>10, GrownFields
<1>14. Sound(d, {})
  BY <1>12, <1>13, SoundFields
<1> QED
  BY <1>8, <1>9, <1>13, <1>14 DEF map, e, old

\* d has entries of c only, and is settled within the limit.
Settled(d, c) ==
  /\ Sound(d, {}) /\ Accounted(d) /\ d.total_memory_bytes_ <= MaxMemory
  /\ StoredKeys(d) \subseteq StoredKeys(c) /\ \A k \in StoredKeys(d) : d.cache_map_[k] = c.cache_map_[k]

LEMMA SettleKeeps ==
  ASSUME NEW c, Sound(c, {}), NEW d, d = Settle(c)
  PROVE  Settled(d, c)
<1> DEFINE e == RefreshMemoryLocked(c)
<1>1. /\ Sized(e) /\ e.cache_map_ = c.cache_map_ /\ e.lru_list_ = c.lru_list_
      /\ e.item_to_cache_keys_ = c.item_to_cache_keys_ /\ e.total_memory_bytes_ = EstimateMemoryLocked(e)
      /\ StoredKeys(e) = StoredKeys(c)
  BY Refreshed DEF Sound
<1>2. d = EvictForSpace(e, 0)
  BY DEF Settle
<1> HIDE DEF e
<1>3. Sound(e, {}) /\ Accounted(e)
  BY <1>1, SoundFields DEF Accounted
<1>4. MaxMemory \in Nat /\ 0 \in Nat /\ 0 <= MaxMemory
  BY CacheConstants
<1>5. Sound(d, {}) /\ Accounted(d) /\ Erased(d, e) /\ Roomy(d, 0)
  BY <1>2, <1>3, <1>4, EvictKeeps
<1>6. d.total_memory_bytes_ \in Nat
  BY <1>5 DEF Sound, Sized, CacheShape
<1>7. d.total_memory_bytes_ <= MaxMemory
  BY <1>4, <1>5, <1>6 DEF Roomy
<1>8. StoredKeys(d) \subseteq StoredKeys(c) /\ \A k \in StoredKeys(d) : d.cache_map_[k] = c.cache_map_[k]
  BY <1>1, <1>5 DEF Erased, Within
<1> QED
  BY <1>5, <1>7, <1>8 DEF Settled

\* Touch moves a cached key to the front of the list.
LEMMA TouchKeeps ==
  ASSUME NEW c, Sound(c, {}), Accounted(c), NEW k \in StoredKeys(c), NEW d, d = Touch(c, k)
  PROVE  /\ Sound(d, {}) /\ Accounted(d) /\ d.total_memory_bytes_ = c.total_memory_bytes_
         /\ d.cache_map_ = c.cache_map_ /\ StoredKeys(d) = StoredKeys(c)
<1> DEFINE rest == Unlinked(c.lru_list_, k)
           list == <<k>> \o rest
<1>1. c \in CacheShape /\ c.lru_list_ \in Seq(Keys) /\ k \in Keys /\ Distinct(c.lru_list_)
  BY DEF Sound, Sized, CacheShape, StoredKeys
<1>2. /\ rest \in Seq(Keys) /\ Distinct(rest)
      /\ \A x : Lists(rest, x) <=> (x # k /\ Lists(c.lru_list_, x))
  BY <1>1, UnlinkedList
<1>3. d = [c EXCEPT !.lru_list_ = list]
  BY DEF Touch
<1> HIDE DEF rest
<1>4. list \in Seq(Keys) /\ Distinct(list) /\ \A x : Lists(list, x) <=> (x = k \/ Lists(rest, x))
  BY <1>1, <1>2, FrontList
<1> HIDE DEF list
<1>5. /\ d \in CacheShape /\ d.cache_map_ = c.cache_map_ /\ d.lru_list_ = list /\ d.buckets = c.buckets
      /\ d.item_to_cache_keys_ = c.item_to_cache_keys_ /\ d.total_memory_bytes_ = c.total_memory_bytes_
  BY <1>1, <1>3, <1>4 DEF CacheShape
<1>6. StoredKeys(d) = StoredKeys(c)
  BY <1>5 DEF StoredKeys
<1>7. Sized(d)
  BY <1>5, <1>6 DEF Sound, Sized
<1>8. \A j \in Keys : Lists(d.lru_list_, j) <=> j \in StoredKeys(d)
  <2>1. \A j \in Keys : Lists(list, j) <=> Lists(c.lru_list_, j)
    BY <1>2, <1>4 DEF Sound
  <2> QED
    BY <2>1, <1>5, <1>6 DEF Sound
<1>9. Sound(d, {})
  BY <1>4, <1>5, <1>6, <1>7, <1>8 DEF Sound
<1>10. Within(d, c) /\ Within(c, d)
  BY <1>5, <1>6 DEF Within
<1>11. EstimateMemoryLocked(d) = EstimateMemoryLocked(c)
  BY <1>7, <1>10, EstimateSame DEF Sound
<1> QED
  BY <1>5, <1>6, <1>9, <1>11 DEF Accounted

\* c with the entry e under k.
Flagged(c, k, e) == [c EXCEPT !.cache_map_ = [c.cache_map_ EXCEPT ![k] = e]]

\* A flag of an entry changes.
LEMMA MarkKeeps ==
  ASSUME NEW c, Sound(c, {}), Accounted(c), NEW k \in StoredKeys(c),
         NEW e \in EntryShape, e.size = c.cache_map_[k].size, e.ids = c.cache_map_[k].ids,
         NEW d, d = Flagged(c, k, e)
  PROVE  /\ Sound(d, {}) /\ Accounted(d) /\ d.total_memory_bytes_ = c.total_memory_bytes_
         /\ d.cache_map_ = [c.cache_map_ EXCEPT ![k] = e] /\ StoredKeys(d) = StoredKeys(c)
<1> DEFINE map == [c.cache_map_ EXCEPT ![k] = e]
<1>1. /\ c \in CacheShape /\ c.cache_map_ \in [Keys -> EntryShape] /\ k \in Keys
      /\ c.cache_map_[k].size \in Nat
  BY DEF Sound, Sized, CacheShape, StoredKeys
<1>2. map \in [Keys -> EntryShape] /\ \A j \in Keys : map[j] = IF j = k THEN e ELSE c.cache_map_[j]
  BY <1>1
<1>3. e # NoEntry
  <2>1. NoEntry.size = -1
    BY DEF NoEntry
  <2> QED
    BY <1>1, <2>1
<1> HIDE DEF map
<1>4. /\ d \in CacheShape /\ d.cache_map_ = map /\ d.lru_list_ = c.lru_list_ /\ d.buckets = c.buckets
      /\ d.item_to_cache_keys_ = c.item_to_cache_keys_ /\ d.total_memory_bytes_ = c.total_memory_bytes_
  BY <1>1, <1>2 DEF CacheShape, map, Flagged
<1>5. StoredKeys(d) = StoredKeys(c)
  BY <1>2, <1>3, <1>4 DEF StoredKeys
<1>6. \A j \in Keys : /\ d.cache_map_[j].size = c.cache_map_[j].size
                      /\ d.cache_map_[j].ids = c.cache_map_[j].ids
  BY <1>2, <1>4
<1>7. \A j \in StoredKeys(c) : j \in Keys
  BY DEF StoredKeys
<1>8. Sized(d)
  BY <1>4, <1>5, <1>6, <1>7 DEF Sound, Sized
<1>9. Sound(d, {})
  BY <1>4, <1>5, <1>6, <1>8 DEF Sound
<1>10. Within(d, c) /\ Within(c, d)
  BY <1>4, <1>5, <1>6, <1>7 DEF Within
<1>11. EstimateMemoryLocked(d) = EstimateMemoryLocked(c)
  BY <1>8, <1>10, EstimateSame DEF Sound
<1> QED
  BY <1>4, <1>5, <1>9, <1>11 DEF Accounted, map
-----------------------------------------------------------------------------
(* The invariant of the cache.                                              *)

\* A lookup between its two locks names an entry it has seen.
Lookups == {Quiet} \cup [pc : {"touch", "erase"}, key : Keys, created_at : Nat \ {0}]

\* Every entry was created at a tick of the clock.
Dated(c) == \A k \in StoredKeys(c) : c.cache_map_[k].created_at # 0

Kept(c) == Sound(c, {}) /\ Accounted(c) /\ c.total_memory_bytes_ <= MaxMemory /\ Dated(c)

SimInv == Kept(cache) /\ clock \in Nat /\ reader \in [Readers -> Lookups]

\* d has entries of c only, as they are in c.
Forgets(d, c) == StoredKeys(d) \subseteq StoredKeys(c) /\ \A k \in StoredKeys(d) : d.cache_map_[k] = c.cache_map_[k]

LEMMA ForgetsDated ==
  ASSUME NEW c, Dated(c), NEW d, Forgets(d, c)
  PROVE  Dated(d)
BY DEF Dated, Forgets

\* What an erasure leaves is kept if it is accounted for.
LEMMA ErasedKept ==
  ASSUME NEW c, Kept(c), NEW d, Sound(d, {}), Accounted(d), Erased(d, c)
  PROVE  Kept(d) /\ Forgets(d, c)
<1>1. Forgets(d, c)
  BY DEF Erased, Within, Forgets
<1>2. EstimateMemoryLocked(d) <= EstimateMemoryLocked(c)
  BY EstimateShrinks DEF Kept, Sound, Erased
<1>3. d.total_memory_bytes_ \in Nat /\ c.total_memory_bytes_ \in Nat /\ MaxMemory \in Nat
  BY CacheConstants DEF Kept, Sound, Sized, CacheShape
<1>4. d.total_memory_bytes_ <= MaxMemory
  BY <1>2, <1>3 DEF Kept, Accounted
<1> QED
  BY <1>1, <1>4, ForgetsDated DEF Kept

LEMMA EraseKept ==
  ASSUME NEW c, Kept(c), NEW k \in Keys, NEW d, d = EraseLocked(c, k)
  PROVE  Kept(d) /\ Forgets(d, c) /\ StoredKeys(d) = StoredKeys(c) \ {k}
<1>1. Sound(d, {}) /\ Erased(d, c) /\ StoredKeys(d) = StoredKeys(c) \ {k} /\ Accounted(d)
  BY ErasedKey DEF Kept
<1> QED
  BY <1>1, ErasedKept

LEMMA EraseAllKept ==
  ASSUME NEW c, Kept(c), NEW S \in SUBSET Keys, NEW d, d = EraseAll(c, S)
  PROVE  Kept(d) /\ Forgets(d, c)
<1>1. Sound(d, {}) /\ Erased(d, c) /\ Accounted(d)
  BY ErasedSet DEF Kept
<1> QED
  BY <1>1, ErasedKept

\* c after the invalidation of an item.
Invalidation(c, i) == EraseAll([c EXCEPT !.item_to_cache_keys_[i] = {}], c.item_to_cache_keys_[i])

\* InvalidateByItemId takes the row of the item out of the index first, and what it then erases
\* is exactly the entries that track the item.
LEMMA InvalidateKept ==
  ASSUME NEW c, Kept(c), NEW i \in ItemIds,
         NEW d, d = Invalidation(c, i)
  PROVE  /\ Kept(d) /\ Forgets(d, c)
         /\ \A k \in Keys : k \in StoredKeys(d) <=> (k \in StoredKeys(c) /\ i \notin ToSet(c.cache_map_[k].ids))
<1> DEFINE rows == [c.item_to_cache_keys_ EXCEPT ![i] = {}]
           S == c.item_to_cache_keys_[i]
           p == [c EXCEPT !.item_to_cache_keys_ = rows]
<1>1. c \in CacheShape /\ c.item_to_cache_keys_ \in [ItemIds -> SUBSET Keys] /\ Sound(c, {}) /\ Accounted(c)
  BY DEF Kept, Sound, Sized, CacheShape
<1>2. /\ rows \in [ItemIds -> SUBSET Keys]
      /\ \A j \in ItemIds : rows[j] = IF j = i THEN {} ELSE c.item_to_cache_keys_[j]
  BY <1>1
<1>3. d = EraseAll(p, S) /\ S \in SUBSET Keys
  BY <1>1 DEF Invalidation
<1> HIDE DEF rows
<1>4. /\ p \in CacheShape /\ p.cache_map_ = c.cache_map_ /\ p.lru_list_ = c.lru_list_
      /\ p.item_to_cache_keys_ = rows /\ p.buckets = c.buckets /\ p.total_memory_bytes_ = c.total_memory_bytes_
  BY <1>1, <1>2 DEF CacheShape
<1> HIDE DEF p
<1>5. StoredKeys(p) = StoredKeys(c)
  BY <1>4 DEF StoredKeys
<1>6. \A j \in ItemIds, k \in Keys : k \in c.item_to_cache_keys_[j] <=>
        (j \notin {} /\ k \in StoredKeys(c) /\ j \in ToSet(c.cache_map_[k].ids))
  BY <1>1 DEF Sound
<1>7. Sized(p)
  BY <1>1, <1>4, <1>5 DEF Sound, Sized
<1>8. Sound(p, {i})
  <2>1. ASSUME NEW j \in ItemIds, NEW k \in Keys
        PROVE  k \in p.item_to_cache_keys_[j] <=>
                 (j \notin {i} /\ k \in StoredKeys(p) /\ j \in ToSet(p.cache_map_[k].ids))
    BY <1>2, <1>4, <1>5, <1>6
  <2> QED
    BY <1>1, <1>4, <1>5, <1>7, <2>1 DEF Sound
<1>9. /\ Sound(d, {i}) /\ Erased(d, p)
      /\ \A k \in Keys : k \in StoredKeys(d) <=> (k \in StoredKeys(p) /\ k \notin S)
      /\ (Accounted(p) \/ \E k \in StoredKeys(p) : k \in S) => Accounted(d)
  BY <1>3, <1>8, ErasedSet
<1>10. \A k \in Keys : k \in StoredKeys(d) <=> (k \in StoredKeys(c) /\ i \notin ToSet(c.cache_map_[k].ids))
  BY <1>5, <1>6, <1>9
<1>11. Erased(p, c)
  BY <1>2, <1>4, <1>5 DEF Erased, Within
<1>12. Erased(d, c)
  BY <1>1, <1>9, <1>11, ErasedTwice DEF Sound
<1>13. Sound(d, {})
  <2>1. ASSUME NEW j \in ItemIds, NEW k \in Keys
        PROVE  k \in d.item_to_cache_keys_[j] <=>
                 (j \notin {} /\ k \in StoredKeys(d) /\ j \in ToSet(d.cache_map_[k].ids))
    <3>1. k \in d.item_to_cache_keys_[j] <=>
            (j \notin {i} /\ k \in StoredKeys(d) /\ j \in ToSet(d.cache_map_[k].ids))
      BY <1>9 DEF Sound
    <3>2. k \in StoredKeys(d) => d.cache_map_[k] = c.cache_map_[k]
      BY <1>12 DEF Erased
    <3>3. k \in StoredKeys(d) => i \notin ToSet(d.cache_map_[k].ids)
      BY <3>2, <1>10
    <3> QED
      BY <3>1, <3>3
  <2> QED
    BY <1>9, <2>1 DEF Sound
<1>14. Accounted(d)
  <2>1. CASE S = {}
    <3>1. \A j \in ItemIds : rows[j] = c.item_to_cache_keys_[j]
      BY <2>1, <1>2
    <3>2. Within(p, c) /\ Within(c, p)
      BY <3>1, <1>4, <1>5 DEF Within
    <3>3. EstimateMemoryLocked(p) = EstimateMemoryLocked(c)
      BY <3>2, <1>1, <1>7, EstimateSame DEF Sound
    <3>4. Accounted(p)
      BY <3>3, <1>1, <1>4 DEF Accounted
    <3> QED
      BY <3>4, <1>9
  <2>2. CASE S # {}
    <3>1. PICK k \in S : TRUE
      BY <2>2
    <3>2. k \in StoredKeys(p)
      BY <3>1, <1>3, <1>5, <1>6
    <3> QED
      BY <3>1, <3>2, <1>9
  <2> QED
    BY <2>1, <2>2
<1> QED
  BY <1>10, <1>12, <1>13, <1>14, ErasedKept

\* d has entries of c only, but for the ids of k as they are in c.
Renewed(d, c, k, ids) ==
  /\ StoredKeys(d) \subseteq StoredKeys(c)
  /\ \A j \in StoredKeys(d) : d.cache_map_[j] = IF j = k THEN Registered(c.cache_map_[k], ids) ELSE c.cache_map_[j]

\* The call gives k more ids and may evict anything.
LEMMA RegisterKept ==
  ASSUME NEW c, Kept(c), NEW k \in StoredKeys(c), NEW item_ids \in Seq(ItemIds),
         NEW ids, ids = Tracked(c.cache_map_[k].ids, item_ids),
         NEW d, d = Settle(RegisterResultItemsLocked(c, k, item_ids))
  PROVE  Kept(d) /\ Renewed(d, c, k, ids)
<1> DEFINE p == RegisterResultItemsLocked(c, k, item_ids)
<1>1. /\ Sound(p, {}) /\ p.cache_map_ = [c.cache_map_ EXCEPT ![k] = Registered(c.cache_map_[k], ids)]
      /\ StoredKeys(p) = StoredKeys(c)
  BY RegisteredEntry DEF Kept
<1> HIDE DEF p
<1>2. Settled(d, p)
  BY <1>1, SettleKeeps DEF p
<1>3. c.cache_map_ \in [Keys -> EntryShape] /\ \A j \in StoredKeys(c) : j \in Keys
  BY DEF Kept, Sound, Sized, CacheShape, StoredKeys
<1>4. StoredKeys(d) \subseteq StoredKeys(c)
  BY <1>1, <1>2 DEF Settled
<1>5. \A j \in StoredKeys(d) : d.cache_map_[j] = IF j = k THEN Registered(c.cache_map_[k], ids) ELSE c.cache_map_[j]
  BY <1>1, <1>2, <1>3, <1>4 DEF Settled
<1>6. Registered(c.cache_map_[k], ids).created_at = c.cache_map_[k].created_at
  <2>1. c.cache_map_[k] \in EntryShape
    BY <1>3
  <2> QED
    BY <2>1 DEF Registered, EntryShape
<1>7. Dated(d)
  BY <1>4, <1>5, <1>6 DEF Kept, Dated
<1> QED
  BY <1>2, <1>4, <1>5, <1>7 DEF Kept, Settled, Renewed

\* What is left after the first eviction of an insertion.
LEMMA RoomKept ==
  ASSUME NEW c, Kept(c), NEW required \in Nat, required <= MaxMemory, NEW d, d = EvictForSpace(c, required)
  PROVE  Kept(d) /\ Forgets(d, c)
<1>1. Sound(d, {}) /\ Accounted(d) /\ Erased(d, c)
  BY EvictKeeps DEF Kept
<1> QED
  BY <1>1, ErasedKept

\* The insertion after it.
LEMMA InsertKept ==
  ASSUME NEW c, Kept(c), NEW k \in Keys, k \notin StoredKeys(c), NEW item_ids \in Seq(ItemIds),
         NEW e \in EntryShape, e.size \in Nat, e.ids = <<>>, e.created_at # 0,
         NEW put, put = Added(c, k, e),
         NEW d, d = Settle(RegisterResultItemsLocked(put, k, item_ids))
  PROVE  /\ Kept(d) /\ StoredKeys(d) \subseteq StoredKeys(c) \cup {k}
         /\ \A j \in StoredKeys(d) : d.cache_map_[j] =
              IF j = k THEN Registered(e, Tracked(<<>>, item_ids)) ELSE c.cache_map_[j]
<1> DEFINE p == RegisterResultItemsLocked(put, k, item_ids)
           ids == Tracked(<<>>, item_ids)
<1>1. Sound(put, {}) /\ put.cache_map_ = [c.cache_map_ EXCEPT ![k] = e] /\ k \in StoredKeys(put)
  BY PutEntry DEF Kept
<1>2. c.cache_map_ \in [Keys -> EntryShape] /\ \A j \in StoredKeys(c) : j \in Keys
  BY DEF Kept, Sound, Sized, CacheShape, StoredKeys
<1>3. \A j \in Keys : put.cache_map_[j] = IF j = k THEN e ELSE c.cache_map_[j]
  BY <1>1, <1>2
<1>4. \A j \in StoredKeys(put) : j \in Keys /\ (j = k \/ j \in StoredKeys(c))
  BY <1>3 DEF StoredKeys
<1>5. ids = Tracked(put.cache_map_[k].ids, item_ids)
  BY <1>3
<1> HIDE DEF ids
<1>6. /\ Sound(p, {}) /\ p.cache_map_ = [put.cache_map_ EXCEPT ![k] = Registered(put.cache_map_[k], ids)]
      /\ StoredKeys(p) = StoredKeys(put)
  BY <1>1, <1>5, RegisteredEntry
<1> HIDE DEF p
<1>7. Settled(d, p)
  BY <1>6, SettleKeeps DEF p
<1>8. put.cache_map_ \in [Keys -> EntryShape]
  BY <1>1 DEF Sound, Sized, CacheShape
<1>9. \A j \in Keys : p.cache_map_[j] = IF j = k THEN Registered(e, ids) ELSE c.cache_map_[j]
  BY <1>3, <1>6, <1>8
<1>10. StoredKeys(d) \subseteq StoredKeys(c) \cup {k}
  BY <1>4, <1>6, <1>7 DEF Settled
<1>11. \A j \in StoredKeys(d) : d.cache_map_[j] = IF j = k THEN Registered(e, ids) ELSE c.cache_map_[j]
  BY <1>2, <1>7, <1>9, <1>10 DEF Settled
<1>12. Registered(e, ids).created_at = e.created_at
  BY DEF Registered, EntryShape
<1>13. Dated(d)
  BY <1>10, <1>11, <1>12 DEF Kept, Dated
<1> QED
  BY <1>7, <1>10, <1>11, <1>13 DEF Kept, Settled, ids

\* A flag of an entry is set; nothing else changes.
LEMMA FlagKept ==
  ASSUME NEW c, Kept(c), NEW k \in StoredKeys(c),
         NEW e \in EntryShape, e.size = c.cache_map_[k].size, e.ids = c.cache_map_[k].ids,
         e.created_at = c.cache_map_[k].created_at,
         NEW d, d = Flagged(c, k, e)
  PROVE  Kept(d) /\ StoredKeys(d) = StoredKeys(c) /\ \A j \in Keys : d.cache_map_[j] = IF j = k THEN e ELSE c.cache_map_[j]
<1>1. /\ Sound(d, {}) /\ Accounted(d) /\ d.total_memory_bytes_ = c.total_memory_bytes_
      /\ d.cache_map_ = [c.cache_map_ EXCEPT ![k] = e] /\ StoredKeys(d) = StoredKeys(c)
  BY MarkKeeps DEF Kept
<1>2. c.cache_map_ \in [Keys -> EntryShape] /\ \A j \in StoredKeys(c) : j \in Keys
  BY DEF Kept, Sound, Sized, CacheShape, StoredKeys
<1>3. \A j \in Keys : d.cache_map_[j] = IF j = k THEN e ELSE c.cache_map_[j]
  BY <1>1, <1>2
<1>4. Dated(d)
  BY <1>1, <1>2, <1>3 DEF Kept, Dated
<1> QED
  BY <1>1, <1>3, <1>4 DEF Kept

\* The entry of k with a flag set.
Invalidated(c, k) == [c.cache_map_[k] EXCEPT !.live = FALSE]
Expired(c, k) == [c.cache_map_[k] EXCEPT !.fresh = FALSE]

LEMMA FlaggedEntry ==
  ASSUME NEW c, Kept(c), NEW k \in StoredKeys(c), NEW e, e = Invalidated(c, k) \/ e = Expired(c, k)
  PROVE  /\ e \in EntryShape /\ e.size = c.cache_map_[k].size /\ e.ids = c.cache_map_[k].ids
         /\ e.created_at = c.cache_map_[k].created_at /\ ~(e.live /\ e.fresh)
<1>1. c.cache_map_[k] \in EntryShape
  BY DEF Kept, Sound, Sized, CacheShape, StoredKeys
<1>2. CASE e = Invalidated(c, k)
  BY <1>1, <1>2 DEF Invalidated, EntryShape
<1>3. CASE e = Expired(c, k)
  BY <1>1, <1>3 DEF Expired, EntryShape
<1> QED
  BY <1>2, <1>3

\* The two actions that set one.
LEMMA MarkStep ==
  ASSUME NEW k \in Keys, SimInv, MarkInvalidated(k) \/ Expire(k)
  PROVE  /\ Kept(cache') /\ k \in StoredKeys(cache) /\ StoredKeys(cache') = StoredKeys(cache)
         /\ \E e : /\ ~(e.live /\ e.fresh)
                   /\ \A j \in Keys : cache'.cache_map_[j] = IF j = k THEN e ELSE cache.cache_map_[j]
<1>1. k \in StoredKeys(cache) /\ Kept(cache)
  BY DEF MarkInvalidated, Expire, SimInv
<1>2. cache \in CacheShape /\ cache.cache_map_ \in [Keys -> EntryShape]
  BY <1>1 DEF Kept, Sound, Sized, CacheShape
<1>3. PICK e : /\ e = Invalidated(cache, k) \/ e = Expired(cache, k)
               /\ cache' = Flagged(cache, k, e)
  BY <1>2 DEF MarkInvalidated, Expire, Invalidated, Expired, Flagged
<1>4. /\ e \in EntryShape /\ e.size = cache.cache_map_[k].size /\ e.ids = cache.cache_map_[k].ids
      /\ e.created_at = cache.cache_map_[k].created_at /\ ~(e.live /\ e.fresh)
  BY <1>1, <1>3, FlaggedEntry
<1>5. /\ Kept(cache') /\ StoredKeys(cache') = StoredKeys(cache)
      /\ \A j \in Keys : cache'.cache_map_[j] = IF j = k THEN e ELSE cache.cache_map_[j]
  BY <1>1, <1>3, <1>4, FlagKept
<1> QED
  BY <1>1, <1>4, <1>5

EmptyCache(b) == [cache_map_ |-> [k \in Keys |-> NoEntry], lru_list_ |-> <<>>,
                  item_to_cache_keys_ |-> [i \in ItemIds |-> {}], total_memory_bytes_ |-> 0, buckets |-> b]

LEMMA EmptyKept ==
  ASSUME NEW b \in Nat, NEW d, d = EmptyCache(b)
  PROVE  Kept(d) /\ StoredKeys(d) = {}
<1> DEFINE map == [k \in Keys |-> NoEntry]
           rows == [i \in ItemIds |-> {}]
           list == <<>>
<1>1. map \in [Keys -> EntryShape] /\ rows \in [ItemIds -> SUBSET Keys] /\ list \in Seq(Keys) /\ DOMAIN list = {}
  BY NoEntryShape
<1>2. d = [cache_map_ |-> map, lru_list_ |-> list, item_to_cache_keys_ |-> rows, total_memory_bytes_ |-> 0,
           buckets |-> b]
  BY DEF EmptyCache
<1>3. (\A k \in Keys : map[k] = NoEntry) /\ \A i \in ItemIds : rows[i] = {}
  OBVIOUS
<1> HIDE DEF map, rows, list
<1>4. /\ d \in CacheShape /\ d.cache_map_ = map /\ d.lru_list_ = list /\ d.item_to_cache_keys_ = rows
      /\ d.total_memory_bytes_ = 0
  BY <1>1, <1>2 DEF CacheShape
<1>5. StoredKeys(d) = {} /\ Indexed(d) = {}
  BY <1>3, <1>4 DEF StoredKeys, Indexed
<1>6. Sized(d) /\ Accounted(d) /\ Dated(d)
  BY <1>4, <1>5 DEF Sized, Accounted, Dated, EstimateMemoryLocked
<1>7. DOMAIN d.lru_list_ = {}
  BY <1>1, <1>4
<1>8. Distinct(d.lru_list_) /\ \A k : ~Lists(d.lru_list_, k)
  BY <1>7 DEF Distinct, Lists
<1>9. Sound(d, {})
  BY <1>3, <1>4, <1>5, <1>6, <1>8 DEF Sound
<1>10. d.total_memory_bytes_ <= MaxMemory
  BY <1>4, CacheConstants
<1> QED
  BY <1>5, <1>6, <1>9, <1>10 DEF Kept

LEMMA ClearStep ==
  ASSUME SimInv, Clear
  PROVE  Kept(cache') /\ StoredKeys(cache') = {}
<1>1. cache \in CacheShape /\ cache.buckets \in Nat
  BY DEF SimInv, Kept, Sound, Sized, CacheShape
<1>2. cache' = EmptyCache(cache.buckets)
  BY <1>1 DEF Clear, EmptyCache, CacheShape
<1> QED
  BY <1>1, <1>2, EmptyKept

LEMMA FinishStep ==
  ASSUME NEW r \in Readers, SimInv, LookupFinish(r)
  PROVE  Kept(cache') /\ Forgets(cache', cache)
<1> DEFINE k == reader[r].key
<1>1. reader[r] \in Lookups /\ reader[r].pc # "idle"
  BY DEF SimInv, LookupFinish
<1>2. k \in Keys /\ reader[r].created_at # 0
  BY <1>1 DEF Lookups, Quiet
<1>3. Kept(cache)
  BY DEF SimInv
<1>4. Forgets(cache, cache)
  BY DEF Forgets
<1>5. \/ cache' = cache
      \/ SameEntry(r) /\ cache' = Touch(cache, k)
      \/ cache' = EraseLocked(cache, k)
  BY DEF LookupFinish
<1> HIDE DEF k
<1>6. CASE cache' = cache
  BY <1>3, <1>4, <1>6
<1>7. CASE SameEntry(r) /\ cache' = Touch(cache, k)
  <2>1. NoEntry.created_at = 0
    BY DEF NoEntry
  <2>2. k \in StoredKeys(cache)
    BY <1>2, <1>7, <2>1 DEF SameEntry, StoredKeys, k
  <2>3. /\ Sound(cache', {}) /\ Accounted(cache') /\ cache'.total_memory_bytes_ = cache.total_memory_bytes_
        /\ cache'.cache_map_ = cache.cache_map_ /\ StoredKeys(cache') = StoredKeys(cache)
    BY <1>3, <1>7, <2>2, TouchKeeps DEF Kept
  <2> QED
    BY <1>3, <2>3 DEF Kept, Dated, Forgets
<1>8. CASE cache' = EraseLocked(cache, k)
  BY <1>2, <1>3, <1>8, EraseKept
<1> QED
  BY <1>5, <1>6, <1>7, <1>8

\* What an insertion does to the cache: nothing, or it only evicts, or the new entry comes in.
LEMMA InsertStep ==
  ASSUME NEW k \in Keys, NEW v \in Values, NEW item_ids \in ItemLists, SimInv, InsertWithTtl(k, v, item_ids)
  PROVE  /\ Kept(cache') /\ clock' \in Nat
         /\ \/ /\ cache' = cache /\ last'.ok = FALSE
            \/ /\ enabled /\ k \notin StoredKeys(cache) /\ k \notin StoredKeys(cache')
               /\ Forgets(cache', cache) /\ last'.ok = FALSE
            \/ /\ enabled /\ k \notin StoredKeys(cache)
               /\ StoredKeys(cache') \subseteq StoredKeys(cache) \cup {k}
               /\ \A j \in StoredKeys(cache') : cache'.cache_map_[j] =
                    IF j = k THEN Registered(NewEntry(v), Tracked(<<>>, item_ids)) ELSE cache.cache_map_[j]
               /\ last'.ok = (k \in StoredKeys(cache'))
<1> DEFINE room == EvictForSpace(cache, 1 + v)
           fits == room.total_memory_bytes_ + 1 + v <= MaxMemory
           e == NewEntry(v)
           put == Grown([room EXCEPT !.cache_map_[k] = e, !.lru_list_ = <<k>> \o @])
           done == Settle(RegisterResultItemsLocked(put, k, item_ids))
           rejected == ~enabled \/ 1 + v > MaxMemory \/ k \in StoredKeys(cache)
<1>1. /\ cache' = CASE rejected -> cache
                    [] ~rejected /\ ~fits -> room
                    [] OTHER -> done
      /\ clock' = IF rejected \/ ~fits THEN clock ELSE clock + 1
      /\ last'.ok = (~rejected /\ fits /\ k \in StoredKeys(done))
  BY DEF InsertWithTtl, Return
<1>2. Kept(cache) /\ clock \in Nat /\ v \in Nat /\ MaxMemory \in Nat /\ item_ids \in Seq(ItemIds)
  BY CacheConstants DEF SimInv
<1>3. clock' \in Nat
  BY <1>1, <1>2
<1>4. e \in EntryShape /\ e.size \in Nat /\ e.ids = <<>> /\ e.created_at # 0
  <2>1. <<>> \in Seq(ItemIds) /\ clock + 1 \in Nat /\ clock + 1 # 0
    BY <1>2
  <2> QED
    BY <1>2, <2>1 DEF NewEntry, EntryShape
<1>5. 1 + v \in Nat /\ (~rejected => 1 + v <= MaxMemory /\ k \notin StoredKeys(cache) /\ enabled)
  BY <1>2
<1>6. ASSUME ~rejected PROVE Kept(room) /\ Forgets(room, cache)
  BY <1>2, <1>5, <1>6, RoomKept
<1> HIDE DEF room, e, rejected, fits
<1>7. ASSUME ~rejected
      PROVE  /\ Kept(done) /\ StoredKeys(done) \subseteq StoredKeys(room) \cup {k}
             /\ \A j \in StoredKeys(done) : done.cache_map_[j] =
                  IF j = k THEN Registered(e, Tracked(<<>>, item_ids)) ELSE room.cache_map_[j]
  <2>1. Kept(room) /\ k \notin StoredKeys(room)
    BY <1>5, <1>6, <1>7 DEF Forgets
  <2> DEFINE p == put
  <2>2. p = Added(room, k, e)
    BY DEF Added
  <2> HIDE DEF p
  <2>3. done = Settle(RegisterResultItemsLocked(p, k, item_ids))
    BY DEF p
  <2> HIDE DEF done
  <2> QED
    BY <1>2, <1>4, <2>1, <2>2, <2>3, InsertKept
<1> HIDE DEF done
<1>8. CASE rejected
  <2>1. cache' = cache /\ last'.ok = FALSE
    BY <1>1, <1>8
  <2> QED
    BY <1>2, <1>3, <2>1
<1>9. CASE ~rejected /\ ~fits
  <2>1. cache' = room /\ last'.ok = FALSE
    BY <1>1, <1>9
  <2> QED
    BY <1>3, <1>5, <1>6, <1>9, <2>1 DEF Forgets
<1>10. CASE ~rejected /\ fits
  <2>1. cache' = done /\ last'.ok = (k \in StoredKeys(done))
    BY <1>1, <1>10
  <2>2. StoredKeys(done) \subseteq StoredKeys(cache) \cup {k}
    BY <1>6, <1>7, <1>10 DEF Forgets
  <2>3. \A j \in StoredKeys(done) : done.cache_map_[j] =
          IF j = k THEN Registered(e, Tracked(<<>>, item_ids)) ELSE cache.cache_map_[j]
    <3>1. \A j \in StoredKeys(done) : j # k => room.cache_map_[j] = cache.cache_map_[j]
      BY <1>6, <1>7, <1>10 DEF Forgets
    <3> QED
      BY <3>1, <1>7, <1>10
  <2> QED
    BY <1>3, <1>5, <1>7, <1>10, <2>1, <2>2, <2>3 DEF e
<1> QED
  BY <1>8, <1>9, <1>10

LEMMA LookupStep ==
  ASSUME NEW r \in Readers, NEW k \in Keys, SimInv, LookupWithTtl(r, k)
  PROVE  reader' \in [Readers -> Lookups]
<1> DEFINE e == cache.cache_map_[k]
           found == enabled /\ e # NoEntry /\ e.live
           look == IF found THEN [pc |-> IF Usable(e) THEN "touch" ELSE "erase", key |-> k, created_at |-> e.created_at]
                   ELSE Quiet
<1>1. reader \in [Readers -> Lookups] /\ reader' = [reader EXCEPT ![r] = look]
  BY DEF LookupWithTtl, SimInv
<1>2. e \in EntryShape /\ e.created_at \in Nat
  BY DEF SimInv, Kept, Sound, Sized, CacheShape, EntryShape
<1>3. found => e.created_at # 0
  BY DEF SimInv, Kept, Dated, StoredKeys
<1> HIDE DEF e, found
<1>4. look \in Lookups
  <2>1. CASE found
    <3>1. look = [pc |-> IF Usable(e) THEN "touch" ELSE "erase", key |-> k, created_at |-> e.created_at]
      BY <2>1
    <3>2. look \in [pc : {"touch", "erase"}, key : Keys, created_at : Nat \ {0}]
      BY <3>1, <2>1, <1>2, <1>3
    <3> QED
      BY <3>2 DEF Lookups
  <2>2. CASE ~found
    BY <2>2 DEF Lookups
  <2> QED
    BY <2>1, <2>2
<1> QED
  BY <1>1, <1>4

LEMMA SimInvInitially ==
  ASSUME SimInit
  PROVE  SimInv
<1>1. cache = EmptyCache(0)
  BY DEF SimInit, EmptyCache
<1>2. Kept(cache)
  BY <1>1, EmptyKept
<1>3. reader \in [Readers -> Lookups]
  BY DEF SimInit, Lookups
<1> QED
  BY <1>2, <1>3 DEF SimInit, SimInv

LEMMA SimInvStep ==
  ASSUME SimInv, [SimNext]_simVars
  PROVE  SimInv'
<1> USE DEF SimInv
<1>0. Kept(cache) /\ clock \in Nat /\ reader \in [Readers -> Lookups]
  OBVIOUS
<1> SUFFICES Kept(cache') /\ clock' \in Nat /\ reader' \in [Readers -> Lookups]
  OBVIOUS
<1>1. ASSUME NEW r \in Readers, NEW k \in Keys, LookupWithTtl(r, k)
      PROVE  Kept(cache') /\ clock' \in Nat /\ reader' \in [Readers -> Lookups]
  BY <1>0, <1>1, LookupStep DEF LookupWithTtl
<1>2. ASSUME NEW r \in Readers, LookupFinish(r)
      PROVE  Kept(cache') /\ clock' \in Nat /\ reader' \in [Readers -> Lookups]
  <2>1. reader' = [reader EXCEPT ![r] = Quiet] /\ clock' = clock
    BY <1>2 DEF LookupFinish
  <2>2. reader' \in [Readers -> Lookups]
    BY <1>0, <2>1 DEF Lookups
  <2> QED
    BY <1>0, <1>2, <2>1, <2>2, FinishStep
<1>3. ASSUME NEW k \in Keys, NEW v \in Values, NEW item_ids \in ItemLists, InsertWithTtl(k, v, item_ids)
      PROVE  Kept(cache') /\ clock' \in Nat /\ reader' \in [Readers -> Lookups]
  <2>1. reader' = reader
    BY <1>3 DEF InsertWithTtl, Return
  <2>2. Kept(cache') /\ clock' \in Nat
    BY <1>3, InsertStep
  <2> QED
    BY <1>0, <2>1, <2>2
<1>4. ASSUME NEW k \in Keys, NEW item_ids \in ItemLists, RegisterResultItems(k, item_ids)
      PROVE  Kept(cache') /\ clock' \in Nat /\ reader' \in [Readers -> Lookups]
  <2>1. /\ k \in StoredKeys(cache) /\ cache' = Settle(RegisterResultItemsLocked(cache, k, item_ids))
        /\ reader' = reader /\ clock' = clock /\ item_ids \in Seq(ItemIds)
    BY <1>4, CacheConstants DEF RegisterResultItems, Return
  <2>2. Kept(cache')
    BY <1>0, <2>1, RegisterKept
  <2> QED
    BY <1>0, <2>1, <2>2
<1>5. ASSUME NEW i \in ItemIds, InvalidateByItemId(i)
      PROVE  Kept(cache') /\ clock' \in Nat /\ reader' \in [Readers -> Lookups]
  <2>1. cache' = Invalidation(cache, i) /\ reader' = reader /\ clock' = clock
    BY <1>5 DEF InvalidateByItemId, Return, Invalidation
  <2>2. Kept(cache')
    BY <1>0, <2>1, InvalidateKept
  <2> QED
    BY <1>0, <2>1, <2>2
<1>6. ASSUME NEW k \in Keys, MarkInvalidated(k) \/ Expire(k)
      PROVE  Kept(cache') /\ clock' \in Nat /\ reader' \in [Readers -> Lookups]
  <2>1. reader' = reader /\ clock' = clock
    BY <1>6 DEF MarkInvalidated, Expire, Return
  <2>2. Kept(cache')
    BY <1>6, MarkStep
  <2> QED
    BY <1>0, <2>1, <2>2
<1>7. ASSUME NEW k \in Keys, Erase(k)
      PROVE  Kept(cache') /\ clock' \in Nat /\ reader' \in [Readers -> Lookups]
  <2>1. reader' = reader /\ clock' = clock /\ cache' = EraseLocked(cache, k)
    BY <1>7 DEF Erase, Return
  <2>2. Kept(cache')
    BY <1>0, <2>1, EraseKept
  <2> QED
    BY <1>0, <2>1, <2>2
<1>8. ASSUME Clear
      PROVE  Kept(cache') /\ clock' \in Nat /\ reader' \in [Readers -> Lookups]
  <2>1. reader' = reader /\ clock' = clock
    BY <1>8 DEF Clear, Return
  <2>2. Kept(cache')
    BY <1>8, ClearStep
  <2> QED
    BY <1>0, <2>1, <2>2
<1>9. ASSUME PurgeExpired \/ \E S \in SUBSET Keys : ClearIf(S)
      PROVE  Kept(cache') /\ clock' \in Nat /\ reader' \in [Readers -> Lookups]
  <2>1. /\ reader' = reader /\ clock' = clock
        /\ \E S \in SUBSET Keys : cache' = EraseAll(cache, S)
    BY <1>9 DEF ClearIf, PurgeExpired, StoredKeys
  <2>2. Kept(cache')
    BY <1>0, <2>1, EraseAllKept
  <2> QED
    BY <1>0, <2>1, <2>2
<1>10. ASSUME SetEnabled \/ UNCHANGED simVars
       PROVE  Kept(cache') /\ clock' \in Nat /\ reader' \in [Readers -> Lookups]
  BY <1>0, <1>10 DEF SetEnabled, simVars
<1> QED
  BY <1>1, <1>2, <1>3, <1>4, <1>5, <1>6, <1>7, <1>8, <1>9, <1>10 DEF SimNext

LEMMA SimInvHolds == SimSpec => []SimInv
<1>1. SimInit => SimInv
  BY SimInvInitially
<1>2. SimInv /\ [SimNext]_simVars => SimInv'
  BY SimInvStep
<1> QED
  BY <1>1, <1>2, PTL DEF SimSpec

\* A list of distinct members is as long as it has members.
LEMMA ListLength ==
  ASSUME NEW R, NEW list \in Seq(R), Distinct(list), NEW S, \A x : Lists(list, x) <=> x \in S
  PROVE  ToSet(list) = S /\ Len(list) = Cardinality(S)
<1> DEFINE n == Len(list)
<1>1. n \in Nat /\ DOMAIN list = 1..n
  OBVIOUS
<1> HIDE DEF n
<1>2. ToSet(list) = S
  BY DEF ToSet, Lists
<1>3. list \in [1..n -> S] /\ \A x \in S : \E a \in 1..n : list[a] = x
  <2>1. list = [a \in 1..n |-> list[a]]
    BY <1>1
  <2> QED
    BY <1>1, <2>1 DEF Lists
<1>4. \A a, b \in 1..n : list[a] = list[b] => a = b
  BY <1>1 DEF Distinct
<1>5. list \in Bijection(1..n, S)
  BY <1>3, <1>4, <1>1 DEF Bijection, Injection, Surjection, IsInjective
<1>6. ExistsBijection(1..n, S)
  BY <1>5 DEF ExistsBijection
<1>7. IsFiniteSet(1..n) /\ Cardinality(1..n) = n
  BY <1>1, FS_Interval
<1>8. Cardinality(S) = n
  BY <1>6, <1>7, FS_Bijection
<1> QED
  BY <1>2, <1>8 DEF n

\* The structures of the similarity cache agree after every operation: each cached key once in the
\* LRU list, an exact reverse index, and an account of the memory that is right and within
\* max_memory_bytes_ (EraseLocked, EvictForSpace, RegisterResultItemsLocked, InvalidateByItemId).
THEOREM CacheStructuresAgree == SimSpec => []IndexConsistent
<1>1. SimInv => IndexConsistent
  <2> SUFFICES ASSUME SimInv PROVE IndexConsistent
    OBVIOUS
  <2>1. /\ Sound(cache, {}) /\ Accounted(cache) /\ cache.total_memory_bytes_ <= MaxMemory
        /\ cache.lru_list_ \in Seq(Keys) /\ cache.item_to_cache_keys_ \in [ItemIds -> SUBSET Keys]
    BY DEF SimInv, Kept, Sound, Sized, CacheShape
  <2>2. \A x : Lists(cache.lru_list_, x) <=> x \in StoredKeys(cache)
    <3>1. \A x : Lists(cache.lru_list_, x) => x \in Keys
      BY <2>1 DEF Lists
    <3>2. \A x \in StoredKeys(cache) : x \in Keys
      BY DEF StoredKeys
    <3> QED
      BY <2>1, <3>1, <3>2 DEF Sound
  <2>3. ToSet(cache.lru_list_) = StoredKeys(cache) /\ Len(cache.lru_list_) = Cardinality(StoredKeys(cache))
    BY <2>1, <2>2, ListLength DEF Sound
  <2>4. ASSUME NEW i \in ItemIds
        PROVE  cache.item_to_cache_keys_[i] = {k \in StoredKeys(cache) : i \in ToSet(cache.cache_map_[k].ids)}
    <3>1. \A k \in Keys : k \in cache.item_to_cache_keys_[i] <=>
            (i \notin {} /\ k \in StoredKeys(cache) /\ i \in ToSet(cache.cache_map_[k].ids))
      BY <2>1 DEF Sound
    <3>2. cache.item_to_cache_keys_[i] \subseteq Keys /\ StoredKeys(cache) \subseteq Keys
      BY <2>1 DEF StoredKeys
    <3> QED
      BY <3>1, <3>2
  <2> QED
    BY <2>1, <2>3, <2>4 DEF IndexConsistent, Accounted
<1> QED
  BY <1>1, SimInvHolds, PTL
-----------------------------------------------------------------------------
(* The cache implements ResultCache.                                        *)

\* What a lookup can return.
Answers(c) ==
  {[key |-> k, val |-> c.cache_map_[k].size, items |-> ToSet(c.cache_map_[k].ids)] :
     k \in {j \in StoredKeys(c) : c.cache_map_[j].live /\ c.cache_map_[j].fresh}}

Shown(c, k) == k \in StoredKeys(c) /\ c.cache_map_[k].live /\ c.cache_map_[k].fresh
AnswerOf(c, k) == [key |-> k, val |-> c.cache_map_[k].size, items |-> ToSet(c.cache_map_[k].ids)]
AnswersAt(c, k) == {e \in Answers(c) : e.key = k}

LEMMA AnswersShown ==
  ASSUME NEW c
  PROVE  /\ \A e : e \in Answers(c) <=> \E k \in Keys : Shown(c, k) /\ e = AnswerOf(c, k)
         /\ \A k : /\ AnswerOf(c, k).key = k /\ AnswerOf(c, k).val = c.cache_map_[k].size
                   /\ AnswerOf(c, k).items = ToSet(c.cache_map_[k].ids)
<1>1. \A e : e \in Answers(c) <=> \E k \in Keys : Shown(c, k) /\ e = AnswerOf(c, k)
  BY DEF Answers, Shown, AnswerOf, StoredKeys
<1>2. \A k : /\ AnswerOf(c, k).key = k /\ AnswerOf(c, k).val = c.cache_map_[k].size
             /\ AnswerOf(c, k).items = ToSet(c.cache_map_[k].ids)
  BY DEF AnswerOf
<1> QED
  BY <1>1, <1>2

LEMMA AnswersAtKey ==
  ASSUME NEW c, NEW k \in Keys
  PROVE  AnswersAt(c, k) = IF Shown(c, k) THEN {AnswerOf(c, k)} ELSE {}
<1>1. \A e : e \in AnswersAt(c, k) <=> (Shown(c, k) /\ e = AnswerOf(c, k))
  BY AnswersShown DEF AnswersAt
<1> QED
  BY <1>1

LEMMA ForgetAnswers ==
  ASSUME NEW c, NEW d, Forgets(d, c)
  PROVE  Answers(d) \subseteq Answers(c)
<1>1. \A k \in Keys : Shown(d, k) => Shown(c, k) /\ AnswerOf(d, k) = AnswerOf(c, k)
  BY DEF Forgets, Shown, AnswerOf
<1> QED
  BY <1>1, AnswersShown

\* The answer under k goes, the others stay.
LEMMA EraseAnswers ==
  ASSUME NEW c, NEW d, NEW k \in Keys,
         \A j \in Keys : Shown(d, j) <=> (j # k /\ Shown(c, j)),
         \A j \in Keys : Shown(d, j) => AnswerOf(d, j) = AnswerOf(c, j)
  PROVE  Answers(d) = Answers(c) \ AnswersAt(c, k)
<1>1. \A e : e \in Answers(d) <=> (e \in Answers(c) /\ e.key # k)
  BY AnswersShown
<1> QED
  BY <1>1 DEF AnswersAt

LEMMA InvalidateAnswers ==
  ASSUME NEW c, NEW d, NEW i,
         \A j \in Keys : Shown(d, j) <=> (i \notin ToSet(c.cache_map_[j].ids) /\ Shown(c, j)),
         \A j \in Keys : Shown(d, j) => AnswerOf(d, j) = AnswerOf(c, j)
  PROVE  Answers(d) = {e \in Answers(c) : i \notin e.items}
<1>1. \A e : e \in Answers(d) <=> (e \in Answers(c) /\ i \notin e.items)
  <2>1. ASSUME NEW e, e \in Answers(d) PROVE e \in Answers(c) /\ i \notin e.items
    BY <2>1, AnswersShown
  <2>2. ASSUME NEW e, e \in Answers(c), i \notin e.items PROVE e \in Answers(d)
    BY <2>2, AnswersShown
  <2> QED
    BY <2>1, <2>2
<1> QED
  BY <1>1

\* The answer e with the items of S under k.
Extended(e, k, S) == IF e.key = k THEN [e EXCEPT !.items = @ \cup S] ELSE e

LEMMA RegisterAnswers ==
  ASSUME NEW c, Kept(c), NEW d, NEW k \in StoredKeys(c), NEW ids, ToSet(c.cache_map_[k].ids) \subseteq ToSet(ids),
         Renewed(d, c, k, ids)
  PROVE  \E gone \in SUBSET Answers(c) : Answers(d) = {Extended(e, k, ToSet(ids)) : e \in Answers(c) \ gone}
<1> DEFINE gone == {e \in Answers(c) : e.key \notin StoredKeys(d)}
           S == ToSet(ids)
<1>0. c.cache_map_[k] \in EntryShape
  BY DEF Kept, Sound, Sized, CacheShape, StoredKeys
<1>1. \A j \in Keys : Shown(d, j) <=> (Shown(c, j) /\ j \in StoredKeys(d))
  <2>1. LET e == Registered(c.cache_map_[k], ids)
        IN  e.live = c.cache_map_[k].live /\ e.fresh = c.cache_map_[k].fresh
    BY <1>0 DEF Registered, EntryShape
  <2> QED
    BY <2>1 DEF Shown, Renewed
<1>2. ASSUME NEW j \in Keys, j \in StoredKeys(d) PROVE AnswerOf(d, j) = Extended(AnswerOf(c, j), k, S)
  <2>1. AnswerOf(c, j).key = j
    BY DEF AnswerOf
  <2>2. CASE j # k
    <3>1. d.cache_map_[j] = c.cache_map_[j]
      BY <1>2, <2>2 DEF Renewed
    <3> QED
      BY <3>1, <2>1, <2>2 DEF AnswerOf, Extended
  <2>3. CASE j = k
    <3>1. d.cache_map_[j].size = c.cache_map_[j].size /\ d.cache_map_[j].ids = ids
      BY <1>0, <1>2, <2>3 DEF Registered, EntryShape, Renewed
    <3>2. AnswerOf(d, j) = [key |-> j, val |-> c.cache_map_[j].size, items |-> S]
      BY <3>1 DEF AnswerOf
    <3>3. Extended(AnswerOf(c, j), k, S) =
            [key |-> j, val |-> c.cache_map_[j].size, items |-> ToSet(c.cache_map_[j].ids) \cup S]
      BY <2>1, <2>3 DEF AnswerOf, Extended
    <3>4. ToSet(c.cache_map_[j].ids) \cup S = S
      BY <2>3
    <3> QED
      BY <3>2, <3>3, <3>4
  <2> QED
    BY <2>2, <2>3
<1> HIDE DEF S
<1>3. \A e : e \in Answers(c) \ gone <=> \E j \in Keys : Shown(c, j) /\ j \in StoredKeys(d) /\ e = AnswerOf(c, j)
  BY AnswersShown
<1>4. \A a : a \in Answers(d) <=> \E e \in Answers(c) \ gone : a = Extended(e, k, S)
  <2>1. ASSUME NEW a, a \in Answers(d) PROVE \E e \in Answers(c) \ gone : a = Extended(e, k, S)
    <3>1. PICK j \in Keys : Shown(d, j) /\ a = AnswerOf(d, j)
      BY <2>1, AnswersShown
    <3>2. Shown(c, j) /\ j \in StoredKeys(d)
      BY <3>1, <1>1
    <3>3. AnswerOf(c, j) \in Answers(c) \ gone
      BY <3>2, <1>3
    <3> QED
      BY <3>1, <3>2, <3>3, <1>2
  <2>2. ASSUME NEW e \in Answers(c) \ gone PROVE Extended(e, k, S) \in Answers(d)
    <3>1. PICK j \in Keys : Shown(c, j) /\ j \in StoredKeys(d) /\ e = AnswerOf(c, j)
      BY <1>3
    <3>2. Shown(d, j) /\ Extended(e, k, S) = AnswerOf(d, j)
      BY <3>1, <1>1, <1>2
    <3> QED
      BY <3>2, AnswersShown
  <2> QED
    BY <2>1, <2>2
<1>5. gone \in SUBSET Answers(c)
  OBVIOUS
<1> HIDE DEF gone
<1>6. Answers(d) = {Extended(e, k, S) : e \in Answers(c) \ gone}
  BY <1>4
<1> QED
  BY <1>5, <1>6 DEF S

\* A step of the cache is one of ResultCache or leaves it alone.
AbstractStep == Abstract!Next \/ UNCHANGED Abstract!vars

LEMMA ForgetRefines ==
  ASSUME Forgets(cache', cache), UNCHANGED <<enabled, last>>
  PROVE  AbstractStep
<1>1. Answers(cache') \subseteq Answers(cache)
  BY ForgetAnswers
<1>2. Abstract!Forget
  BY <1>1 DEF Abstract!Forget, Answers
<1> QED
  BY <1>2 DEF AbstractStep, Abstract!Next

LEMMA LookupRefines ==
  ASSUME NEW r \in Readers, NEW k \in Keys, LookupWithTtl(r, k)
  PROVE  AbstractStep
<1> DEFINE e == cache.cache_map_[k]
<1>1. /\ last' = [op |-> "lookup", key |-> k, val |-> IF enabled /\ Usable(e) THEN e.size ELSE Miss]
      /\ UNCHANGED <<enabled, cache>>
  BY DEF LookupWithTtl
<1>2. Usable(e) <=> Shown(cache, k)
  BY DEF Usable, Shown, StoredKeys
<1>3. AnswersAt(cache, k) = IF Shown(cache, k) THEN {AnswerOf(cache, k)} ELSE {}
  BY AnswersAtKey
<1>4. Usable(e) => AnswersAt(cache, k) # {} /\ (CHOOSE a \in AnswersAt(cache, k) : TRUE).val = e.size
  <2> SUFFICES ASSUME Usable(e) PROVE AnswersAt(cache, k) # {} /\ (CHOOSE a \in AnswersAt(cache, k) : TRUE).val = e.size
    OBVIOUS
  <2> DEFINE a == CHOOSE a \in AnswersAt(cache, k) : TRUE
  <2>1. AnswersAt(cache, k) = {AnswerOf(cache, k)}
    BY <1>2, <1>3
  <2>2. a \in AnswersAt(cache, k)
    BY <2>1
  <2>3. a = AnswerOf(cache, k)
    BY <2>1, <2>2
  <2> QED
    BY <2>1, <2>3 DEF AnswerOf
<1>5. ~Usable(e) => AnswersAt(cache, k) = {}
  BY <1>2, <1>3
<1>6. last' = [op |-> "lookup", key |-> k,
               val |-> IF enabled /\ AnswersAt(cache, k) # {}
                       THEN (CHOOSE a \in AnswersAt(cache, k) : TRUE).val ELSE Miss]
  BY <1>1, <1>4, <1>5
<1>7. Abstract!Lookup(k)
  BY <1>1, <1>6 DEF Abstract!Lookup, Abstract!At, Answers, AnswersAt
<1> QED
  BY <1>7 DEF AbstractStep, Abstract!Next

LEMMA InsertRefines ==
  ASSUME NEW k \in Keys, NEW v \in Values, NEW item_ids \in ItemLists, SimInv, InsertWithTtl(k, v, item_ids)
  PROVE  AbstractStep
<1> DEFINE ids == Tracked(<<>>, item_ids)
           S == ToSet(ids)
           new == [key |-> k, val |-> v, items |-> S]
           Adds == /\ Answers(cache') \subseteq Answers(cache) \cup {new}
                   /\ AnswersAt(cache, k) # {} => Answers(cache') = Answers(cache)
                   /\ ~enabled => Answers(cache') = Answers(cache)
                   /\ last'.ok = (new \in Answers(cache') /\ AnswersAt(cache, k) = {})
<1>1. /\ last' \in [op : {"insert"}, key : {k}, ok : BOOLEAN] /\ enabled' = enabled
  BY DEF InsertWithTtl, Return
<1>2. item_ids \in Seq(ItemIds) /\ v \in Nat /\ <<>> \in Seq(ItemIds) /\ clock \in Nat
  BY CacheConstants DEF SimInv
<1>3. ids \in Seq(ItemIds)
  BY <1>2, TrackedIds
<1>4. S \in SUBSET ItemIds
  BY <1>3 DEF ToSet
<1>5. LET e == Registered(NewEntry(v), ids)
      IN  e.size = v /\ e.ids = ids /\ e.live = TRUE /\ e.fresh = TRUE
  BY DEF Registered, NewEntry
<1> HIDE DEF ids
<1>6. AnswersAt(cache, k) = IF Shown(cache, k) THEN {AnswerOf(cache, k)} ELSE {}
  BY AnswersAtKey
<1>7. AnswersAt(cache, k) = {} => new \notin Answers(cache)
  BY DEF AnswersAt
<1>8. \/ /\ cache' = cache /\ last'.ok = FALSE
      \/ /\ enabled /\ k \notin StoredKeys(cache) /\ k \notin StoredKeys(cache')
         /\ Forgets(cache', cache) /\ last'.ok = FALSE
      \/ /\ enabled /\ k \notin StoredKeys(cache)
         /\ StoredKeys(cache') \subseteq StoredKeys(cache) \cup {k}
         /\ \A j \in StoredKeys(cache') : cache'.cache_map_[j] =
              IF j = k THEN Registered(NewEntry(v), ids) ELSE cache.cache_map_[j]
         /\ last'.ok = (k \in StoredKeys(cache'))
  BY InsertStep DEF ids
<1>9. k \notin StoredKeys(cache) => AnswersAt(cache, k) = {}
  BY <1>6 DEF Shown
<1>10. ASSUME cache' = cache, last'.ok = FALSE PROVE Adds
  BY <1>7, <1>10
<1>11. ASSUME /\ enabled /\ k \notin StoredKeys(cache) /\ k \notin StoredKeys(cache')
              /\ Forgets(cache', cache) /\ last'.ok = FALSE
       PROVE  Adds
  <2>1. Answers(cache') \subseteq Answers(cache)
    BY <1>11, ForgetAnswers
  <2> QED
    BY <2>1, <1>7, <1>9, <1>11
<1>12. ASSUME /\ enabled /\ k \notin StoredKeys(cache)
              /\ StoredKeys(cache') \subseteq StoredKeys(cache) \cup {k}
              /\ \A j \in StoredKeys(cache') : cache'.cache_map_[j] =
                   IF j = k THEN Registered(NewEntry(v), ids) ELSE cache.cache_map_[j]
              /\ last'.ok = (k \in StoredKeys(cache'))
       PROVE  Adds
  <2>1. k \in StoredKeys(cache') => Shown(cache', k) /\ AnswerOf(cache', k) = new
    BY <1>5, <1>12 DEF Shown, AnswerOf
  <2>2. \A j \in Keys : j # k /\ Shown(cache', j) => Shown(cache, j) /\ AnswerOf(cache', j) = AnswerOf(cache, j)
    BY <1>12 DEF Shown, AnswerOf
  <2> HIDE DEF new
  <2>3. Answers(cache') \subseteq Answers(cache) \cup {new}
    <3>1. ASSUME NEW a \in Answers(cache') PROVE a \in Answers(cache) \cup {new}
      <4>1. PICK j \in Keys : Shown(cache', j) /\ a = AnswerOf(cache', j)
        BY AnswersShown
      <4>2. CASE j = k
        BY <4>1, <4>2, <2>1 DEF Shown
      <4>3. CASE j # k
        <5>1. Shown(cache, j) /\ a = AnswerOf(cache, j)
          BY <4>1, <4>3, <2>2
        <5> QED
          BY <5>1, AnswersShown
      <4> QED
        BY <4>2, <4>3
    <3> QED
      BY <3>1
  <2>4. new \in Answers(cache') <=> k \in StoredKeys(cache')
    <3>1. ASSUME new \in Answers(cache') PROVE k \in StoredKeys(cache')
      <4>1. PICK j \in Keys : Shown(cache', j) /\ new = AnswerOf(cache', j)
        BY <3>1, AnswersShown
      <4>2. j = k
        BY <4>1 DEF new, AnswerOf
      <4> QED
        BY <4>1, <4>2 DEF Shown
    <3>2. ASSUME k \in StoredKeys(cache') PROVE new \in Answers(cache')
      BY <3>2, <2>1, AnswersShown
    <3> QED
      BY <3>1, <3>2
  <2> QED
    BY <2>3, <2>4, <1>9, <1>12
<1>13. Adds
  BY <1>8, <1>10, <1>11, <1>12
<1> HIDE DEF S
<1>14. Abstract!Insert(k, v, S)
  BY <1>1, <1>13 DEF Abstract!Insert, Abstract!At, Answers, AnswersAt
<1> QED
  BY <1>4, <1>14 DEF AbstractStep, Abstract!Next

LEMMA RegisterRefines ==
  ASSUME NEW k \in Keys, NEW item_ids \in ItemLists, SimInv, RegisterResultItems(k, item_ids)
  PROVE  AbstractStep
<1> DEFINE old == cache.cache_map_[k].ids
           ids == Tracked(old, item_ids)
<1>1. /\ k \in StoredKeys(cache) /\ cache' = Settle(RegisterResultItemsLocked(cache, k, item_ids))
      /\ last' = [op |-> "register", key |-> k] /\ enabled' = enabled
      /\ item_ids \in Seq(ItemIds) /\ Kept(cache)
  BY CacheConstants DEF RegisterResultItems, Return, SimInv
<1>2. old \in Seq(ItemIds)
  BY <1>1 DEF Kept, Sound, Sized, CacheShape, EntryShape
<1>3. ids \in Seq(ItemIds) /\ ToSet(old) \subseteq ToSet(ids)
  BY <1>1, <1>2, TrackedIds
<1>4. ToSet(ids) \in SUBSET ItemIds
  BY <1>3 DEF ToSet
<1>5. Renewed(cache', cache, k, ids)
  BY <1>1, RegisterKept
<1> HIDE DEF ids
<1>6. \E gone \in SUBSET Answers(cache) :
        Answers(cache') = {Extended(e, k, ToSet(ids)) : e \in Answers(cache) \ gone}
  BY <1>1, <1>3, <1>5, RegisterAnswers
<1>7. PICK T \in SUBSET ItemIds : T = ToSet(ids)
  BY <1>4
<1>8. \E gone \in SUBSET Answers(cache) : Answers(cache') = {Extended(e, k, T) : e \in Answers(cache) \ gone}
  BY <1>6, <1>7
<1>9. Abstract!Register(k, T)
  BY <1>1, <1>8 DEF Abstract!Register, Answers, Extended
<1> QED
  BY <1>9 DEF AbstractStep, Abstract!Next

LEMMA InvalidateRefines ==
  ASSUME NEW i \in ItemIds, SimInv, InvalidateByItemId(i)
  PROVE  AbstractStep
<1>1. /\ cache' = Invalidation(cache, i)
      /\ last' = [op |-> "invalidate", item |-> i] /\ enabled' = enabled /\ Kept(cache)
  BY DEF InvalidateByItemId, Return, SimInv, Invalidation
<1>2. /\ Forgets(cache', cache)
      /\ \A k \in Keys : k \in StoredKeys(cache') <=>
           (k \in StoredKeys(cache) /\ i \notin ToSet(cache.cache_map_[k].ids))
  BY <1>1, InvalidateKept
<1>3. \A j \in Keys : Shown(cache', j) <=> (i \notin ToSet(cache.cache_map_[j].ids) /\ Shown(cache, j))
  BY <1>2 DEF Forgets, Shown
<1>4. \A j \in Keys : Shown(cache', j) => AnswerOf(cache', j) = AnswerOf(cache, j)
  BY <1>2 DEF Forgets, Shown, AnswerOf
<1>5. Answers(cache') = {e \in Answers(cache) : i \notin e.items}
  BY <1>3, <1>4, InvalidateAnswers
<1>6. Abstract!InvalidateByItemId(i)
  BY <1>1, <1>5 DEF Abstract!InvalidateByItemId, Answers
<1> QED
  BY <1>6 DEF AbstractStep, Abstract!Next

\* Erase and MarkInvalidated hide one key.
LEMMA HideRefines ==
  ASSUME NEW k \in Keys, \A j \in Keys : Shown(cache', j) <=> (j # k /\ Shown(cache, j)),
         \A j \in Keys : Shown(cache', j) => AnswerOf(cache', j) = AnswerOf(cache, j),
         last' = [op |-> "erase", key |-> k], enabled' = enabled
  PROVE  AbstractStep
<1>1. Answers(cache') = Answers(cache) \ AnswersAt(cache, k)
  BY EraseAnswers
<1>2. Abstract!Erase(k)
  BY <1>1 DEF Abstract!Erase, Abstract!At, Answers, AnswersAt
<1> QED
  BY <1>2 DEF AbstractStep, Abstract!Next

LEMMA EraseRefines ==
  ASSUME NEW k \in Keys, SimInv, Erase(k) \/ MarkInvalidated(k)
  PROVE  AbstractStep
<1>1. CASE Erase(k)
  <2>1. cache' = EraseLocked(cache, k) /\ last' = [op |-> "erase", key |-> k] /\ enabled' = enabled /\ Kept(cache)
    BY <1>1 DEF Erase, Return, SimInv
  <2>2. Forgets(cache', cache) /\ StoredKeys(cache') = StoredKeys(cache) \ {k}
    BY <2>1, EraseKept
  <2>3. \A j \in Keys : Shown(cache', j) <=> (j # k /\ Shown(cache, j))
    BY <2>2 DEF Forgets, Shown
  <2>4. \A j \in Keys : Shown(cache', j) => AnswerOf(cache', j) = AnswerOf(cache, j)
    BY <2>2 DEF Forgets, Shown, AnswerOf
  <2> QED
    BY <2>1, <2>3, <2>4, HideRefines
<1>2. CASE MarkInvalidated(k)
  <2>1. last' = [op |-> "erase", key |-> k] /\ enabled' = enabled
    BY <1>2 DEF MarkInvalidated, Return
  <2>2. /\ StoredKeys(cache') = StoredKeys(cache)
        /\ \E e : /\ ~(e.live /\ e.fresh)
                  /\ \A j \in Keys : cache'.cache_map_[j] = IF j = k THEN e ELSE cache.cache_map_[j]
    BY <1>2, MarkStep
  <2>3. \A j \in Keys : Shown(cache', j) <=> (j # k /\ Shown(cache, j))
    BY <2>2 DEF Shown
  <2>4. \A j \in Keys : Shown(cache', j) => AnswerOf(cache', j) = AnswerOf(cache, j)
    BY <2>2, <2>3 DEF AnswerOf
  <2> QED
    BY <2>1, <2>3, <2>4, HideRefines
<1> QED
  BY <1>1, <1>2

LEMMA ExpireRefines ==
  ASSUME NEW k \in Keys, SimInv, Expire(k)
  PROVE  AbstractStep
<1>1. enabled' = enabled /\ last' = last
  BY DEF Expire
<1>2. /\ StoredKeys(cache') = StoredKeys(cache)
      /\ \E e : /\ ~(e.live /\ e.fresh)
                /\ \A j \in Keys : cache'.cache_map_[j] = IF j = k THEN e ELSE cache.cache_map_[j]
  BY MarkStep
<1>3. \A j \in Keys : Shown(cache', j) => Shown(cache, j) /\ AnswerOf(cache', j) = AnswerOf(cache, j)
  BY <1>2 DEF Shown, AnswerOf
<1>4. Answers(cache') \subseteq Answers(cache)
  BY <1>3, AnswersShown
<1>5. Abstract!Forget
  BY <1>1, <1>4 DEF Abstract!Forget, Answers
<1> QED
  BY <1>5 DEF AbstractStep, Abstract!Next

LEMMA ClearRefines ==
  ASSUME SimInv, Clear
  PROVE  AbstractStep
<1>1. last' = [op |-> "clear"] /\ enabled' = enabled
  BY DEF Clear, Return
<1>2. StoredKeys(cache') = {}
  BY ClearStep
<1>3. Answers(cache') = {}
  BY <1>2, AnswersShown DEF Shown
<1>4. Abstract!Clear
  BY <1>1, <1>3 DEF Abstract!Clear, Answers
<1> QED
  BY <1>4 DEF AbstractStep, Abstract!Next

LEMMA StepRefines ==
  ASSUME SimInv, [SimNext]_simVars
  PROVE  [Abstract!Next]_(Abstract!vars)
<1>1. ASSUME NEW r \in Readers, LookupFinish(r) PROVE AbstractStep
  <2>1. Forgets(cache', cache)
    BY <1>1, FinishStep
  <2>2. UNCHANGED <<enabled, last>>
    BY <1>1 DEF LookupFinish
  <2> QED
    BY <2>1, <2>2, ForgetRefines
<1>2. ASSUME PurgeExpired \/ \E S \in SUBSET Keys : ClearIf(S) PROVE AbstractStep
  <2>1. UNCHANGED <<enabled, last>> /\ \E S \in SUBSET Keys : cache' = EraseAll(cache, S)
    BY <1>2 DEF ClearIf, PurgeExpired, StoredKeys
  <2>2. Forgets(cache', cache)
    BY <2>1, EraseAllKept DEF SimInv
  <2> QED
    BY <2>1, <2>2, ForgetRefines
<1>3. ASSUME SetEnabled PROVE AbstractStep
  <2>1. Abstract!SetEnabled
    BY <1>3 DEF SetEnabled, Abstract!SetEnabled
  <2> QED
    BY <2>1 DEF AbstractStep, Abstract!Next
<1>4. ASSUME UNCHANGED simVars PROVE AbstractStep
  BY <1>4 DEF simVars, AbstractStep, Abstract!vars
<1>5. AbstractStep
  BY <1>1, <1>2, <1>3, <1>4, LookupRefines, InsertRefines, RegisterRefines, InvalidateRefines, EraseRefines,
     ExpireRefines, ClearRefines DEF SimNext
<1> QED
  BY <1>5 DEF AbstractStep

\* The cache implements its abstract specification for every set of keys, values and items, every
\* limit and batch size, and any number of readers: lookups are exact and InvalidateByItemId, Erase
\* and Clear remove what they promise and no more, whatever runs between the two halves of a lookup
\* (LookupWithTtl).
THEOREM CacheImplementsResultCache == SimSpec => ImplementsResultCache
<1>1. SimInit => Abstract!Init
  <2> SUFFICES ASSUME SimInit PROVE Abstract!Init
    OBVIOUS
  <2>1. StoredKeys(cache) = {}
    BY DEF SimInit, StoredKeys
  <2>2. Answers(cache) = {}
    BY <2>1, AnswersShown DEF Shown
  <2> QED
    BY <2>2 DEF SimInit, Abstract!Init, Answers
<1>2. SimInv /\ [SimNext]_simVars => [Abstract!Next]_(Abstract!vars)
  BY StepRefines
<1> QED
  BY <1>1, <1>2, SimInvHolds, PTL DEF SimSpec, ImplementsResultCache, Abstract!Spec
=============================================================================
