---------------------------- MODULE CoOccurrence ----------------------------
(***************************************************************************)
(* The co-occurrence index (events/co_occurrence_index.cpp) as operators on   *)
(* its score matrix: what an ingested event adds, what a negative signal      *)
(* takes away, what pruning and decay remove.  Every operation of the class   *)
(* runs under its mutex, so each is one function of the matrix; module        *)
(* EventIngest puts them behind the EVENT command and the decay scheduler.    *)
(*                                                                         *)
(* Abstraction.  An item is a natural number, so that std::sort has an order. *)
(* A score counts quarters (Unit of them make 1), which keeps the halves of   *)
(* one decay and of one half-life exact.  A sort by score leaves ties in any   *)
(* order: pruning returns the set of matrices it may end with.                *)
(***************************************************************************)
EXTENDS Rows, Integers, SequencesExt, FiniteSetsExt

CONSTANTS
  Items,       \* item ids
  HalfLife     \* events.temporal_half_life_sec, 0 when temporal_cooccurrence is off

ASSUME CoOccurrenceConstants == Items \subseteq Nat /\ IsFiniteSet(Items) /\ HalfLife \in Nat

Unit == 4

\* co_scores_: the directed pairs that have an entry, with their scores.
EmptyMatrix == <<>>

Score(m, p) == IF p \in DOMAIN m THEN m[p] ELSE 0

Neighbours(m, i) == {j \in Items : <<i, j>> \in DOMAIN m}

Abs(x) == IF x < 0 THEN -x ELSE x

\* co_scores_[i][j] += s; co_scores_[j][i] += s;
AddScore(m, i, j, s) ==
  LET both == {<<i, j>>, <<j, i>>}
  IN [p \in DOMAIN m \cup both |-> Score(m, p) + IF p \in both THEN s ELSE 0]

Without(m, i, gone) ==
  [p \in {q \in DOMAIN m : ~(q[1] = i /\ q[2] \in gone) /\ ~(q[2] = i /\ q[1] \in gone)} |-> m[p]]

-----------------------------------------------------------------------------
(* Ingestion.                                                               *)

\* Each side decays by its age against the later of the two, so one factor is 1.
PairScore(e, f) ==
  e.score * f.score * (IF HalfLife = 0 THEN Unit ELSE Unit \div 2^(Abs(e.ts - f.ts) \div HalfLife))

AddPair(m, e, new) ==
  IF e.id = new.id \/ PairScore(new, e) = 0 THEN m ELSE AddScore(m, new.id, e.id, PairScore(new, e))

AddPairs(m, prior, new) ==
  LET after[k \in 0..Len(prior)] == IF k = 0 THEN m ELSE AddPair(after[k-1], prior[k], new)
  IN after[Len(prior)]

\* Mutant: the entry of the other endpoint stays behind.
OneWayWithout(m, i, gone) ==
  [p \in {q \in DOMAIN m : ~(q[1] = i /\ q[2] \in gone)} |-> m[p]]

RemoveNeighbours(m, i, gone) == Without(m, i, gone)

\* The matrices PruneItemLocked may leave.
PruneItem(c, m, i) ==
  LET weak == {j \in Neighbours(m, i) : Abs(m[<<i, j>>]) < c.min_support}
      kept == RemoveNeighbours(m, i, weak)
      nbrs == Neighbours(kept, i)
      excess == IF c.max_neighbors = 0 THEN 0 ELSE Cardinality(nbrs) - c.max_neighbors
      Lowest(d) == \A x \in d, y \in nbrs \ d : Abs(kept[<<i, x>>]) <= Abs(kept[<<i, y>>])
  IN IF excess <= 0 THEN {kept}
     ELSE {RemoveNeighbours(kept, i, d) : d \in {d \in kSubset(excess, nbrs) : Lowest(d)}}

PruneEach(c, matrices, i) == UNION {PruneItem(c, x, i) : x \in matrices}

PruneItems(c, m, ids) ==
  LET left[k \in 0..Len(ids)] == IF k = 0 THEN {m} ELSE PruneEach(c, left[k-1], ids[k])
  IN left[Len(ids)]

\* Mutant: only the new event's item is pruned.
OnlyNewItem(prior, new) == <<new.id>>

\* The endpoints of the new pairs, in std::sort order.
AffectedIds(prior, new) == InOrder({new.id} \cup {prior[k].id : k \in DOMAIN prior})

AddEventIncremental(c, m, prior, new) ==
  IF prior = <<>> THEN {m}
  ELSE IF c.max_neighbors = 0 /\ c.min_support = 0 THEN {AddPairs(m, prior, new)}
       ELSE PruneItems(c, AddPairs(m, prior, new), AffectedIds(prior, new))

\* negative_weight is one half; negative_max_propagation is never set to 0.
Dampen(m, removed, e) ==
  IF e.id = removed THEN m ELSE AddScore(m, removed, e.id, -(e.score * Unit) \div 2)

ApplyNegativeSignal(m, removed, prior) ==
  LET after[k \in 0..Len(prior)] == IF k = 0 THEN m ELSE Dampen(after[k-1], removed, prior[k])
  IN after[Len(prior)]

ApplyIngestedEvent(c, m, prior, new) ==
  IF c.negative_signals /\ new.type = "DEL"
  THEN {ApplyNegativeSignal(x, new.id, prior) : x \in AddEventIncremental(c, m, prior, new)}
  ELSE AddEventIncremental(c, m, prior, new)

-----------------------------------------------------------------------------
(* Maintenance and restoration.                                             *)

\* alpha is one half.  Without min_support the threshold is far below a quarter.
ApplyDecay(c, m) ==
  LET half == [p \in DOMAIN m |-> m[p] \div 2]
      gone == {p \in DOMAIN m : Abs(half[p]) < IF c.min_support > 0 THEN c.min_support ELSE 1}
  IN [p \in DOMAIN m \ gone |-> half[p]]

\* Every item, in the order of the hash map.
Prune(c, m) ==
  UNION {PruneItems(c, m, order) : order \in SetToSeqs({p[1] : p \in DOMAIN m})}

\* SetScore for every neighbour of every item of a snapshot.
RestoreScores(m) == [p \in DOMAIN m \cup {<<q[2], q[1]>> : q \in DOMAIN m} |->
                       IF p \in DOMAIN m THEN m[p] ELSE m[<<p[2], p[1]>>]]
=============================================================================
