---------------------------- MODULE VectorProofs ----------------------------
(***************************************************************************)
(* Theorems about VectorIndex, for any ids, thresholds and number of         *)
(* mutations, both kinds of index: searches answer with the embeddings of     *)
(* the store and miss none, and the stores hold what was accepted, across     *)
(* crashes and replays.  And about TieredStore, which compacts its rows the   *)
(* same way: both tiers and the id map agree.                               *)
(***************************************************************************)
EXTENDS VectorIndex, TieredStore, FunctionTheorems, FiniteSetTheorems, SequenceTheorems, TLAPS

-----------------------------------------------------------------------------
(* Compaction by rank.                                                      *)

\* The ranks of the rows kept are 1, 2, ... without a gap: compaction loses no row
\* and writes none twice.
LEMMA RankIsBijection ==
  ASSUME NEW n \in Nat, NEW keep \in SUBSET (1..n)
  PROVE  /\ IsFiniteSet(keep) /\ Cardinality(keep) \in Nat
         /\ [j \in keep |-> Rank(keep, j)] \in Bijection(keep, 1..Cardinality(keep))
<1> DEFINE Below(j) == {k \in keep : k <= j}
           f == [j \in keep |-> Rank(keep, j)]
<1>1. IsFiniteSet(1..n)
  BY FS_Interval
<1>2. IsFiniteSet(keep)
  BY <1>1, FS_Subset
<1>3. Cardinality(keep) \in Nat
  BY <1>2, FS_CardinalityType
<1>4. \A j \in keep : IsFiniteSet(Below(j)) /\ Cardinality(Below(j)) \in Nat
                      /\ Cardinality(Below(j)) <= Cardinality(keep)
  <2> TAKE j \in keep
  <2>1. Below(j) \subseteq keep
    OBVIOUS
  <2> QED
    BY <2>1, <1>2, FS_Subset, FS_CardinalityType
<1>5. \A j \in keep : Cardinality(Below(j)) # 0
  BY <1>4, FS_EmptySet
<1>6. \A i, j \in keep : i < j => Cardinality(Below(i)) < Cardinality(Below(j))
  <2> TAKE i, j \in keep
  <2> HAVE i < j
  <2>1. Below(i) \subseteq Below(j) /\ j \in Below(j) /\ j \notin Below(i)
    <3>1. \A k \in keep : k \in Nat
      OBVIOUS
    <3>2. \A k \in Below(i) : k \in Below(j)
      BY <3>1
    <3>3. j <= j /\ ~(j <= i)
      BY <3>1
    <3> QED
      BY <3>2, <3>3
  <2>2. Below(i) # Below(j)
    BY <2>1
  <2> QED
    BY <2>1, <2>2, <1>4, FS_Subset
<1>7. f \in [keep -> 1..Cardinality(keep)]
  <2>1. \A j \in keep : Cardinality(Below(j)) \in 1..Cardinality(keep)
    BY <1>3, <1>4, <1>5
  <2> QED
    BY <2>1 DEF Rank
<1>8. \A i, j \in keep : f[i] = f[j] => i = j
  <2> TAKE i, j \in keep
  <2> HAVE f[i] = f[j]
  <2>1. Cardinality(Below(i)) = Cardinality(Below(j))
    BY DEF Rank
  <2>2. i \in Nat /\ j \in Nat
    OBVIOUS
  <2>3. ~(i < j) /\ ~(j < i)
    BY <2>1, <1>4, <1>6
  <2> QED
    BY <2>2, <2>3
<1>9. f \in Injection(keep, 1..Cardinality(keep))
  BY <1>7, <1>8, Fun_IsInj
<1>10. IsFiniteSet(1..Cardinality(keep)) /\ Cardinality(1..Cardinality(keep)) = Cardinality(keep)
  BY <1>3, FS_Interval
<1>11. f \in Surjection(keep, 1..Cardinality(keep))
  <2> HIDE DEF f
  <2> QED
    BY <1>9, <1>10, FS_Injection
<1> QED
  BY <1>2, <1>3, <1>9, <1>11, Zenon DEF Bijection

\* Compaction copies the rows kept, each once.
LEMMA CompactRows ==
  ASSUME NEW R, NEW s \in Seq(R), NEW keep \in SUBSET DOMAIN s, NEW c, c = Compact(s, keep)
  PROVE  /\ c \in Seq(R) /\ Len(c) = Cardinality(keep) /\ IsFiniteSet(keep)
         /\ \E e \in [1..Len(c) -> keep] :
              /\ \A i \in 1..Len(c) : c[i] = s[e[i]]
              /\ \A i, j \in 1..Len(c) : e[i] = e[j] => i = j
              /\ \A k \in keep : \E i \in 1..Len(c) : e[i] = k
<1> DEFINE m == Cardinality(keep)
           f == [j \in keep |-> Rank(keep, j)]
           e == [i \in 1..m |-> CHOOSE j \in keep : Rank(keep, j) = i]
<1>1. DOMAIN s = 1..Len(s) /\ Len(s) \in Nat
  OBVIOUS
<1>2. IsFiniteSet(keep) /\ m \in Nat /\ f \in Bijection(keep, 1..m)
  BY <1>1, RankIsBijection
<1>3. /\ \A j \in keep : f[j] \in 1..m
      /\ \A i, j \in keep : f[i] = f[j] => i = j
      /\ \A i \in 1..m : \E j \in keep : f[j] = i
  BY <1>2 DEF Bijection, Injection, Surjection, IsInjective
<1>4. \A j \in keep : f[j] = Rank(keep, j)
  OBVIOUS
<1> HIDE DEF m, f
<1>5. \A i \in 1..m : e[i] \in keep /\ f[e[i]] = i
  BY <1>3, <1>4
<1>6. e \in [1..m -> keep]
  BY <1>5
<1>7. c = [i \in 1..m |-> s[e[i]]]
  BY DEF Compact, m
<1>8. \A k \in keep : \E i \in 1..m : e[i] = k
  <2> TAKE k \in keep
  <2>1. f[k] \in 1..m /\ e[f[k]] = k
    BY <1>3, <1>5
  <2> QED
    BY <2>1
<1>9. \A i, j \in 1..m : e[i] = e[j] => i = j
  BY <1>5
<1> HIDE DEF e
<1>10. c \in Seq(R) /\ Len(c) = m
  <2>1. \A i \in 1..m : s[e[i]] \in R
    BY <1>5, <1>1
  <2> QED
    BY <2>1, <1>2, <1>7
<1>11. \A i \in 1..m : c[i] = s[e[i]]
  BY <1>7
<1>12. /\ c \in Seq(R) /\ Len(c) = m /\ IsFiniteSet(keep)
       /\ e \in [1..Len(c) -> keep]
       /\ \A i \in 1..Len(c) : c[i] = s[e[i]]
       /\ \A i, j \in 1..Len(c) : e[i] = e[j] => i = j
       /\ \A k \in keep : \E i \in 1..Len(c) : e[i] = k
  BY <1>2, <1>6, <1>8, <1>9, <1>10, <1>11
<1> QED
  BY <1>12 DEF m

-----------------------------------------------------------------------------
(* The inductive invariants.                                                *)

\* Embeddings: the number of the operation that wrote them.
Vals == 1..MaxOps
\* Labels of the index: rows of the store.
Labels == Nat \ {0}
\* Functions from a part of S to T.
Partial(S, T) == UNION {[D -> T] : D \in SUBSET S}
\* A row of the compact matrix.
SlotRows == [id : Ids, val : Vals, live : BOOLEAN]

(* The store: its fields, and how index, slots and free list fit together. *)
StoreType(vs) ==
  /\ vs \in [slots : Seq(SlotRows), index : Partial(Ids, Labels), free : Seq(Labels), generation : Nat]
  /\ \A id \in DOMAIN vs.index : vs.index[id] \in DOMAIN vs.slots
  /\ \A i \in DOMAIN vs.free : vs.free[i] \in DOMAIN vs.slots

\* id_to_idx_ and the live rows are inverse to each other.
IndexFits(vs) ==
  /\ \A id \in DOMAIN vs.index : vs.slots[vs.index[id]].live /\ vs.slots[vs.index[id]].id = id
  /\ \A i \in DOMAIN vs.slots :
       vs.slots[i].live => vs.slots[i].id \in DOMAIN vs.index /\ vs.index[vs.slots[i].id] = i

\* A free slot is dead and listed once.
FreeFits(vs) ==
  /\ \A i \in DOMAIN vs.free : ~vs.slots[vs.free[i]].live
  /\ \A i, j \in DOMAIN vs.free : vs.free[i] = vs.free[j] => i = j

\* The store is in order.
StoreFits(vs) == StoreType(vs) /\ IndexFits(vs) /\ FreeFits(vs)

\* What a snapshot or the ghost expected holds.
Images == {e \in [vals : Partial(Ids, Vals), meta : SUBSET Ids] : IsFiniteSet(DOMAIN e.vals)}
\* Records of the log.
Records == [op : Operations, val : Vals]

\* The operations by type.
VecsetOps == [type : {"vecset"}, id : Ids, meta : BOOLEAN]
VecdelOps == [type : {"vecdel"}, id : Ids]
MetasetOps == [type : {"metaset"}, id : Ids]

\* The mutation in progress.
Writers ==
  [pc : {"idle", "rebuild", "reload"}]
    \union [pc : {"store"}, op : Operations, val : Vals]
    \union [pc : {"notify", "launch"}, op : VecsetOps, val : Vals]
    \union [pc : {"defragment", "remove"}, op : VecdelOps, label : Labels]

\* The mode of the server.
Servers == [mode : {"serving", "refused"}] \union [mode : {"replaying"}, todo : Seq(Records)]

\* A node of the HNSW graph, a transient tier of IVF, the index as a whole.
Nodes == [label : Labels, val : Vals, deleted : BOOLEAN]
Tier == Partial(Labels, Vals)
Anns == [trained : BOOLEAN, lists : SUBSET Labels, buffer : Tier, sealing : Tier,
         layout : Nat, nodes : Seq(Nodes), published : Nat]

\* The background thread.
Threads == [pc : {"idle", "train", "seal"}] \union [pc : {"assign"}, labels : SUBSET Labels]
             \union [pc : {"commit"}, labels : SUBSET Labels, layout : Nat]

\* A candidate of a search, and the search by its program counter.
Founds == [label : Labels, val : Vals]
SearchShape ==
  /\ search.pc \in {"idle", "hnsw", "ivf", "lists", "map", "done"}
  /\ search.pc = "lists" => search.tier \in Tier
  /\ search.pc = "map" => search.found \subseteq Founds

\* The shape of the stores, the log and the mutation in progress.
DataTypes ==
  /\ kind \in Kinds /\ ops \in 0..MaxOps /\ meta \in SUBSET Ids /\ StoreFits(vstore)
  /\ writer \in Writers /\ vlog \in Seq(Records)
  /\ vimage \in Images /\ expected \in Images /\ vserver \in Servers

\* The shape of the index, the thread and the search.
IndexTypes == ann \in Anns /\ thread \in Threads /\ SearchShape /\ leftover \in SUBSET Labels

\* The shape of the whole state.
VecTypes == DataTypes /\ IndexTypes

\* The mutation in progress still finds its vector.
WriterFits ==
  /\ (writer.pc = "store" /\ writer.op.type # "vecset") => Holds(vstore, writer.op.id)
  /\ writer.pc = "notify" => /\ Holds(vstore, writer.op.id)
                             /\ vstore.slots[vstore.index[writer.op.id]].val = writer.val

(* The index against the store it was published for. *)
\* The index is published for this generation, or for the one before the row just written,
\* which is then the only one it does not know.
Published == ann.published = vstore.generation
AlmostPublished == writer.pc = "notify" /\ ann.published + 1 = vstore.generation
Touched == IF writer.pc = "notify" THEN {vstore.index[writer.op.id]} ELSE {}

\* Who may find the index unpublished: the mutation that has yet to notify it, and a server
\* that is still replaying.
Generations ==
  /\ ann.published <= vstore.generation
  /\ writer.pc \in {"notify", "defragment", "remove", "rebuild", "reload"} => ~Published
  /\ writer.pc = "launch" => Published
  /\ (writer.pc \in {"idle", "store"} /\ ~Published) => thread.pc = "idle"
  /\ (writer.pc = "notify" /\ ~AlmostPublished) => thread.pc = "idle"

\* The value v is the row of a live label.
Matches(l, v) == l \in LiveRows => v = vstore.slots[l].val

\* A live node of the graph has the value of its row.
NodesCurrent ==
  kind = "hnsw" /\ (Published \/ AlmostPublished) =>
    \A i \in DOMAIN ann.nodes :
      ~ann.nodes[i].deleted /\ ann.nodes[i].label \notin Touched
         => Matches(ann.nodes[i].label, ann.nodes[i].val)

\* A buffered or sealing entry has the value of its row, unless a rebuild left it there.
TiersCurrent ==
  kind = "ivf" /\ (Published \/ AlmostPublished) =>
    \A l \in TransientLabels(ann) \ (leftover \union Touched) : Matches(l, SearchBuffer(ann)[l])

\* The lists a search probes.
ListsOf(a) == IF a.trained THEN a.lists ELSE {}

\* Every live row is in a tier that a search reads.
TiersCover ==
  kind = "ivf" /\ (Published \/ AlmostPublished) =>
    LiveRows \ Touched \subseteq TransientLabels(ann) \union ListsOf(ann)

\* The thread trains an untrained index, and commits at least what is being sealed.
ThreadFits ==
  /\ thread.pc = "train" => ~ann.trained
  /\ thread.pc \in {"assign", "commit"} => DOMAIN ann.sealing \subseteq thread.labels

\* What a search has read: right for the generation it was published for.
SearchFits ==
  /\ search.pc = "hnsw" => kind = "hnsw"
  /\ search.pc = "ivf" => kind = "ivf" /\ ann.trained
  /\ search.pc = "lists" =>
       /\ kind = "ivf" /\ ann.trained
       /\ Published => /\ \A l \in DOMAIN search.tier \ leftover : Matches(l, search.tier[l])
                       /\ LiveRows \subseteq DOMAIN search.tier \union ann.lists
  /\ (search.pc = "map" /\ Published) =>
       /\ \A f \in search.found : f.label \in leftover \/ Matches(f.label, f.val)
       /\ kind = "ivf" => LiveRows \subseteq {f.label : f \in search.found}

\* The published index agrees with the store.
IndexMatches == NodesCurrent /\ TiersCurrent /\ TiersCover

\* The inductive invariant of the searches.
AnswersInv ==
  /\ VecTypes /\ WriterFits /\ Generations /\ IndexMatches
  /\ ThreadFits /\ SearchFits /\ AnswersCurrent /\ AnswersComplete

\* An index that differs from another only in where its labels are kept.
Kept(a, b) ==
  /\ b \in Anns /\ b.published = a.published /\ b.nodes = a.nodes
  /\ TransientLabels(b) \subseteq TransientLabels(a)
  /\ \A l \in TransientLabels(b) : SearchBuffer(b)[l] = SearchBuffer(a)[l]
  /\ TransientLabels(a) \union ListsOf(a) \subseteq TransientLabels(b) \union ListsOf(b)
  /\ a.trained => b.trained /\ a.lists \subseteq b.lists

-----------------------------------------------------------------------------
(* The vector store.                                                        *)

\* Membership in a set of partial functions, without its union.
LEMMA PartialFunction ==
  ASSUME NEW S, NEW T, NEW f
  PROVE  f \in Partial(S, T) <=>
           /\ f = [x \in DOMAIN f |-> f[x]] /\ DOMAIN f \subseteq S
           /\ \A x \in DOMAIN f : f[x] \in T
<1>1. ASSUME f \in Partial(S, T)
      PROVE  /\ f = [x \in DOMAIN f |-> f[x]] /\ DOMAIN f \subseteq S
             /\ \A x \in DOMAIN f : f[x] \in T
  <2>1. PICK D \in SUBSET S : f \in [D -> T]
    BY <1>1 DEF Partial
  <2> QED
    BY <2>1
<1>2. ASSUME f = [x \in DOMAIN f |-> f[x]], DOMAIN f \subseteq S, \A x \in DOMAIN f : f[x] \in T
      PROVE  f \in Partial(S, T)
  <2>1. f \in [DOMAIN f -> T]
    BY <1>2
  <2> QED
    BY <2>1, <1>2 DEF Partial
<1> QED
  BY <1>1, <1>2

\* The fields of a store that fits.
LEMMA StoreFields ==
  ASSUME NEW vs, StoreFits(vs)
  PROVE  /\ vs.slots \in Seq(SlotRows) /\ vs.free \in Seq(Labels) /\ vs.generation \in Nat
         /\ DOMAIN vs.slots = 1..Len(vs.slots) /\ Len(vs.slots) \in Nat
         /\ DOMAIN vs.free = 1..Len(vs.free) /\ Len(vs.free) \in Nat
         /\ vs.index = [x \in DOMAIN vs.index |-> vs.index[x]] /\ DOMAIN vs.index \subseteq Ids
         /\ vs.index \in Partial(Ids, Labels)
         /\ \A id \in DOMAIN vs.index : vs.index[id] \in DOMAIN vs.slots
         /\ \A i \in DOMAIN vs.free : vs.free[i] \in DOMAIN vs.slots
         /\ \A i \in DOMAIN vs.slots : /\ vs.slots[i] \in SlotRows /\ vs.slots[i].id \in Ids
                                       /\ vs.slots[i].val \in Vals /\ vs.slots[i].live \in BOOLEAN
<1>1. /\ vs.slots \in Seq(SlotRows) /\ vs.free \in Seq(Labels) /\ vs.generation \in Nat
      /\ vs.index \in Partial(Ids, Labels)
      /\ \A id \in DOMAIN vs.index : vs.index[id] \in DOMAIN vs.slots
      /\ \A i \in DOMAIN vs.free : vs.free[i] \in DOMAIN vs.slots
  BY DEF StoreFits, StoreType
<1>2. vs.index = [x \in DOMAIN vs.index |-> vs.index[x]] /\ DOMAIN vs.index \subseteq Ids
  <2> DEFINE f == vs.index
  <2>1. f \in Partial(Ids, Labels)
    BY <1>1
  <2> HIDE DEF f
  <2>2. f = [x \in DOMAIN f |-> f[x]] /\ DOMAIN f \subseteq Ids
    BY <2>1, PartialFunction
  <2> QED
    BY <2>2 DEF f
<1>3. /\ DOMAIN vs.slots = 1..Len(vs.slots) /\ Len(vs.slots) \in Nat
      /\ DOMAIN vs.free = 1..Len(vs.free) /\ Len(vs.free) \in Nat
      /\ \A i \in DOMAIN vs.slots : vs.slots[i] \in SlotRows
  BY <1>1
<1>4. \A r \in SlotRows : r.id \in Ids /\ r.val \in Vals /\ r.live \in BOOLEAN
  BY DEF SlotRows
<1> QED
  BY <1>1, <1>2, <1>3, <1>4

\* A store put together from its fields.
LEMMA StoreFromFields ==
  ASSUME NEW slots \in Seq(SlotRows), NEW index, NEW free \in Seq(Labels), NEW g \in Nat,
         index = [x \in DOMAIN index |-> index[x]], DOMAIN index \subseteq Ids,
         \A id \in DOMAIN index : index[id] \in DOMAIN slots,
         \A i \in DOMAIN free : free[i] \in DOMAIN slots,
         \A id \in DOMAIN index : slots[index[id]].live /\ slots[index[id]].id = id,
         \A i \in DOMAIN slots :
           slots[i].live => slots[i].id \in DOMAIN index /\ index[slots[i].id] = i,
         \A i \in DOMAIN free : ~slots[free[i]].live,
         \A i, j \in DOMAIN free : free[i] = free[j] => i = j
  PROVE  StoreFits([slots |-> slots, index |-> index, free |-> free, generation |-> g])
<1> DEFINE vs == [slots |-> slots, index |-> index, free |-> free, generation |-> g]
<1>1. \A id \in DOMAIN index : index[id] \in Labels
  BY DEF Labels
<1>2. index \in Partial(Ids, Labels)
  BY <1>1, PartialFunction, Zenon
<1>3. vs.slots = slots /\ vs.index = index /\ vs.free = free /\ vs.generation = g
  OBVIOUS
<1>4. StoreType(vs)
  BY <1>2, <1>3 DEF StoreType
<1>5. IndexFits(vs)
  BY <1>3 DEF IndexFits
<1>6. FreeFits(vs)
  BY <1>3 DEF FreeFits
<1> QED
  BY <1>4, <1>5, <1>6 DEF StoreFits

\* The index of a store is one to one.
LEMMA IndexOneToOne ==
  ASSUME NEW vs, StoreFits(vs)
  PROVE  \A a, b \in DOMAIN vs.index : vs.index[a] = vs.index[b] => a = b
BY DEF StoreFits, IndexFits

\* SetVector keeps the store in order, changes one id and no other live row.
LEMMA SetVectorFits ==
  ASSUME NEW vs, StoreFits(vs), NEW id \in Ids, NEW val \in Vals
  PROVE  LET n == SetVector(vs, id, val)
         IN  /\ StoreFits(n) /\ n.generation = vs.generation + 1
             /\ Holds(n, id) /\ n.slots[n.index[id]].val = val
             /\ VectorContents(n) = Assign(VectorContents(vs), id, val)
             /\ \A l \in LiveSlots(n) : \/ l = n.index[id]
                                        \/ l \in LiveSlots(vs) /\ n.slots[l] = vs.slots[l]
<1> DEFINE reuse == ~Holds(vs, id) /\ vs.free # <<>>
           slot == CASE Holds(vs, id) -> vs.index[id]
                     [] reuse         -> Last(vs.free)
                     [] OTHER         -> Len(vs.slots) + 1
           row == [id |-> id, val |-> val, live |-> TRUE]
           slots == IF slot > Len(vs.slots) THEN Append(vs.slots, row)
                    ELSE [vs.slots EXCEPT ![slot] = row]
           index == Assign(vs.index, id, slot)
           free == IF reuse THEN Front(vs.free) ELSE vs.free
           n == [slots |-> slots, index |-> index, free |-> free, generation |-> vs.generation + 1]
<1>1. SetVector(vs, id, val) = n
  BY DEF SetVector
<1>2. row \in SlotRows /\ row.id = id /\ row.val = val /\ row.live = TRUE
  BY DEF SlotRows
<1> HIDE DEF row
<1>f. /\ vs.slots \in Seq(SlotRows) /\ vs.free \in Seq(Labels) /\ vs.generation \in Nat
      /\ DOMAIN vs.slots = 1..Len(vs.slots) /\ Len(vs.slots) \in Nat
      /\ DOMAIN vs.free = 1..Len(vs.free) /\ Len(vs.free) \in Nat
      /\ \A k \in DOMAIN vs.index : vs.index[k] \in DOMAIN vs.slots
      /\ \A i \in DOMAIN vs.free : vs.free[i] \in DOMAIN vs.slots
      /\ DOMAIN vs.index \subseteq Ids
  BY StoreFields
<1>i. /\ \A k \in DOMAIN vs.index : vs.slots[vs.index[k]].live /\ vs.slots[vs.index[k]].id = k
      /\ \A i \in DOMAIN vs.slots :
           vs.slots[i].live => vs.slots[i].id \in DOMAIN vs.index /\ vs.index[vs.slots[i].id] = i
      /\ \A i \in DOMAIN vs.free : ~vs.slots[vs.free[i]].live
      /\ \A i, j \in DOMAIN vs.free : vs.free[i] = vs.free[j] => i = j
  BY DEF StoreFits, IndexFits, FreeFits
<1>l. reuse => Len(vs.free) \in DOMAIN vs.free /\ Last(vs.free) = vs.free[Len(vs.free)]
  BY <1>f DEF Last
<1>3. slot \in 1..(Len(vs.slots) + 1)
  BY <1>f, <1>l DEF Holds
<1>s. Holds(vs, id) => slot = vs.index[id]
  BY DEF Holds
\* No other id is kept in the slot.
<1>4. \A k \in DOMAIN vs.index \ {id} : vs.index[k] # slot
  <2> TAKE k \in DOMAIN vs.index \ {id}
  <2>1. CASE Holds(vs, id)
    BY <2>1, <1>i DEF Holds
  <2>2. CASE reuse
    BY <2>2, <1>f, <1>i, <1>l DEF Holds
  <2>3. CASE ~Holds(vs, id) /\ ~reuse
    BY <2>3, <1>f DEF Holds
  <2> QED
    BY <2>1, <2>2, <2>3
<1>5. /\ free \in Seq(Labels) /\ DOMAIN free \subseteq DOMAIN vs.free
      /\ \A i \in DOMAIN free : free[i] = vs.free[i]
  <2>1. CASE reuse
    <3>1. Front(vs.free) = SubSeq(vs.free, 1, Len(vs.free) - 1)
      BY DEF Front
    <3>2. Len(vs.free) \in Nat \ {0}
      BY <2>1, <1>f, <1>l
    <3> QED
      BY <2>1, <3>1, <3>2, <1>f, SubSeqProperties
  <2>2. CASE ~reuse
    BY <2>2, <1>f
  <2> QED
    BY <2>1, <2>2
<1>6. \A i \in DOMAIN free : free[i] # slot
  <2> TAKE i \in DOMAIN free
  <2>0. free[i] = vs.free[i] /\ i \in DOMAIN vs.free
    BY <1>5
  <2>1. CASE Holds(vs, id)
    BY <2>0, <2>1, <1>i DEF Holds
  <2>2. CASE reuse
    <3>1. free = SubSeq(vs.free, 1, Len(vs.free) - 1)
      BY <2>2 DEF Front
    <3>2. Len(vs.free) \in Nat \ {0}
      BY <2>2, <1>f, <1>l
    <3>3. Len(free) = Len(vs.free) - 1 /\ i \in 1..Len(free)
      BY <3>1, <3>2, <1>f, SubSeqProperties
    <3>4. i # Len(vs.free)
      BY <3>2, <3>3
    <3>5. slot = vs.free[Len(vs.free)]
      BY <2>2, <1>l DEF Holds
    <3> QED
      BY <2>0, <3>4, <3>5, <2>2, <1>l, <1>i
  <2>3. CASE ~Holds(vs, id) /\ ~reuse
    BY <2>0, <2>3, <1>f DEF Holds
  <2> QED
    BY <2>1, <2>2, <2>3
<1> HIDE DEF free
<1>7. /\ DOMAIN index = DOMAIN vs.index \union {id} /\ index = [x \in DOMAIN index |-> index[x]]
      /\ index[id] = slot /\ \A k \in DOMAIN vs.index \ {id} : index[k] = vs.index[k]
  <2> HIDE DEF slot
  <2> QED
    BY DEF Assign
<1> HIDE DEF index, slot, reuse
<1>8. /\ slots \in Seq(SlotRows) /\ slot \in DOMAIN slots /\ slots[slot] = row
      /\ DOMAIN slots = DOMAIN vs.slots \union {slot}
      /\ \A i \in DOMAIN vs.slots \ {slot} : slots[i] = vs.slots[i]
  <2>1. CASE slot > Len(vs.slots)
    <3>1. slot = Len(vs.slots) + 1
      BY <2>1, <1>3, <1>f
    <3> QED
      BY <2>1, <3>1, <1>2, <1>f, AppendProperties
  <2>2. CASE ~(slot > Len(vs.slots))
    <3>1. slot \in DOMAIN vs.slots
      BY <2>2, <1>3, <1>f
    <3> QED
      BY <2>2, <3>1, <1>2, <1>f
  <2> QED
    BY <2>1, <2>2
<1> HIDE DEF slots
<1>9. StoreFits(n)
  <2>1. \A k \in DOMAIN index : index[k] \in DOMAIN slots
    BY <1>7, <1>8, <1>f
  <2>2. \A i \in DOMAIN free : free[i] \in DOMAIN slots
    BY <1>5, <1>8, <1>f
  <2>3. \A k \in DOMAIN index : slots[index[k]].live /\ slots[index[k]].id = k
    BY <1>2, <1>4, <1>7, <1>8, <1>f, <1>i
  <2>4. \A i \in DOMAIN slots :
          slots[i].live => slots[i].id \in DOMAIN index /\ index[slots[i].id] = i
    <3> TAKE i \in DOMAIN slots
    <3> HAVE slots[i].live
    <3>1. CASE i = slot
      BY <3>1, <1>2, <1>7, <1>8
    <3>2. CASE i # slot
      <4>1. i \in DOMAIN vs.slots /\ slots[i] = vs.slots[i]
        BY <3>2, <1>8
      <4>2. vs.slots[i].id \in DOMAIN vs.index /\ vs.index[vs.slots[i].id] = i
        BY <4>1, <1>i
      <4>3. vs.slots[i].id # id
        <5> SUFFICES ASSUME vs.slots[i].id = id PROVE FALSE
          OBVIOUS
        <5>1. Holds(vs, id) /\ slot = vs.index[id]
          BY <4>2, <1>s DEF Holds
        <5> QED
          BY <5>1, <4>2, <3>2
      <4> QED
        BY <4>1, <4>2, <4>3, <1>7
    <3> QED
      BY <3>1, <3>2
  <2>5. \A i \in DOMAIN free : ~slots[free[i]].live
    <3> TAKE i \in DOMAIN free
    <3>1. free[i] = vs.free[i] /\ i \in DOMAIN vs.free /\ free[i] # slot
      BY <1>5, <1>6
    <3>2. slots[free[i]] = vs.slots[vs.free[i]]
      BY <3>1, <1>8, <1>f
    <3> QED
      BY <3>1, <3>2, <1>i
  <2>6. \A i, j \in DOMAIN free : free[i] = free[j] => i = j
    BY <1>5, <1>i
  <2>7. vs.generation + 1 \in Nat /\ DOMAIN index \subseteq Ids
    BY <1>f, <1>7
  <2> QED
    BY <2>1, <2>2, <2>3, <2>4, <2>5, <2>6, <2>7, <1>5, <1>7, <1>8, StoreFromFields
<1>n. n.slots = slots /\ n.index = index /\ n.generation = vs.generation + 1
  OBVIOUS
<1>10. VectorContents(n) = Assign(VectorContents(vs), id, val)
  <2>1. VectorContents(n) = [k \in DOMAIN index |-> slots[index[k]].val]
    BY <1>n DEF VectorContents
  <2>2. Assign(VectorContents(vs), id, val)
          = [k \in {id} \union DOMAIN vs.index |-> IF k = id THEN val ELSE vs.slots[vs.index[k]].val]
    BY DEF Assign, VectorContents
  <2>3. \A k \in DOMAIN index :
          slots[index[k]].val = IF k = id THEN val ELSE vs.slots[vs.index[k]].val
    BY <1>2, <1>4, <1>7, <1>8, <1>f
  <2> QED
    BY <2>1, <2>2, <2>3, <1>7
<1>11. Holds(n, id) /\ n.slots[n.index[id]].val = val
  BY <1>n, <1>2, <1>7, <1>8 DEF Holds
<1>12. \A l \in LiveSlots(n) : \/ l = n.index[id]
                               \/ l \in LiveSlots(vs) /\ n.slots[l] = vs.slots[l]
  BY <1>n, <1>7, <1>8 DEF LiveSlots
<1> HIDE DEF n
<1> QED
  BY <1>1, <1>9, <1>n, <1>10, <1>11, <1>12

\* The compaction of the store keeps what it holds.
LEMMA DefragmentLockedFits ==
  ASSUME NEW vs, StoreFits(vs)
  PROVE  LET n == DefragmentLocked(vs)
         IN  /\ StoreFits(n) /\ n.generation = vs.generation
             /\ VectorContents(n) = VectorContents(vs)
<1> DEFINE live == LiveSlots(vs)
           rows == Compact(vs.slots, live)
           ids == {rows[i].id : i \in DOMAIN rows}
           index == [id \in ids |-> CHOOSE i \in DOMAIN rows : rows[i].id = id]
           n == [slots |-> rows, index |-> index, free |-> <<>>, generation |-> vs.generation]
<1>1. DefragmentLocked(vs) = n
  <2>1. vs \in [slots : Seq(SlotRows), index : Partial(Ids, Labels), free : Seq(Labels), generation : Nat]
    BY DEF StoreFits, StoreType
  <2> HIDE DEF rows, index
  <2>2. [vs EXCEPT !.slots = rows, !.index = index, !.free = <<>>] = n
    <3> DEFINE x == [vs EXCEPT !.slots = rows, !.index = index, !.free = <<>>]
               Shape == [slots : {rows}, index : {index}, free : {<<>>}, generation : Nat]
    <3>1. x \in Shape /\ x.generation = vs.generation
      BY <2>1
    <3>2. \A y \in Shape : y = [slots |-> rows, index |-> index, free |-> <<>>, generation |-> y.generation]
      OBVIOUS
    <3> HIDE DEF x, Shape
    <3>3. x = n
      BY <3>1, <3>2
    <3> QED
      BY <3>3 DEF x
  <2> QED
    BY <2>2 DEF DefragmentLocked, rows, index
<1>f. /\ vs.slots \in Seq(SlotRows) /\ vs.generation \in Nat
      /\ DOMAIN vs.index \subseteq Ids
      /\ \A k \in DOMAIN vs.index : vs.index[k] \in DOMAIN vs.slots
      /\ \A i \in DOMAIN vs.slots : vs.slots[i].id \in Ids
  BY StoreFields
<1>i. /\ \A k \in DOMAIN vs.index : vs.slots[vs.index[k]].live /\ vs.slots[vs.index[k]].id = k
      /\ \A i \in DOMAIN vs.slots :
           vs.slots[i].live => vs.slots[i].id \in DOMAIN vs.index /\ vs.index[vs.slots[i].id] = i
  BY DEF StoreFits, IndexFits
<1>2. live \in SUBSET DOMAIN vs.slots /\ \A i \in live : vs.slots[i].live
  BY DEF LiveSlots
<1> HIDE DEF live
<1>3. rows = Compact(vs.slots, live)
  OBVIOUS
<1> HIDE DEF rows
<1>c. /\ rows \in Seq(SlotRows)
      /\ \E e \in [1..Len(rows) -> live] :
           /\ \A i \in 1..Len(rows) : rows[i] = vs.slots[e[i]]
           /\ \A i, j \in 1..Len(rows) : e[i] = e[j] => i = j
           /\ \A k \in live : \E i \in 1..Len(rows) : e[i] = k
  BY <1>2, <1>3, <1>f, CompactRows
<1>d. DOMAIN rows = 1..Len(rows)
  BY <1>c
<1>4. PICK e \in [1..Len(rows) -> live] :
        /\ \A i \in 1..Len(rows) : rows[i] = vs.slots[e[i]]
        /\ \A i, j \in 1..Len(rows) : e[i] = e[j] => i = j
        /\ \A k \in live : \E i \in 1..Len(rows) : e[i] = k
  BY <1>c
<1>5. \A i \in DOMAIN rows :
        /\ rows[i] = vs.slots[e[i]] /\ e[i] \in DOMAIN vs.slots /\ rows[i].live
        /\ rows[i].id \in DOMAIN vs.index /\ vs.index[rows[i].id] = e[i]
  BY <1>2, <1>d, <1>4, <1>i
<1>6. \A i, j \in DOMAIN rows : rows[i].id = rows[j].id => i = j
  BY <1>d, <1>4, <1>5
<1>7. ids = DOMAIN vs.index
  <2>1. \A k \in DOMAIN vs.index : k \in ids
    <3> TAKE k \in DOMAIN vs.index
    <3>1. vs.index[k] \in live
      BY <1>i, <1>f DEF live, LiveSlots
    <3>2. PICK i \in 1..Len(rows) : e[i] = vs.index[k]
      BY <3>1, <1>4
    <3>3. rows[i].id = k
      BY <3>2, <1>4, <1>i
    <3> QED
      BY <3>3, <1>d
  <2>2. \A k \in ids : k \in DOMAIN vs.index
    BY <1>5
  <2> QED
    BY <2>1, <2>2
<1>8. \A k \in ids : index[k] \in DOMAIN rows /\ rows[index[k]].id = k
  OBVIOUS
<1>9. DOMAIN index = ids /\ index = [x \in DOMAIN index |-> index[x]]
  OBVIOUS
<1> HIDE DEF ids, index
<1>10. StoreFits(n)
  <2>1. \A k \in DOMAIN index : index[k] \in DOMAIN rows
    BY <1>8, <1>9
  <2>2. \A k \in DOMAIN index : rows[index[k]].live /\ rows[index[k]].id = k
    BY <1>5, <1>8, <1>9
  <2>3. \A i \in DOMAIN rows :
          rows[i].live => rows[i].id \in DOMAIN index /\ index[rows[i].id] = i
    BY <1>5, <1>6, <1>7, <1>8, <1>9
  <2>4. <<>> \in Seq(Labels) /\ DOMAIN <<>> = {}
    OBVIOUS
  <2>5. DOMAIN index \subseteq Ids
    BY <1>7, <1>9, <1>f
  <2> QED
    BY <2>1, <2>2, <2>3, <2>4, <2>5, <1>c, <1>9, <1>f, StoreFromFields
<1>n. n.slots = rows /\ n.index = index /\ n.generation = vs.generation
  OBVIOUS
<1>11. VectorContents(n) = VectorContents(vs)
  <2>1. VectorContents(n) = [k \in DOMAIN index |-> rows[index[k]].val]
    BY <1>n DEF VectorContents
  <2>2. \A k \in DOMAIN index : rows[index[k]].val = vs.slots[vs.index[k]].val
    BY <1>5, <1>8, <1>9
  <2> QED
    BY <2>1, <2>2, <1>7, <1>9 DEF VectorContents
<1> HIDE DEF n
<1> QED
  BY <1>1, <1>10, <1>n, <1>11

\* Defragment is the compaction and one more generation.
LEMMA DefragmentFits ==
  ASSUME NEW vs, StoreFits(vs)
  PROVE  LET n == Defragment(vs)
         IN  /\ StoreFits(n) /\ n.generation = vs.generation + 1
             /\ VectorContents(n) = VectorContents(vs)
<1> DEFINE p == DefragmentLocked(vs)
           n == [p EXCEPT !.generation = @ + 1]
<1>1. StoreFits(p) /\ p.generation = vs.generation /\ VectorContents(p) = VectorContents(vs)
  BY DefragmentLockedFits
<1>2. Defragment(vs) = n
  BY DEF Defragment
<1> HIDE DEF p
<1>3. /\ n \in [slots : Seq(SlotRows), index : Partial(Ids, Labels), free : Seq(Labels), generation : Nat]
      /\ n.slots = p.slots /\ n.index = p.index /\ n.free = p.free /\ n.generation = p.generation + 1
  <2>1. p \in [slots : Seq(SlotRows), index : Partial(Ids, Labels), free : Seq(Labels), generation : Nat]
    BY <1>1 DEF StoreFits, StoreType
  <2>2. p.generation + 1 \in Nat
    BY <2>1
  <2> QED
    BY <2>1, <2>2
<1> HIDE DEF n
<1>4. StoreFits(n) /\ VectorContents(n) = VectorContents(p)
  BY <1>1, <1>3 DEF StoreFits, StoreType, IndexFits, FreeFits, VectorContents
<1> QED
  BY <1>1, <1>2, <1>3, <1>4

\* DeleteVector keeps the store in order and drops one id.
LEMMA DeleteVectorFits ==
  ASSUME NEW vs, StoreFits(vs), NEW id, Holds(vs, id)
  PROVE  LET n == DeleteVector(vs, id)
         IN  /\ StoreFits(n) /\ n.generation = vs.generation + 1
             /\ VectorContents(n) = Without1(VectorContents(vs), {id})
<1> DEFINE slot == vs.index[id]
           row == [vs.slots[slot] EXCEPT !.live = FALSE]
           slots == [vs.slots EXCEPT ![slot] = row]
           free == Append(vs.free, slot)
           index == Without1(vs.index, {id})
           marked == [slots |-> slots, index |-> index, free |-> free, generation |-> vs.generation]
           packed == IF 4 * Len(marked.free) > Len(marked.slots)
                     THEN DefragmentLocked(marked) ELSE marked
           n == [packed EXCEPT !.generation = @ + 1]
<1>f. /\ vs.slots \in Seq(SlotRows) /\ vs.free \in Seq(Labels) /\ vs.generation \in Nat
      /\ DOMAIN vs.slots = 1..Len(vs.slots) /\ Len(vs.slots) \in Nat
      /\ DOMAIN vs.free = 1..Len(vs.free) /\ Len(vs.free) \in Nat
      /\ \A k \in DOMAIN vs.index : vs.index[k] \in DOMAIN vs.slots
      /\ \A i \in DOMAIN vs.free : vs.free[i] \in DOMAIN vs.slots
      /\ \A i \in DOMAIN vs.slots : vs.slots[i] \in SlotRows
      /\ DOMAIN vs.index \subseteq Ids
  BY StoreFields
<1>i. /\ \A k \in DOMAIN vs.index : vs.slots[vs.index[k]].live /\ vs.slots[vs.index[k]].id = k
      /\ \A i \in DOMAIN vs.slots :
           vs.slots[i].live => vs.slots[i].id \in DOMAIN vs.index /\ vs.index[vs.slots[i].id] = i
      /\ \A i \in DOMAIN vs.free : ~vs.slots[vs.free[i]].live
      /\ \A i, j \in DOMAIN vs.free : vs.free[i] = vs.free[j] => i = j
  BY DEF StoreFits, IndexFits, FreeFits
<1>1. DeleteVector(vs, id) = n
  <2>1. vs \in [slots : Seq(SlotRows), index : Partial(Ids, Labels), free : Seq(Labels), generation : Nat]
    BY DEF StoreFits, StoreType
  <2>2. [vs EXCEPT !.slots[slot].live = FALSE, !.free = Append(@, slot),
                   !.index = Without1(@, {id})] = marked
    <3> DEFINE x == [vs EXCEPT !.slots[slot].live = FALSE, !.free = Append(@, slot),
                               !.index = Without1(@, {id})]
               Shape == [slots : {slots}, index : {index}, free : {free}, generation : Nat]
    <3> HIDE DEF slot
    <3>1. x.slots = slots
      BY <2>1
    <3>2. x.index = index /\ x.free = free /\ x.generation = vs.generation
      BY <2>1
    <3>3. x \in [slots : {x.slots}, index : {x.index}, free : {x.free}, generation : Nat]
      BY <2>1
    <3> HIDE DEF x, slots, index, free
    <3>4. x \in Shape
      BY <3>1, <3>2, <3>3
    <3>5. \A y \in Shape : y = [slots |-> slots, index |-> index, free |-> free, generation |-> y.generation]
      OBVIOUS
    <3> HIDE DEF Shape
    <3>6. x = marked
      BY <3>2, <3>4, <3>5
    <3> QED
      BY <3>6 DEF x
  <2> HIDE DEF marked
  <2> QED
    BY <2>2 DEF DeleteVector
<1>2. slot \in DOMAIN vs.slots /\ vs.slots[slot].live /\ vs.slots[slot].id = id
  BY <1>f, <1>i DEF Holds
<1> HIDE DEF slot
<1>3. row \in SlotRows /\ row.live = FALSE
  BY <1>2, <1>f DEF SlotRows
<1> HIDE DEF row
<1>4. /\ slots \in Seq(SlotRows) /\ DOMAIN slots = DOMAIN vs.slots /\ slots[slot] = row
      /\ \A i \in DOMAIN slots \ {slot} : slots[i] = vs.slots[i]
  BY <1>2, <1>3, <1>f
<1>5. /\ DOMAIN index = DOMAIN vs.index \ {id} /\ index = [x \in DOMAIN index |-> index[x]]
      /\ \A k \in DOMAIN index : index[k] = vs.index[k] /\ index[k] # slot
  <2>1. /\ DOMAIN index = DOMAIN vs.index \ {id} /\ index = [x \in DOMAIN index |-> index[x]]
        /\ \A k \in DOMAIN index : index[k] = vs.index[k]
    BY DEF Without1
  <2> HIDE DEF index
  <2> QED
    BY <2>1, <1>2, <1>i
<1>6. /\ free \in Seq(Labels) /\ DOMAIN free = 1..(Len(vs.free) + 1) /\ free[Len(vs.free) + 1] = slot
      /\ \A i \in DOMAIN vs.free : free[i] = vs.free[i] /\ free[i] # slot
  <2>1. slot \in Labels
    BY <1>2, <1>f DEF Labels
  <2>2. /\ free \in Seq(Labels) /\ DOMAIN free = 1..(Len(vs.free) + 1) /\ free[Len(vs.free) + 1] = slot
        /\ \A i \in DOMAIN vs.free : free[i] = vs.free[i]
    BY <2>1, <1>f, AppendProperties
  <2> HIDE DEF free
  <2> QED
    BY <2>2, <1>2, <1>i
<1> HIDE DEF slots, index, free
<1>7. StoreFits(marked)
  <2>1. \A k \in DOMAIN index : index[k] \in DOMAIN slots
    BY <1>4, <1>5, <1>f
  <2>2. \A i \in DOMAIN free : i = Len(vs.free) + 1 \/ i \in DOMAIN vs.free
    BY <1>6, <1>f
  <2>3. \A i \in DOMAIN free : free[i] \in DOMAIN slots /\ ~slots[free[i]].live
    <3> TAKE i \in DOMAIN free
    <3>1. CASE i = Len(vs.free) + 1
      BY <3>1, <1>2, <1>3, <1>4, <1>6
    <3>2. CASE i \in DOMAIN vs.free
      BY <3>2, <1>4, <1>6, <1>f, <1>i
    <3> QED
      BY <2>2, <3>1, <3>2
  <2>4. \A k \in DOMAIN index : slots[index[k]].live /\ slots[index[k]].id = k
    BY <1>4, <1>5, <1>f, <1>i
  <2>5. \A i \in DOMAIN slots :
          slots[i].live => slots[i].id \in DOMAIN index /\ index[slots[i].id] = i
    <3> TAKE i \in DOMAIN slots
    <3> HAVE slots[i].live
    <3>1. i # slot
      BY <1>3, <1>4
    <3>2. slots[i] = vs.slots[i] /\ i \in DOMAIN vs.slots
      BY <3>1, <1>4
    <3>3. vs.slots[i].id \in DOMAIN vs.index /\ vs.index[vs.slots[i].id] = i
      BY <3>2, <1>i
    <3>4. vs.slots[i].id # id
      BY <3>1, <3>3 DEF slot
    <3> QED
      BY <3>2, <3>3, <3>4, <1>5
  <2>6. \A i, j \in DOMAIN free : free[i] = free[j] => i = j
    <3> TAKE i, j \in DOMAIN free
    <3> HAVE free[i] = free[j]
    <3> QED
      BY <2>2, <1>6, <1>i
  <2>7. DOMAIN index \subseteq Ids
    BY <1>5, <1>f
  <2> QED
    BY <2>1, <2>3, <2>4, <2>5, <2>6, <2>7, <1>4, <1>5, <1>6, <1>f, StoreFromFields
<1>8. VectorContents(marked) = Without1(VectorContents(vs), {id}) /\ marked.generation = vs.generation
  <2>1. VectorContents(marked) = [k \in DOMAIN index |-> slots[index[k]].val]
    BY DEF VectorContents
  <2>2. Without1(VectorContents(vs), {id}) = [k \in DOMAIN vs.index \ {id} |-> vs.slots[vs.index[k]].val]
    BY DEF VectorContents, Without1
  <2>3. \A k \in DOMAIN index : slots[index[k]].val = vs.slots[vs.index[k]].val
    BY <1>4, <1>5, <1>f
  <2> QED
    BY <2>1, <2>2, <2>3, <1>5
<1> HIDE DEF marked
<1>9. /\ StoreFits(packed) /\ packed.generation = vs.generation
      /\ VectorContents(packed) = Without1(VectorContents(vs), {id})
  BY <1>7, <1>8, DefragmentLockedFits
<1> HIDE DEF packed
<1>10. /\ n \in [slots : Seq(SlotRows), index : Partial(Ids, Labels), free : Seq(Labels), generation : Nat]
       /\ n.slots = packed.slots /\ n.index = packed.index /\ n.free = packed.free
       /\ n.generation = packed.generation + 1
  <2>1. packed \in [slots : Seq(SlotRows), index : Partial(Ids, Labels), free : Seq(Labels), generation : Nat]
    BY <1>9 DEF StoreFits, StoreType
  <2>2. packed.generation + 1 \in Nat
    BY <2>1
  <2> QED
    BY <2>1, <2>2
<1> HIDE DEF n
<1>11. StoreFits(n) /\ VectorContents(n) = VectorContents(packed)
  BY <1>9, <1>10 DEF StoreFits, StoreType, IndexFits, FreeFits, VectorContents
<1> QED
  BY <1>1, <1>9, <1>10, <1>11

\* A store filled from an image holds the image.
LEMMA SwapStateFits ==
  ASSUME NEW vs, vs.generation \in Nat, NEW c \in Partial(Ids, Vals), IsFiniteSet(DOMAIN c)
  PROVE  LET n == SwapState(vs, c)
         IN  StoreFits(n) /\ n.generation = vs.generation + 1 /\ VectorContents(n) = c
<1> DEFINE D == DOMAIN c
           ids == SetToSeq(D)
           slots == [i \in DOMAIN ids |-> [id |-> ids[i], val |-> c[ids[i]], live |-> TRUE]]
           index == [id \in D |-> CHOOSE i \in DOMAIN ids : ids[i] = id]
           n == [slots |-> slots, index |-> index, free |-> <<>>, generation |-> vs.generation + 1]
<1>1. SwapState(vs, c) = n
  BY DEF SwapState
<1>2. /\ c = [x \in D |-> c[x]] /\ D \subseteq Ids /\ \A x \in D : c[x] \in Vals
  BY PartialFunction
<1> HIDE DEF D
<1>3. /\ ids \in [1..Cardinality(D) -> D] /\ \A i, j \in 1..Cardinality(D) : ids[i] = ids[j] => i = j
      /\ Cardinality(D) \in Nat
  <2>1. Cardinality(D) \in Nat
    BY FS_CardinalityType DEF D
  <2>2. \E f \in Bijection(1..Cardinality(D), D) : TRUE
    <3>1. ExistsBijection(1..Cardinality(D), D)
      BY FS_CardinalityType DEF D
    <3> QED
      BY <3>1 DEF ExistsBijection
  <2>3. PICK f \in Bijection(1..Cardinality(D), D) : TRUE
    BY <2>2
  <2>4. f \in [1..Cardinality(D) -> D] /\ IsInjective(f)
    BY <2>3 DEF Bijection, Injection, IsInjective
  <2>5. ids \in [1..Cardinality(D) -> D] /\ IsInjective(ids)
    BY <2>4 DEF SetToSeq
  <2> HIDE DEF ids
  <2> QED
    BY <2>1, <2>5 DEF IsInjective
<1> HIDE DEF ids
<1>4. \A x \in D : \E i \in DOMAIN ids : ids[i] = x
  <2>1. ids \in Injection(1..Cardinality(D), D)
    BY <1>3, Fun_IsInj
  <2>2. IsFiniteSet(D) /\ Cardinality(1..Cardinality(D)) = Cardinality(D)
    BY <1>3, FS_Interval DEF D
  <2>3. ids \in Surjection(1..Cardinality(D), D)
    BY <2>1, <2>2, FS_Injection
  <2> QED
    BY <2>3, <1>3 DEF Surjection
<1>5. /\ DOMAIN slots = DOMAIN ids
      /\ \A i \in DOMAIN slots : /\ slots[i] \in SlotRows /\ slots[i].id = ids[i] /\ slots[i].live
                                 /\ slots[i].val = c[ids[i]]
  BY <1>2, <1>3 DEF SlotRows
<1>6. slots \in Seq(SlotRows)
  <2>1. slots \in [1..Cardinality(D) -> SlotRows]
    BY <1>3, <1>5
  <2> HIDE DEF slots
  <2> QED
    BY <2>1, <1>3
<1>7. /\ DOMAIN index = D /\ index = [x \in DOMAIN index |-> index[x]]
      /\ \A x \in D : index[x] \in DOMAIN ids /\ ids[index[x]] = x
  BY <1>4
<1> HIDE DEF slots, index
<1>8. StoreFits(n)
  <2>1. \A k \in DOMAIN index : index[k] \in DOMAIN slots /\ slots[index[k]].live /\ slots[index[k]].id = k
    BY <1>5, <1>7
  <2>2. \A i \in DOMAIN slots : slots[i].live => slots[i].id \in DOMAIN index /\ index[slots[i].id] = i
    BY <1>3, <1>5, <1>7
  <2>3. <<>> \in Seq(Labels) /\ DOMAIN <<>> = {}
    OBVIOUS
  <2>4. vs.generation + 1 \in Nat /\ DOMAIN index \subseteq Ids
    BY <1>2, <1>7
  <2> QED
    BY <2>1, <2>2, <2>3, <2>4, <1>6, <1>7, StoreFromFields
<1>n. n.slots = slots /\ n.index = index /\ n.generation = vs.generation + 1
  OBVIOUS
<1>9. VectorContents(n) = c
  <2>1. VectorContents(n) = [k \in D |-> slots[index[k]].val]
    BY <1>n, <1>7 DEF VectorContents
  <2>2. \A k \in D : slots[index[k]].val = c[k]
    BY <1>5, <1>7
  <2> QED
    BY <2>1, <2>2, <1>2
<1> HIDE DEF n
<1> QED
  BY <1>1, <1>8, <1>n, <1>9

\* A store without rows.
LEMMA EmptyStoreFits ==
  StoreFits(EmptyVectorStore) /\ VectorContents(EmptyVectorStore) = <<>>
<1>1. <<>> \in Seq(SlotRows) /\ <<>> \in Seq(Labels) /\ DOMAIN <<>> = {} /\ 0 \in Nat
  OBVIOUS
<1>2. <<>> = [x \in DOMAIN <<>> |-> <<>>[x]]
  OBVIOUS
<1>3. StoreFits(EmptyVectorStore)
  BY <1>1, <1>2, StoreFromFields DEF EmptyVectorStore
<1>4. VectorContents(EmptyVectorStore) = <<>>
  BY DEF EmptyVectorStore, VectorContents
<1> QED
  BY <1>3, <1>4

-----------------------------------------------------------------------------
(* The index.                                                               *)

\* A transient tier of the IVF index, by its labels and values.
LEMMA TierFacts ==
  ASSUME NEW t \in Tier
  PROVE  /\ t = [x \in DOMAIN t |-> t[x]] /\ DOMAIN t \subseteq Labels /\ \A l \in DOMAIN t : t[l] \in Vals
BY PartialFunction DEF Tier

\* The map updates the index makes yield tiers.
LEMMA TierUpdates ==
  /\ <<>> \in Tier
  /\ \A t \in Tier : \A l : Without1(t, {l}) \in Tier
  /\ \A t \in Tier : \A l \in Labels : \A v \in Vals : Assign(t, l, v) \in Tier
  /\ \A t, u \in Tier : Over(t, u) \in Tier
<1>1. <<>> \in Tier
  <2>1. <<>> = [x \in DOMAIN <<>> |-> <<>>[x]] /\ DOMAIN <<>> = {}
    OBVIOUS
  <2> QED
    BY <2>1, PartialFunction DEF Tier
<1>2. ASSUME NEW t \in Tier, NEW l PROVE Without1(t, {l}) \in Tier
  <2> DEFINE w == Without1(t, {l})
  <2>1. DOMAIN w = DOMAIN t \ {l} /\ w = [x \in DOMAIN w |-> w[x]] /\ \A x \in DOMAIN w : w[x] = t[x]
    BY DEF Without1
  <2> HIDE DEF w
  <2>2. DOMAIN w \subseteq Labels /\ \A x \in DOMAIN w : w[x] \in Vals
    BY <2>1, TierFacts
  <2>3. w \in Tier
    BY <2>1, <2>2, PartialFunction DEF Tier
  <2> QED
    BY <2>3 DEF w
<1>3. ASSUME NEW t \in Tier, NEW l \in Labels, NEW v \in Vals PROVE Assign(t, l, v) \in Tier
  <2> DEFINE w == Assign(t, l, v)
  <2>1. /\ DOMAIN w = DOMAIN t \union {l} /\ w = [x \in DOMAIN w |-> w[x]]
        /\ \A x \in DOMAIN w : w[x] = IF x = l THEN v ELSE t[x]
    BY DEF Assign
  <2> HIDE DEF w
  <2>2. DOMAIN w \subseteq Labels /\ \A x \in DOMAIN w : w[x] \in Vals
    BY <2>1, TierFacts
  <2>3. w \in Tier
    BY <2>1, <2>2, PartialFunction DEF Tier
  <2> QED
    BY <2>3 DEF w
<1>4. ASSUME NEW t \in Tier, NEW u \in Tier PROVE Over(t, u) \in Tier
  <2> DEFINE w == Over(t, u)
  <2>1. /\ DOMAIN w = DOMAIN t \union DOMAIN u /\ w = [x \in DOMAIN w |-> w[x]]
        /\ \A x \in DOMAIN w : w[x] = IF x \in DOMAIN t THEN t[x] ELSE u[x]
    BY DEF Over
  <2> HIDE DEF w
  <2>2. DOMAIN w \subseteq Labels /\ \A x \in DOMAIN w : w[x] \in Vals
    BY <2>1, TierFacts
  <2>3. w \in Tier
    BY <2>1, <2>2, PartialFunction DEF Tier
  <2> QED
    BY <2>3 DEF w
<1> QED
  BY <1>1, <1>2, <1>3, <1>4

\* An index at start-up.
LEMMA EmptyAnnFacts ==
  /\ EmptyAnn \in Anns /\ EmptyAnn.published = 0 /\ ~EmptyAnn.trained
  /\ DOMAIN EmptyAnn.nodes = {} /\ TransientLabels(EmptyAnn) = {}
<1>1. <<>> \in Seq(Nodes) /\ 0 \in Nat /\ {} \in SUBSET Labels /\ <<>> \in Tier /\ DOMAIN <<>> = {}
  BY TierUpdates
<1>2. EmptyAnn \in Anns
  BY <1>1 DEF EmptyAnn, Anns
<1> QED
  BY <1>1, <1>2 DEF EmptyAnn, TransientLabels

\* What Train changes and what it leaves.
LEMMA TrainFacts ==
  ASSUME NEW a \in Anns, NEW labels \in SUBSET Labels
  PROVE  LET r == Train(a, labels)
         IN  /\ r \in Anns /\ r.trained /\ r.lists = labels /\ r.published = a.published
             /\ r.buffer = a.buffer /\ r.sealing = a.sealing /\ r.nodes = a.nodes
<1>1. a.layout + 1 \in Nat
  BY DEF Anns
<1> QED
  BY <1>1 DEF Train, Anns

\* What ResetTrained changes and what it leaves.
LEMMA ResetFacts ==
  ASSUME NEW a \in Anns
  PROVE  LET r == ResetTrained(a)
         IN  /\ r \in Anns /\ ~r.trained /\ r.lists = a.lists /\ r.published = a.published
             /\ r.buffer = a.buffer /\ r.sealing = a.sealing /\ r.nodes = a.nodes
<1>1. a.layout + 1 \in Nat
  BY DEF Anns
<1> QED
  BY <1>1 DEF ResetTrained, Anns

\* Publish sets the published generation alone.
LEMMA PublishFacts ==
  ASSUME NEW a \in Anns, NEW vs, vs.generation \in Nat
  PROVE  LET r == Publish(a, vs)
         IN  /\ r \in Anns /\ r.published = vs.generation /\ r.trained = a.trained /\ r.lists = a.lists
             /\ r.buffer = a.buffer /\ r.sealing = a.sealing /\ r.nodes = a.nodes
BY DEF Publish, Anns

\* RemoveVector on the IVF tiers.
LEMMA RemoveFacts ==
  ASSUME NEW a \in Anns, NEW l
  PROVE  LET r == RemoveVector(a, l)
         IN  /\ r \in Anns /\ r.published = a.published /\ r.trained = a.trained
             /\ r.sealing = Without1(a.sealing, {l})
<1>1. a.buffer \in Tier /\ a.sealing \in Tier
  BY DEF Anns
<1>2. Without1(a.buffer, {l}) \in Tier /\ Without1(a.sealing, {l}) \in Tier
  BY <1>1, TierUpdates
<1>3. (IF a.trained THEN a.lists \ {l} ELSE a.lists) \in SUBSET Labels
  BY DEF Anns
<1> QED
  BY <1>2, <1>3 DEF RemoveVector, Anns

\* AppendToBuffer on the IVF tiers.
LEMMA AppendFacts ==
  ASSUME NEW a \in Anns, NEW l \in Labels, NEW v \in Vals
  PROVE  LET r == AppendToBuffer(a, l, v)
         IN  /\ r \in Anns /\ r.published = a.published /\ r.trained = a.trained /\ r.lists = a.lists
             /\ r.buffer = Assign(a.buffer, l, v) /\ r.sealing = a.sealing /\ r.nodes = a.nodes
<1>1. a.buffer \in Tier
  BY DEF Anns
<1>2. Assign(a.buffer, l, v) \in Tier
  BY <1>1, TierUpdates
<1> QED
  BY <1>2 DEF AppendToBuffer, Anns

\* A sealing that cannot be committed goes back to the buffer.
LEMMA ReturnFacts ==
  ASSUME NEW a \in Anns
  PROVE  LET r == ReturnToBuffer(a)
         IN  /\ r \in Anns /\ r.published = a.published /\ r.trained = a.trained /\ r.lists = a.lists
             /\ r.buffer = Over(a.buffer, a.sealing) /\ r.sealing = <<>> /\ r.nodes = a.nodes
<1>1. a.buffer \in Tier /\ a.sealing \in Tier
  BY DEF Anns
<1>2. Over(a.buffer, a.sealing) \in Tier /\ <<>> \in Tier
  BY <1>1, TierUpdates
<1> QED
  BY <1>2 DEF ReturnToBuffer, Anns

\* Compacting the graph drops deleted nodes only.
LEMMA LiveNodesFacts ==
  ASSUME NEW nodes \in Seq(Nodes)
  PROVE  /\ LiveNodes(nodes) \in Seq(Nodes)
         /\ \A i \in DOMAIN LiveNodes(nodes) :
              \E j \in DOMAIN nodes : LiveNodes(nodes)[i] = nodes[j] /\ ~nodes[j].deleted
<1> DEFINE keep == {i \in DOMAIN nodes : ~nodes[i].deleted}
           c == Compact(nodes, keep)
<1>1. keep \in SUBSET DOMAIN nodes /\ \A j \in keep : ~nodes[j].deleted
  OBVIOUS
<1>2. c = Compact(nodes, keep) /\ LiveNodes(nodes) = c
  BY DEF LiveNodes
<1> HIDE DEF keep, c
<1>3. c \in Seq(Nodes)
  BY <1>1, <1>2, CompactRows
<1>4. \E e \in [1..Len(c) -> keep] : \A i \in 1..Len(c) : c[i] = nodes[e[i]]
  BY <1>1, <1>2, CompactRows
<1>5. \A i \in DOMAIN c : \E j \in DOMAIN nodes : c[i] = nodes[j] /\ ~nodes[j].deleted
  <2>1. PICK e \in [1..Len(c) -> keep] : \A i \in 1..Len(c) : c[i] = nodes[e[i]]
    BY <1>4
  <2> TAKE i \in DOMAIN c
  <2>2. i \in 1..Len(c)
    BY <1>3
  <2> QED
    BY <2>1, <2>2, <1>1
<1> QED
  BY <1>2, <1>3, <1>5

\* The compaction threshold of the graph invents no node.
LEMMA MaybeCompactFacts ==
  ASSUME NEW nodes \in Seq(Nodes)
  PROVE  /\ MaybeCompactLocked(nodes) \in Seq(Nodes)
         /\ \A i \in DOMAIN MaybeCompactLocked(nodes) :
              \E j \in DOMAIN nodes : MaybeCompactLocked(nodes)[i] = nodes[j]
<1>1. MaybeCompactLocked(nodes) = nodes \/ MaybeCompactLocked(nodes) = LiveNodes(nodes)
  BY DEF MaybeCompactLocked
<1> QED
  BY <1>1, LiveNodesFacts

\* RetireLabel leaves no live node of the label and no other node changed.
LEMMA RetireFacts ==
  ASSUME NEW nodes \in Seq(Nodes), NEW l
  PROVE  LET r == RetireLabel(nodes, l)
         IN  /\ r \in Seq(Nodes) /\ Len(r) = Len(nodes)
             /\ \A i \in DOMAIN r : ~r[i].deleted => r[i] = nodes[i] /\ r[i].label # l
<1> DEFINE r == RetireLabel(nodes, l)
<1>1. \A i \in DOMAIN nodes : nodes[i] \in Nodes
  OBVIOUS
<1>2. /\ DOMAIN r = DOMAIN nodes
      /\ \A i \in DOMAIN nodes :
           r[i] = IF nodes[i].label = l THEN [nodes[i] EXCEPT !.deleted = TRUE] ELSE nodes[i]
      /\ r = [i \in DOMAIN nodes |-> r[i]]
  BY DEF RetireLabel
<1> HIDE DEF r
<1>3. \A n \in Nodes : [n EXCEPT !.deleted = TRUE] \in Nodes /\ [n EXCEPT !.deleted = TRUE].deleted
  BY DEF Nodes
<1>4. \A i \in DOMAIN r : r[i] \in Nodes /\ (~r[i].deleted => r[i] = nodes[i] /\ r[i].label # l)
  BY <1>1, <1>2, <1>3
<1>5. r \in Seq(Nodes) /\ Len(r) = Len(nodes)
  <2>1. DOMAIN nodes = 1..Len(nodes) /\ Len(nodes) \in Nat
    OBVIOUS
  <2>2. r \in [1..Len(nodes) -> Nodes]
    BY <2>1, <1>2, <1>4
  <2> QED
    BY <2>1, <2>2
<1> QED
  BY <1>4, <1>5 DEF r

\* What the publication of a rebuilt index leaves.
LEMMA RebuildFacts ==
  ASSUME NEW a \in Anns, NEW vs, StoreFits(vs)
  PROVE  LET r == Publish(Rebuild(a, vs), vs)
         IN  /\ r \in Anns /\ r.published = vs.generation
             /\ r.buffer = a.buffer /\ r.sealing = a.sealing
             /\ kind = "hnsw" => /\ DOMAIN r.nodes = DOMAIN vs.slots
                                 /\ \A i \in DOMAIN r.nodes : /\ r.nodes[i].label = i
                                                              /\ r.nodes[i].val = vs.slots[i].val
             /\ kind # "hnsw" => \/ DOMAIN vs.slots = {} /\ ~r.trained
                                 \/ r.trained /\ r.lists = DOMAIN vs.slots
<1> DEFINE q == Rebuild(a, vs)
           rows == DOMAIN vs.slots
<1>f. /\ rows = 1..Len(vs.slots) /\ Len(vs.slots) \in Nat /\ vs.generation \in Nat
      /\ \A i \in rows : vs.slots[i].val \in Vals
  BY StoreFields
<1>1. rows \in SUBSET Labels
  BY <1>f DEF Labels
<1>2. q \in Anns /\ q.buffer = a.buffer /\ q.sealing = a.sealing
      /\ (kind = "hnsw" => /\ DOMAIN q.nodes = rows
                           /\ \A i \in rows : q.nodes[i].label = i /\ q.nodes[i].val = vs.slots[i].val)
      /\ (kind # "hnsw" => \/ rows = {} /\ ~q.trained
                           \/ q.trained /\ q.lists = rows)
  <2>1. CASE kind = "hnsw"
    <3> DEFINE nodes == [i \in rows |-> [label |-> i, val |-> vs.slots[i].val, deleted |-> FALSE]]
    <3>1. q = [a EXCEPT !.nodes = nodes]
      BY <2>1 DEF Rebuild
    <3>2. \A i \in rows : nodes[i] \in Nodes /\ nodes[i].label = i /\ nodes[i].val = vs.slots[i].val
      BY <1>f, <1>1 DEF Nodes
    <3>3. nodes \in Seq(Nodes) /\ DOMAIN nodes = rows
      <4>1. nodes \in [1..Len(vs.slots) -> Nodes]
        BY <3>2, <1>f
      <4> HIDE DEF nodes
      <4> QED
        BY <4>1, <1>f
    <3> HIDE DEF nodes, q
    <3>4. q \in Anns /\ q.buffer = a.buffer /\ q.sealing = a.sealing /\ q.nodes = nodes
      BY <3>1, <3>3 DEF Anns
    <3> QED
      BY <3>2, <3>3, <3>4, <2>1
  <2>2. CASE kind # "hnsw" /\ rows = {}
    <3>1. q = ResetTrained(a)
      BY <2>2 DEF Rebuild
    <3> QED
      BY <2>2, <3>1, ResetFacts
  <2>3. CASE kind # "hnsw" /\ rows # {}
    <3> DEFINE b == ResetTrained(a)
    <3>1. q = Train(b, rows)
      BY <2>3 DEF Rebuild
    <3>2. b \in Anns /\ b.buffer = a.buffer /\ b.sealing = a.sealing
      BY ResetFacts
    <3> HIDE DEF b, q
    <3>3. q \in Anns /\ q.trained /\ q.lists = rows /\ q.buffer = b.buffer /\ q.sealing = b.sealing
      BY <3>1, <3>2, <1>1, TrainFacts
    <3> QED
      BY <2>3, <3>2, <3>3
  <2> QED
    BY <2>1, <2>2, <2>3
<1> HIDE DEF q, rows
<1>3. LET r == Publish(q, vs)
      IN  /\ r \in Anns /\ r.published = vs.generation /\ r.trained = q.trained /\ r.lists = q.lists
          /\ r.buffer = q.buffer /\ r.sealing = q.sealing /\ r.nodes = q.nodes
  BY <1>2, <1>f, PublishFacts
<1> QED
  BY <1>2, <1>3 DEF q, rows

\* What the publication of an index with one more vector leaves.
LEMMA AddFacts ==
  ASSUME NEW a \in Anns, NEW vs, vs.generation \in Nat, NEW l \in Labels, NEW v \in Vals
  PROVE  LET r == Publish(AnnAdd(a, l, v), vs)
         IN  /\ r \in Anns /\ r.published = vs.generation
             /\ r.trained = a.trained /\ r.lists = a.lists /\ r.sealing = a.sealing
             /\ kind # "hnsw" => r.buffer = Assign(a.buffer, l, v)
             /\ kind = "hnsw" =>
                  \A i \in DOMAIN r.nodes :
                    ~r.nodes[i].deleted =>
                      \/ r.nodes[i].label = l /\ r.nodes[i].val = v
                      \/ r.nodes[i].label # l /\ \E j \in DOMAIN a.nodes : r.nodes[i] = a.nodes[j]
<1> DEFINE q == AnnAdd(a, l, v)
<1>1. /\ q \in Anns /\ q.trained = a.trained /\ q.lists = a.lists /\ q.sealing = a.sealing
      /\ kind # "hnsw" => q.buffer = Assign(a.buffer, l, v)
      /\ kind = "hnsw" =>
           \A i \in DOMAIN q.nodes :
             ~q.nodes[i].deleted =>
               \/ q.nodes[i].label = l /\ q.nodes[i].val = v
               \/ q.nodes[i].label # l /\ \E j \in DOMAIN a.nodes : q.nodes[i] = a.nodes[j]
  <2>1. CASE kind = "hnsw"
    <3> DEFINE old == RetireLabel(a.nodes, l)
               new == [label |-> l, val |-> v, deleted |-> FALSE]
               added == AddLocked(a.nodes, l, v)
               nodes == MaybeCompactLocked(added)
    <3>1. q = [a EXCEPT !.nodes = nodes]
      BY <2>1 DEF AnnAdd
    <3>2. a.nodes \in Seq(Nodes) /\ new \in Nodes /\ new.label = l /\ new.val = v
      BY DEF Anns, Nodes
    <3>3. /\ old \in Seq(Nodes) /\ Len(old) = Len(a.nodes)
          /\ \A i \in DOMAIN old : ~old[i].deleted => old[i] = a.nodes[i] /\ old[i].label # l
      BY <3>2, RetireFacts
    <3>4. added = Append(old, new)
      BY DEF AddLocked
    <3> HIDE DEF old, new, added
    <3>5. /\ added \in Seq(Nodes)
          /\ \A j \in DOMAIN added : added[j] = new \/ (j \in DOMAIN old /\ added[j] = old[j])
      <4>1. added \in Seq(Nodes) /\ Len(added) = Len(old) + 1 /\ added[Len(old) + 1] = new
        BY <3>2, <3>3, <3>4, AppendProperties
      <4>2. \A j \in 1..Len(old) : added[j] = old[j]
        BY <3>2, <3>3, <3>4, AppendProperties
      <4>3. DOMAIN added = 1..(Len(old) + 1) /\ DOMAIN old = 1..Len(old) /\ Len(old) \in Nat
        BY <4>1, <3>3
      <4>4. \A j \in DOMAIN added : j = Len(old) + 1 \/ j \in DOMAIN old
        BY <4>3
      <4>5. \A j \in DOMAIN old : added[j] = old[j]
        BY <4>2, <4>3
      <4>6. \A j \in DOMAIN added : added[j] = new \/ (j \in DOMAIN old /\ added[j] = old[j])
        <5> TAKE j \in DOMAIN added
        <5>1. CASE j = Len(old) + 1
          BY <5>1, <4>1
        <5>2. CASE j \in DOMAIN old
          BY <5>2, <4>5
        <5> QED
          BY <5>1, <5>2, <4>4
      <4> QED
        BY <4>1, <4>6
    <3>6. nodes \in Seq(Nodes) /\ \A i \in DOMAIN nodes : \E j \in DOMAIN added : nodes[i] = added[j]
      BY <3>5, MaybeCompactFacts
    <3> HIDE DEF nodes, q
    <3>7. /\ q \in Anns /\ q.trained = a.trained /\ q.lists = a.lists /\ q.sealing = a.sealing
          /\ q.nodes = nodes
      BY <3>1, <3>6 DEF Anns
    <3>8. DOMAIN old = DOMAIN a.nodes
      BY <3>2, <3>3
    <3>9. \A i \in DOMAIN nodes :
            ~nodes[i].deleted =>
              \/ nodes[i].label = l /\ nodes[i].val = v
              \/ nodes[i].label # l /\ \E j \in DOMAIN a.nodes : nodes[i] = a.nodes[j]
      <4> TAKE i \in DOMAIN nodes
      <4> HAVE ~nodes[i].deleted
      <4>1. PICK j \in DOMAIN added : nodes[i] = added[j]
        BY <3>6
      <4>2. CASE added[j] = new
        BY <4>1, <4>2, <3>2
      <4>3. CASE j \in DOMAIN old /\ added[j] = old[j]
        BY <4>1, <4>3, <3>3, <3>8
      <4> QED
        BY <4>2, <4>3, <3>5
    <3> QED
      BY <2>1, <3>7, <3>9
  <2>2. CASE kind # "hnsw"
    <3>1. q = AppendToBuffer(a, l, v)
      BY <2>2 DEF AnnAdd
    <3> QED
      BY <2>2, <3>1, AppendFacts
  <2> QED
    BY <2>1, <2>2
<1> HIDE DEF q
<1>2. LET r == Publish(q, vs)
      IN  /\ r \in Anns /\ r.published = vs.generation /\ r.trained = q.trained /\ r.lists = q.lists
          /\ r.buffer = q.buffer /\ r.sealing = q.sealing /\ r.nodes = q.nodes
  BY <1>1, PublishFacts
<1> QED
  BY <1>1, <1>2 DEF q

\* MarkDeleted on either kind of index.
LEMMA MarkFacts ==
  ASSUME NEW a \in Anns, NEW l
  PROVE  LET r == MarkDeleted(a, l)
         IN  /\ r \in Anns /\ r.published = a.published /\ r.trained = a.trained
             /\ DOMAIN r.sealing \subseteq DOMAIN a.sealing
<1>1. CASE kind = "hnsw"
  <2> DEFINE nodes == MaybeCompactLocked(RetireLabel(a.nodes, l))
  <2>1. a.nodes \in Seq(Nodes)
    BY DEF Anns
  <2>2. nodes \in Seq(Nodes)
    BY <2>1, RetireFacts, MaybeCompactFacts
  <2>3. MarkDeleted(a, l) = [a EXCEPT !.nodes = nodes]
    BY <1>1 DEF MarkDeleted
  <2> HIDE DEF nodes
  <2> QED
    BY <2>2, <2>3 DEF Anns
<1>2. CASE kind # "hnsw"
  <2>1. MarkDeleted(a, l) = RemoveVector(a, l)
    BY <1>2 DEF MarkDeleted
  <2>2. DOMAIN Without1(a.sealing, {l}) \subseteq DOMAIN a.sealing
    BY DEF Without1
  <2> QED
    BY <2>1, <2>2, RemoveFacts
<1> QED
  BY <1>1, <1>2

-----------------------------------------------------------------------------
(* Type correctness.                                                        *)

\* The operations by their type.
LEMMA OperationFacts ==
  ASSUME NEW op \in Operations
  PROVE  /\ op.id \in Ids /\ op.type \in {"vecset", "vecdel", "metaset"}
         /\ op.type = "vecset" => op \in VecsetOps /\ op.meta \in BOOLEAN
         /\ op.type = "vecdel" => op \in VecdelOps
         /\ op.type = "metaset" => op \in MetasetOps
BY DEF Operations, VecsetOps, VecdelOps, MetasetOps

\* The three kinds of operation are operations.
LEMMA OperationKinds ==
  /\ VecsetOps \subseteq Operations /\ VecdelOps \subseteq Operations /\ MetasetOps \subseteq Operations
  /\ \A op \in VecsetOps : op.type = "vecset" /\ op.id \in Ids
  /\ \A op \in VecdelOps : op.type = "vecdel" /\ op.id \in Ids
BY DEF Operations, VecsetOps, VecdelOps, MetasetOps

\* The mutation in progress by its program counter.
LEMMA WriterFacts ==
  ASSUME NEW w \in Writers
  PROVE  /\ w.pc \in {"idle", "rebuild", "reload", "store", "notify", "launch", "defragment", "remove"}
         /\ w.pc = "store" => w.op \in Operations /\ w.val \in Vals
         /\ w.pc \in {"notify", "launch"} => w.op \in VecsetOps /\ w.val \in Vals
         /\ w.pc \in {"defragment", "remove"} => w.op \in VecdelOps /\ w.label \in Labels
BY DEF Writers

\* The values the handlers give to writer.
LEMMA WriterForms ==
  /\ NoOp \in Writers /\ NoOp.pc = "idle"
  /\ \A pc \in {"idle", "rebuild", "reload"} : [pc |-> pc] \in Writers
  /\ \A op \in Operations, val \in Vals : [pc |-> "store", op |-> op, val |-> val] \in Writers
  /\ \A op \in VecdelOps, l \in Labels : [pc |-> "defragment", op |-> op, label |-> l] \in Writers
BY DEF Writers, NoOp

\* The steps of a mutation that only move its program counter.
LEMMA WriterMoves ==
  ASSUME NEW w \in Writers
  PROVE  /\ w.pc = "store" /\ w.op.type = "vecset" =>
              LET m == [w EXCEPT !.pc = "notify"]
              IN  m \in Writers /\ m.pc = "notify" /\ m.op = w.op /\ m.val = w.val
         /\ w.pc = "notify" => LET m == [w EXCEPT !.pc = "launch"] IN m \in Writers /\ m.pc = "launch"
         /\ w.pc = "defragment" =>
              LET m == [w EXCEPT !.pc = "remove"]
              IN  m \in Writers /\ m.pc = "remove" /\ m.op = w.op /\ m.label = w.label
<1>1. CASE w.pc = "store" /\ w.op.type = "vecset"
  <2>1. w \in [pc : {"store"}, op : Operations, val : Vals]
    BY <1>1 DEF Writers
  <2>2. w.op \in VecsetOps
    BY <2>1, <1>1, OperationFacts
  <2> DEFINE m == [w EXCEPT !.pc = "notify"]
  <2>3. m \in [pc : {"notify", "launch"}, op : VecsetOps, val : Vals]
    BY <2>1, <2>2
  <2>4. m.pc = "notify" /\ m.op = w.op /\ m.val = w.val
    BY <2>1
  <2>5. m \in Writers
    BY <2>3 DEF Writers
  <2> QED
    BY <1>1, <2>4, <2>5
<1>2. CASE w.pc = "notify"
  <2>1. w \in [pc : {"notify", "launch"}, op : VecsetOps, val : Vals]
    BY <1>2 DEF Writers
  <2> DEFINE m == [w EXCEPT !.pc = "launch"]
  <2>2. m \in [pc : {"notify", "launch"}, op : VecsetOps, val : Vals] /\ m.pc = "launch"
    BY <2>1
  <2>3. m \in Writers
    BY <2>2 DEF Writers
  <2> QED
    BY <1>2, <2>2, <2>3
<1>3. CASE w.pc = "defragment"
  <2>1. w \in [pc : {"defragment", "remove"}, op : VecdelOps, label : Labels]
    BY <1>3 DEF Writers
  <2> DEFINE m == [w EXCEPT !.pc = "remove"]
  <2>2. /\ m \in [pc : {"defragment", "remove"}, op : VecdelOps, label : Labels]
        /\ m.pc = "remove" /\ m.op = w.op /\ m.label = w.label
    BY <2>1
  <2>3. m \in Writers
    BY <2>2 DEF Writers
  <2> QED
    BY <1>3, <2>2, <2>3
<1> QED
  BY <1>1, <1>2, <1>3

\* The background thread by its program counter.
LEMMA ThreadFacts ==
  ASSUME NEW t \in Threads
  PROVE  /\ t.pc \in {"idle", "train", "seal", "assign", "commit"}
         /\ t.pc \in {"assign", "commit"} => t.labels \in SUBSET Labels
BY DEF Threads

\* The values the index gives to thread.
LEMMA ThreadForms ==
  /\ \A pc \in {"idle", "train", "seal"} : [pc |-> pc] \in Threads
  /\ IdleThread \in Threads /\ IdleThread.pc = "idle"
  /\ \A labels \in SUBSET Labels : [pc |-> "assign", labels |-> labels] \in Threads
  /\ \A labels \in SUBSET Labels, n \in Nat : [pc |-> "commit", labels |-> labels, layout |-> n] \in Threads
BY DEF Threads, IdleThread

\* A snapshot image by its fields.
LEMMA ImageFacts ==
  ASSUME NEW e \in Images
  PROVE  /\ e.vals \in Partial(Ids, Vals) /\ IsFiniteSet(DOMAIN e.vals) /\ e.meta \in SUBSET Ids
         /\ DOMAIN e.vals \subseteq Ids /\ e.vals = [x \in DOMAIN e.vals |-> e.vals[x]]
         /\ \A x \in DOMAIN e.vals : e.vals[x] \in Vals
         /\ e = [vals |-> e.vals, meta |-> e.meta]
<1>1. e \in [vals : Partial(Ids, Vals), meta : SUBSET Ids] /\ IsFiniteSet(DOMAIN e.vals)
  BY DEF Images
<1>2. e.vals \in Partial(Ids, Vals) /\ e.meta \in SUBSET Ids /\ e = [vals |-> e.vals, meta |-> e.meta]
  BY <1>1
<1> DEFINE f == e.vals
<1>3. f \in Partial(Ids, Vals)
  BY <1>2
<1> HIDE DEF f
<1>4. f = [x \in DOMAIN f |-> f[x]] /\ DOMAIN f \subseteq Ids /\ \A x \in DOMAIN f : f[x] \in Vals
  BY <1>3, PartialFunction
<1> QED
  BY <1>1, <1>2, <1>4 DEF f

\* What makes an image.
LEMMA ImageFrom ==
  ASSUME NEW f, f = [x \in DOMAIN f |-> f[x]], DOMAIN f \subseteq Ids,
         \A x \in DOMAIN f : f[x] \in Vals, IsFiniteSet(DOMAIN f), NEW m \in SUBSET Ids
  PROVE  [vals |-> f, meta |-> m] \in Images
<1>1. f \in Partial(Ids, Vals)
  BY PartialFunction
<1> QED
  BY <1>1 DEF Images

\* What the store holds is an image.
LEMMA ContentsFacts ==
  ASSUME NEW vs, StoreFits(vs)
  PROVE  /\ DOMAIN VectorContents(vs) = DOMAIN vs.index
         /\ \A m \in SUBSET Ids : [vals |-> VectorContents(vs), meta |-> m] \in Images
<1> DEFINE f == VectorContents(vs)
<1>f. /\ DOMAIN vs.slots = 1..Len(vs.slots) /\ Len(vs.slots) \in Nat /\ DOMAIN vs.index \subseteq Ids
      /\ \A k \in DOMAIN vs.index : vs.index[k] \in DOMAIN vs.slots
      /\ \A i \in DOMAIN vs.slots : vs.slots[i].val \in Vals
      /\ vs.index = [x \in DOMAIN vs.index |-> vs.index[x]]
  BY StoreFields
<1>1. /\ DOMAIN f = DOMAIN vs.index /\ f = [x \in DOMAIN f |-> f[x]]
      /\ \A x \in DOMAIN f : f[x] = vs.slots[vs.index[x]].val
  BY DEF VectorContents
<1>2. IsFiniteSet(DOMAIN vs.index)
  <2>1. IsFiniteSet(1..Len(vs.slots))
    BY <1>f, FS_Interval
  <2> DEFINE g == vs.index
             S == DOMAIN vs.index
  <2>2. g \in [S -> 1..Len(vs.slots)] /\ \A a, b \in S : g[a] = g[b] => a = b
    BY <1>f, IndexOneToOne
  <2> HIDE DEF g, S
  <2>3. g \in Injection(S, 1..Len(vs.slots))
    BY <2>2, Fun_IsInj
  <2>4. IsFiniteSet(S)
    BY <2>1, <2>3, FS_Injection
  <2> QED
    BY <2>4 DEF S
<1> HIDE DEF f
<1>3. DOMAIN f \subseteq Ids /\ \A x \in DOMAIN f : f[x] \in Vals
  BY <1>1, <1>f
<1>4. \A m \in SUBSET Ids : [vals |-> f, meta |-> m] \in Images
  BY <1>1, <1>2, <1>3, ImageFrom
<1> QED
  BY <1>1, <1>4 DEF f

\* Accepting an operation turns an image into an image.
LEMMA AcceptedFacts ==
  ASSUME NEW e \in Images, NEW op \in Operations, NEW val \in Vals
  PROVE  Accepted(e, op, val) \in Images
<1> DEFINE f == e.vals
<1>e. /\ f = [x \in DOMAIN f |-> f[x]] /\ DOMAIN f \subseteq Ids /\ IsFiniteSet(DOMAIN f)
      /\ \A x \in DOMAIN f : f[x] \in Vals
      /\ e.meta \in SUBSET Ids /\ e = [vals |-> f, meta |-> e.meta] /\ op.id \in Ids
  BY ImageFacts, OperationFacts
<1> HIDE DEF f
<1>1. CASE op.type = "vecset"
  <2> DEFINE g == Assign(f, op.id, val)
             m == IF op.meta THEN e.meta \union {op.id} ELSE e.meta
  <2>1. /\ DOMAIN g = DOMAIN f \union {op.id} /\ g = [x \in DOMAIN g |-> g[x]]
        /\ \A x \in DOMAIN g : g[x] = IF x = op.id THEN val ELSE f[x]
    BY DEF Assign
  <2>2. m \in SUBSET Ids
    BY <1>e
  <2>3. Accepted(e, op, val) = [vals |-> g, meta |-> m]
    BY <1>1 DEF Accepted, f
  <2> HIDE DEF g, m
  <2>4. IsFiniteSet(DOMAIN g)
    BY <2>1, <1>e, FS_AddElement
  <2>5. DOMAIN g \subseteq Ids /\ \A x \in DOMAIN g : g[x] \in Vals
    BY <2>1, <1>e
  <2> QED
    BY <2>1, <2>2, <2>3, <2>4, <2>5, ImageFrom
<1>2. CASE op.type = "vecdel"
  <2> DEFINE g == Without1(f, {op.id})
             m == e.meta \ {op.id}
  <2>1. /\ DOMAIN g = DOMAIN f \ {op.id} /\ g = [x \in DOMAIN g |-> g[x]]
        /\ \A x \in DOMAIN g : g[x] = f[x]
    BY DEF Without1
  <2>2. m \in SUBSET Ids
    BY <1>e
  <2>3. Accepted(e, op, val) = [vals |-> g, meta |-> m]
    BY <1>2 DEF Accepted, f
  <2> HIDE DEF g, m
  <2>4. IsFiniteSet(DOMAIN g)
    BY <2>1, <1>e, FS_Subset
  <2>5. DOMAIN g \subseteq Ids /\ \A x \in DOMAIN g : g[x] \in Vals
    BY <2>1, <1>e
  <2> QED
    BY <2>1, <2>2, <2>3, <2>4, <2>5, ImageFrom
<1>3. CASE op.type = "metaset"
  <2> DEFINE m == e.meta \union {op.id}
  <2>1. m \in SUBSET Ids
    BY <1>e
  <2>2. Accepted(e, op, val) = [e EXCEPT !.meta = m]
    BY <1>3 DEF Accepted
  <2>3. [e EXCEPT !.meta = m] = [vals |-> f, meta |-> m]
    BY <1>e
  <2> HIDE DEF m
  <2> QED
    BY <2>1, <2>2, <2>3, <1>e, ImageFrom
<1> QED
  BY <1>1, <1>2, <1>3, OperationFacts

\* A handler logs records, and with include_vectors on it logs the operation itself.
LEMMA LogRecordsFacts ==
  ASSUME NEW op \in Operations, NEW val \in Vals, NEW records \in LogRecords(op, val)
  PROVE  /\ records \in Seq(Records)
         /\ (op.type # "vecset" \/ IncludeVectors) => records = <<[op |-> op, val |-> val]>>
<1>1. \A o \in Operations : <<[op |-> o, val |-> val]>> \in Seq(Records)
  BY DEF Records
<1>2. [type |-> "metaset", id |-> op.id] \in Operations
  BY OperationFacts DEF Operations
<1>3. <<>> \in Seq(Records)
  OBVIOUS
<1> QED
  BY <1>1, <1>2, <1>3 DEF LogRecords

\* The server by its mode.
LEMMA ServerFacts ==
  /\ [mode |-> "serving"] \in Servers /\ [mode |-> "refused"] \in Servers
  /\ \A todo \in Seq(Records) : [mode |-> "replaying", todo |-> todo] \in Servers
  /\ \A s \in Servers : /\ s.mode \in {"serving", "refused", "replaying"}
                        /\ s.mode = "replaying" => s.todo \in Seq(Records) /\ s = [mode |-> "replaying", todo |-> s.todo]
BY DEF Servers

\* The metadata store holds ids of vectors.
LEMMA MetadataFacts ==
  ASSUME meta \in SUBSET Ids, NEW op \in Operations
  PROVE  MetadataAfter(op) \in SUBSET Ids
BY OperationFacts DEF MetadataAfter

\* The store a start builds from the image holds what the image holds.
LEMMA RecoveredStore ==
  ASSUME vimage \in Images
  PROVE  LET n == IF vimage.vals = <<>> THEN EmptyVectorStore
                  ELSE SwapState(EmptyVectorStore, vimage.vals)
         IN  StoreFits(n) /\ VectorContents(n) = vimage.vals
<1>1. EmptyVectorStore.generation \in Nat
  BY DEF EmptyVectorStore
<1>2. vimage.vals \in Partial(Ids, Vals) /\ IsFiniteSet(DOMAIN vimage.vals)
  BY ImageFacts
<1>3. StoreFits(SwapState(EmptyVectorStore, vimage.vals))
      /\ VectorContents(SwapState(EmptyVectorStore, vimage.vals)) = vimage.vals
  BY <1>1, <1>2, SwapStateFits
<1> QED
  BY <1>3, EmptyStoreFits

\* Every step keeps the stores in order, and the mutation in progress with the vector it
\* is about.
LEMMA DataTypesNext ==
  ASSUME VecTypes, WriterFits, VNext
  PROVE  DataTypes' /\ WriterFits'
<1> DEFINE quiet == <<kind, vstore, meta, writer, ops, vlog, vimage, vserver, expected>>
<1>t. /\ kind \in Kinds /\ ops \in 0..MaxOps /\ meta \in SUBSET Ids /\ StoreFits(vstore)
      /\ writer \in Writers /\ vlog \in Seq(Records)
      /\ vimage \in Images /\ expected \in Images /\ vserver \in Servers /\ MaxOps \in Nat
  BY VectorIndexConstants DEF VecTypes, DataTypes
<1>q. ASSUME UNCHANGED quiet PROVE DataTypes' /\ WriterFits'
  BY <1>q DEF VecTypes, DataTypes, WriterFits
\* A step that ends a mutation and leaves the store alone.
<1>e. ASSUME UNCHANGED <<kind, vstore, meta, ops, vlog, vimage, vserver, expected>>,
             writer' \in Writers, writer'.pc \notin {"store", "notify"}
      PROVE  DataTypes' /\ WriterFits'
  BY <1>e DEF VecTypes, DataTypes, WriterFits
<1>1. CASE Offer
  <2>1. PICK op \in Operations :
          /\ CanApply(op)
          /\ \E records \in LogRecords(op, ops + 1) : vlog' = vlog \o records
          /\ writer' = [pc |-> "store", op |-> op, val |-> ops + 1]
          /\ expected' = Accepted(expected, op, ops + 1)
    BY <1>1 DEF Offer, Begin
  <2>2. ops + 1 \in Vals /\ ops' \in 0..MaxOps
    BY <1>1, <1>t DEF Offer, Vals
  <2>3. expected' \in Images
    BY <2>1, <2>2, <1>t, AcceptedFacts
  <2>4. vlog' \in Seq(Records)
    BY <2>1, <2>2, <1>t, LogRecordsFacts, ConcatProperties
  <2>5. writer' \in Writers
    BY <2>1, <2>2, WriterForms
  <2>6. UNCHANGED <<kind, vstore, meta, vimage, vserver>>
    BY <1>1 DEF Offer
  <2>7. WriterFits'
    BY <2>1, <2>6 DEF WriterFits, CanApply, Holds
  <2> QED
    BY <2>2, <2>3, <2>4, <2>5, <2>6, <2>7, <1>t DEF DataTypes
<1>2. CASE Metaset
  <2>1. /\ writer.pc = "store" /\ meta' = MetadataAfter(writer.op) /\ writer' = NoOp
        /\ UNCHANGED <<kind, vstore, ops, vlog, vimage, vserver, expected>>
    BY <1>2 DEF Metaset
  <2>2. meta' \in SUBSET Ids
    BY <2>1, <1>t, WriterFacts, MetadataFacts
  <2>3. writer' \in Writers /\ WriterFits'
    BY <2>1, WriterForms DEF WriterFits
  <2> QED
    BY <2>1, <2>2, <2>3, <1>t DEF DataTypes
<1>3. CASE VecsetStore
  <2>1. /\ writer.pc = "store" /\ writer.op.type = "vecset"
        /\ vstore' = SetVector(vstore, writer.op.id, writer.val)
        /\ meta' = MetadataAfter(writer.op) /\ writer' = [writer EXCEPT !.pc = "notify"]
        /\ UNCHANGED <<kind, ops, vlog, vimage, vserver, expected>>
    BY <1>3 DEF VecsetStore
  <2>2. writer.op \in Operations /\ writer.op.id \in Ids /\ writer.val \in Vals
    BY <2>1, <1>t, WriterFacts, OperationFacts
  <2>3. meta' \in SUBSET Ids
    BY <2>1, <2>2, <1>t, MetadataFacts
  <2>4. /\ StoreFits(vstore') /\ Holds(vstore', writer.op.id)
        /\ vstore'.slots[vstore'.index[writer.op.id]].val = writer.val
    BY <2>1, <2>2, <1>t, SetVectorFits
  <2>5. writer' \in Writers /\ writer'.pc = "notify" /\ writer'.op = writer.op /\ writer'.val = writer.val
    BY <2>1, <1>t, WriterMoves
  <2>6. WriterFits'
    BY <2>4, <2>5 DEF WriterFits, Holds
  <2> QED
    BY <2>1, <2>3, <2>4, <2>5, <2>6, <1>t DEF DataTypes
<1>4. CASE NotifyVectorAdded
  <2>1. writer' = NoOp \/ (writer.pc = "notify" /\ writer' = [writer EXCEPT !.pc = "launch"])
    BY <1>4 DEF NotifyVectorAdded
  <2>2. writer' \in Writers /\ writer'.pc \notin {"store", "notify"}
    BY <2>1, <1>t, WriterForms, WriterMoves
  <2> QED
    BY <2>2, <1>e, <1>4 DEF NotifyVectorAdded
<1>5. CASE LaunchBackground
  <2>1. writer' \in Writers /\ writer'.pc \notin {"store", "notify"}
    BY <1>5, WriterForms DEF LaunchBackground
  <2> QED
    BY <2>1, <1>e, <1>5 DEF LaunchBackground
<1>6. CASE VecdelStore
  <2>1. /\ writer.pc = "store" /\ writer.op.type = "vecdel"
        /\ vstore' = DeleteVector(vstore, writer.op.id)
        /\ writer' = [pc |-> "defragment", op |-> writer.op, label |-> vstore.index[writer.op.id]]
        /\ UNCHANGED <<kind, meta, ops, vlog, vimage, vserver, expected>>
    BY <1>6 DEF VecdelStore
  <2>2. Holds(vstore, writer.op.id)
    BY <2>1 DEF WriterFits
  <2>3. StoreFits(vstore')
    BY <2>1, <2>2, <1>t, DeleteVectorFits
  <2>4. writer.op \in VecdelOps
    BY <2>1, <1>t, WriterFacts, OperationFacts
  <2>5. vstore.index[writer.op.id] \in Labels
    <3>1. vstore.index[writer.op.id] \in 1..Len(vstore.slots) /\ Len(vstore.slots) \in Nat
      BY <2>2, <1>t, StoreFields DEF Holds
    <3> QED
      BY <3>1 DEF Labels
  <2>6. writer' \in Writers /\ writer'.pc = "defragment"
    BY <2>1, <2>4, <2>5, WriterForms
  <2> QED
    BY <2>1, <2>3, <2>6, <1>t DEF DataTypes, WriterFits
<1>7. CASE VecdelDefragment
  <2>1. /\ writer.pc = "defragment" /\ vstore' = Defragment(vstore)
        /\ meta' = MetadataAfter(writer.op) /\ writer' = [writer EXCEPT !.pc = "remove"]
        /\ UNCHANGED <<kind, ops, vlog, vimage, vserver, expected>>
    BY <1>7 DEF VecdelDefragment
  <2>2. StoreFits(vstore')
    BY <2>1, <1>t, DefragmentFits
  <2>3. meta' \in SUBSET Ids
    BY <2>1, <1>t, WriterFacts, OperationKinds, MetadataFacts
  <2>4. writer' \in Writers /\ writer'.pc = "remove"
    BY <2>1, <1>t, WriterMoves
  <2> QED
    BY <2>1, <2>2, <2>3, <2>4, <1>t DEF DataTypes, WriterFits
<1>8. CASE NotifyVectorRemoved
  <2>1. writer' \in Writers /\ writer'.pc \notin {"store", "notify"}
    BY <1>8, WriterForms DEF NotifyVectorRemoved
  <2> QED
    BY <2>1, <1>e, <1>8 DEF NotifyVectorRemoved
<1>9. CASE VecdelRebuild
  <2>1. writer' \in Writers /\ writer'.pc \notin {"store", "notify"}
    BY <1>9, WriterForms DEF VecdelRebuild
  <2> QED
    BY <2>1, <1>e, <1>9 DEF VecdelRebuild
<1>10. CASE ThreadTrain \/ SealBegin \/ SealAssign \/ SealEnd
  BY <1>10, <1>q DEF ThreadTrain, SealBegin, SealAssign, SealEnd
<1>11. CASE SearchBegin \/ HnswSearch \/ IvfSearchBuffer \/ IvfSearchLists \/ SearchMap \/ SearchEnd
  BY <1>11, <1>q DEF SearchBegin, HnswSearch, IvfSearchBuffer, IvfSearchLists, SearchMap, SearchEnd
<1>12. CASE VSave
  <2>1. /\ vimage' = [vals |-> VectorContents(vstore), meta |-> meta] /\ vlog' = <<>>
        /\ UNCHANGED <<kind, vstore, meta, writer, ops, vserver, expected>>
    BY <1>12 DEF VSave
  <2>2. vimage' \in Images
    BY <2>1, <1>t, ContentsFacts
  <2>3. vlog' \in Seq(Records)
    BY <2>1
  <2>4. WriterFits'
    BY <2>1 DEF WriterFits
  <2> QED
    BY <2>1, <2>2, <2>3, <2>4, <1>t DEF DataTypes
<1>13. CASE DumpLoad
  <2>1. /\ ops < MaxOps /\ ops' = ops + 1 /\ vstore' = SwapState(vstore, vimage.vals)
        /\ meta' = vimage.meta /\ writer' = [pc |-> "reload"]
        /\ UNCHANGED <<kind, vlog, vimage, vserver, expected>>
    BY <1>13 DEF DumpLoad
  <2>2. StoreFits(vstore') /\ meta' \in SUBSET Ids
    BY <2>1, <1>t, StoreFields, ImageFacts, SwapStateFits
  <2>3. writer' \in Writers /\ writer'.pc = "reload"
    BY <2>1, WriterForms
  <2>4. ops' \in 0..MaxOps
    BY <2>1, <1>t
  <2> QED
    BY <2>1, <2>2, <2>3, <2>4, <1>t DEF DataTypes, WriterFits
<1>14. CASE DumpLoadEnd
  <2>1. /\ writer' = NoOp /\ vlog' = <<>> /\ expected' = vimage
        /\ UNCHANGED <<kind, vstore, meta, ops, vimage, vserver>>
    BY <1>14 DEF DumpLoadEnd
  <2>2. writer' \in Writers /\ WriterFits'
    BY <2>1, WriterForms DEF WriterFits
  <2>3. vlog' \in Seq(Records)
    BY <2>1
  <2> QED
    BY <2>1, <2>2, <2>3, <1>t DEF DataTypes
<1>15. CASE VCrash
  <2>1. /\ vstore' = IF vimage.vals = <<>> THEN EmptyVectorStore
                     ELSE SwapState(EmptyVectorStore, vimage.vals)
        /\ meta' = vimage.meta /\ writer' = NoOp
        /\ vserver' = [mode |-> "replaying", todo |-> vlog]
        /\ UNCHANGED <<kind, ops, vlog, vimage, expected>>
    BY <1>15 DEF VCrash
  <2>2. StoreFits(vstore')
    BY <2>1, <1>t, RecoveredStore
  <2>3. meta' \in SUBSET Ids /\ vserver' \in Servers
    BY <2>1, <1>t, ImageFacts, ServerFacts
  <2>4. writer' \in Writers /\ WriterFits'
    BY <2>1, WriterForms DEF WriterFits
  <2> QED
    BY <2>1, <2>2, <2>3, <2>4, <1>t DEF DataTypes
<1>16. CASE ReplayRecord
  <2> DEFINE record == Head(vserver.todo)
  <2>1. /\ vserver.mode = "replaying" /\ vserver.todo # <<>>
        /\ UNCHANGED <<kind, vstore, meta, ops, vlog, vimage, expected>>
    BY <1>16 DEF ReplayRecord
  <2>2. vserver.todo \in Seq(Records) /\ vserver = [mode |-> "replaying", todo |-> vserver.todo]
    BY <2>1, <1>t, ServerFacts
  <2>3. record \in Records /\ Tail(vserver.todo) \in Seq(Records)
    BY <2>1, <2>2, HeadTailProperties
  <2> HIDE DEF record
  <2>4. record.op \in Operations /\ record.val \in Vals
    BY <2>3 DEF Records
  <2>5. CASE CanApply(record.op)
    <3>1. /\ writer' = [pc |-> "store", op |-> record.op, val |-> record.val]
          /\ vserver' = [vserver EXCEPT !.todo = Tail(@)]
      BY <1>16, <2>5 DEF ReplayRecord, Begin, record
    <3>2. vserver' = [mode |-> "replaying", todo |-> Tail(vserver.todo)]
      <4>1. \A t, u : [[mode |-> "replaying", todo |-> t] EXCEPT !.todo = u]
                         = [mode |-> "replaying", todo |-> u]
        OBVIOUS
      <4>2. vserver' = [vserver EXCEPT !.todo = Tail(vserver.todo)]
        BY <3>1
      <4> QED
        BY <4>1, <4>2, <2>2
    <3>3. vserver' \in Servers
      BY <3>2, <2>3, ServerFacts
    <3>4. writer' \in Writers
      BY <3>1, <2>4, WriterForms
    <3>5. WriterFits'
      BY <3>1, <2>1, <2>5 DEF WriterFits, CanApply, Holds
    <3> QED
      BY <2>1, <3>3, <3>4, <3>5, <1>t DEF DataTypes
  <2>6. CASE ~CanApply(record.op)
    <3>1. vserver' = [mode |-> "refused"] /\ writer' = writer
      BY <1>16, <2>6 DEF ReplayRecord, record
    <3>2. vserver' \in Servers
      BY <3>1, ServerFacts
    <3>3. WriterFits'
      BY <3>1, <2>1 DEF WriterFits
    <3> QED
      BY <2>1, <3>1, <3>2, <3>3, <1>t DEF DataTypes
  <2> QED
    BY <2>5, <2>6
<1>17. CASE VServe
  <2>1. /\ vserver' = [mode |-> "serving"]
        /\ UNCHANGED <<kind, vstore, meta, writer, ops, vlog, vimage, expected>>
    BY <1>17 DEF VServe
  <2>2. vserver' \in Servers
    BY <2>1, ServerFacts
  <2>3. WriterFits'
    BY <2>1 DEF WriterFits
  <2> QED
    BY <2>1, <2>2, <2>3, <1>t DEF DataTypes
<1> QED
  BY <1>1, <1>2, <1>3, <1>4, <1>5, <1>6, <1>7, <1>8, <1>9, <1>10, <1>11, <1>12, <1>13,
     <1>14, <1>15, <1>16, <1>17 DEF VNext

-----------------------------------------------------------------------------
(* The steps of the index.                                                  *)

\* An index by its fields.
LEMMA AnnFields ==
  ASSUME NEW a \in Anns
  PROVE  /\ a.trained \in BOOLEAN /\ a.lists \in SUBSET Labels /\ a.buffer \in Tier /\ a.sealing \in Tier
         /\ a.layout \in Nat /\ a.nodes \in Seq(Nodes) /\ a.published \in Nat
         /\ DOMAIN a.buffer \subseteq Labels /\ DOMAIN a.sealing \subseteq Labels
         /\ TransientLabels(a) \in SUBSET Labels
<1>1. /\ a.trained \in BOOLEAN /\ a.lists \in SUBSET Labels /\ a.buffer \in Tier /\ a.sealing \in Tier
      /\ a.layout \in Nat /\ a.nodes \in Seq(Nodes) /\ a.published \in Nat
  BY DEF Anns
<1>2. DOMAIN a.buffer \subseteq Labels /\ DOMAIN a.sealing \subseteq Labels
  BY <1>1, TierFacts
<1> QED
  BY <1>1, <1>2 DEF TransientLabels

\* What SearchBuffer finds: the buffer hides the tier being sealed.
LEMMA BufferLookup ==
  ASSUME NEW a
  PROVE  /\ DOMAIN SearchBuffer(a) = TransientLabels(a)
         /\ \A l \in TransientLabels(a) :
              SearchBuffer(a)[l] = IF l \in DOMAIN a.buffer THEN a.buffer[l] ELSE a.sealing[l]
BY DEF SearchBuffer, Over, TransientLabels

\* Changing the layout number moves no label.
LEMMA KeptLayout ==
  ASSUME NEW a \in Anns
  PROVE  Kept(a, [a EXCEPT !.layout = @ + 1]) /\ [a EXCEPT !.layout = @ + 1].trained = a.trained
         /\ [a EXCEPT !.layout = @ + 1].sealing = a.sealing
<1> DEFINE b == [a EXCEPT !.layout = @ + 1]
<1>1. a.layout + 1 \in Nat
  BY AnnFields
<1>2. /\ b \in Anns /\ b.published = a.published /\ b.nodes = a.nodes /\ b.trained = a.trained
      /\ b.lists = a.lists /\ b.buffer = a.buffer /\ b.sealing = a.sealing
  BY <1>1 DEF Anns
<1> HIDE DEF b
<1>3. TransientLabels(b) = TransientLabels(a) /\ ListsOf(b) = ListsOf(a) /\ SearchBuffer(b) = SearchBuffer(a)
  BY <1>2 DEF TransientLabels, ListsOf, SearchBuffer
<1>4. Kept(a, b)
  BY <1>2, <1>3 DEF Kept
<1> QED
  BY <1>2, <1>4 DEF b

\* An index keeps its own labels.
LEMMA KeptSame == ASSUME NEW a \in Anns PROVE Kept(a, a)
BY DEF Kept

\* Returning the sealed entries to the buffer loses no label and no newer value.
LEMMA KeptReturned ==
  ASSUME NEW a \in Anns
  PROVE  Kept(a, ReturnToBuffer(a))
<1> DEFINE b == ReturnToBuffer(a)
<1>1. /\ b \in Anns /\ b.published = a.published /\ b.nodes = a.nodes /\ b.trained = a.trained
      /\ b.lists = a.lists /\ b.buffer = Over(a.buffer, a.sealing) /\ b.sealing = <<>>
  BY ReturnFacts
<1> HIDE DEF b
<1>2. DOMAIN b.buffer = TransientLabels(a) /\ DOMAIN b.sealing = {} /\ b.buffer = SearchBuffer(a)
  BY <1>1, BufferLookup DEF SearchBuffer
<1>3. TransientLabels(b) = TransientLabels(a) /\ ListsOf(b) = ListsOf(a)
  BY <1>1, <1>2 DEF TransientLabels, ListsOf
<1>4. \A l \in TransientLabels(b) : SearchBuffer(b)[l] = SearchBuffer(a)[l]
  BY <1>2, <1>3, BufferLookup
<1>5. Kept(a, b)
  BY <1>1, <1>3, <1>4 DEF Kept
<1> QED
  BY <1>5 DEF b

\* Training the centroids of an untrained index loses no label.
LEMMA KeptTrained ==
  ASSUME NEW a \in Anns, ~a.trained
  PROVE  Kept(a, Train(a, {}))
<1> DEFINE b == Train(a, {})
<1>1. /\ b \in Anns /\ b.trained /\ b.lists = {} /\ b.published = a.published
      /\ b.buffer = a.buffer /\ b.sealing = a.sealing /\ b.nodes = a.nodes
  BY TrainFacts
<1> HIDE DEF b
<1>2. TransientLabels(b) = TransientLabels(a) /\ ListsOf(a) = {} /\ SearchBuffer(b) = SearchBuffer(a)
  BY <1>1 DEF TransientLabels, ListsOf, SearchBuffer
<1>3. Kept(a, b)
  BY <1>1, <1>2 DEF Kept
<1> QED
  BY <1>3 DEF b

\* Phase 1 of a seal moves the whole buffer.
LEMMA KeptSealing ==
  ASSUME NEW a \in Anns, a.sealing = <<>>
  PROVE  LET b == [a EXCEPT !.sealing = a.buffer, !.buffer = <<>>]
         IN  Kept(a, b) /\ b.sealing = a.buffer
<1> DEFINE b == [a EXCEPT !.sealing = a.buffer, !.buffer = <<>>]
<1>1. a.buffer \in Tier /\ <<>> \in Tier
  BY AnnFields, TierUpdates
<1>2. /\ b \in Anns /\ b.trained = a.trained /\ b.lists = a.lists /\ b.published = a.published
      /\ b.buffer = <<>> /\ b.sealing = a.buffer /\ b.nodes = a.nodes
  BY <1>1 DEF Anns
<1> HIDE DEF b
<1>3. DOMAIN b.buffer = {} /\ DOMAIN a.sealing = {}
  BY <1>2
<1>4. TransientLabels(b) = TransientLabels(a) /\ ListsOf(b) = ListsOf(a)
  BY <1>2, <1>3 DEF TransientLabels, ListsOf
<1>5. \A l \in TransientLabels(b) : SearchBuffer(b)[l] = SearchBuffer(a)[l]
  <2> TAKE l \in TransientLabels(b)
  <2>1. SearchBuffer(b)[l] = b.sealing[l]
    BY <1>3, BufferLookup
  <2>2. l \in DOMAIN a.buffer /\ SearchBuffer(a)[l] = a.buffer[l]
    BY <1>3, <1>4, BufferLookup DEF TransientLabels
  <2> QED
    BY <2>1, <2>2, <1>2
<1>6. Kept(a, b)
  BY <1>2, <1>4, <1>5 DEF Kept
<1> QED
  BY <1>2, <1>6 DEF b

\* Phase 3 of a seal puts every label still being sealed in a list, or back.
LEMMA KeptCommitted ==
  ASSUME NEW a \in Anns, NEW t, DOMAIN a.sealing \subseteq t.labels
  PROVE  Kept(a, SealCommit(a, t))
<1>1. CASE a.trained /\ a.layout = t.layout
  <2> DEFINE b == [a EXCEPT !.lists = @ \union (t.labels \intersect DOMAIN a.sealing), !.sealing = <<>>]
             lists == a.lists \union (t.labels \intersect DOMAIN a.sealing)
  <2>1. SealCommit(a, t) = b
    BY <1>1 DEF SealCommit
  <2>2. lists \in SUBSET Labels /\ <<>> \in Tier /\ lists = a.lists \union DOMAIN a.sealing
    BY AnnFields, TierUpdates
  <2>3. /\ b \in Anns /\ b.trained = a.trained /\ b.lists = lists /\ b.published = a.published
        /\ b.buffer = a.buffer /\ b.sealing = <<>> /\ b.nodes = a.nodes
    BY <2>2 DEF Anns
  <2> HIDE DEF b, lists
  <2>4. DOMAIN b.sealing = {}
    BY <2>3
  <2>5. /\ TransientLabels(b) = DOMAIN a.buffer /\ ListsOf(b) = a.lists \union DOMAIN a.sealing
        /\ ListsOf(a) = a.lists
    BY <2>2, <2>3, <2>4, <1>1 DEF TransientLabels, ListsOf
  <2>6. \A l \in TransientLabels(b) : SearchBuffer(b)[l] = SearchBuffer(a)[l]
    BY <2>3, <2>5, BufferLookup DEF TransientLabels
  <2>7. /\ TransientLabels(b) \subseteq TransientLabels(a)
        /\ TransientLabels(a) \union ListsOf(a) \subseteq TransientLabels(b) \union ListsOf(b)
        /\ a.lists \subseteq b.lists
    BY <2>2, <2>3, <2>5 DEF TransientLabels
  <2>8. Kept(a, b)
    BY <2>3, <2>6, <2>7, <1>1 DEF Kept
  <2> QED
    BY <2>1, <2>8
<1>2. CASE ~(a.trained /\ a.layout = t.layout)
  BY <1>2, KeptReturned DEF SealCommit
<1> QED
  BY <1>1, <1>2

\* A step of the background thread moves labels and loses none.
LEMMA ThreadSteps ==
  ASSUME VecTypes, ThreadFits, ThreadTrain \/ SealBegin \/ SealAssign \/ SealEnd
  PROVE  /\ Kept(ann, ann') /\ thread' \in Threads /\ ThreadFits' /\ thread.pc # "idle"
         /\ UNCHANGED <<kind, vstore, writer, search, leftover>>
<1>a. ann \in Anns /\ thread \in Threads
  BY DEF VecTypes, IndexTypes
<1>b. DOMAIN ann.buffer \in SUBSET Labels /\ ann.layout \in Nat
  BY <1>a, AnnFields
<1>1. CASE ThreadTrain
  <2>1. /\ ~ann.trained /\ ann' = Train(ann, {}) /\ thread' = [pc |-> "seal"] /\ thread.pc = "train"
    BY <1>1 DEF ThreadTrain, ThreadFits
  <2>2. ThreadFits'
    BY <2>1 DEF ThreadFits
  <2> QED
    BY <1>1, <2>1, <2>2, <1>a, KeptTrained, ThreadForms DEF ThreadTrain
<1>2. CASE SealBegin
  <2>1. CASE ann.buffer = <<>> \/ ann.sealing # <<>>
    <3>1. thread' = IdleThread /\ ann' = ann /\ thread.pc = "seal"
      BY <1>2, <2>1 DEF SealBegin
    <3>2. ThreadFits'
      BY <3>1, ThreadForms DEF ThreadFits
    <3> QED
      BY <1>2, <3>1, <3>2, <1>a, KeptSame, ThreadForms DEF SealBegin
  <2>2. CASE ~(ann.buffer = <<>> \/ ann.sealing # <<>>)
    <3>1. /\ ann' = [ann EXCEPT !.sealing = ann.buffer, !.buffer = <<>>] /\ thread.pc = "seal"
          /\ thread' = [pc |-> "assign", labels |-> DOMAIN ann.buffer]
      BY <1>2, <2>2 DEF SealBegin
    <3>2. Kept(ann, ann') /\ ann'.sealing = ann.buffer
      BY <3>1, <2>2, <1>a, KeptSealing
    <3>3. ThreadFits'
      BY <3>1, <3>2 DEF ThreadFits
    <3>4. thread' \in Threads
      BY <3>1, <1>b, ThreadForms
    <3> QED
      BY <1>2, <3>1, <3>2, <3>3, <3>4 DEF SealBegin
  <2> QED
    BY <2>1, <2>2
<1>3. CASE SealAssign
  <2>1. CASE ann.trained
    <3>1. /\ thread' = [pc |-> "commit", labels |-> thread.labels, layout |-> ann.layout]
          /\ ann' = ann /\ thread.pc = "assign"
      BY <1>3, <2>1 DEF SealAssign
    <3>2. thread.labels \in SUBSET Labels
      BY <3>1, <1>a, ThreadFacts
    <3>3. thread' \in Threads
      BY <3>1, <3>2, <1>b, ThreadForms
    <3>4. ThreadFits'
      BY <3>1 DEF ThreadFits
    <3> QED
      BY <1>3, <3>1, <3>3, <3>4, <1>a, KeptSame DEF SealAssign
  <2>2. CASE ~ann.trained
    <3>1. ann' = ReturnToBuffer(ann) /\ thread' = IdleThread /\ thread.pc = "assign"
      BY <1>3, <2>2 DEF SealAssign
    <3>2. ThreadFits'
      BY <3>1, ThreadForms DEF ThreadFits
    <3> QED
      BY <1>3, <3>1, <3>2, <1>a, KeptReturned, ThreadForms DEF SealAssign
  <2> QED
    BY <2>1, <2>2
<1>4. CASE SealEnd
  <2>1. ann' = SealCommit(ann, thread) /\ thread' = IdleThread /\ thread.pc = "commit"
    BY <1>4 DEF SealEnd
  <2>2. DOMAIN ann.sealing \subseteq thread.labels
    BY <2>1 DEF ThreadFits
  <2>3. ThreadFits'
    BY <2>1, ThreadForms DEF ThreadFits
  <2> QED
    BY <1>4, <2>1, <2>2, <2>3, <1>a, KeptCommitted, ThreadForms DEF SealEnd
<1> QED
  BY <1>1, <1>2, <1>3, <1>4

\* The end of NotifyVectorAdded, which may start the thread.
LEMMA LaunchSteps ==
  ASSUME VecTypes, ThreadFits, LaunchBackground
  PROVE  /\ Kept(ann, ann') /\ thread' \in Threads /\ ThreadFits' /\ writer.pc = "launch"
         /\ writer' = NoOp /\ UNCHANGED <<kind, vstore, search, leftover>>
<1>a. ann \in Anns /\ thread \in Threads
  BY DEF VecTypes, IndexTypes
<1>b. writer.pc = "launch" /\ writer' = NoOp /\ UNCHANGED <<kind, vstore, search, leftover>>
  BY DEF LaunchBackground
<1>1. CASE ~ann.trained /\ thread.pc = "idle" /\ ann' = [ann EXCEPT !.layout = @ + 1] /\ thread' = [pc |-> "train"]
  <2>1. Kept(ann, ann') /\ ann'.trained = ann.trained
    BY <1>1, <1>a, KeptLayout
  <2>2. ThreadFits'
    BY <1>1, <2>1 DEF ThreadFits
  <2> QED
    BY <2>1, <2>2, <1>1, <1>b, ThreadForms
<1>2. CASE thread.pc = "idle" /\ thread' = [pc |-> "seal"] /\ ann' = ann
  <2>1. ThreadFits'
    BY <1>2 DEF ThreadFits
  <2> QED
    BY <2>1, <1>2, <1>a, <1>b, KeptSame, ThreadForms
<1>3. CASE UNCHANGED <<ann, thread>>
  <2>1. ThreadFits'
    BY <1>3 DEF ThreadFits
  <2> QED
    BY <2>1, <1>3, <1>a, <1>b, KeptSame
<1> QED
  BY <1>1, <1>2, <1>3 DEF LaunchBackground

\* The rebuild that ends a VECDEL, a DUMP LOAD and a start.
LEMMA RebuildSteps ==
  ASSUME VecTypes, RebuildAnnFromStore
  PROVE  /\ ann' \in Anns /\ ann'.published = vstore.generation
         /\ ann'.buffer = ann.buffer /\ ann'.sealing = ann.sealing
         /\ leftover' = TransientLabels(ann) /\ leftover' \in SUBSET Labels
         /\ kind = "hnsw" => /\ DOMAIN ann'.nodes = DOMAIN vstore.slots
                             /\ \A i \in DOMAIN ann'.nodes : /\ ann'.nodes[i].label = i
                                                             /\ ann'.nodes[i].val = vstore.slots[i].val
         /\ kind # "hnsw" => \/ DOMAIN vstore.slots = {} /\ ~ann'.trained
                             \/ ann'.trained /\ ann'.lists = DOMAIN vstore.slots
         /\ thread.pc = "idle" /\ search.pc \in {"idle", "done"}
<1>1. ann \in Anns /\ StoreFits(vstore)
  BY DEF VecTypes, IndexTypes, DataTypes
<1>2. ann' = Publish(Rebuild(ann, vstore), vstore) /\ leftover' = TransientLabels(ann) /\ thread.pc = "idle"
  BY DEF RebuildAnnFromStore
<1>3. search.pc \in {"idle", "done"}
  BY DEF RebuildAnnFromStore, PublicationFree
<1> QED
  BY <1>1, <1>2, <1>3, RebuildFacts, AnnFields

\* NotifyVectorAdded: an insertion when it is one generation behind, else a rebuild.
LEMMA NotifySteps ==
  ASSUME VecTypes, WriterFits, NotifyVectorAdded
  PROVE  LET l == vstore.index[writer.op.id]
         IN  /\ ann' \in Anns /\ ann'.published = vstore.generation
             /\ writer.pc = "notify" /\ writer'.pc \in {"idle", "launch"} /\ search.pc \in {"idle", "done"}
             /\ l \in Labels /\ l \in LiveRows /\ vstore.slots[l].val = writer.val /\ writer.val \in Vals
             /\ UNCHANGED <<kind, vstore, thread, search>> /\ leftover' \in SUBSET Labels
             /\ \/ /\ AlmostPublished /\ leftover' = leftover \ {l}
                   /\ ann' = Publish(AnnAdd(ann, l, writer.val), vstore)
                \/ /\ ~AlmostPublished /\ leftover' = TransientLabels(ann)
                   /\ ann' = Publish(Rebuild(ann, vstore), vstore)
<1> DEFINE l == vstore.index[writer.op.id]
<1>1. /\ ann \in Anns /\ StoreFits(vstore) /\ writer \in Writers /\ leftover \in SUBSET Labels
  BY DEF VecTypes, IndexTypes, DataTypes
<1>2. /\ writer.pc = "notify" /\ search.pc \in {"idle", "done"}
      /\ UNCHANGED <<kind, vstore, thread, search>>
  BY DEF NotifyVectorAdded, PublicationFree
<1>3. writer.val \in Vals /\ Holds(vstore, writer.op.id) /\ vstore.slots[l].val = writer.val
  BY <1>1, <1>2, WriterFacts DEF WriterFits
<1>4. vstore.generation \in Nat /\ l \in DOMAIN vstore.slots /\ DOMAIN vstore.slots = 1..Len(vstore.slots)
      /\ Len(vstore.slots) \in Nat
  BY <1>1, <1>3, StoreFields DEF Holds
<1>5. l \in Labels
  BY <1>4 DEF Labels
<1>6. l \in LiveRows
  BY <1>1, <1>3, <1>4 DEF LiveRows, LiveSlots, StoreFits, IndexFits, Holds
<1>7. writer' = NoOp \/ writer' = [writer EXCEPT !.pc = "launch"]
  BY DEF NotifyVectorAdded
<1>8. writer'.pc \in {"idle", "launch"}
  BY <1>1, <1>2, <1>7, WriterForms, WriterMoves
<1> HIDE DEF l
<1>9. CASE ann.published + 1 = vstore.generation
  <2>1. ann' = Publish(AnnAdd(ann, l, writer.val), vstore) /\ leftover' = leftover \ {l}
    BY <1>9 DEF NotifyVectorAdded, l
  <2>2. ann' \in Anns /\ ann'.published = vstore.generation
    BY <2>1, <1>1, <1>3, <1>4, <1>5, AddFacts
  <2>3. AlmostPublished /\ leftover' \in SUBSET Labels
    BY <2>1, <1>1, <1>2, <1>9 DEF AlmostPublished
  <2> QED
    BY <2>1, <2>2, <2>3, <1>2, <1>3, <1>5, <1>6, <1>8 DEF l
<1>10. CASE ann.published + 1 # vstore.generation
  <2>1. ann' = Publish(Rebuild(ann, vstore), vstore) /\ leftover' = TransientLabels(ann)
    BY <1>10 DEF NotifyVectorAdded
  <2>2. ann' \in Anns /\ ann'.published = vstore.generation
    BY <2>1, <1>1, RebuildFacts
  <2>3. ~AlmostPublished /\ leftover' \in SUBSET Labels
    BY <2>1, <1>1, <1>10, AnnFields DEF AlmostPublished
  <2> QED
    BY <2>1, <2>2, <2>3, <1>2, <1>3, <1>5, <1>6, <1>8 DEF l
<1> QED
  BY <1>9, <1>10

\* A flat scan ends the search.
LEMMA FlatEnds == FlatSearch => search'.pc = "done"
  BY DEF FlatSearch, Answered

\* A search in progress, or its end, by the states it can be in.
LEMMA SearchSteps ==
  ASSUME VecTypes,
         SearchBegin \/ HnswSearch \/ IvfSearchBuffer \/ IvfSearchLists \/ SearchMap \/ SearchEnd
  PROVE  SearchShape' /\ UNCHANGED <<kind, vstore, ann, writer, thread, leftover>>
<1>t. ann \in Anns /\ StoreFits(vstore) /\ SearchShape /\ kind \in {"hnsw", "ivf"}
  BY VectorIndexConstants DEF VecTypes, IndexTypes, DataTypes
<1>f. \A i \in DOMAIN vstore.slots : vstore.slots[i].val \in Vals
  BY <1>t, StoreFields
<1>1. CASE SearchBegin
  BY <1>1, <1>t, FlatEnds DEF SearchBegin, SearchShape
<1>2. CASE HnswSearch
  <2>1. PICK found \in SUBSET ToSet(LiveNodes(ann.nodes)) :
          search' = [pc |-> "map", found |-> {[label |-> n.label, val |-> n.val] : n \in found}]
    BY <1>2 DEF HnswSearch
  <2>2. \A n \in found : n \in Nodes
    BY <1>t, AnnFields, LiveNodesFacts DEF ToSet
  <2>3. \A n \in found : [label |-> n.label, val |-> n.val] \in Founds
    BY <2>2 DEF Nodes, Founds
  <2>4. search'.pc = "map" /\ search'.found \subseteq Founds
    BY <2>1, <2>3
  <2> QED
    BY <1>2, <2>4 DEF HnswSearch, SearchShape
<1>3. CASE IvfSearchBuffer
  <2>1. \/ search' = [pc |-> "map", found |-> {}]
        \/ search' = [pc |-> "lists", tier |-> SearchBuffer(ann)]
    BY <1>3 DEF IvfSearchBuffer
  <2>2. SearchBuffer(ann) \in Tier
    BY <1>t, AnnFields, TierUpdates DEF SearchBuffer
  <2>3. SearchShape'
    BY <2>1, <2>2 DEF SearchShape
  <2> QED
    BY <1>3, <2>3 DEF IvfSearchBuffer
<1>4. CASE IvfSearchLists
  <2> DEFINE merged == Over(search.tier, ListTier(ann))
  <2>1. search.pc = "lists"
        /\ search' = [pc |-> "map", found |-> {[label |-> l, val |-> merged[l]] : l \in DOMAIN merged}]
    BY <1>4 DEF IvfSearchLists
  <2>2. search.tier \in Tier
    BY <2>1, <1>t DEF SearchShape
  <2>3. DOMAIN ListTier(ann) \subseteq ann.lists \intersect DOMAIN vstore.slots
        /\ \A l \in DOMAIN ListTier(ann) : ListTier(ann)[l] = vstore.slots[l].val
    BY DEF ListTier
  <2>4. \A l \in DOMAIN merged : l \in Labels /\ merged[l] \in Vals
    BY <2>2, <2>3, <1>t, <1>f, TierFacts, AnnFields DEF Over
  <2> HIDE DEF merged
  <2>5. \A l \in DOMAIN merged : [label |-> l, val |-> merged[l]] \in Founds
    BY <2>4 DEF Founds
  <2>6. search'.pc = "map" /\ search'.found \subseteq Founds
    BY <2>1, <2>5
  <2> QED
    BY <1>4, <2>6 DEF IvfSearchLists, SearchShape
<1>5. CASE SearchMap
  BY <1>5, FlatEnds DEF SearchMap, Answered, SearchShape, NoSearch
<1>6. CASE SearchEnd
  BY <1>6 DEF SearchEnd, SearchShape, NoSearch
<1> QED
  BY <1>1, <1>2, <1>3, <1>4, <1>5, <1>6

\* Every step keeps the shape of the index, and the thread in its phase.
LEMMA IndexTypesNext ==
  ASSUME VecTypes, WriterFits, Generations, ThreadFits, VNext
  PROVE  IndexTypes' /\ ThreadFits'
<1>t. ann \in Anns /\ thread \in Threads /\ SearchShape /\ leftover \in SUBSET Labels
  BY DEF VecTypes, IndexTypes
<1>q. ASSUME UNCHANGED <<ann, thread, search, leftover>> PROVE IndexTypes' /\ ThreadFits'
  BY <1>q, <1>t DEF IndexTypes, SearchShape, ThreadFits
<1>s. ASSUME UNCHANGED search PROVE SearchShape'
  BY <1>s, <1>t DEF SearchShape
<1>1. CASE Offer \/ Metaset \/ VecsetStore \/ VecdelStore \/ VecdelDefragment \/ VSave \/ DumpLoad \/ ReplayRecord
  BY <1>1, <1>q DEF Offer, Metaset, VecsetStore, VecdelStore, VecdelDefragment, VSave, DumpLoad, ReplayRecord
\* A rebuild finds the thread idle.
<1>r. ASSUME RebuildAnnFromStore, UNCHANGED <<thread, search>> PROVE IndexTypes' /\ ThreadFits'
  <2>1. ann' \in Anns /\ leftover' \in SUBSET Labels /\ thread.pc = "idle"
    BY <1>r, RebuildSteps
  <2> QED
    BY <2>1, <1>r, <1>s, <1>t DEF IndexTypes, ThreadFits
<1>2. CASE VecdelRebuild \/ DumpLoadEnd \/ VServe
  BY <1>2, <1>r DEF VecdelRebuild, DumpLoadEnd, VServe
<1>3. CASE ThreadTrain \/ SealBegin \/ SealAssign \/ SealEnd
  BY <1>3, <1>s, <1>t, ThreadSteps DEF IndexTypes, Kept
<1>4. CASE LaunchBackground
  BY <1>4, <1>s, <1>t, LaunchSteps DEF IndexTypes, Kept
<1>5. CASE SearchBegin \/ HnswSearch \/ IvfSearchBuffer \/ IvfSearchLists \/ SearchMap \/ SearchEnd
  BY <1>5, <1>t, SearchSteps DEF IndexTypes, ThreadFits
<1>6. CASE NotifyVectorRemoved
  <2>1. /\ ann' = MarkDeleted(ann, writer.label) /\ leftover' = leftover \ {writer.label}
        /\ UNCHANGED <<thread, search>>
    BY <1>6 DEF NotifyVectorRemoved
  <2>2. ann' \in Anns /\ ann'.trained = ann.trained /\ DOMAIN ann'.sealing \subseteq DOMAIN ann.sealing
    BY <2>1, <1>t, MarkFacts
  <2>3. leftover' \in SUBSET Labels
    BY <2>1, <1>t
  <2>4. ThreadFits'
    BY <2>1, <2>2 DEF ThreadFits
  <2> QED
    BY <2>1, <2>2, <2>3, <2>4, <1>s, <1>t DEF IndexTypes
<1>8. CASE VCrash
  <2>1. ann' = EmptyAnn /\ thread' = IdleThread /\ search' = NoSearch /\ leftover' = {}
    BY <1>8 DEF VCrash
  <2>2. IndexTypes'
    BY <2>1, EmptyAnnFacts, ThreadForms DEF IndexTypes, SearchShape, NoSearch
  <2>3. ThreadFits'
    BY <2>1, ThreadForms DEF ThreadFits
  <2> QED
    BY <2>2, <2>3
<1>7. CASE NotifyVectorAdded
  <2>1. ann' \in Anns /\ leftover' \in SUBSET Labels /\ UNCHANGED <<thread, search>>
    BY <1>7, NotifySteps
  <2>2. IndexTypes'
    BY <2>1, <1>s, <1>t DEF IndexTypes
  <2>3. CASE AlmostPublished
    <3> DEFINE l == vstore.index[writer.op.id]
    <3>1. ann' = Publish(AnnAdd(ann, l, writer.val), vstore) /\ l \in Labels /\ writer.val \in Vals
      BY <1>7, <2>3, NotifySteps
    <3> HIDE DEF l
    <3>2. vstore.generation \in Nat
      BY StoreFields DEF VecTypes, DataTypes
    <3>3. ann'.trained = ann.trained /\ ann'.sealing = ann.sealing
      BY <3>1, <3>2, <1>t, AddFacts
    <3> QED
      BY <3>3, <2>1, <2>2 DEF ThreadFits
  <2>4. CASE ~AlmostPublished
    <3>1. thread.pc = "idle"
      BY <1>7, <2>4, NotifySteps DEF Generations
    <3> QED
      BY <3>1, <2>1, <2>2 DEF ThreadFits
  <2> QED
    BY <2>3, <2>4
<1> QED
  BY <1>1, <1>2, <1>3, <1>4, <1>5, <1>6, <1>7, <1>8 DEF VNext

-----------------------------------------------------------------------------
(* The index against the store.                                             *)

\* Every step keeps the published generation behind the store's, and level with it where no
\* mutation is under way, unless a start has yet to build the index.
LEMMA GenerationsNext ==
  ASSUME VecTypes, WriterFits, Generations, ThreadFits, VNext
  PROVE  Generations'
<1>t. ann \in Anns /\ StoreFits(vstore) /\ writer \in Writers /\ vimage \in Images
  BY DEF VecTypes, IndexTypes, DataTypes
<1>n. ann.published \in Nat /\ vstore.generation \in Nat /\ ann.published <= vstore.generation
  BY <1>t, AnnFields, StoreFields DEF Generations
\* Steps that leave both numbers alone.
<1>q. ASSUME UNCHANGED <<vstore, writer>>, ann'.published = ann.published,
             thread.pc = "idle" => thread'.pc = "idle"
      PROVE  Generations'
  BY <1>q DEF Generations, Published, AlmostPublished
<1>u. ASSUME UNCHANGED <<vstore, writer, ann, thread>> PROVE Generations'
  BY <1>u DEF Generations, Published, AlmostPublished
\* Steps that bring the numbers together.
<1>p. ASSUME UNCHANGED vstore, ann'.published = vstore.generation, writer'.pc \in {"idle", "launch"}
      PROVE  Generations'
  BY <1>p, <1>n DEF Generations, Published, AlmostPublished
\* Steps that take them apart.
<1>g. ASSUME UNCHANGED ann, vstore'.generation = vstore.generation + 1,
             writer'.pc \in {"defragment", "remove", "reload"}
      PROVE  Generations'
  BY <1>g, <1>n DEF Generations, Published, AlmostPublished
<1>1. CASE Offer \/ Metaset \/ ReplayRecord
  <2>1. /\ UNCHANGED <<vstore, ann, thread>> /\ writer.pc \in {"idle", "store"}
        /\ writer' = writer \/ writer'.pc \in {"idle", "store"}
    BY <1>1 DEF Offer, Metaset, ReplayRecord, Begin, NoOp
  <2>2. CASE writer' = writer
    BY <2>1, <2>2, <1>u
  <2>3. CASE writer'.pc \in {"idle", "store"}
    BY <2>1, <2>3, <1>n DEF Generations, Published, AlmostPublished
  <2> QED
    BY <2>1, <2>2, <2>3
<1>2. CASE VecsetStore
  <2>1. /\ writer.pc = "store" /\ writer.op.type = "vecset"
        /\ vstore' = SetVector(vstore, writer.op.id, writer.val)
        /\ writer' = [writer EXCEPT !.pc = "notify"] /\ UNCHANGED <<ann, thread>>
    BY <1>2 DEF VecsetStore
  <2>2. writer.op.id \in Ids /\ writer.val \in Vals
    BY <2>1, <1>t, WriterFacts, OperationFacts
  <2>3. vstore'.generation = vstore.generation + 1
    BY <2>1, <2>2, <1>t, SetVectorFits
  <2>4. writer'.pc = "notify"
    BY <2>1, <1>t, WriterMoves
  <2> QED
    BY <2>1, <2>3, <2>4, <1>n DEF Generations, Published, AlmostPublished
<1>3. CASE NotifyVectorAdded
  BY <1>3, <1>p, NotifySteps
<1>4. CASE LaunchBackground
  <2>1. writer.pc = "launch" /\ writer' = NoOp /\ UNCHANGED vstore /\ ann'.published = ann.published
    BY <1>4, LaunchSteps DEF Kept
  <2>2. ann.published = vstore.generation
    BY <2>1 DEF Generations, Published
  <2> QED
    BY <2>1, <2>2, <1>p, WriterForms
<1>5. CASE VecdelStore
  <2>1. /\ writer.pc = "store" /\ writer.op.type = "vecdel" /\ vstore' = DeleteVector(vstore, writer.op.id)
        /\ writer'.pc = "defragment" /\ UNCHANGED ann
    BY <1>5 DEF VecdelStore
  <2>2. Holds(vstore, writer.op.id)
    BY <2>1 DEF WriterFits
  <2> QED
    BY <2>1, <2>2, <1>t, <1>g, DeleteVectorFits
<1>6. CASE VecdelDefragment
  <2>1. /\ writer.pc = "defragment" /\ vstore' = Defragment(vstore)
        /\ writer' = [writer EXCEPT !.pc = "remove"] /\ UNCHANGED ann
    BY <1>6 DEF VecdelDefragment
  <2>2. writer'.pc = "remove"
    BY <2>1, <1>t, WriterMoves
  <2> QED
    BY <2>1, <2>2, <1>t, <1>g, DefragmentFits
<1>7. CASE NotifyVectorRemoved
  <2>1. /\ writer.pc = "remove" /\ writer'.pc = "rebuild" /\ ann' = MarkDeleted(ann, writer.label)
        /\ UNCHANGED vstore
    BY <1>7 DEF NotifyVectorRemoved
  <2>2. ann'.published = ann.published
    BY <2>1, <1>t, MarkFacts
  <2> QED
    BY <2>1, <2>2, <1>n DEF Generations, Published, AlmostPublished
<1>8. CASE VecdelRebuild \/ DumpLoadEnd \/ VServe
  <2>1. RebuildAnnFromStore /\ UNCHANGED vstore /\ writer'.pc = "idle"
    BY <1>8 DEF VecdelRebuild, DumpLoadEnd, VServe, NoOp
  <2> QED
    BY <2>1, <1>p, RebuildSteps
<1>9. CASE ThreadTrain \/ SealBegin \/ SealAssign \/ SealEnd
  BY <1>9, <1>q, ThreadSteps DEF Kept
<1>10. CASE SearchBegin \/ HnswSearch \/ IvfSearchBuffer \/ IvfSearchLists \/ SearchMap \/ SearchEnd
  BY <1>10, <1>u, SearchSteps
<1>11. CASE VSave
  BY <1>11, <1>u DEF VSave
<1>12. CASE DumpLoad
  <2>1. vstore' = SwapState(vstore, vimage.vals) /\ writer'.pc = "reload" /\ UNCHANGED ann
    BY <1>12 DEF DumpLoad
  <2>2. vstore'.generation = vstore.generation + 1
    BY <2>1, <1>t, <1>n, ImageFacts, SwapStateFits
  <2> QED
    BY <2>1, <2>2, <1>g
<1>13. CASE VCrash
  <2>1. /\ vstore' = IF vimage.vals = <<>> THEN EmptyVectorStore
                     ELSE SwapState(EmptyVectorStore, vimage.vals)
        /\ ann' = EmptyAnn /\ writer' = NoOp /\ thread' = IdleThread
    BY <1>13 DEF VCrash
  <2>2. StoreFits(vstore')
    BY <2>1, <1>t, RecoveredStore
  <2>3. vstore'.generation \in Nat /\ ann'.published = 0
    BY <2>1, <2>2, StoreFields, EmptyAnnFacts
  <2> QED
    BY <2>1, <2>3, ThreadForms, WriterForms DEF Generations, Published, AlmostPublished
<1> QED
  BY <1>1, <1>2, <1>3, <1>4, <1>5, <1>6, <1>7, <1>8, <1>9, <1>10, <1>11, <1>12, <1>13 DEF VNext

\* Steps after which the index is not held to match the store.
LEMMA ApartMatches ==
  ASSUME ~Published', ~AlmostPublished'
  PROVE  IndexMatches'
BY DEF IndexMatches, NodesCurrent, TiersCurrent, TiersCover

\* Steps that move labels, and no mutation is at its notification.
LEMMA KeptMatches ==
  ASSUME IndexMatches, Kept(ann, ann'), UNCHANGED <<kind, vstore, leftover>>,
         writer' = writer \/ (writer.pc # "notify" /\ writer'.pc # "notify")
  PROVE  IndexMatches'
<1>k. /\ ann'.published = ann.published /\ ann'.nodes = ann.nodes
      /\ TransientLabels(ann') \subseteq TransientLabels(ann)
      /\ \A l \in TransientLabels(ann') : SearchBuffer(ann')[l] = SearchBuffer(ann)[l]
      /\ TransientLabels(ann) \union ListsOf(ann) \subseteq TransientLabels(ann') \union ListsOf(ann')
  BY DEF Kept
<1>1. (Published' <=> Published) /\ (AlmostPublished' <=> AlmostPublished) /\ Touched' = Touched
  BY <1>k DEF Published, AlmostPublished, Touched
<1>2. LiveRows' = LiveRows /\ \A l, v : Matches(l, v) => Matches(l, v)'
  BY DEF LiveRows, LiveSlots, Matches
<1>3. NodesCurrent'
  BY <1>k, <1>1, <1>2 DEF IndexMatches, NodesCurrent
<1>4. TiersCurrent'
  <2> SUFFICES ASSUME kind' = "ivf", Published' \/ AlmostPublished',
                      NEW l \in TransientLabels(ann') \ (leftover' \union Touched')
               PROVE  l \in LiveRows' => SearchBuffer(ann')[l] = vstore'.slots[l].val
    BY DEF TiersCurrent, Matches
  <2>1. Matches(l, SearchBuffer(ann)[l])
    BY <1>k, <1>1 DEF IndexMatches, TiersCurrent
  <2>2. SearchBuffer(ann')[l] = SearchBuffer(ann)[l]
    BY <1>k
  <2> QED
    BY <2>1, <2>2 DEF Matches, LiveRows, LiveSlots
<1>5. TiersCover'
  <2> SUFFICES ASSUME kind' = "ivf", Published' \/ AlmostPublished'
               PROVE  LiveRows' \ Touched' \subseteq TransientLabels(ann') \union ListsOf(ann')
    BY DEF TiersCover
  <2>1. LiveRows \ Touched \subseteq TransientLabels(ann) \union ListsOf(ann)
    BY <1>1 DEF IndexMatches, TiersCover
  <2> QED
    BY <2>1, <1>k, <1>1, <1>2
<1> QED
  BY <1>3, <1>4, <1>5 DEF IndexMatches

\* A published rebuild matches the store it was built from.
LEMMA RebuiltMatches ==
  ASSUME UNCHANGED <<kind, vstore>>, writer'.pc # "notify", StoreFits(vstore),
         kind \in {"hnsw", "ivf"}, ann \in Anns,
         ann' = Publish(Rebuild(ann, vstore), vstore), leftover' = TransientLabels(ann)
  PROVE  IndexMatches'
<1>r. /\ ann'.buffer = ann.buffer /\ ann'.sealing = ann.sealing
      /\ kind = "hnsw" => /\ DOMAIN ann'.nodes = DOMAIN vstore.slots
                          /\ \A i \in DOMAIN ann'.nodes : /\ ann'.nodes[i].label = i
                                                          /\ ann'.nodes[i].val = vstore.slots[i].val
      /\ kind # "hnsw" => \/ DOMAIN vstore.slots = {} /\ ~ann'.trained
                          \/ ann'.trained /\ ann'.lists = DOMAIN vstore.slots
  BY RebuildFacts
<1>1. NodesCurrent'
  BY <1>r DEF NodesCurrent, Matches
<1>2. TransientLabels(ann') = TransientLabels(ann)
  BY <1>r DEF TransientLabels
<1>3. TiersCurrent'
  BY <1>2 DEF TiersCurrent
<1>4. TiersCover'
  BY <1>r DEF TiersCover, ListsOf, LiveRows, LiveSlots
<1> QED
  BY <1>1, <1>3, <1>4 DEF IndexMatches

\* After SetVector the index is stale in the one row it wrote.
LEMMA VecsetMatches ==
  ASSUME VecTypes, WriterFits, Generations, IndexMatches, VecsetStore
  PROVE  IndexMatches'
<1>t. ann \in Anns /\ StoreFits(vstore) /\ writer \in Writers
  BY DEF VecTypes, IndexTypes, DataTypes
<1>1. /\ writer.pc = "store" /\ writer.op.type = "vecset"
      /\ vstore' = SetVector(vstore, writer.op.id, writer.val)
      /\ writer' = [writer EXCEPT !.pc = "notify"] /\ UNCHANGED <<kind, ann, leftover>>
  BY DEF VecsetStore
<1>2. writer.op.id \in Ids /\ writer.val \in Vals
  BY <1>1, <1>t, WriterFacts, OperationFacts
<1>3. writer'.pc = "notify" /\ writer'.op = writer.op
  BY <1>1, <1>t, WriterMoves
<1> DEFINE r == vstore'.index[writer.op.id]
<1>4. /\ vstore'.generation = vstore.generation + 1
      /\ \A l \in LiveSlots(vstore') : \/ l = r
                                       \/ l \in LiveSlots(vstore) /\ vstore'.slots[l] = vstore.slots[l]
  BY <1>1, <1>2, <1>t, SetVectorFits
<1>5. ann.published \in Nat /\ vstore.generation \in Nat /\ ann.published <= vstore.generation
  BY <1>t, AnnFields, StoreFields DEF Generations
<1>6. ~Published' /\ (AlmostPublished' => Published) /\ Touched' = {r}
  BY <1>1, <1>3, <1>4, <1>5 DEF Published, AlmostPublished, Touched
<1>7. Touched = {}
  BY <1>1 DEF Touched
<1>8. \A l \in LiveRows' : l = r \/ (l \in LiveRows /\ vstore'.slots[l] = vstore.slots[l])
  BY <1>4 DEF LiveRows
<1> HIDE DEF r
<1>9. CASE ~AlmostPublished'
  BY <1>6, <1>9, ApartMatches
<1>10. CASE AlmostPublished'
  <2>1. Published
    BY <1>6, <1>10
  <2>2. NodesCurrent'
    <3> SUFFICES ASSUME kind = "hnsw", NEW i \in DOMAIN ann.nodes, ~ann.nodes[i].deleted,
                        ann.nodes[i].label \notin {r}, ann.nodes[i].label \in LiveRows'
                 PROVE  ann.nodes[i].val = vstore'.slots[ann.nodes[i].label].val
      BY <1>1, <1>6 DEF NodesCurrent, Matches
    <3>1. Matches(ann.nodes[i].label, ann.nodes[i].val)
      BY <2>1, <1>7 DEF IndexMatches, NodesCurrent
    <3> QED
      BY <3>1, <1>8 DEF Matches
  <2>3. TiersCurrent'
    <3> SUFFICES ASSUME kind = "ivf", NEW l \in TransientLabels(ann) \ (leftover \union {r}), l \in LiveRows'
                 PROVE  SearchBuffer(ann)[l] = vstore'.slots[l].val
      BY <1>1, <1>6 DEF TiersCurrent, Matches
    <3>1. Matches(l, SearchBuffer(ann)[l])
      BY <2>1, <1>7 DEF IndexMatches, TiersCurrent
    <3> QED
      BY <3>1, <1>8 DEF Matches
  <2>4. TiersCover'
    <3> SUFFICES ASSUME kind = "ivf", NEW l \in LiveRows' \ {r}
                 PROVE  l \in TransientLabels(ann) \union ListsOf(ann)
      BY <1>1, <1>6 DEF TiersCover
    <3> QED
      BY <2>1, <1>7, <1>8 DEF IndexMatches, TiersCover
  <2> QED
    BY <2>2, <2>3, <2>4 DEF IndexMatches
<1> QED
  BY <1>9, <1>10

\* NotifyVectorAdded brings that row up to date, by an insertion or a rebuild.
LEMMA NotifyMatches ==
  ASSUME VecTypes, WriterFits, IndexMatches, NotifyVectorAdded
  PROVE  IndexMatches'
<1> DEFINE l == vstore.index[writer.op.id]
<1>t. ann \in Anns /\ StoreFits(vstore) /\ kind \in {"hnsw", "ivf"}
  BY VectorIndexConstants DEF VecTypes, IndexTypes, DataTypes
<1>s. /\ ann' \in Anns /\ ann'.published = vstore.generation
      /\ writer.pc = "notify" /\ writer'.pc \in {"idle", "launch"}
      /\ l \in Labels /\ vstore.slots[l].val = writer.val /\ writer.val \in Vals
      /\ UNCHANGED <<kind, vstore, thread, search>>
      /\ \/ /\ AlmostPublished /\ leftover' = leftover \ {l}
            /\ ann' = Publish(AnnAdd(ann, l, writer.val), vstore)
         \/ /\ ~AlmostPublished /\ leftover' = TransientLabels(ann)
            /\ ann' = Publish(Rebuild(ann, vstore), vstore)
  BY NotifySteps
<1>g. vstore.generation \in Nat
  BY <1>t, StoreFields
<1>1. Touched = {l} /\ Touched' = {}
  BY <1>s DEF Touched
<1> HIDE DEF l
<1>2. CASE ~AlmostPublished
  BY <1>2, <1>s, <1>t, RebuiltMatches
<1>3. CASE AlmostPublished
  <2>1. leftover' = leftover \ {l} /\ ann' = Publish(AnnAdd(ann, l, writer.val), vstore)
    BY <1>3, <1>s
  <2>2. /\ ann'.trained = ann.trained /\ ann'.lists = ann.lists /\ ann'.sealing = ann.sealing
        /\ kind # "hnsw" => ann'.buffer = Assign(ann.buffer, l, writer.val)
        /\ kind = "hnsw" =>
             \A i \in DOMAIN ann'.nodes :
               ~ann'.nodes[i].deleted =>
                 \/ ann'.nodes[i].label = l /\ ann'.nodes[i].val = writer.val
                 \/ ann'.nodes[i].label # l /\ \E j \in DOMAIN ann.nodes : ann'.nodes[i] = ann.nodes[j]
    BY <2>1, <1>s, <1>t, <1>g, AddFacts
  <2>3. NodesCurrent'
    <3> SUFFICES ASSUME kind = "hnsw", NEW i \in DOMAIN ann'.nodes, ~ann'.nodes[i].deleted,
                        ann'.nodes[i].label \in LiveRows
                 PROVE  ann'.nodes[i].val = vstore.slots[ann'.nodes[i].label].val
      BY <1>s DEF NodesCurrent, Matches, LiveRows
    <3>1. CASE ann'.nodes[i].label = l /\ ann'.nodes[i].val = writer.val
      BY <3>1, <1>s
    <3>2. CASE ann'.nodes[i].label # l /\ \E j \in DOMAIN ann.nodes : ann'.nodes[i] = ann.nodes[j]
      <4>1. PICK j \in DOMAIN ann.nodes : ann'.nodes[i] = ann.nodes[j]
        BY <3>2
      <4>2. Matches(ann.nodes[j].label, ann.nodes[j].val)
        BY <4>1, <3>2, <1>1, <1>3 DEF IndexMatches, NodesCurrent
      <4> QED
        BY <4>1, <4>2 DEF Matches
    <3> QED
      BY <2>2, <3>1, <3>2
  <2>4. kind = "ivf" => /\ TransientLabels(ann') = TransientLabels(ann) \union {l} /\ ListsOf(ann') = ListsOf(ann)
                        /\ SearchBuffer(ann')[l] = writer.val
                        /\ \A k \in TransientLabels(ann) \ {l} : SearchBuffer(ann')[k] = SearchBuffer(ann)[k]
    <3> SUFFICES ASSUME kind = "ivf"
                 PROVE  /\ TransientLabels(ann') = TransientLabels(ann) \union {l} /\ ListsOf(ann') = ListsOf(ann)
                        /\ SearchBuffer(ann')[l] = writer.val
                        /\ \A k \in TransientLabels(ann) \ {l} : SearchBuffer(ann')[k] = SearchBuffer(ann)[k]
      OBVIOUS
    <3>1. /\ DOMAIN ann'.buffer = DOMAIN ann.buffer \union {l}
          /\ \A x \in DOMAIN ann'.buffer : ann'.buffer[x] = IF x = l THEN writer.val ELSE ann.buffer[x]
      BY <2>2 DEF Assign
    <3>2. TransientLabels(ann') = TransientLabels(ann) \union {l} /\ ListsOf(ann') = ListsOf(ann)
      BY <3>1, <2>2 DEF TransientLabels, ListsOf
    <3>3. SearchBuffer(ann')[l] = writer.val
      BY <3>1, <3>2, BufferLookup
    <3>4. \A k \in TransientLabels(ann) \ {l} : SearchBuffer(ann')[k] = SearchBuffer(ann)[k]
      BY <3>1, <3>2, <2>2, BufferLookup
    <3> QED
      BY <3>2, <3>3, <3>4
  <2>5. TiersCurrent'
    <3> SUFFICES ASSUME kind = "ivf", NEW k \in TransientLabels(ann') \ leftover', k \in LiveRows
                 PROVE  SearchBuffer(ann')[k] = vstore.slots[k].val
      BY <1>s, <1>1 DEF TiersCurrent, Matches, LiveRows
    <3>1. CASE k = l
      BY <3>1, <2>4, <1>s
    <3>2. CASE k # l
      <4>1. k \in TransientLabels(ann) \ (leftover \union {l})
        BY <3>2, <2>1, <2>4
      <4>2. Matches(k, SearchBuffer(ann)[k])
        BY <4>1, <1>1, <1>3 DEF IndexMatches, TiersCurrent
      <4> QED
        BY <4>1, <4>2, <2>4 DEF Matches
    <3> QED
      BY <3>1, <3>2
  <2>6. TiersCover'
    <3> SUFFICES ASSUME kind = "ivf", NEW k \in LiveRows
                 PROVE  k \in TransientLabels(ann') \union ListsOf(ann')
      BY <1>s DEF TiersCover, LiveRows
    <3>1. LiveRows \ {l} \subseteq TransientLabels(ann) \union ListsOf(ann)
      BY <1>1, <1>3 DEF IndexMatches, TiersCover
    <3> QED
      BY <3>1, <2>4
  <2> QED
    BY <2>3, <2>5, <2>6 DEF IndexMatches
<1> QED
  BY <1>2, <1>3

\* Every step keeps the index published for a generation in agreement with the rows of that
\* generation, the leftovers of a rebuild excepted.
LEMMA IndexMatchesNext ==
  ASSUME VecTypes, WriterFits, Generations, ThreadFits, IndexMatches, VNext
  PROVE  IndexMatches'
<1>t. ann \in Anns /\ StoreFits(vstore) /\ writer \in Writers /\ vimage \in Images /\ kind \in {"hnsw", "ivf"}
  BY VectorIndexConstants DEF VecTypes, IndexTypes, DataTypes
<1>n. ann.published \in Nat /\ vstore.generation \in Nat /\ ann.published <= vstore.generation
  BY <1>t, AnnFields, StoreFields DEF Generations
<1>u. ASSUME UNCHANGED <<kind, vstore, ann, leftover>>,
             writer' = writer \/ (writer.pc # "notify" /\ writer'.pc # "notify")
      PROVE  IndexMatches'
  BY <1>u, <1>t, KeptSame, KeptMatches
<1>g. ASSUME UNCHANGED ann, vstore'.generation = vstore.generation + 1, writer'.pc # "notify"
      PROVE  IndexMatches'
  <2>1. ~Published' /\ ~AlmostPublished'
    BY <1>g, <1>n DEF Published, AlmostPublished
  <2> QED
    BY <2>1, ApartMatches
<1>1. CASE Offer \/ Metaset \/ ReplayRecord
  <2>1. /\ UNCHANGED <<kind, vstore, ann, leftover>> /\ writer.pc \in {"idle", "store"}
        /\ writer' = writer \/ writer'.pc \in {"idle", "store"}
    BY <1>1 DEF Offer, Metaset, ReplayRecord, Begin, NoOp
  <2> QED
    BY <2>1, <1>u
<1>2. CASE VecsetStore
  BY <1>2, VecsetMatches
<1>3. CASE NotifyVectorAdded
  BY <1>3, NotifyMatches
<1>4. CASE LaunchBackground
  BY <1>4, KeptMatches, LaunchSteps, WriterForms
<1>5. CASE VecdelStore
  <2>1. /\ writer.pc = "store" /\ writer.op.type = "vecdel" /\ vstore' = DeleteVector(vstore, writer.op.id)
        /\ writer'.pc = "defragment" /\ UNCHANGED ann
    BY <1>5 DEF VecdelStore
  <2>2. Holds(vstore, writer.op.id)
    BY <2>1 DEF WriterFits
  <2> QED
    BY <2>1, <2>2, <1>t, <1>g, DeleteVectorFits
<1>6. CASE VecdelDefragment
  <2>1. /\ writer.pc = "defragment" /\ vstore' = Defragment(vstore)
        /\ writer' = [writer EXCEPT !.pc = "remove"] /\ UNCHANGED ann
    BY <1>6 DEF VecdelDefragment
  <2>2. writer'.pc = "remove"
    BY <2>1, <1>t, WriterMoves
  <2> QED
    BY <2>1, <2>2, <1>t, <1>g, DefragmentFits
<1>7. CASE NotifyVectorRemoved
  <2>1. /\ writer.pc = "remove" /\ writer'.pc = "rebuild" /\ ann' = MarkDeleted(ann, writer.label)
        /\ UNCHANGED vstore
    BY <1>7 DEF NotifyVectorRemoved
  <2>2. ann'.published = ann.published /\ ~Published
    BY <2>1, <1>t, MarkFacts DEF Generations
  <2>3. ~Published' /\ ~AlmostPublished'
    BY <2>1, <2>2 DEF Published, AlmostPublished
  <2> QED
    BY <2>3, ApartMatches
<1>8. CASE VecdelRebuild \/ DumpLoadEnd \/ VServe
  <2>1. RebuildAnnFromStore /\ UNCHANGED <<kind, vstore>> /\ writer'.pc = "idle"
    BY <1>8 DEF VecdelRebuild, DumpLoadEnd, VServe, NoOp
  <2>2. ann' = Publish(Rebuild(ann, vstore), vstore) /\ leftover' = TransientLabels(ann)
    BY <2>1 DEF RebuildAnnFromStore
  <2> QED
    BY <2>1, <2>2, <1>t, RebuiltMatches
<1>9. CASE ThreadTrain \/ SealBegin \/ SealAssign \/ SealEnd
  BY <1>9, ThreadSteps, KeptMatches
<1>10. CASE SearchBegin \/ HnswSearch \/ IvfSearchBuffer \/ IvfSearchLists \/ SearchMap \/ SearchEnd
  BY <1>10, <1>u, SearchSteps
<1>11. CASE VSave
  BY <1>11, <1>u DEF VSave
<1>12. CASE DumpLoad
  <2>1. vstore' = SwapState(vstore, vimage.vals) /\ writer'.pc = "reload" /\ UNCHANGED ann
    BY <1>12 DEF DumpLoad
  <2>2. vstore'.generation = vstore.generation + 1
    BY <2>1, <1>t, <1>n, ImageFacts, SwapStateFits
  <2> QED
    BY <2>1, <2>2, <1>g
<1>13. CASE VCrash
  <2>1. /\ ann' = EmptyAnn /\ leftover' = {} /\ writer' = NoOp
        /\ vstore' = IF vimage.vals = <<>> THEN EmptyVectorStore
                     ELSE SwapState(EmptyVectorStore, vimage.vals)
    BY <1>13 DEF VCrash
  <2>2. DOMAIN ann'.nodes = {} /\ TransientLabels(ann') = {} /\ ann'.published = 0
    BY <2>1, EmptyAnnFacts
  <2>3. NodesCurrent' /\ TiersCurrent'
    BY <2>2 DEF NodesCurrent, TiersCurrent
  <2>4. CASE vimage.vals = <<>>
    <3>1. LiveRows' = {}
      BY <2>1, <2>4 DEF LiveRows, LiveSlots, EmptyVectorStore
    <3>2. TiersCover'
      BY <3>1 DEF TiersCover
    <3> QED
      BY <2>3, <3>2 DEF IndexMatches
  <2>5. CASE vimage.vals # <<>>
    <3>1. EmptyVectorStore.generation = 0
      BY DEF EmptyVectorStore
    <3>v. vimage.vals \in Partial(Ids, Vals) /\ IsFiniteSet(DOMAIN vimage.vals)
      BY <1>t, ImageFacts
    <3>w. SwapState(EmptyVectorStore, vimage.vals).generation = 0 + 1
      BY <3>1, <3>v, SwapStateFits
    <3>2. vstore'.generation = 1
      BY <3>w, <2>1, <2>5
    <3>3. ~Published' /\ ~AlmostPublished'
      BY <3>2, <2>1, <2>2, WriterForms DEF Published, AlmostPublished
    <3> QED
      BY <3>3, ApartMatches
  <2> QED
    BY <2>4, <2>5
<1> QED
  BY <1>1, <1>2, <1>3, <1>4, <1>5, <1>6, <1>7, <1>8, <1>9, <1>10, <1>11, <1>12, <1>13 DEF VNext

-----------------------------------------------------------------------------
(* Searches.                                                                *)

\* A search in progress outlives a store that moves away from the index.
LEMMA SearchApart ==
  ASSUME SearchFits, UNCHANGED <<kind, ann, search>>, ~Published'
  PROVE  SearchFits'
BY DEF SearchFits

\* A search in progress does not see where the sealing thread moves a label.
LEMMA SearchKept ==
  ASSUME SearchFits, Kept(ann, ann'), UNCHANGED <<kind, vstore, search, leftover>>
  PROVE  SearchFits'
<1>k. ann'.published = ann.published /\ (ann.trained => ann'.trained /\ ann.lists \subseteq ann'.lists)
  BY DEF Kept
<1>1. (Published' <=> Published) /\ LiveRows' = LiveRows
  BY <1>k DEF Published, LiveRows, LiveSlots
<1>2. \A l, v : Matches(l, v) => Matches(l, v)'
  BY <1>1 DEF Matches
<1>3. (search'.pc = "hnsw" => kind' = "hnsw") /\ (search'.pc = "ivf" => kind' = "ivf" /\ ann'.trained)
  BY <1>k DEF SearchFits
<1>4. ASSUME search.pc = "lists"
      PROVE  /\ kind' = "ivf" /\ ann'.trained
             /\ Published' => /\ \A l \in DOMAIN search.tier \ leftover : Matches(l, search.tier[l])'
                              /\ LiveRows' \subseteq DOMAIN search.tier \union ann'.lists
  <2>1. /\ kind = "ivf" /\ ann.trained
        /\ Published => /\ \A l \in DOMAIN search.tier \ leftover : Matches(l, search.tier[l])
                        /\ LiveRows \subseteq DOMAIN search.tier \union ann.lists
    BY <1>4 DEF SearchFits
  <2> QED
    BY <2>1, <1>k, <1>1 DEF Matches
<1>5. ASSUME search.pc = "map", Published'
      PROVE  /\ \A f \in search.found : f.label \in leftover \/ Matches(f.label, f.val)'
             /\ kind' = "ivf" => LiveRows' \subseteq {f.label : f \in search.found}
  <2>1. /\ \A f \in search.found : f.label \in leftover \/ Matches(f.label, f.val)
        /\ kind = "ivf" => LiveRows \subseteq {f.label : f \in search.found}
    BY <1>1, <1>5 DEF SearchFits
  <2> QED
    BY <2>1, <1>1, <1>2
<1> QED
  BY <1>3, <1>4, <1>5 DEF SearchFits, Matches

\* The steps of the search itself.
LEMMA SearchReads ==
  ASSUME VecTypes, Generations, IndexMatches, SearchFits,
         SearchBegin \/ HnswSearch \/ IvfSearchBuffer \/ IvfSearchLists \/ SearchMap \/ SearchEnd
  PROVE  SearchFits'
<1>t. ann \in Anns /\ StoreFits(vstore) /\ SearchShape /\ kind \in {"hnsw", "ivf"}
  BY VectorIndexConstants DEF VecTypes, IndexTypes, DataTypes
<1>u. UNCHANGED <<kind, vstore, ann, leftover>>
  BY SearchSteps
<1>p. (Published' <=> Published) /\ LiveRows' = LiveRows
  BY <1>u DEF Published, LiveRows, LiveSlots
<1>n. Published => Touched = {}
  BY DEF Generations, Touched
<1>d. ASSUME search'.pc \in {"idle", "done"} PROVE SearchFits'
  BY <1>d DEF SearchFits
<1>1. CASE SearchBegin
  <2>1. CASE IsAnnIndexReady
    <3>1. search' = [pc |-> kind]
      BY <1>1, <2>1 DEF SearchBegin
    <3>2. kind = "ivf" => ann.trained
      BY <2>1 DEF IsAnnIndexReady
    <3>3. search'.pc = kind
      BY <3>1
    <3> QED
      BY <3>2, <3>3, <1>t, <1>u DEF SearchFits
  <2>2. CASE ~IsAnnIndexReady
    <3>1. search'.pc = "done"
      BY <1>1, <2>2, FlatEnds DEF SearchBegin
    <3> QED
      BY <3>1, <1>d
  <2> QED
    BY <2>1, <2>2
<1>2. CASE HnswSearch
  <2>1. PICK found \in SUBSET ToSet(LiveNodes(ann.nodes)) :
          search' = [pc |-> "map", found |-> {[label |-> n.label, val |-> n.val] : n \in found}]
    BY <1>2 DEF HnswSearch
  <2>2. kind = "hnsw"
    BY <1>2 DEF HnswSearch, SearchFits
  <2>3. \A n \in found : \E j \in DOMAIN ann.nodes : n = ann.nodes[j] /\ ~ann.nodes[j].deleted
    BY <1>t, AnnFields, LiveNodesFacts DEF ToSet
  <2>4. Published => \A n \in found : Matches(n.label, n.val)
    BY <2>2, <2>3, <1>n DEF IndexMatches, NodesCurrent
  <2>5. search'.pc = "map" /\ \A f \in search'.found : \E n \in found : f.label = n.label /\ f.val = n.val
    BY <2>1
  <2>6. Published => \A f \in search'.found : Matches(f.label, f.val)
    BY <2>4, <2>5
  <2>7. Published' => \A f \in search'.found : Matches(f.label, f.val)'
    BY <2>6, <1>p, <1>u DEF Matches
  <2> QED
    BY <2>2, <2>5, <2>7, <1>u DEF SearchFits
<1>3. CASE IvfSearchBuffer
  <2>1. kind = "ivf" /\ ann.trained
    BY <1>3 DEF IvfSearchBuffer, SearchFits
  <2>2. CASE vstore.slots = <<>>
    <3>1. search' = [pc |-> "map", found |-> {}]
      BY <1>3, <2>2 DEF IvfSearchBuffer
    <3>2. LiveRows = {}
      BY <2>2 DEF LiveRows, LiveSlots
    <3> QED
      BY <3>1, <3>2, <1>p DEF SearchFits
  <2>3. CASE vstore.slots # <<>>
    <3>1. search' = [pc |-> "lists", tier |-> SearchBuffer(ann)]
      BY <1>3, <2>3 DEF IvfSearchBuffer
    <3>2. DOMAIN SearchBuffer(ann) = TransientLabels(ann)
      BY BufferLookup
    <3>3. Published => /\ \A l \in TransientLabels(ann) \ leftover : Matches(l, SearchBuffer(ann)[l])
                       /\ LiveRows \subseteq TransientLabels(ann) \union ann.lists
      BY <2>1, <1>n DEF IndexMatches, TiersCurrent, TiersCover, ListsOf
    <3>4. search'.pc = "lists" /\ search'.tier = SearchBuffer(ann)
      BY <3>1
    <3>5. Published' => /\ \A l \in DOMAIN search'.tier \ leftover' : Matches(l, SearchBuffer(ann)[l])
                        /\ LiveRows' \subseteq DOMAIN search'.tier \union ann'.lists
      BY <3>2, <3>3, <3>4, <1>p, <1>u
    <3>6. Published' => \A l \in DOMAIN search'.tier \ leftover' :
                          l \in LiveRows' => search'.tier[l] = vstore'.slots[l].val
      BY <3>4, <3>5, <1>p, <1>u DEF Matches
    <3> QED
      BY <3>4, <3>5, <3>6, <2>1, <1>u DEF SearchFits, Matches
  <2> QED
    BY <2>2, <2>3
<1>4. CASE IvfSearchLists
  <2> DEFINE merged == Over(search.tier, ListTier(ann))
  <2>1. search.pc = "lists"
        /\ search' = [pc |-> "map", found |-> {[label |-> l, val |-> merged[l]] : l \in DOMAIN merged}]
    BY <1>4 DEF IvfSearchLists
  <2>2. /\ kind = "ivf" /\ ann.trained
        /\ Published => /\ \A l \in DOMAIN search.tier \ leftover : Matches(l, search.tier[l])
                        /\ LiveRows \subseteq DOMAIN search.tier \union ann.lists
    BY <2>1 DEF SearchFits
  <2>3. /\ DOMAIN ListTier(ann) = ann.lists \intersect DOMAIN vstore.slots
        /\ \A l \in DOMAIN ListTier(ann) : ListTier(ann)[l] = vstore.slots[l].val
    BY <2>2 DEF ListTier
  <2>4. /\ DOMAIN merged = DOMAIN search.tier \union DOMAIN ListTier(ann)
        /\ \A l \in DOMAIN merged :
             merged[l] = IF l \in DOMAIN search.tier THEN search.tier[l] ELSE ListTier(ann)[l]
    BY DEF Over
  <2> HIDE DEF merged
  <2>5. Published => \A l \in DOMAIN merged : l \in leftover \/ Matches(l, merged[l])
    BY <2>2, <2>3, <2>4 DEF Matches
  <2>6. Published => LiveRows \subseteq DOMAIN merged
    BY <2>2, <2>3, <2>4 DEF LiveRows, LiveSlots
  <2>7. /\ search'.pc = "map" /\ {f.label : f \in search'.found} = DOMAIN merged
        /\ \A f \in search'.found : f.label \in DOMAIN merged /\ f.val = merged[f.label]
    <3> DEFINE entry(l) == [label |-> l, val |-> merged[l]]
    <3>1. search'.pc = "map" /\ search'.found = {entry(l) : l \in DOMAIN merged}
      BY <2>1
    <3>2. \A l \in DOMAIN merged : entry(l).label = l /\ entry(l).val = merged[l]
      OBVIOUS
    <3> HIDE DEF entry
    <3> QED
      BY <3>1, <3>2
  <2>8. Published' => \A f \in search'.found : f.label \in leftover' \/ Matches(f.label, f.val)'
    BY <2>5, <2>7, <1>p, <1>u DEF Matches
  <2> QED
    BY <2>6, <2>7, <2>8, <1>p DEF SearchFits
<1>5. CASE SearchMap \/ SearchEnd
  <2>1. search'.pc \in {"idle", "done"}
    BY <1>5, FlatEnds DEF SearchMap, SearchEnd, Answered, NoSearch
  <2> QED
    BY <2>1, <1>d
<1> QED
  BY <1>1, <1>2, <1>3, <1>4, <1>5

\* Every step keeps what a search has read so far usable, or stale and recognised as such.
LEMMA SearchFitsNext ==
  ASSUME VecTypes, WriterFits, Generations, ThreadFits, IndexMatches, SearchFits, VNext
  PROVE  SearchFits'
<1>t. ann \in Anns /\ StoreFits(vstore) /\ writer \in Writers /\ vimage \in Images
  BY DEF VecTypes, IndexTypes, DataTypes
<1>n. ann.published \in Nat /\ vstore.generation \in Nat /\ ann.published <= vstore.generation
  BY <1>t, AnnFields, StoreFields DEF Generations
\* The publication lock keeps the writer from the index during a search.
<1>f. ASSUME PublicationFree, UNCHANGED search PROVE SearchFits'
  BY <1>f DEF PublicationFree, SearchFits
<1>u. ASSUME UNCHANGED <<kind, vstore, ann, search, leftover>> PROVE SearchFits'
  BY <1>u, <1>t, KeptSame, SearchKept
<1>g. ASSUME UNCHANGED <<kind, ann, search>>, vstore'.generation = vstore.generation + 1 PROVE SearchFits'
  <2>1. ~Published'
    BY <1>g, <1>n DEF Published
  <2> QED
    BY <2>1, <1>g, SearchApart
<1>1. CASE Offer \/ Metaset \/ ReplayRecord \/ VSave
  BY <1>1, <1>u DEF Offer, Metaset, ReplayRecord, VSave
<1>2. CASE VecsetStore
  <2>1. /\ writer.pc = "store" /\ writer.op.type = "vecset"
        /\ vstore' = SetVector(vstore, writer.op.id, writer.val) /\ UNCHANGED <<kind, ann, search>>
    BY <1>2 DEF VecsetStore
  <2>2. writer.op.id \in Ids /\ writer.val \in Vals
    BY <2>1, <1>t, WriterFacts, OperationFacts
  <2> QED
    BY <2>1, <2>2, <1>t, <1>g, SetVectorFits
<1>3. CASE NotifyVectorAdded
  BY <1>3, <1>f DEF NotifyVectorAdded
<1>4. CASE LaunchBackground
  BY <1>4, LaunchSteps, SearchKept
<1>5. CASE VecdelStore
  <2>1. /\ writer.pc = "store" /\ writer.op.type = "vecdel" /\ vstore' = DeleteVector(vstore, writer.op.id)
        /\ UNCHANGED <<kind, ann, search>>
    BY <1>5 DEF VecdelStore
  <2>2. Holds(vstore, writer.op.id)
    BY <2>1 DEF WriterFits
  <2> QED
    BY <2>1, <2>2, <1>t, <1>g, DeleteVectorFits
<1>6. CASE VecdelDefragment
  <2>1. vstore' = Defragment(vstore) /\ UNCHANGED <<kind, ann, search>>
    BY <1>6 DEF VecdelDefragment
  <2> QED
    BY <2>1, <1>t, <1>g, DefragmentFits
<1>7. CASE NotifyVectorRemoved
  BY <1>7, <1>f DEF NotifyVectorRemoved
<1>8. CASE VecdelRebuild \/ DumpLoadEnd \/ VServe
  BY <1>8, <1>f DEF VecdelRebuild, DumpLoadEnd, VServe, RebuildAnnFromStore
<1>9. CASE ThreadTrain \/ SealBegin \/ SealAssign \/ SealEnd
  BY <1>9, ThreadSteps, SearchKept
<1>10. CASE SearchBegin \/ HnswSearch \/ IvfSearchBuffer \/ IvfSearchLists \/ SearchMap \/ SearchEnd
  BY <1>10, SearchReads
<1>12. CASE DumpLoad
  <2>1. vstore' = SwapState(vstore, vimage.vals) /\ UNCHANGED <<kind, ann, search>>
    BY <1>12 DEF DumpLoad
  <2>2. vstore'.generation = vstore.generation + 1
    BY <2>1, <1>t, <1>n, ImageFacts, SwapStateFits
  <2> QED
    BY <2>1, <2>2, <1>g
<1>13. CASE VCrash
  BY <1>13 DEF VCrash, NoSearch, SearchFits
<1> QED
  BY <1>1, <1>2, <1>3, <1>4, <1>5, <1>6, <1>7, <1>8, <1>9, <1>10, <1>12, <1>13 DEF VNext

\* What the flat scan answers is in the store, and is all of it when no
\* sample was drawn.
LEMMA FlatAnswers ==
  ASSUME StoreFits(vstore), FlatSearch
  PROVE  /\ search'.truth = VectorContents(vstore)
         /\ \A p \in search'.pairs : /\ p.id \in DOMAIN VectorContents(vstore)
                                     /\ p.val = VectorContents(vstore)[p.id]
         /\ search'.exact => {p.id : p \in search'.pairs} = DOMAIN VectorContents(vstore)
<1> DEFINE pair(i) == [id |-> vstore.slots[i].id, val |-> vstore.slots[i].val, label |-> i]
<1>1. PICK rows \in IF UseSampling THEN SampleIndices ELSE {DOMAIN vstore.slots} :
        Answered({pair(i) : i \in rows \intersect LiveRows}, ~UseSampling)
  BY DEF FlatSearch
<1>2. /\ search'.pairs = {pair(i) : i \in rows \intersect LiveRows}
      /\ search'.truth = VectorContents(vstore) /\ search'.exact = ~UseSampling
  BY <1>1 DEF Answered
<1>3. \A l \in LiveRows : /\ vstore.slots[l].id \in DOMAIN vstore.index
                          /\ vstore.index[vstore.slots[l].id] = l
  BY DEF LiveRows, LiveSlots, StoreFits, IndexFits
<1>4. /\ DOMAIN VectorContents(vstore) = DOMAIN vstore.index
      /\ \A x \in DOMAIN vstore.index : VectorContents(vstore)[x] = vstore.slots[vstore.index[x]].val
  BY DEF VectorContents
<1>5. \A x \in DOMAIN vstore.index : vstore.index[x] \in LiveRows /\ vstore.slots[vstore.index[x]].id = x
  BY StoreFields DEF LiveRows, LiveSlots, StoreFits, IndexFits
<1>6. \A i \in LiveRows : /\ pair(i).id \in DOMAIN VectorContents(vstore)
                          /\ pair(i).val = VectorContents(vstore)[pair(i).id]
  BY <1>3, <1>4
<1>7. \A x \in DOMAIN vstore.index : \E i \in LiveRows : pair(i).id = x
  BY <1>5
<1>8. ~UseSampling => rows \intersect LiveRows = LiveRows
  BY <1>1 DEF LiveRows, LiveSlots
<1> HIDE DEF pair
<1>9. \A p \in search'.pairs : \E i \in LiveRows : p = pair(i)
  BY <1>2
<1>10. ASSUME ~UseSampling PROVE {p.id : p \in search'.pairs} = DOMAIN VectorContents(vstore)
  <2>1. search'.pairs = {pair(i) : i \in LiveRows}
    BY <1>2, <1>8, <1>10
  <2> QED
    BY <2>1, <1>4, <1>6, <1>7
<1> QED
  BY <1>2, <1>6, <1>9, <1>10

\* A search that ends, ends with an answer that matches the store.
LEMMA AnswersNext ==
  ASSUME AnswersInv, VNext
  PROVE  AnswersCurrent' /\ AnswersComplete'
<1>t. ann \in Anns /\ StoreFits(vstore) /\ SearchShape /\ kind \in {"hnsw", "ivf"} /\ SearchFits
  BY VectorIndexConstants DEF AnswersInv, VecTypes, IndexTypes, DataTypes
<1>u. ASSUME UNCHANGED search PROVE AnswersCurrent' /\ AnswersComplete'
  BY <1>u DEF AnswersInv, AnswersCurrent, AnswersComplete
<1>d. ASSUME search'.pc # "done" PROVE AnswersCurrent' /\ AnswersComplete'
  BY <1>d DEF AnswersCurrent, AnswersComplete
<1>f. ASSUME FlatSearch PROVE AnswersCurrent' /\ AnswersComplete'
  BY <1>f, <1>t, FlatAnswers DEF AnswersCurrent, AnswersComplete
<1>1. CASE SearchBegin
  <2>1. CASE IsAnnIndexReady
    BY <1>1, <2>1, <1>d, <1>t DEF SearchBegin
  <2>2. CASE ~IsAnnIndexReady
    BY <1>1, <2>2, <1>f DEF SearchBegin
  <2> QED
    BY <2>1, <2>2
<1>2. CASE SearchMap
  <2>1. CASE vstore.slots = <<>>
    BY <1>2, <2>1, <1>d DEF SearchMap, NoSearch
  <2>2. CASE vstore.slots # <<>> /\ MappingStale
    BY <1>2, <2>2, <1>f DEF SearchMap
  <2>3. CASE vstore.slots # <<>> /\ ~MappingStale
    <3> DEFINE hits == {g \in search.found : g.label \in LiveRows}
               pair(f) == [id |-> vstore.slots[f.label].id, val |-> f.val, label |-> f.label]
    <3>1. Answered({pair(f) : f \in hits}, kind = "ivf") /\ search.pc = "map"
      BY <1>2, <2>3 DEF SearchMap
    <3>2. /\ search'.pairs = {pair(f) : f \in hits} /\ search'.truth = VectorContents(vstore)
          /\ search'.excused = leftover /\ search'.exact = (kind = "ivf")
      BY <3>1 DEF Answered
    <3>3. Published
      BY <2>3 DEF MappingStale, Published
    <3>4. /\ \A f \in search.found : f.label \in leftover \/ Matches(f.label, f.val)
          /\ kind = "ivf" => LiveRows \subseteq {f.label : f \in search.found}
      BY <3>1, <3>3, <1>t DEF SearchFits
    <3>5. \A l \in LiveRows : /\ vstore.slots[l].id \in DOMAIN vstore.index
                              /\ vstore.index[vstore.slots[l].id] = l
      BY <1>t DEF LiveRows, LiveSlots, StoreFits, IndexFits
    <3>6. /\ DOMAIN VectorContents(vstore) = DOMAIN vstore.index
          /\ \A x \in DOMAIN vstore.index : VectorContents(vstore)[x] = vstore.slots[vstore.index[x]].val
      BY DEF VectorContents
    <3>7. \A x \in DOMAIN vstore.index : vstore.index[x] \in LiveRows /\ vstore.slots[vstore.index[x]].id = x
      BY <1>t, StoreFields DEF LiveRows, LiveSlots, StoreFits, IndexFits
    <3>8. \A f \in hits : /\ pair(f).id \in DOMAIN VectorContents(vstore)
                          /\ \/ pair(f).val = VectorContents(vstore)[pair(f).id]
                             \/ pair(f).label \in leftover
      BY <3>4, <3>5, <3>6 DEF Matches
    <3>9. AnswersCurrent'
      BY <3>2, <3>8 DEF AnswersCurrent
    <3>10. ASSUME kind = "ivf", NEW x \in DOMAIN vstore.index
           PROVE  \E f \in hits : pair(f).id = x
      <4>1. PICK f \in search.found : f.label = vstore.index[x]
        BY <3>4, <3>7, <3>10
      <4>2. f \in hits /\ pair(f).id = x
        BY <4>1, <3>7
      <4> QED
        BY <4>2
    <3>11. kind = "ivf" => DOMAIN VectorContents(vstore) = {p.id : p \in {pair(f) : f \in hits}}
      BY <3>6, <3>8, <3>10, ZenonT(40)
    <3>12. AnswersComplete'
      BY <3>2, <3>11 DEF AnswersComplete
    <3> QED
      BY <3>9, <3>12
  <2> QED
    BY <2>1, <2>2, <2>3
<1>3. CASE HnswSearch \/ IvfSearchBuffer \/ IvfSearchLists \/ SearchEnd \/ VCrash
  <2>1. search'.pc # "done"
    BY <1>3 DEF HnswSearch, IvfSearchBuffer, IvfSearchLists, SearchEnd, VCrash, NoSearch
  <2> QED
    BY <2>1, <1>d
<1>4. CASE \/ Offer \/ Metaset \/ VecsetStore \/ NotifyVectorAdded \/ LaunchBackground
           \/ VecdelStore \/ VecdelDefragment \/ NotifyVectorRemoved \/ VecdelRebuild
           \/ ThreadTrain \/ SealBegin \/ SealAssign \/ SealEnd
           \/ VSave \/ DumpLoad \/ DumpLoadEnd \/ ReplayRecord \/ VServe
  BY <1>4, <1>u DEF Offer, Metaset, VecsetStore, NotifyVectorAdded, LaunchBackground,
    VecdelStore, VecdelDefragment, NotifyVectorRemoved, VecdelRebuild, ThreadTrain, SealBegin,
    SealAssign, SealEnd, VSave, DumpLoad, DumpLoadEnd, ReplayRecord, VServe
<1> QED
  BY <1>1, <1>2, <1>3, <1>4 DEF VNext

\* The invariant holds at start-up.
LEMMA AnswersInit ==
  ASSUME VInit
  PROVE  AnswersInv
<1>i. /\ kind \in Kinds
      /\ vstore = EmptyVectorStore /\ meta = {} /\ ann = EmptyAnn
      /\ writer = NoOp /\ thread = IdleThread /\ search = NoSearch
      /\ ops = 0 /\ vlog = <<>> /\ vimage = [vals |-> <<>>, meta |-> {}]
      /\ vserver = [mode |-> "serving"]
      /\ expected = [vals |-> <<>>, meta |-> {}] /\ leftover = {}
  BY DEF VInit
<1>1. [vals |-> <<>>, meta |-> {}] \in Images
  <2>1. DOMAIN <<>> = {} /\ IsFiniteSet({}) /\ <<>> = [x \in DOMAIN <<>> |-> <<>>[x]]
    BY FS_EmptySet
  <2> QED
    BY <2>1, ImageFrom
<1>2. DataTypes
  BY <1>i, <1>1, EmptyStoreFits, WriterForms, ServerFacts, VectorIndexConstants DEF DataTypes
<1>3. search.pc = "idle"
  BY <1>i DEF NoSearch
<1>4. IndexTypes
  BY <1>i, <1>3, EmptyAnnFacts, ThreadForms DEF IndexTypes, SearchShape
<1>5. ann.published = 0 /\ vstore.generation = 0 /\ writer.pc = "idle" /\ thread.pc = "idle"
  BY <1>i, EmptyAnnFacts, WriterForms, ThreadForms DEF EmptyVectorStore
<1>6. WriterFits /\ Generations /\ ThreadFits
  BY <1>5 DEF WriterFits, Generations, ThreadFits, Published
<1>7. LiveRows = {} /\ DOMAIN ann.nodes = {} /\ TransientLabels(ann) = {}
  BY <1>i, EmptyAnnFacts DEF LiveRows, LiveSlots, EmptyVectorStore
<1>8. IndexMatches
  BY <1>7 DEF IndexMatches, NodesCurrent, TiersCurrent, TiersCover
<1>9. SearchFits /\ AnswersCurrent /\ AnswersComplete
  BY <1>3 DEF SearchFits, AnswersCurrent, AnswersComplete
<1> QED
  BY <1>2, <1>4, <1>6, <1>8, <1>9 DEF AnswersInv, VecTypes

\* The invariant depends on the variables of the specification alone.
LEMMA AnswersStutter ==
  ASSUME AnswersInv, UNCHANGED vectorVars
  PROVE  AnswersInv'
<1>1. UNCHANGED <<kind, vstore, meta, ann, writer, thread, search, ops, vlog, vimage, vserver, expected, leftover>>
  BY DEF vectorVars
<1>2. DataTypes' /\ IndexTypes'
  BY <1>1 DEF AnswersInv, VecTypes, DataTypes, IndexTypes, SearchShape
<1>3. WriterFits' /\ Generations' /\ ThreadFits'
  BY <1>1 DEF AnswersInv, WriterFits, Generations, Published, AlmostPublished, ThreadFits
<1>4. IndexMatches' /\ SearchFits'
  <2>1. Kept(ann, ann')
    BY <1>1, KeptSame DEF AnswersInv, VecTypes, IndexTypes
  <2> QED
    BY <1>1, <2>1, KeptMatches, SearchKept DEF AnswersInv
<1>5. AnswersCurrent' /\ AnswersComplete'
  BY <1>1 DEF AnswersInv, AnswersCurrent, AnswersComplete
<1> QED
  BY <1>2, <1>3, <1>4, <1>5 DEF AnswersInv, VecTypes

\* The invariant is inductive.
LEMMA AnswersInvNext ==
  ASSUME AnswersInv, [VNext]_vectorVars
  PROVE  AnswersInv'
<1>1. CASE UNCHANGED vectorVars
  BY <1>1, AnswersStutter
<1>2. CASE VNext
  <2>1. VecTypes /\ WriterFits /\ Generations /\ IndexMatches /\ ThreadFits /\ SearchFits
    BY DEF AnswersInv
  <2>2. DataTypes' /\ WriterFits'
    BY <1>2, <2>1, DataTypesNext
  <2>3. IndexTypes' /\ ThreadFits'
    BY <1>2, <2>1, IndexTypesNext
  <2>4. Generations' /\ IndexMatches'
    BY <1>2, <2>1, GenerationsNext, IndexMatchesNext
  <2>5. SearchFits'
    BY <1>2, <2>1, SearchFitsNext
  <2>6. AnswersCurrent' /\ AnswersComplete'
    BY <1>2, AnswersNext
  <2> QED
    BY <2>2, <2>3, <2>4, <2>5, <2>6 DEF AnswersInv, VecTypes
<1> QED
  BY <1>1, <1>2

\* A search never answers an id with an embedding other than the store's, for any number of
\* ids, rows, mutations and seals, except by a label Rebuild left in the write buffer: labels
\* read before a DELETE or DEFRAGMENT are not mapped through the layout after it
\* (SimilarityEngine::SearchByVector, IvfIndex::Search, HnswIndex::Search).
THEOREM SearchesAnswerCurrentVectors == VSpec => []AnswersCurrent
<1>1. AnswersInv => AnswersCurrent
  BY DEF AnswersInv
<1> QED
  BY <1>1, AnswersInit, AnswersInvNext, PTL DEF VSpec

\* A flat search, or an IVF search that probes every list, misses no vector, although the
\* sealing thread moves entries from the buffer to the lists between its reads.
THEOREM ExactSearchesMissNoVector == VSpec => []AnswersComplete
<1>1. AnswersInv => AnswersComplete
  BY DEF AnswersInv
<1> QED
  BY <1>1, AnswersInit, AnswersInvNext, PTL DEF VSpec

-----------------------------------------------------------------------------
(* What the stores amount to: the writes accepted, the image and the log.    *)

\* What the two stores hold.
NowState == [vals |-> VectorContents(vstore), meta |-> meta]

\* The state once the mutation in progress has finished with the two stores.
Settled ==
  CASE writer.pc = "store" -> Accepted(NowState, writer.op, writer.val)
    [] writer.pc = "defragment" -> [vals |-> VectorContents(vstore), meta |-> meta \ {writer.op.id}]
    [] OTHER -> NowState

\* The check of a handler, on a state.
Applicable(e, op) == op.type = "vecset" \/ op.id \in DOMAIN e.vals

\* h: the image, and the state after each record of the log.
HistoryOf(h, log, image, last) ==
  /\ Len(h) = Len(log) + 1 /\ h[1] = image /\ h[Len(log) + 1] = last
  /\ \A i \in 1..Len(log) : /\ Applicable(h[i], log[i].op)
                            /\ h[i + 1] = Accepted(h[i], log[i].op, log[i].val)

\* The history of the present log.
History(h) == HistoryOf(h, vlog, vimage, expected)

\* The records still to be replayed are the end of the log, and the stores
\* hold the state before the first of them.
ReplayFits(h) ==
  vserver.mode = "replaying" =>
    /\ writer.pc # "reload" /\ Len(vserver.todo) <= Len(vlog)
    /\ \A i \in 1..Len(vserver.todo) : vserver.todo[i] = vlog[(Len(vlog) - Len(vserver.todo)) + i]
    /\ Settled = h[(Len(vlog) - Len(vserver.todo)) + 1]

\* A server that serves holds what was accepted; DUMP LOAD goes back to the image first.
ServingFits == vserver.mode = "serving" => Settled = IF writer.pc = "reload" THEN vimage ELSE expected

\* The inductive invariant of the stores.
WritesInv == /\ vserver.mode # "refused" /\ ServingFits
             /\ \E h \in Seq(Images) : History(h) /\ ReplayFits(h)

\* A step that leaves log, image and server alone and settles as before.
LEMMA WritesKept ==
  ASSUME WritesInv, UNCHANGED <<vlog, vimage, expected, vserver>>, Settled' = Settled,
         writer'.pc = "reload" <=> writer.pc = "reload"
  PROVE  WritesInv'
<1>1. PICK h \in Seq(Images) : History(h) /\ ReplayFits(h)
  BY DEF WritesInv
<1>2. History(h)'
  BY <1>1 DEF History
<1>3. ReplayFits(h)'
  BY <1>1 DEF ReplayFits
<1>4. vserver'.mode # "refused" /\ ServingFits'
  BY DEF WritesInv, ServingFits
<1> QED
  BY <1>2, <1>3, <1>4 DEF WritesInv

\* The history of an empty log.
LEMMA FreshHistory ==
  ASSUME NEW e \in Images
  PROVE  \E h \in Seq(Images) : HistoryOf(h, <<>>, e, e)
<1>1. <<e>> \in Seq(Images) /\ Len(<<e>>) = 1 /\ <<e>>[1] = e /\ Len(<<>>) = 0
  OBVIOUS
<1>2. HistoryOf(<<e>>, <<>>, e, e)
  BY <1>1 DEF HistoryOf
<1> QED
  BY <1>1, <1>2

\* What a record accepted next adds.
LEMMA LongerHistory ==
  ASSUME NEW h \in Seq(Images), NEW log \in Seq(Records), NEW image, NEW e \in Images, HistoryOf(h, log, image, e),
         NEW op \in Operations, NEW val \in Vals, Applicable(e, op)
  PROVE  \E g \in Seq(Images) :
           HistoryOf(g, Append(log, [op |-> op, val |-> val]), image, Accepted(e, op, val))
<1> DEFINE n == Len(log)
           r == [op |-> op, val |-> val]
           new == Append(log, r)
           last == Accepted(e, op, val)
           g == Append(h, last)
<1>1. last \in Images
  BY AcceptedFacts
<1>2. n \in Nat /\ Len(h) = n + 1 /\ h[1] = image /\ h[n + 1] = e
  BY DEF HistoryOf
<1>4. r \in Records /\ r.op = op /\ r.val = val
  BY DEF Records
<1>6. \A i \in 1..n : Applicable(h[i], log[i].op) /\ h[i + 1] = Accepted(h[i], log[i].op, log[i].val)
  BY DEF HistoryOf
<1>l. last = Accepted(e, op, val)
  OBVIOUS
<1> HIDE DEF r, last
<1>3. g \in Seq(Images) /\ Len(g) = n + 2 /\ (\A i \in 1..(n + 1) : g[i] = h[i]) /\ g[n + 2] = last
  BY <1>1, <1>2
<1>5. Len(new) = n + 1 /\ (\A i \in 1..n : new[i] = log[i]) /\ new[n + 1] = r
  BY <1>4
<1> HIDE DEF n, g, new
<1>7. ASSUME NEW i \in 1..(n + 1)
      PROVE  Applicable(g[i], new[i].op) /\ g[i + 1] = Accepted(g[i], new[i].op, new[i].val)
  <2>1. CASE i = n + 1
    <3>1. n + 1 \in 1..(n + 1) /\ (n + 1) + 1 = n + 2
      BY <1>2
    <3>2. g[i] = e /\ new[i] = r /\ g[i + 1] = last
      BY <2>1, <3>1, <1>2, <1>3, <1>5
    <3> QED
      BY <3>2, <1>4, <1>l
  <2>2. CASE i \in 1..n
    <3>0. i + 1 \in 1..(n + 1)
      BY <2>2, <1>2
    <3>1. g[i] = h[i] /\ g[i + 1] = h[i + 1] /\ new[i] = log[i]
      BY <2>2, <3>0, <1>3, <1>5
    <3> QED
      BY <2>2, <3>1, <1>6
  <2>3. i = n + 1 \/ i \in 1..n
    BY <1>2
  <2> QED
    BY <2>1, <2>2, <2>3
<1>8. g[1] = image /\ g[Len(new) + 1] = last /\ Len(g) = Len(new) + 1
  <2>1. 1 \in 1..(n + 1) /\ (n + 1) + 1 = n + 2
    BY <1>2
  <2> QED
    BY <2>1, <1>2, <1>3, <1>5
<1>9. HistoryOf(g, new, image, last)
  BY <1>5, <1>7, <1>8 DEF HistoryOf
<1> QED
  BY <1>3, <1>9 DEF new, r, last

\* The steps of a mutation in the two stores, as one step of the state.
LEMMA SettledSteps ==
  ASSUME VecTypes, WriterFits,
         Metaset \/ VecsetStore \/ NotifyVectorAdded \/ LaunchBackground \/ VecdelStore
           \/ VecdelDefragment \/ NotifyVectorRemoved \/ VecdelRebuild
  PROVE  /\ Settled' = Settled /\ UNCHANGED <<vlog, vimage, expected, vserver>>
         /\ writer.pc # "reload" /\ writer'.pc # "reload"
<1>t. StoreFits(vstore) /\ writer \in Writers /\ meta \in SUBSET Ids
  BY DEF VecTypes, DataTypes
\* Steps that leave both stores alone.
<1>q. ASSUME UNCHANGED <<vstore, meta>>, writer.pc \notin {"store", "defragment"},
             writer'.pc \notin {"store", "defragment"}
      PROVE  Settled' = Settled
  BY <1>q DEF Settled, NowState
<1>1. CASE Metaset
  <2>1. /\ writer.pc = "store" /\ writer.op.type = "metaset" /\ meta' = MetadataAfter(writer.op)
        /\ writer' = NoOp /\ UNCHANGED <<vstore, vlog, vimage, expected, vserver>>
    BY <1>1 DEF Metaset
  <2>2. meta' = meta \union {writer.op.id}
    BY <2>1 DEF MetadataAfter
  <2>3. Settled' = [vals |-> VectorContents(vstore), meta |-> meta \union {writer.op.id}]
    BY <2>1, <2>2, WriterForms DEF Settled, NowState
  <2>4. Settled = [NowState EXCEPT !.meta = @ \union {writer.op.id}]
    BY <2>1 DEF Settled, Accepted
  <2>5. [NowState EXCEPT !.meta = @ \union {writer.op.id}]
          = [vals |-> VectorContents(vstore), meta |-> meta \union {writer.op.id}]
    BY DEF NowState
  <2> QED
    BY <2>1, <2>3, <2>4, <2>5, WriterForms
<1>2. CASE VecsetStore
  <2>1. /\ writer.pc = "store" /\ writer.op.type = "vecset" /\ meta' = MetadataAfter(writer.op)
        /\ vstore' = SetVector(vstore, writer.op.id, writer.val)
        /\ writer' = [writer EXCEPT !.pc = "notify"] /\ UNCHANGED <<vlog, vimage, expected, vserver>>
    BY <1>2 DEF VecsetStore
  <2>2. writer.op.id \in Ids /\ writer.val \in Vals
    BY <2>1, <1>t, WriterFacts, OperationFacts
  <2>3. VectorContents(vstore') = Assign(VectorContents(vstore), writer.op.id, writer.val)
    BY <2>1, <2>2, <1>t, SetVectorFits
  <2>4. meta' = IF writer.op.meta THEN meta \union {writer.op.id} ELSE meta
    BY <2>1 DEF MetadataAfter
  <2>5. writer'.pc = "notify"
    BY <2>1, <1>t, WriterMoves
  <2>6. Settled' = [vals |-> VectorContents(vstore'), meta |-> meta']
    BY <2>5 DEF Settled, NowState
  <2>7. Settled = [vals |-> Assign(NowState.vals, writer.op.id, writer.val),
                   meta |-> IF writer.op.meta THEN NowState.meta \union {writer.op.id} ELSE NowState.meta]
    BY <2>1 DEF Settled, Accepted
  <2>8. NowState.vals = VectorContents(vstore) /\ NowState.meta = meta
    BY DEF NowState
  <2> QED
    BY <2>1, <2>3, <2>4, <2>5, <2>6, <2>7, <2>8
<1>3. CASE NotifyVectorAdded
  <2>1. writer.pc = "notify" /\ writer'.pc \in {"idle", "launch"}
    BY <1>3, NotifySteps
  <2> QED
    BY <1>3, <2>1, <1>q DEF NotifyVectorAdded
<1>4. CASE LaunchBackground
  BY <1>4, <1>q, WriterForms DEF LaunchBackground
<1>5. CASE VecdelStore
  <2>1. /\ writer.pc = "store" /\ writer.op.type = "vecdel" /\ vstore' = DeleteVector(vstore, writer.op.id)
        /\ writer'.pc = "defragment" /\ writer'.op = writer.op /\ UNCHANGED <<meta, vlog, vimage, expected, vserver>>
    BY <1>5 DEF VecdelStore
  <2>2. Holds(vstore, writer.op.id)
    BY <2>1 DEF WriterFits
  <2>3. VectorContents(vstore') = Without1(VectorContents(vstore), {writer.op.id})
    BY <2>1, <2>2, <1>t, DeleteVectorFits
  <2>4. Settled' = [vals |-> VectorContents(vstore'), meta |-> meta \ {writer.op.id}]
    BY <2>1 DEF Settled
  <2>5. Settled = [vals |-> Without1(NowState.vals, {writer.op.id}), meta |-> NowState.meta \ {writer.op.id}]
    BY <2>1 DEF Settled, Accepted
  <2>6. NowState.vals = VectorContents(vstore) /\ NowState.meta = meta
    BY DEF NowState
  <2> QED
    BY <2>1, <2>3, <2>4, <2>5, <2>6
<1>6. CASE VecdelDefragment
  <2>1. /\ writer.pc = "defragment" /\ vstore' = Defragment(vstore) /\ meta' = MetadataAfter(writer.op)
        /\ writer' = [writer EXCEPT !.pc = "remove"] /\ UNCHANGED <<vlog, vimage, expected, vserver>>
    BY <1>6 DEF VecdelDefragment
  <2>2. writer'.pc = "remove" /\ writer.op.type = "vecdel"
    BY <2>1, <1>t, WriterMoves, WriterFacts, OperationKinds
  <2>3. VectorContents(vstore') = VectorContents(vstore)
    BY <2>1, <1>t, DefragmentFits
  <2>4. meta' = meta \ {writer.op.id}
    BY <2>1, <2>2 DEF MetadataAfter
  <2>5. Settled' = [vals |-> VectorContents(vstore'), meta |-> meta']
    BY <2>2 DEF Settled, NowState
  <2>6. Settled = [vals |-> VectorContents(vstore), meta |-> meta \ {writer.op.id}]
    BY <2>1 DEF Settled
  <2> QED
    BY <2>1, <2>2, <2>3, <2>4, <2>5, <2>6
<1>7. CASE NotifyVectorRemoved
  BY <1>7, <1>q DEF NotifyVectorRemoved
<1>8. CASE VecdelRebuild
  BY <1>8, <1>q, WriterForms DEF VecdelRebuild
<1> QED
  BY <1>1, <1>2, <1>3, <1>4, <1>5, <1>6, <1>7, <1>8

\* Every step of a server that logs its vectors keeps the account of the writes.
LEMMA WritesNext ==
  ASSUME VecTypes, WriterFits, WritesInv, IncludeVectors, VNext
  PROVE  WritesInv'
<1>t. /\ StoreFits(vstore) /\ writer \in Writers /\ meta \in SUBSET Ids /\ vlog \in Seq(Records)
      /\ vimage \in Images /\ expected \in Images /\ vserver \in Servers
      /\ ops \in 0..MaxOps /\ MaxOps \in Nat
  BY VectorIndexConstants DEF VecTypes, DataTypes
<1>h. PICK h \in Seq(Images) : History(h) /\ ReplayFits(h)
  BY DEF WritesInv
<1>i. writer.pc = "idle" => Settled = NowState
  BY DEF Settled
<1>j. \A op : (Holds(vstore, op.id) <=> op.id \in DOMAIN NowState.vals)
  BY <1>t, ContentsFacts DEF NowState, Holds
<1>1. CASE Offer
  <2>1. PICK op \in Operations :
          /\ CanApply(op)
          /\ \E records \in LogRecords(op, ops + 1) : vlog' = vlog \o records
          /\ writer' = [pc |-> "store", op |-> op, val |-> ops + 1]
          /\ expected' = Accepted(expected, op, ops + 1)
    BY <1>1 DEF Offer, Begin
  <2>2. ops + 1 \in Vals
    BY <1>1, <1>t DEF Offer, Vals
  <2>3. /\ vserver.mode = "serving" /\ writer.pc = "idle"
        /\ UNCHANGED <<vstore, meta, vimage, vserver>>
    BY <1>1 DEF Offer
  <2>4. NowState = expected /\ NowState' = NowState
    BY <2>3, <1>i DEF WritesInv, ServingFits, NowState
  <2>5. vlog' = Append(vlog, [op |-> op, val |-> ops + 1])
    <3>1. vlog' = vlog \o <<[op |-> op, val |-> ops + 1]>>
      BY <2>1, <2>2, LogRecordsFacts
    <3>2. [op |-> op, val |-> ops + 1] \in Records
      BY <2>2 DEF Records
    <3> QED
      BY <3>1, <3>2, <1>t, AppendIsConcat
  <2>6. Applicable(expected, op)
    BY <2>1, <2>4, <1>j DEF CanApply, Applicable
  <2>7. \E g \in Seq(Images) : HistoryOf(g, vlog', vimage', expected')
    <3>1. HistoryOf(h, vlog, vimage, expected)
      BY <1>h DEF History
    <3> QED
      BY <3>1, <1>t, <2>1, <2>2, <2>3, <2>5, <2>6, LongerHistory
  <2>8. Settled' = expected'
    <3>1. writer'.pc = "store" /\ writer'.op = op /\ writer'.val = ops + 1
      BY <2>1
    <3> QED
      BY <3>1, <2>1, <2>4 DEF Settled
  <2>9. writer'.pc # "reload"
    BY <2>1
  <2> QED
    BY <2>3, <2>7, <2>8, <2>9 DEF WritesInv, ServingFits, ReplayFits, History
<1>2. CASE Metaset \/ VecsetStore \/ NotifyVectorAdded \/ LaunchBackground \/ VecdelStore
             \/ VecdelDefragment \/ NotifyVectorRemoved \/ VecdelRebuild
  BY <1>2, SettledSteps, WritesKept
<1>3. CASE ThreadTrain \/ SealBegin \/ SealAssign \/ SealEnd \/ SearchBegin \/ HnswSearch
             \/ IvfSearchBuffer \/ IvfSearchLists \/ SearchMap \/ SearchEnd
  <2>1. UNCHANGED <<vstore, meta, writer, vlog, vimage, vserver, expected>>
    BY <1>3 DEF ThreadTrain, SealBegin, SealAssign, SealEnd, SearchBegin, HnswSearch, IvfSearchBuffer,
      IvfSearchLists, SearchMap, SearchEnd
  <2>2. Settled' = Settled
    BY <2>1 DEF Settled, NowState
  <2> QED
    BY <2>1, <2>2, WritesKept
<1>4. CASE VSave
  <2>1. /\ vserver.mode = "serving" /\ writer.pc = "idle" /\ vimage' = NowState /\ vlog' = <<>>
        /\ UNCHANGED <<vstore, meta, writer, vserver, expected>>
    BY <1>4 DEF VSave, NowState
  <2>2. NowState = expected /\ Settled' = Settled /\ Settled = NowState
    BY <2>1, <1>i DEF WritesInv, ServingFits, Settled, NowState
  <2>3. \E g \in Seq(Images) : HistoryOf(g, vlog', vimage', expected')
    BY <2>1, <2>2, <1>t, FreshHistory
  <2> QED
    BY <2>1, <2>2, <2>3 DEF WritesInv, ServingFits, ReplayFits, History
<1>5. CASE DumpLoad
  <2>1. /\ vserver.mode = "serving" /\ vstore' = SwapState(vstore, vimage.vals) /\ meta' = vimage.meta
        /\ writer'.pc = "reload" /\ UNCHANGED <<vlog, vimage, vserver, expected>>
    BY <1>5 DEF DumpLoad
  <2>2. vimage.vals \in Partial(Ids, Vals) /\ IsFiniteSet(DOMAIN vimage.vals) /\ vstore.generation \in Nat
    BY <1>t, ImageFacts, StoreFields
  <2>3. VectorContents(vstore') = vimage.vals
    BY <2>1, <2>2, SwapStateFits
  <2>4. Settled' = [vals |-> vimage.vals, meta |-> vimage.meta]
    BY <2>1, <2>3 DEF Settled, NowState
  <2>5. Settled' = vimage
    BY <2>4, <1>t, ImageFacts
  <2>6. History(h)'
    BY <2>1, <1>h DEF History
  <2> QED
    BY <2>1, <2>5, <2>6 DEF WritesInv, ServingFits, ReplayFits
<1>6. CASE DumpLoadEnd
  <2>1. /\ writer.pc = "reload" /\ writer' = NoOp /\ vlog' = <<>> /\ expected' = vimage
        /\ UNCHANGED <<vstore, meta, vimage, vserver>>
    BY <1>6 DEF DumpLoadEnd
  <2>2. vserver.mode = "serving"
    BY <2>1, <1>h, <1>t, ServerFacts DEF ReplayFits, WritesInv
  <2>3. Settled = vimage /\ Settled' = Settled
    BY <2>1, <2>2, WriterForms DEF WritesInv, ServingFits, Settled, NowState
  <2>4. \E g \in Seq(Images) : HistoryOf(g, vlog', vimage', expected')
    BY <2>1, <1>t, FreshHistory
  <2> QED
    BY <2>1, <2>2, <2>3, <2>4, WriterForms DEF WritesInv, ServingFits, ReplayFits, History
<1>7. CASE VCrash
  <2>1. /\ vserver.mode = "serving" /\ meta' = vimage.meta /\ writer' = NoOp
        /\ vstore' = IF vimage.vals = <<>> THEN EmptyVectorStore
                     ELSE SwapState(EmptyVectorStore, vimage.vals)
        /\ vserver' = [mode |-> "replaying", todo |-> vlog] /\ UNCHANGED <<vlog, vimage, expected>>
    BY <1>7 DEF VCrash
  <2>2. VectorContents(vstore') = vimage.vals
    BY <2>1, <1>t, RecoveredStore
  <2>3. Settled' = [vals |-> vimage.vals, meta |-> vimage.meta]
    BY <2>1, <2>2, WriterForms DEF Settled, NowState
  <2>4. Settled' = h[1]
    BY <2>3, <1>t, <1>h, ImageFacts DEF History, HistoryOf
  <2>5. History(h)'
    BY <2>1, <1>h DEF History
  <2>6. Len(vlog) \in Nat /\ (Len(vlog) - Len(vlog)) + 1 = 1
        /\ \A i \in 1..Len(vlog) : (Len(vlog) - Len(vlog)) + i = i
    BY <1>t
  <2>7. vserver'.mode = "replaying" /\ vserver'.todo = vlog
    BY <2>1
  <2>8. ReplayFits(h)'
    BY <2>1, <2>4, <2>6, <2>7, WriterForms DEF ReplayFits
  <2> QED
    BY <2>5, <2>7, <2>8 DEF WritesInv, ServingFits
<1>8. CASE ReplayRecord
  <2> DEFINE todo == vserver.todo
             k == (Len(vlog) - Len(todo)) + 1
             r == Head(todo)
  <2>1. /\ vserver.mode = "replaying" /\ writer.pc = "idle" /\ todo # <<>>
        /\ UNCHANGED <<vstore, meta, vlog, vimage, expected>>
    BY <1>8 DEF ReplayRecord
  <2>2. todo \in Seq(Records) /\ vserver = [mode |-> "replaying", todo |-> todo]
    BY <2>1, <1>t, ServerFacts
  <2>3. /\ Len(todo) <= Len(vlog) /\ NowState = h[k]
        /\ \A i \in 1..Len(todo) : todo[i] = vlog[(Len(vlog) - Len(todo)) + i]
    BY <2>1, <1>h, <1>i DEF ReplayFits
  <2>4. Len(vlog) \in Nat /\ Len(todo) \in Nat /\ Len(todo) > 0 /\ k \in 1..Len(vlog)
    BY <2>1, <2>2, <2>3, <1>t
  <2>5. r = todo[1] /\ r = vlog[k] /\ r \in Records
    BY <2>2, <2>3, <2>4
  <2>6. r.op \in Operations /\ r.val \in Vals
    BY <2>5 DEF Records
  <2>7. Applicable(h[k], r.op) /\ h[k + 1] = Accepted(h[k], r.op, r.val)
    BY <1>h, <2>4, <2>5 DEF History, HistoryOf
  <2>8. CanApply(r.op)
    BY <2>3, <2>7, <1>j DEF CanApply, Applicable
  <2>9. writer' = [pc |-> "store", op |-> r.op, val |-> r.val] /\ vserver' = [vserver EXCEPT !.todo = Tail(@)]
    BY <1>8, <2>8 DEF ReplayRecord, Begin
  <2>10. vserver'.mode = "replaying" /\ vserver'.todo = Tail(todo)
    <3> HIDE DEF todo
    <3> QED
      BY <2>2, <2>9
  <2>11. /\ Len(Tail(todo)) = Len(todo) - 1
         /\ \A i \in 1..(Len(todo) - 1) : Tail(todo)[i] = todo[i + 1]
    BY <2>2, <2>1
  <2>12. Settled' = h[k + 1]
    <3>1. writer'.pc = "store" /\ writer'.op = r.op /\ writer'.val = r.val
      BY <2>9
    <3>2. NowState' = NowState
      BY <2>1 DEF NowState
    <3>3. Settled' = Accepted(NowState, r.op, r.val)
      BY <3>1, <3>2 DEF Settled
    <3> QED
      BY <3>3, <2>3, <2>7
  <2>13. History(h)'
    BY <2>1, <1>h DEF History
  <2>14. ReplayFits(h)'
    <3> HIDE DEF todo
    <3>1. /\ Len(vserver'.todo) = Len(todo) - 1 /\ Len(vserver'.todo) <= Len(vlog)
          /\ (Len(vlog) - Len(vserver'.todo)) + 1 = k + 1
      <4>1. Len(vserver'.todo) = Len(todo) - 1
        BY <2>10, <2>11
      <4> HIDE DEF r
      <4> QED
        BY <4>1, <2>3, <2>4
    <3>2. ASSUME NEW i \in 1..Len(vserver'.todo)
          PROVE  vserver'.todo[i] = vlog[(Len(vlog) - Len(vserver'.todo)) + i]
      <4>1. i \in Nat /\ i \in 1..(Len(todo) - 1) /\ i + 1 \in 1..Len(todo)
        BY <3>1, <3>2, <2>4
      <4>2. (Len(vlog) - Len(todo)) + (i + 1) = (Len(vlog) - Len(vserver'.todo)) + i
        BY <3>1, <4>1, <2>4
      <4>3. vserver'.todo[i] = todo[i + 1]
        BY <4>1, <2>10, <2>11
      <4> QED
        BY <4>1, <4>2, <4>3, <2>3
    <3>3. writer'.pc # "reload"
      BY <2>9
    <3> HIDE DEF k, r
    <3> QED
      BY <3>1, <3>2, <3>3, <2>1, <2>12 DEF ReplayFits
  <2> QED
    BY <2>10, <2>13, <2>14 DEF WritesInv, ServingFits
<1>9. CASE VServe
  <2>1. /\ vserver.mode = "replaying" /\ writer.pc = "idle" /\ vserver.todo = <<>>
        /\ vserver' = [mode |-> "serving"] /\ UNCHANGED <<vstore, meta, writer, vlog, vimage, expected>>
    BY <1>9 DEF VServe
  <2>2. Settled = h[(Len(vlog) - 0) + 1]
    BY <2>1, <1>h DEF ReplayFits
  <2>3. Settled = expected /\ Settled' = Settled
    BY <2>1, <2>2, <1>t, <1>h DEF History, HistoryOf, Settled, NowState
  <2>4. History(h)'
    BY <2>1, <1>h DEF History
  <2>5. vserver'.mode = "serving"
    BY <2>1
  <2> QED
    BY <2>1, <2>3, <2>4, <2>5 DEF WritesInv, ServingFits, ReplayFits
<1> QED
  BY <1>1, <1>2, <1>3, <1>4, <1>5, <1>6, <1>7, <1>8, <1>9 DEF VNext

\* The account at start-up: nothing written, nothing logged.
LEMMA WritesInit ==
  ASSUME VInit, AnswersInv
  PROVE  WritesInv
<1>1. /\ vlog = <<>> /\ vimage \in Images /\ expected = vimage /\ vserver.mode = "serving"
      /\ vstore = EmptyVectorStore /\ meta = {} /\ writer = NoOp /\ expected = [vals |-> <<>>, meta |-> {}]
  BY DEF VInit, AnswersInv, VecTypes, DataTypes
<1>3. \E h \in Seq(Images) : History(h)
  BY <1>1, FreshHistory DEF History
<1>4. Settled = expected /\ writer.pc # "reload"
  BY <1>1, EmptyStoreFits, WriterForms DEF Settled, NowState
<1> QED
  BY <1>1, <1>3, <1>4 DEF WritesInv, ServingFits, ReplayFits

\* The account depends on the variables of the specification alone.
LEMMA WritesStutter ==
  ASSUME WritesInv, UNCHANGED vectorVars
  PROVE  WritesInv'
<1>1. UNCHANGED <<vstore, meta, writer, vlog, vimage, vserver, expected>>
  BY DEF vectorVars
<1>2. Settled' = Settled
  BY <1>1 DEF Settled, NowState
<1> QED
  BY <1>1, <1>2, WritesKept

\* With wal.include_vectors on, the stores hold between two mutations exactly what the
\* accepted ones amount to, through reused and compacted slots, DUMP LOAD, a crash at any
\* step and the replay of the log, which refuses no record.  With it off the property is
\* false: HandleVecset then logs nothing, and a METASET logged after it has no vector.
THEOREM StoresMatchAcceptedWrites ==
  ASSUME IncludeVectors
  PROVE  VSpec => []StoreMatchesWrites
<1> DEFINE Inv == AnswersInv /\ WritesInv
<1>1. VInit => Inv
  BY AnswersInit, WritesInit
<1>2. Inv /\ [VNext]_vectorVars => Inv'
  <2> SUFFICES ASSUME Inv, [VNext]_vectorVars PROVE Inv'
    OBVIOUS
  <2>1. AnswersInv'
    BY AnswersInvNext
  <2>2. WritesInv'
    BY WritesNext, WritesStutter DEF AnswersInv
  <2> QED
    BY <2>1, <2>2
<1>3. Inv => StoreMatchesWrites
  <2> SUFFICES ASSUME Inv PROVE StoreMatchesWrites
    OBVIOUS
  <2>1. vserver.mode # "refused"
    BY DEF WritesInv
  <2>2. ASSUME vserver.mode = "serving", writer.pc = "idle"
        PROVE  VectorContents(vstore) = expected.vals /\ meta = expected.meta
    <3>1. expected = [vals |-> VectorContents(vstore), meta |-> meta]
      BY <2>2 DEF WritesInv, ServingFits, Settled, NowState
    <3> QED
      BY <3>1
  <2> QED
    BY <2>1, <2>2 DEF StoreMatchesWrites
<1> QED
  BY <1>1, <1>2, <1>3, PTL DEF VSpec

-----------------------------------------------------------------------------
(* The two-tier store.                                                      *)

\* Its rows, its locations and its fields.
TierRows == [id : TierIds, val : Nat]
TierLocs == [tier : {"main", "delta"}, at : Nat]
TierShape == [main : Seq(TierRows), deleted : SUBSET Nat, index : SUBSET SUBSET Nat,
              delta : Seq(TierRows), loc : Partial(TierIds, TierLocs)]

MainLive(t) == DOMAIN t.main \ t.deleted

\* id_location_ and the rows that are not tombstones are inverse to each other.
LocationsFit(t) ==
  /\ t \in TierShape /\ t.deleted \subseteq DOMAIN t.main
  /\ \A id \in DOMAIN t.loc :
       \/ t.loc[id].tier = "main" /\ t.loc[id].at \in MainLive(t) /\ t.main[t.loc[id].at].id = id
       \/ t.loc[id].tier = "delta" /\ t.loc[id].at \in DOMAIN t.delta /\ t.delta[t.loc[id].at].id = id
  /\ \A i \in MainLive(t) :
       t.main[i].id \in DOMAIN t.loc /\ t.loc[t.main[i].id].tier = "main" /\ t.loc[t.main[i].id].at = i
  /\ \A i \in DOMAIN t.delta :
       t.delta[i].id \in DOMAIN t.loc /\ t.loc[t.delta[i].id].tier = "delta"
       /\ t.loc[t.delta[i].id].at = i

\* An index, if there is one, reaches every live row of the main tier.
IndexReaches(t) ==
  \A labels \in t.index : labels \subseteq DOMAIN t.main /\ MainLive(t) \subseteq labels

TiersFit(t) == LocationsFit(t) /\ IndexReaches(t)

\* The row of an id, and what the store maps the ids to.
TierRow(t, id) == IF t.loc[id].tier = "main" THEN t.main[t.loc[id].at] ELSE t.delta[t.loc[id].at]
TierContents(t) == [id \in DOMAIN t.loc |-> TierRow(t, id).val]

TierInv == tierOps \in Nat /\ TiersFit(tiers) /\ tierTruth = TierContents(tiers)

\* A store by its fields.
LEMMA TierFields ==
  ASSUME NEW t, LocationsFit(t)
  PROVE  /\ t \in TierShape /\ t.main \in Seq(TierRows) /\ t.delta \in Seq(TierRows)
         /\ t.deleted \in SUBSET Nat /\ t.index \in SUBSET SUBSET Nat
         /\ t.loc \in Partial(TierIds, TierLocs)
         /\ DOMAIN t.main = 1..Len(t.main) /\ Len(t.main) \in Nat
         /\ DOMAIN t.delta = 1..Len(t.delta) /\ Len(t.delta) \in Nat
         /\ \A i \in DOMAIN t.main : t.main[i] \in TierRows
         /\ \A i \in DOMAIN t.delta : t.delta[i] \in TierRows
         /\ t.loc = [x \in DOMAIN t.loc |-> t.loc[x]] /\ DOMAIN t.loc \subseteq TierIds
         /\ \A x \in DOMAIN t.loc : t.loc[x] \in TierLocs
<1>1. t \in TierShape
  BY DEF LocationsFit
<1>2. /\ t.main \in Seq(TierRows) /\ t.delta \in Seq(TierRows) /\ t.deleted \in SUBSET Nat
      /\ t.index \in SUBSET SUBSET Nat /\ t.loc \in Partial(TierIds, TierLocs)
  BY <1>1 DEF TierShape
<1>3. /\ t.loc = [x \in DOMAIN t.loc |-> t.loc[x]] /\ DOMAIN t.loc \subseteq TierIds
      /\ \A x \in DOMAIN t.loc : t.loc[x] \in TierLocs
  BY <1>2, PartialFunction
<1>4. /\ DOMAIN t.main = 1..Len(t.main) /\ Len(t.main) \in Nat
      /\ DOMAIN t.delta = 1..Len(t.delta) /\ Len(t.delta) \in Nat
  BY <1>2
<1>5. \A i \in DOMAIN t.main : t.main[i] \in TierRows
  BY <1>2, <1>4
<1>6. \A i \in DOMAIN t.delta : t.delta[i] \in TierRows
  BY <1>2, <1>4
<1> QED
  BY <1>1, <1>2, <1>3, <1>4, <1>5, <1>6

\* RebuildMainIndex gives an index that reaches the live rows, or none.
LEMMA RebuildMainIndexFits ==
  ASSUME NEW t, LocationsFit(t), NEW n, n = RebuildMainIndex(t)
  PROVE  TiersFit(n) /\ n.loc = t.loc /\ TierContents(n) = TierContents(t)
<1> DEFINE live == DOMAIN t.main \ t.deleted
           index == IF live = {} THEN {} ELSE {live}
<1>1. t \in TierShape /\ DOMAIN t.main = 1..Len(t.main) /\ Len(t.main) \in Nat
  BY TierFields
<1>2. index \in SUBSET SUBSET Nat
  BY <1>1
<1>i. \A labels \in index : labels = live
  OBVIOUS
<1>l. live = DOMAIN t.main \ t.deleted
  OBVIOUS
<1>3. n = [t EXCEPT !.index = index]
  BY DEF RebuildMainIndex
<1> HIDE DEF index, live
<1>4. /\ n \in TierShape /\ n.main = t.main /\ n.deleted = t.deleted /\ n.delta = t.delta
      /\ n.loc = t.loc /\ n.index = index
  BY <1>1, <1>2, <1>3 DEF TierShape
<1>5. LocationsFit(n)
  BY <1>4 DEF LocationsFit, MainLive
<1>6. IndexReaches(n)
  BY <1>4, <1>i, <1>l DEF IndexReaches, MainLive
<1>7. TierContents(n) = TierContents(t)
  BY <1>4 DEF TierContents, TierRow
<1> QED
  BY <1>4, <1>5, <1>6, <1>7 DEF TiersFit

\* RemoveFromDelta by its fields, and Forget after it: the last row fills the hole.
DeltaRowGone(t, id, at, n) ==
  /\ n \in TierShape /\ n.main = t.main /\ n.deleted = t.deleted /\ n.index = t.index
  /\ Len(n.delta) = Len(t.delta) - 1
  /\ \A i \in 1..(Len(t.delta) - 1) :
       n.delta[i] = IF i = at THEN t.delta[Len(t.delta)] ELSE t.delta[i]
  /\ DOMAIN n.loc = DOMAIN t.loc \ {id}
  /\ \A k \in DOMAIN n.loc :
       k = t.delta[Len(t.delta)].id => n.loc[k].tier = "delta" /\ n.loc[k].at = at
  /\ \A k \in DOMAIN n.loc : k # t.delta[Len(t.delta)].id => n.loc[k] = t.loc[k]

LEMMA RemoveFromDeltaFields ==
  ASSUME NEW t, LocationsFit(t), NEW id \in DOMAIN t.loc, t.loc[id].tier = "delta",
         NEW at, at = t.loc[id].at, NEW n, n = Forget(RemoveFromDelta(t, at), id)
  PROVE  DeltaRowGone(t, id, at, n)
<1> SUFFICES
         /\ n \in TierShape /\ n.main = t.main /\ n.deleted = t.deleted /\ n.index = t.index
         /\ Len(n.delta) = Len(t.delta) - 1
         /\ \A i \in 1..(Len(t.delta) - 1) :
              n.delta[i] = IF i = at THEN t.delta[Len(t.delta)] ELSE t.delta[i]
         /\ DOMAIN n.loc = DOMAIN t.loc \ {id}
         /\ \A k \in DOMAIN n.loc :
              k = t.delta[Len(t.delta)].id => n.loc[k].tier = "delta" /\ n.loc[k].at = at
         /\ \A k \in DOMAIN n.loc : k # t.delta[Len(t.delta)].id => n.loc[k] = t.loc[k]
  BY DEF DeltaRowGone
<1> DEFINE L == Len(t.delta)
           last == t.delta[L]
           here == [tier |-> "delta", at |-> at]
           put == [t.delta EXCEPT ![at] = last]
           kept == Front(put)
           r == RemoveFromDelta(t, at)
           loc == [k \in DOMAIN r.loc \ {id} |-> r.loc[k]]
<1>1. /\ t \in TierShape /\ t.delta \in Seq(TierRows) /\ DOMAIN t.delta = 1..L /\ L \in Nat
      /\ (\A i \in DOMAIN t.delta : t.delta[i] \in TierRows) /\ t.loc \in Partial(TierIds, TierLocs)
      /\ t.loc = [x \in DOMAIN t.loc |-> t.loc[x]] /\ DOMAIN t.loc \subseteq TierIds
      /\ \A x \in DOMAIN t.loc : t.loc[x] \in TierLocs
  BY TierFields
<1>2. /\ at \in 1..L /\ t.delta[at].id = id
      /\ \A i \in 1..L :
           t.delta[i].id \in DOMAIN t.loc /\ t.loc[t.delta[i].id].tier = "delta"
           /\ t.loc[t.delta[i].id].at = i
  BY <1>1 DEF LocationsFit
<1>3. L \in 1..L /\ last \in TierRows
  BY <1>1, <1>2
<1>4. put \in Seq(TierRows) /\ Len(put) = L
      /\ \A i \in 1..L : put[i] = IF i = at THEN last ELSE t.delta[i]
  BY <1>1, <1>2, <1>3
<1> HIDE DEF put
<1>5. /\ kept \in Seq(TierRows) /\ Len(kept) = L - 1
      /\ \A i \in 1..(L - 1) : kept[i] = IF i = at THEN last ELSE t.delta[i]
  <2>1. kept = SubSeq(put, 1, L - 1)
    BY <1>4 DEF Front
  <2>2. 1 \in 1..(L + 1) /\ L - 1 \in 0..L
    BY <1>1, <1>3
  <2>3. kept \in Seq(TierRows) /\ Len(kept) = L - 1 /\ \A i \in 1..(L - 1) : kept[i] = put[i]
    BY <2>1, <2>2, <1>1, <1>4, SubSeqProperties
  <2> QED
    BY <2>3, <1>1, <1>4
<1>6. here \in TierLocs
  BY <1>1, <1>2 DEF TierLocs
<1>k. Last(t.delta) = last
  BY DEF Last
\* Both branches of RemoveFromDelta.
<1>7. /\ r \in TierShape /\ r.main = t.main /\ r.deleted = t.deleted /\ r.index = t.index
      /\ r.delta = kept
      /\ DOMAIN r.loc = DOMAIN t.loc
      /\ \A k \in DOMAIN t.loc \ {id} : r.loc[k] = IF k = last.id THEN here ELSE t.loc[k]
      /\ \A k \in DOMAIN r.loc : r.loc[k] \in TierLocs
  <2>1. CASE at = L
    <3>1. r = [t EXCEPT !.delta = kept]
      BY <2>1, <1>k DEF RemoveFromDelta, put
    <3>2. last.id = id
      BY <2>1, <1>2
    <3> HIDE DEF kept, last, r
    <3>3. /\ r \in TierShape /\ r.main = t.main /\ r.deleted = t.deleted /\ r.index = t.index
          /\ r.delta = kept
          /\ r.loc = t.loc
      BY <3>1, <1>1, <1>5 DEF TierShape
    <3> QED
      BY <3>2, <3>3, <1>1
  <2>2. CASE at # L
    <3>1. r = [t EXCEPT !.delta = kept, !.loc[last.id] = here]
      BY <2>2, <1>k DEF RemoveFromDelta, put
    <3> DEFINE new == [t.loc EXCEPT ![last.id] = here]
    <3>2. last.id \in DOMAIN t.loc
      BY <1>2, <1>3
    <3>3. /\ new = [x \in DOMAIN new |-> new[x]] /\ DOMAIN new = DOMAIN t.loc
          /\ \A k \in DOMAIN t.loc : new[k] = IF k = last.id THEN here ELSE t.loc[k]
      BY <3>2, <1>1
    <3>4. new \in Partial(TierIds, TierLocs)
      <4>1. \A k \in DOMAIN new : new[k] \in TierLocs
        BY <3>3, <1>1, <1>6
      <4> HIDE DEF new
      <4> QED
        BY <4>1, <3>3, <1>1, PartialFunction
    <3>5. r = [t EXCEPT !.delta = kept, !.loc = new]
      BY <3>1
    <3> HIDE DEF kept, last, here, r, new
    <3>6. /\ r \in TierShape /\ r.main = t.main /\ r.deleted = t.deleted /\ r.index = t.index
          /\ r.delta = kept
          /\ r.loc = new
      BY <3>5, <3>4, <1>1, <1>5 DEF TierShape
    <3> QED
      BY <3>3, <3>6, <1>1, <1>6
  <2> QED
    BY <2>1, <2>2
<1> HIDE DEF r, kept, last, here
<1>8. DOMAIN loc = DOMAIN t.loc \ {id} /\ \A k \in DOMAIN loc : loc[k] = r.loc[k]
  BY <1>7
<1>9. loc \in Partial(TierIds, TierLocs)
  <2>1. \A k \in DOMAIN loc : loc[k] \in TierLocs
    BY <1>7, <1>8
  <2>2. loc = [x \in DOMAIN loc |-> loc[x]]
    OBVIOUS
  <2> HIDE DEF loc
  <2> QED
    BY <2>1, <2>2, <1>8, <1>1, PartialFunction
<1>10. n = [r EXCEPT !.loc = loc]
  BY DEF Forget, r
<1> HIDE DEF loc
<1>11. /\ n \in TierShape /\ n.main = r.main /\ n.deleted = r.deleted /\ n.index = r.index
       /\ n.delta = r.delta /\ n.loc = loc
  BY <1>10, <1>7, <1>9 DEF TierShape
<1>12. \A k \in DOMAIN n.loc : n.loc[k] = IF k = last.id THEN here ELSE t.loc[k]
  BY <1>7, <1>8, <1>11
<1>13. here.tier = "delta" /\ here.at = at
  BY DEF here
<1> QED
  BY <1>5, <1>7, <1>8, <1>11, <1>12, <1>13 DEF last

\* The same for a row of the main tier, which becomes a tombstone.
LEMMA VacateMainFields ==
  ASSUME NEW t, LocationsFit(t), NEW id \in DOMAIN t.loc, t.loc[id].tier = "main",
         NEW at, at = t.loc[id].at, NEW mark \in BOOLEAN, NEW n, n = Forget(Vacate(t, id, mark), id)
  PROVE  /\ n \in TierShape /\ n.main = t.main /\ n.deleted = t.deleted \union {at} /\ n.delta = t.delta
         /\ n.index = t.index \/ n.index = {labels \ {at} : labels \in t.index}
         /\ DOMAIN n.loc = DOMAIN t.loc \ {id} /\ \A k \in DOMAIN n.loc : n.loc[k] = t.loc[k]
<1> DEFINE deleted == t.deleted \union {at}
           index == IF mark THEN {labels \ {at} : labels \in t.index} ELSE t.index
           r == Vacate(t, id, mark)
           loc == [k \in DOMAIN t.loc \ {id} |-> t.loc[k]]
<1>1. /\ t \in TierShape /\ t.deleted \in SUBSET Nat /\ t.index \in SUBSET SUBSET Nat
      /\ t.loc = [x \in DOMAIN t.loc |-> t.loc[x]] /\ DOMAIN t.loc \subseteq TierIds
      /\ \A x \in DOMAIN t.loc : t.loc[x] \in TierLocs
  BY TierFields
<1>2. at \in Nat
  BY <1>1 DEF TierLocs
<1>3. deleted \in SUBSET Nat /\ index \in SUBSET SUBSET Nat
  BY <1>1, <1>2
<1>4. r = [t EXCEPT !.deleted = deleted, !.index = index]
  BY DEF Vacate
<1>5. index = t.index \/ index = {labels \ {at} : labels \in t.index}
  OBVIOUS
<1>d. deleted = t.deleted \union {at}
  OBVIOUS
<1> HIDE DEF deleted, index, r
<1>6. /\ r \in TierShape /\ r.main = t.main /\ r.deleted = deleted /\ r.index = index
      /\ r.delta = t.delta /\ r.loc = t.loc
  BY <1>1, <1>3, <1>4 DEF TierShape
<1>7. loc \in Partial(TierIds, TierLocs)
  <2>1. loc = [x \in DOMAIN loc |-> loc[x]] /\ DOMAIN loc \subseteq TierIds
        /\ \A k \in DOMAIN loc : loc[k] \in TierLocs
    BY <1>1
  <2> HIDE DEF loc
  <2> QED
    BY <2>1, PartialFunction
<1>8. n = [r EXCEPT !.loc = loc]
  BY <1>6 DEF Forget, r
<1>9. DOMAIN loc = DOMAIN t.loc \ {id} /\ \A k \in DOMAIN loc : loc[k] = t.loc[k]
  OBVIOUS
<1> HIDE DEF loc
<1>10. /\ n \in TierShape /\ n.main = r.main /\ n.deleted = r.deleted /\ n.index = r.index
       /\ n.delta = r.delta /\ n.loc = loc
  BY <1>6, <1>7, <1>8 DEF TierShape
<1> QED
  BY <1>5, <1>d, <1>6, <1>9, <1>10

\* Dropping an id keeps the store in order and every other id's embedding.
LEMMA DropFits ==
  ASSUME NEW t, TiersFit(t), NEW id \in DOMAIN t.loc, NEW mark \in BOOLEAN,
         NEW n, n = Forget(Vacate(t, id, mark), id)
  PROVE  /\ TiersFit(n) /\ DOMAIN n.loc = DOMAIN t.loc \ {id}
         /\ \A k \in DOMAIN n.loc : TierRow(n, k) = TierRow(t, k)
<1> DEFINE at == t.loc[id].at
<1>0. LocationsFit(t) /\ IndexReaches(t)
  BY DEF TiersFit
<1>1. /\ DOMAIN t.main = 1..Len(t.main) /\ Len(t.main) \in Nat
      /\ DOMAIN t.delta = 1..Len(t.delta) /\ Len(t.delta) \in Nat
      /\ \A x \in DOMAIN t.loc : t.loc[x] \in TierLocs
  BY <1>0, TierFields
<1>2. CASE t.loc[id].tier = "main"
  <2>1. /\ n \in TierShape /\ n.main = t.main /\ n.deleted = t.deleted \union {at} /\ n.delta = t.delta
        /\ n.index = t.index \/ n.index = {labels \ {at} : labels \in t.index}
        /\ DOMAIN n.loc = DOMAIN t.loc \ {id} /\ \A k \in DOMAIN n.loc : n.loc[k] = t.loc[k]
    BY <1>0, <1>2, VacateMainFields
  <2>2. at \in MainLive(t) /\ t.main[at].id = id
    BY <1>0, <1>2 DEF LocationsFit
  <2> HIDE DEF at
  <2>3. MainLive(n) = MainLive(t) \ {at}
    BY <2>1 DEF MainLive
  <2>4. n.deleted \subseteq DOMAIN n.main
    BY <2>1, <2>2, <1>0 DEF LocationsFit, MainLive
  <2>5. \A k \in DOMAIN n.loc :
          \/ n.loc[k].tier = "main" /\ n.loc[k].at \in MainLive(n) /\ n.main[n.loc[k].at].id = k
          \/ n.loc[k].tier = "delta" /\ n.loc[k].at \in DOMAIN n.delta /\ n.delta[n.loc[k].at].id = k
    BY <2>1, <2>2, <2>3, <1>0 DEF LocationsFit
  <2>6. \A i \in MainLive(n) :
          n.main[i].id \in DOMAIN n.loc /\ n.loc[n.main[i].id].tier = "main"
          /\ n.loc[n.main[i].id].at = i
    <3> TAKE i \in MainLive(n)
    <3>1. i \in MainLive(t) /\ i # at
      BY <2>3
    <3>2. t.main[i].id \in DOMAIN t.loc /\ t.loc[t.main[i].id].tier = "main"
          /\ t.loc[t.main[i].id].at = i
      BY <3>1, <1>0 DEF LocationsFit
    <3>3. t.main[i].id # id
      BY <3>1, <3>2 DEF at
    <3> QED
      BY <3>2, <3>3, <2>1
  <2>7. \A i \in DOMAIN n.delta :
          n.delta[i].id \in DOMAIN n.loc /\ n.loc[n.delta[i].id].tier = "delta"
          /\ n.loc[n.delta[i].id].at = i
    <3> TAKE i \in DOMAIN n.delta
    <3>1. t.delta[i].id \in DOMAIN t.loc /\ t.loc[t.delta[i].id].tier = "delta"
          /\ t.loc[t.delta[i].id].at = i
      BY <2>1, <1>0 DEF LocationsFit
    <3>2. t.delta[i].id # id
      BY <3>1, <1>2
    <3> QED
      BY <3>1, <3>2, <2>1
  <2>8. IndexReaches(n)
    BY <2>1, <2>3, <2>4, <1>0 DEF IndexReaches
  <2>9. \A k \in DOMAIN n.loc : TierRow(n, k) = TierRow(t, k)
    BY <2>1 DEF TierRow
  <2> QED
    BY <2>1, <2>4, <2>5, <2>6, <2>7, <2>8, <2>9 DEF TiersFit, LocationsFit
<1>3. CASE t.loc[id].tier = "delta"
  <2> DEFINE L == Len(t.delta)
             last == t.delta[L]
  <2>0. n = Forget(RemoveFromDelta(t, at), id)
    BY <1>3 DEF Vacate
  <2>1. /\ n \in TierShape /\ n.main = t.main /\ n.deleted = t.deleted /\ n.index = t.index
        /\ Len(n.delta) = L - 1
        /\ \A i \in 1..(L - 1) : n.delta[i] = IF i = at THEN last ELSE t.delta[i]
        /\ DOMAIN n.loc = DOMAIN t.loc \ {id}
        /\ \A k \in DOMAIN n.loc : k = last.id => n.loc[k].tier = "delta" /\ n.loc[k].at = at
        /\ \A k \in DOMAIN n.loc : k # last.id => n.loc[k] = t.loc[k]
    <3>1. at = t.loc[id].at
      OBVIOUS
    <3>2. DeltaRowGone(t, id, at, n)
      <4> HIDE DEF at
      <4> QED
        BY <1>0, <1>3, <2>0, <3>1, RemoveFromDeltaFields
    <3> QED
      BY <3>2 DEF DeltaRowGone
  <2>2. at \in 1..L /\ t.delta[at].id = id /\ L \in 1..L /\ last.id \in DOMAIN t.loc
        /\ t.loc[last.id].tier = "delta" /\ t.loc[last.id].at = L
    BY <1>0, <1>1, <1>3 DEF LocationsFit
  <2>d. DOMAIN n.delta = 1..(L - 1)
    BY <2>1, <1>1 DEF TierShape
  <2>i. \A i \in 1..L :
          t.delta[i].id \in DOMAIN t.loc /\ t.loc[t.delta[i].id].tier = "delta"
          /\ t.loc[t.delta[i].id].at = i
    BY <1>0, <1>1 DEF LocationsFit
  <2>a. t.loc[id].tier = "delta" /\ t.loc[id].at = at
    BY <2>2, <2>i
  <2> HIDE DEF at, last
  <2>u. \A i \in 1..L : t.delta[i].id = id => i = at
    BY <2>i, <2>a
  <2>v. \A i \in 1..L : t.delta[i].id = last.id => i = L
    BY <2>i, <2>2
  <2>l. last = t.delta[L]
    BY DEF last
  <2>3. MainLive(n) = MainLive(t)
    BY <2>1 DEF MainLive
  <2>4. n.deleted \subseteq DOMAIN n.main
    BY <2>1, <1>0 DEF LocationsFit
  \* Where an id that stays is found.
  <2>5. ASSUME NEW k \in DOMAIN n.loc
        PROVE  /\ \/ n.loc[k].tier = "main" /\ n.loc[k].at \in MainLive(n) /\ n.main[n.loc[k].at].id = k
                  \/ n.loc[k].tier = "delta" /\ n.loc[k].at \in DOMAIN n.delta
                     /\ n.delta[n.loc[k].at].id = k
               /\ TierRow(n, k) = TierRow(t, k)
    <3>1. k \in DOMAIN t.loc /\ k # id
      BY <2>1, <2>5
    <3>2. CASE k = last.id
      <4>1. at # L
        BY <3>1, <3>2, <2>2, <2>l
      <4>2. at \in 1..(L - 1)
        BY <4>1, <2>2, <1>1
      <4>3. n.loc[k].tier = "delta" /\ n.loc[k].at = at /\ n.delta[at] = last
        BY <4>2, <3>2, <2>1, <2>5
      <4>4. TierRow(n, k) = last /\ TierRow(t, k) = last
        BY <4>3, <3>2, <2>2, <2>l DEF TierRow
      <4> QED
        BY <4>2, <4>3, <4>4, <3>2, <2>d
    <3>3. CASE k # last.id
      <4>1. n.loc[k] = t.loc[k]
        BY <3>3, <2>1, <2>5
      <4>2. CASE t.loc[k].tier = "main" /\ t.loc[k].at \in MainLive(t) /\ t.main[t.loc[k].at].id = k
        BY <4>1, <4>2, <2>1, <2>3 DEF TierRow
      <4>3. CASE t.loc[k].tier = "delta" /\ t.loc[k].at \in DOMAIN t.delta
                 /\ t.delta[t.loc[k].at].id = k
        <5> DEFINE j == t.loc[k].at
        <5>1. j \in 1..L /\ t.delta[j].id = k
          BY <4>3, <1>1
        <5>2. j # at /\ j # L
          BY <5>1, <3>1, <3>3, <2>2, <2>l
        <5> HIDE DEF j
        <5>3. j \in 1..(L - 1)
          BY <5>1, <5>2, <1>1
        <5>4. n.delta[j] = t.delta[j]
          BY <5>2, <5>3, <2>1
        <5> QED
          BY <4>1, <4>3, <5>1, <5>3, <5>4, <2>d DEF TierRow, j
      <4> QED
        BY <4>2, <4>3, <3>1, <1>0 DEF LocationsFit
    <3> QED
      BY <3>2, <3>3
  <2>6. \A i \in MainLive(n) :
          n.main[i].id \in DOMAIN n.loc /\ n.loc[n.main[i].id].tier = "main"
          /\ n.loc[n.main[i].id].at = i
    <3> TAKE i \in MainLive(n)
    <3>1. t.main[i].id \in DOMAIN t.loc /\ t.loc[t.main[i].id].tier = "main"
          /\ t.loc[t.main[i].id].at = i
      BY <2>3, <1>0 DEF LocationsFit
    <3>2. t.main[i].id # id /\ t.main[i].id # last.id
      BY <3>1, <2>a, <2>2
    <3> QED
      BY <3>1, <3>2, <2>1
  <2>7. \A i \in DOMAIN n.delta :
          n.delta[i].id \in DOMAIN n.loc /\ n.loc[n.delta[i].id].tier = "delta"
          /\ n.loc[n.delta[i].id].at = i
    <3> TAKE i \in DOMAIN n.delta
    <3>0. i \in 1..(L - 1) /\ i \in 1..L /\ i # L
      BY <2>d, <1>1
    <3>1. CASE i = at
      <4>1. n.delta[i] = last /\ last.id # id
        BY <3>0, <3>1, <2>1, <2>2, <2>u, <2>l
      <4> QED
        BY <4>1, <3>1, <2>1, <2>2
    <3>2. CASE i # at
      <4>1. n.delta[i] = t.delta[i]
        BY <3>0, <3>2, <2>1
      <4>2. t.delta[i].id # id /\ t.delta[i].id # last.id
        BY <3>0, <3>2, <2>u, <2>v
      <4> QED
        BY <4>1, <4>2, <3>0, <2>1, <2>i
    <3> QED
      BY <3>1, <3>2
  <2>8. IndexReaches(n)
    BY <2>1, <2>3, <1>0 DEF IndexReaches
  <2>9. \A k \in DOMAIN n.loc :
          \/ n.loc[k].tier = "main" /\ n.loc[k].at \in MainLive(n) /\ n.main[n.loc[k].at].id = k
          \/ n.loc[k].tier = "delta" /\ n.loc[k].at \in DOMAIN n.delta /\ n.delta[n.loc[k].at].id = k
    BY <2>5
  <2>10. LocationsFit(n)
    BY <2>1, <2>4, <2>6, <2>7, <2>9 DEF LocationsFit
  <2>11. \A k \in DOMAIN n.loc : TierRow(n, k) = TierRow(t, k)
    BY <2>5
  <2> QED
    BY <2>1, <2>8, <2>10, <2>11 DEF TiersFit
<1>4. t.loc[id].tier \in {"main", "delta"}
  BY <1>1 DEF TierLocs
<1> QED
  BY <1>2, <1>3, <1>4

\* The function TierContents, point by point.
LEMMA ContentsPoints ==
  ASSUME NEW t
  PROVE  /\ DOMAIN TierContents(t) = DOMAIN t.loc
         /\ \A id \in DOMAIN t.loc : TierContents(t)[id] = TierRow(t, id).val
BY DEF TierContents

\* Delete drops an id.
LEMMA DeleteFits ==
  ASSUME NEW t, TiersFit(t), NEW id \in DOMAIN t.loc, NEW n, n = Delete(t, id)
  PROVE  TiersFit(n) /\ TierContents(n) = [k \in DOMAIN TierContents(t) \ {id} |-> TierContents(t)[k]]
<1>d. \E mark \in BOOLEAN : n = Forget(Vacate(t, id, mark), id)
  <2> WITNESS TRUE \in BOOLEAN
  <2> QED
    BY DEF Delete
<1>1. PICK mark \in BOOLEAN : n = Forget(Vacate(t, id, mark), id)
  BY <1>d
<1>2. /\ TiersFit(n) /\ DOMAIN n.loc = DOMAIN t.loc \ {id}
      /\ \A k \in DOMAIN n.loc : TierRow(n, k) = TierRow(t, k)
  BY <1>1, DropFits
<1>3. DOMAIN TierContents(t) = DOMAIN t.loc
      /\ \A k \in DOMAIN t.loc : TierContents(t)[k] = TierRow(t, k).val
  BY ContentsPoints
<1>4. TierContents(n) = [k \in DOMAIN t.loc \ {id} |-> TierContents(t)[k]]
  BY <1>2, <1>3 DEF TierContents
<1> QED
  BY <1>2, <1>3, <1>4

\* Add puts an id at the end of the delta tier, whatever place it had.
LEMMA AddFits ==
  ASSUME NEW t, TiersFit(t), NEW id \in TierIds, NEW val \in Nat, NEW n, n = Add(t, id, val)
  PROVE  TiersFit(n) /\ TierContents(n) = Assign(TierContents(t), id, val)
<1> DEFINE room == IF Located(t, id) THEN Forget(Vacate(t, id, FALSE), id) ELSE t
           row == [id |-> id, val |-> val]
           L == Len(room.delta)
           delta == Append(room.delta, row)
           here == [tier |-> "delta", at |-> L + 1]
           loc == Assign(room.loc, id, here)
<1>1. /\ TiersFit(room) /\ DOMAIN room.loc = DOMAIN t.loc \ {id}
      /\ \A k \in DOMAIN room.loc : TierRow(room, k) = TierRow(t, k)
  <2>1. CASE Located(t, id)
    <3>0. id \in DOMAIN t.loc
      BY <2>1 DEF Located
    <3>1. room = Forget(Vacate(t, id, FALSE), id)
      BY <2>1
    <3>2. \E mark \in BOOLEAN : room = Forget(Vacate(t, id, mark), id)
      <4> WITNESS FALSE \in BOOLEAN
      <4> QED
        BY <3>1
    <3>3. PICK mark \in BOOLEAN : room = Forget(Vacate(t, id, mark), id)
      BY <3>2
    <3> HIDE DEF room
    <3> QED
      BY <3>0, <3>3, DropFits
  <2>2. CASE ~Located(t, id)
    BY <2>2 DEF Located
  <2> QED
    BY <2>1, <2>2
<1>2. n = [room EXCEPT !.delta = delta, !.loc = loc]
  BY DEF Add
<1> HIDE DEF room
<1>3. LocationsFit(room) /\ IndexReaches(room)
  BY <1>1 DEF TiersFit
<1>4. /\ room \in TierShape /\ room.delta \in Seq(TierRows) /\ DOMAIN room.delta = 1..L /\ L \in Nat
      /\ room.loc = [x \in DOMAIN room.loc |-> room.loc[x]] /\ DOMAIN room.loc \subseteq TierIds
      /\ \A x \in DOMAIN room.loc : room.loc[x] \in TierLocs
  BY <1>3, TierFields
<1>5. row \in TierRows /\ row.id = id /\ row.val = val /\ here \in TierLocs
  BY <1>4 DEF TierRows, TierLocs
<1>6. here.tier = "delta" /\ here.at = L + 1
  OBVIOUS
<1> HIDE DEF row, here
<1>7. /\ delta \in Seq(TierRows) /\ DOMAIN delta = 1..(L + 1) /\ delta[L + 1] = row
      /\ \A i \in 1..L : delta[i] = room.delta[i]
  BY <1>4, <1>5
<1>8. /\ DOMAIN loc = DOMAIN room.loc \union {id} /\ loc[id] = here
      /\ loc = [x \in DOMAIN loc |-> loc[x]]
      /\ \A k \in DOMAIN room.loc : loc[k] = room.loc[k]
  BY <1>1 DEF Assign
<1> HIDE DEF delta, loc, L
<1>9. loc \in Partial(TierIds, TierLocs)
  <2>1. \A k \in DOMAIN loc : loc[k] \in TierLocs
    BY <1>4, <1>5, <1>8
  <2> QED
    BY <2>1, <1>4, <1>8, PartialFunction
<1>10. /\ n \in TierShape /\ n.main = room.main /\ n.deleted = room.deleted /\ n.index = room.index
       /\ n.delta = delta /\ n.loc = loc
  BY <1>2, <1>4, <1>7, <1>9 DEF TierShape
<1>11. MainLive(n) = MainLive(room)
  BY <1>10 DEF MainLive
<1>r. \A k \in DOMAIN room.loc :
        \/ room.loc[k].tier = "main" /\ room.loc[k].at \in MainLive(room)
           /\ room.main[room.loc[k].at].id = k
        \/ room.loc[k].tier = "delta" /\ room.loc[k].at \in 1..L /\ room.delta[room.loc[k].at].id = k
  BY <1>3, <1>4 DEF LocationsFit
<1>n. L + 1 \in 1..(L + 1) /\ \A i \in 1..L : i \in 1..(L + 1)
  BY <1>4 DEF L
<1>12. \A k \in DOMAIN n.loc :
         \/ n.loc[k].tier = "main" /\ n.loc[k].at \in MainLive(n) /\ n.main[n.loc[k].at].id = k
         \/ n.loc[k].tier = "delta" /\ n.loc[k].at \in DOMAIN n.delta /\ n.delta[n.loc[k].at].id = k
  <2> TAKE k \in DOMAIN n.loc
  <2>1. CASE k = id
    BY <2>1, <1>5, <1>6, <1>7, <1>8, <1>10, <1>n
  <2>2. CASE k # id
    <3>1. k \in DOMAIN room.loc /\ n.loc[k] = room.loc[k]
      BY <2>2, <1>8, <1>10
    <3> QED
      BY <3>1, <1>r, <1>7, <1>10, <1>11, <1>n
  <2> QED
    BY <2>1, <2>2
<1>13. \A i \in MainLive(n) :
         n.main[i].id \in DOMAIN n.loc /\ n.loc[n.main[i].id].tier = "main"
         /\ n.loc[n.main[i].id].at = i
  BY <1>3, <1>8, <1>10, <1>11 DEF LocationsFit
<1>14. \A i \in DOMAIN n.delta :
         n.delta[i].id \in DOMAIN n.loc /\ n.loc[n.delta[i].id].tier = "delta"
         /\ n.loc[n.delta[i].id].at = i
  <2> TAKE i \in DOMAIN n.delta
  <2>1. CASE i = L + 1
    BY <2>1, <1>5, <1>6, <1>7, <1>8, <1>10
  <2>2. CASE i \in 1..L
    <3>1. room.delta[i].id \in DOMAIN room.loc /\ room.loc[room.delta[i].id].tier = "delta"
          /\ room.loc[room.delta[i].id].at = i
      BY <2>2, <1>3, <1>4 DEF LocationsFit
    <3> QED
      BY <2>2, <3>1, <1>7, <1>8, <1>10
  <2>3. i = L + 1 \/ i \in 1..L
    <3>1. i \in 1..(L + 1) /\ L \in Nat
      BY <1>4, <1>7, <1>10 DEF L
    <3> QED
      BY <3>1
  <2> QED
    BY <2>1, <2>2, <2>3
<1>15. n.deleted \subseteq DOMAIN n.main /\ IndexReaches(n)
  BY <1>3, <1>10, <1>11 DEF LocationsFit, IndexReaches
<1>16. TierRow(n, id) = row /\ \A k \in DOMAIN room.loc : TierRow(n, k) = TierRow(room, k)
  BY <1>6, <1>r, <1>7, <1>8, <1>10 DEF TierRow
<1>17. TierContents(n) = Assign(TierContents(t), id, val)
  <2>1. DOMAIN TierContents(t) = DOMAIN t.loc
        /\ \A k \in DOMAIN t.loc : TierContents(t)[k] = TierRow(t, k).val
    BY ContentsPoints
  <2>2. DOMAIN n.loc = DOMAIN t.loc \union {id}
    BY <1>1, <1>8, <1>10
  <2>3. \A k \in DOMAIN n.loc : TierRow(n, k).val = IF k = id THEN val ELSE TierContents(t)[k]
    BY <2>1, <1>1, <1>5, <1>8, <1>10, <1>16
  <2> QED
    BY <2>1, <2>2, <2>3 DEF TierContents, Assign
<1> QED
  BY <1>10, <1>12, <1>13, <1>14, <1>15, <1>17 DEF TiersFit, LocationsFit

\* MergeDeltaToMain moves the rows of the delta tier behind those of the main tier.
LEMMA MergeFits ==
  ASSUME NEW t, TiersFit(t), NEW n, n = MergeDeltaToMain(t)
  PROVE  TiersFit(n) /\ TierContents(n) = TierContents(t)
<1>0. LocationsFit(t)
  BY DEF TiersFit
<1>1. CASE t.delta = <<>>
  BY <1>1 DEF MergeDeltaToMain
<1>2. CASE t.delta # <<>>
  <2> DEFINE N == Len(t.main)
             D == Len(t.delta)
             moved == [i \in DOMAIN t.delta |-> t.delta[i].id]
             to == [id \in ToSet(moved) |->
                      [tier |-> "main", at |-> N + (CHOOSE i \in DOMAIN moved : moved[i] = id)]]
             main == t.main \o t.delta
             loc == Over(to, t.loc)
             m == [t EXCEPT !.main = main, !.delta = <<>>, !.loc = loc]
  <2>1. n = RebuildMainIndex(m)
    BY <1>2 DEF MergeDeltaToMain
  <2>q. N = Len(t.main) /\ D = Len(t.delta)
    OBVIOUS
  <2>2. /\ t \in TierShape /\ t.main \in Seq(TierRows) /\ t.delta \in Seq(TierRows)
        /\ DOMAIN t.main = 1..N /\ N \in Nat /\ DOMAIN t.delta = 1..D /\ D \in Nat
        /\ t.loc = [x \in DOMAIN t.loc |-> t.loc[x]] /\ DOMAIN t.loc \subseteq TierIds
        /\ \A x \in DOMAIN t.loc : t.loc[x] \in TierLocs
    BY <1>0, TierFields
  <2> HIDE DEF N, D
  <2>3. /\ t.deleted \subseteq 1..N
        /\ \A k \in DOMAIN t.loc :
             \/ t.loc[k].tier = "main" /\ t.loc[k].at \in MainLive(t) /\ t.main[t.loc[k].at].id = k
             \/ t.loc[k].tier = "delta" /\ t.loc[k].at \in 1..D /\ t.delta[t.loc[k].at].id = k
        /\ \A i \in MainLive(t) :
             t.main[i].id \in DOMAIN t.loc /\ t.loc[t.main[i].id].tier = "main"
             /\ t.loc[t.main[i].id].at = i
        /\ \A i \in 1..D :
             t.delta[i].id \in DOMAIN t.loc /\ t.loc[t.delta[i].id].tier = "delta"
             /\ t.loc[t.delta[i].id].at = i
    BY <1>0, <2>2 DEF LocationsFit
  <2>4. /\ main \in Seq(TierRows) /\ DOMAIN main = 1..(N + D)
        /\ (\A i \in 1..N : main[i] = t.main[i]) /\ \A i \in 1..D : main[N + i] = t.delta[i]
    <3>1. main \in Seq(TierRows) /\ Len(main) = N + D
      BY <2>2, <2>q, ConcatProperties
    <3>2. DOMAIN main = 1..(N + D)
      <4> HIDE DEF main
      <4> QED
        BY <3>1
    <3>3. \A i \in 1..N : main[i] = t.main[i]
      <4> TAKE i \in 1..N
      <4>1. i \in 1..(N + D) /\ i <= N
        BY <2>2
      <4> QED
        BY <4>1, <2>2, <2>q, ConcatProperties
    <3>4. \A i \in 1..D : main[N + i] = t.delta[i]
      <4> TAKE i \in 1..D
      <4>1. N + i \in 1..(N + D) /\ ~(N + i <= N) /\ (N + i) - N = i
        BY <2>2
      <4> QED
        BY <4>1, <2>2, <2>q, ConcatProperties
    <3> QED
      BY <3>1, <3>2, <3>3, <3>4
  <2>5. /\ ToSet(moved) = {t.delta[i].id : i \in 1..D}
        /\ \A i \in 1..D : (CHOOSE j \in DOMAIN moved : moved[j] = t.delta[i].id) = i
    <3>1. DOMAIN moved = 1..D /\ \A i \in 1..D : moved[i] = t.delta[i].id
      BY <2>2
    <3> HIDE DEF moved
    <3>2. ToSet(moved) = {t.delta[i].id : i \in 1..D}
      BY <3>1 DEF ToSet
    <3>3. \A i \in 1..D : t.loc[t.delta[i].id].at = i
      BY <2>3
    <3>4. ASSUME NEW i \in 1..D PROVE (CHOOSE j \in DOMAIN moved : moved[j] = t.delta[i].id) = i
      <4> DEFINE c == CHOOSE j \in DOMAIN moved : moved[j] = t.delta[i].id
      <4>1. c \in DOMAIN moved /\ moved[c] = t.delta[i].id
        BY <3>1
      <4> HIDE DEF c
      <4>2. c = i
        BY <4>1, <3>1, <3>3
      <4> QED
        BY <4>2 DEF c
    <3> QED
      BY <3>2, <3>4
  <2>6. /\ DOMAIN to = {t.delta[i].id : i \in 1..D}
        /\ \A i \in 1..D : /\ to[t.delta[i].id].tier = "main" /\ to[t.delta[i].id].at = N + i
                           /\ to[t.delta[i].id] \in TierLocs
    <3> DEFINE spot(j) == [tier |-> "main", at |-> N + j]
    <3>1. DOMAIN to = {t.delta[i].id : i \in 1..D}
      BY <2>5
    <3>2. \A i \in 1..D : to[t.delta[i].id] = spot(i)
      BY <2>5
    <3>3. \A i \in 1..D : N + i \in Nat
      BY <2>2
    <3>4. \A i \in 1..D : spot(i).tier = "main" /\ spot(i).at = N + i /\ spot(i) \in TierLocs
      BY <3>3 DEF TierLocs
    <3> HIDE DEF spot, to
    <3> QED
      BY <3>1, <3>2, <3>4
  <2> HIDE DEF to, main
  <2>7. /\ DOMAIN loc = DOMAIN t.loc /\ loc = [x \in DOMAIN loc |-> loc[x]]
        /\ (\A i \in 1..D : loc[t.delta[i].id] = to[t.delta[i].id])
        /\ \A k \in DOMAIN t.loc : t.loc[k].tier = "main" => loc[k] = t.loc[k]
    <3>1. DOMAIN to \subseteq DOMAIN t.loc
      BY <2>6, <2>3
    <3>2. \A k \in DOMAIN t.loc : t.loc[k].tier = "main" => k \notin DOMAIN to
      BY <2>6, <2>3
    <3>3. \A i \in 1..D : t.delta[i].id \in DOMAIN to
      BY <2>6
    <3> QED
      BY <3>1, <3>2, <3>3 DEF Over
  <2> HIDE DEF loc
  <2>8. \A k \in DOMAIN t.loc : \/ t.loc[k].tier = "main" /\ loc[k] = t.loc[k]
                                \/ \E i \in 1..D : /\ t.delta[i].id = k /\ t.loc[k].tier = "delta"
                                                   /\ t.loc[k].at = i
                                                   /\ loc[k].tier = "main" /\ loc[k].at = N + i
    <3> TAKE k \in DOMAIN t.loc
    <3>1. CASE t.loc[k].tier = "main"
      BY <3>1, <2>7
    <3>2. CASE t.loc[k].tier = "delta" /\ t.loc[k].at \in 1..D /\ t.delta[t.loc[k].at].id = k
      BY <3>2, <2>6, <2>7
    <3> QED
      BY <3>1, <3>2, <2>3
  <2>9. loc \in Partial(TierIds, TierLocs)
    <3>2. ASSUME NEW k \in DOMAIN loc PROVE loc[k] \in TierLocs
      <4>1. CASE loc[k] = t.loc[k]
        BY <4>1, <2>2, <2>7
      <4>2. CASE \E i \in 1..D : t.delta[i].id = k
        <5>1. PICK i \in 1..D : t.delta[i].id = k
          BY <4>2
        <5> QED
          BY <5>1, <2>6, <2>7
      <4> QED
        BY <4>1, <4>2, <2>7, <2>8
    <3> QED
      BY <3>2, <2>2, <2>7, PartialFunction
  <2>10. /\ m \in TierShape /\ m.main = main /\ m.deleted = t.deleted /\ m.delta = <<>> /\ m.loc = loc
    <3>1. <<>> \in Seq(TierRows)
      OBVIOUS
    <3> QED
      BY <3>1, <2>2, <2>4, <2>9 DEF TierShape
  <2>a. \A i \in 1..D : N + i \in 1..(N + D) /\ N + i \notin 1..N
    BY <2>2
  <2>b. \A i \in 1..(N + D) : i \in 1..N \/ \E j \in 1..D : i = N + j
    <3> TAKE i \in 1..(N + D)
    <3>1. i \in 1..N \/ i - N \in 1..D
      BY <2>2
    <3>2. i = N + (i - N)
      BY <2>2
    <3> QED
      BY <3>1, <3>2
  <2>11. /\ (\A i \in MainLive(m) : i \in MainLive(t) \/ \E j \in 1..D : i = N + j)
         /\ (\A i \in MainLive(t) : i \in MainLive(m)) /\ \A j \in 1..D : N + j \in MainLive(m)
    <3>1. MainLive(m) = (1..(N + D)) \ t.deleted /\ MainLive(t) = (1..N) \ t.deleted
      BY <2>2, <2>4, <2>10 DEF MainLive
    <3>2. \A i \in 1..N : i \in 1..(N + D)
      BY <2>2
    <3> QED
      BY <3>1, <3>2, <2>3, <2>a, <2>b
  <2> HIDE DEF m
  <2>l. \A i \in MainLive(t) : i \in 1..N
    BY <2>2 DEF MainLive
  <2>12. \A k \in DOMAIN m.loc :
           /\ m.loc[k].tier = "main" /\ m.loc[k].at \in MainLive(m) /\ m.main[m.loc[k].at].id = k
                                 /\ TierRow(m, k) = TierRow(t, k)
    <3> TAKE k \in DOMAIN m.loc
    <3>1. CASE t.loc[k].tier = "main" /\ loc[k] = t.loc[k]
      BY <3>1, <2>3, <2>4, <2>7, <2>10, <2>11, <2>l DEF TierRow
    <3>2. CASE \E i \in 1..D : /\ t.delta[i].id = k /\ t.loc[k].tier = "delta" /\ t.loc[k].at = i
                               /\ loc[k].tier = "main" /\ loc[k].at = N + i
      <4>1. PICK i \in 1..D : /\ t.delta[i].id = k /\ t.loc[k].tier = "delta" /\ t.loc[k].at = i
                              /\ loc[k].tier = "main" /\ loc[k].at = N + i
        BY <3>2
      <4>2. TierRow(t, k) = t.delta[i] /\ TierRow(m, k) = main[N + i]
        BY <4>1, <2>10 DEF TierRow
      <4> QED
        BY <4>1, <4>2, <2>4, <2>10, <2>11
    <3> QED
      BY <3>1, <3>2, <2>7, <2>8, <2>10
  <2>13. \A i \in MainLive(m) :
           m.main[i].id \in DOMAIN m.loc /\ m.loc[m.main[i].id].tier = "main"
           /\ m.loc[m.main[i].id].at = i
    <3> TAKE i \in MainLive(m)
    <3>1. CASE i \in MainLive(t)
      <4>1. /\ t.main[i].id \in DOMAIN t.loc /\ t.loc[t.main[i].id].tier = "main"
            /\ t.loc[t.main[i].id].at = i
            /\ main[i] = t.main[i]
        BY <3>1, <2>3, <2>4, <2>l
      <4>2. t.loc[t.main[i].id].tier = "main"
        BY <4>1
      <4> QED
        BY <4>1, <4>2, <2>7, <2>10
    <3>2. CASE \E j \in 1..D : i = N + j
      <4>1. PICK j \in 1..D : i = N + j
        BY <3>2
      <4> QED
        BY <4>1, <2>3, <2>4, <2>6, <2>7, <2>10
    <3> QED
      BY <3>1, <3>2, <2>11
  <2>14. m.deleted \subseteq DOMAIN m.main /\ DOMAIN m.delta = {}
    <3>1. \A i \in 1..N : i \in 1..(N + D)
      BY <2>2
    <3> QED
      BY <3>1, <2>3, <2>4, <2>10
  <2>15. LocationsFit(m)
    BY <2>10, <2>12, <2>13, <2>14 DEF LocationsFit
  <2>16. TierContents(m) = TierContents(t)
    BY <2>7, <2>10, <2>12 DEF TierContents
  <2> QED
    BY <2>1, <2>15, <2>16, RebuildMainIndexFits
<1> QED
  BY <1>1, <1>2

\* RebuildMain drops the tombstones and renumbers the rows that stay.
LEMMA RebuildMainFits ==
  ASSUME NEW t, TiersFit(t), NEW n, n = RebuildMain(t)
  PROVE  TiersFit(n) /\ TierContents(n) = TierContents(t)
<1>0. LocationsFit(t)
  BY DEF TiersFit
<1>1. CASE t.deleted = {}
  BY <1>1 DEF RebuildMain
<1>2. CASE t.deleted # {}
  <2> DEFINE live == DOMAIN t.main \ t.deleted
             rows == Compact(t.main, live)
             M == Len(rows)
             to == [id \in {rows[i].id : i \in DOMAIN rows} |->
                      [tier |-> "main", at |-> CHOOSE i \in DOMAIN rows : rows[i].id = id]]
             loc == Over(to, t.loc)
             m == [t EXCEPT !.main = rows, !.deleted = {}, !.loc = loc]
  <2>1. n = RebuildMainIndex(m)
    BY <1>2 DEF RebuildMain
  <2>2. /\ t \in TierShape /\ t.main \in Seq(TierRows) /\ t.delta \in Seq(TierRows)
        /\ t.loc = [x \in DOMAIN t.loc |-> t.loc[x]] /\ DOMAIN t.loc \subseteq TierIds
        /\ \A x \in DOMAIN t.loc : t.loc[x] \in TierLocs
    BY <1>0, TierFields
  <2>3. /\ \A k \in DOMAIN t.loc :
             \/ t.loc[k].tier = "main" /\ t.loc[k].at \in live /\ t.main[t.loc[k].at].id = k
             \/ t.loc[k].tier = "delta" /\ t.loc[k].at \in DOMAIN t.delta /\ t.delta[t.loc[k].at].id = k
        /\ \A i \in live :
             t.main[i].id \in DOMAIN t.loc /\ t.loc[t.main[i].id].tier = "main"
             /\ t.loc[t.main[i].id].at = i
        /\ \A i \in DOMAIN t.delta :
             t.delta[i].id \in DOMAIN t.loc /\ t.loc[t.delta[i].id].tier = "delta"
             /\ t.loc[t.delta[i].id].at = i
    BY <1>0 DEF LocationsFit, MainLive
  <2>4. live \in SUBSET DOMAIN t.main
    OBVIOUS
  <2> HIDE DEF live
  <2>5. rows \in Seq(TierRows) /\ \E e \in [1..M -> live] :
                                    /\ \A i \in 1..M : rows[i] = t.main[e[i]]
                                    /\ \A i, j \in 1..M : e[i] = e[j] => i = j
                                    /\ \A k \in live : \E i \in 1..M : e[i] = k
    <3>1. rows = Compact(t.main, live)
      OBVIOUS
    <3> HIDE DEF rows
    <3>2. t.main \in Seq(TierRows)
      BY <2>2
    <3>3. rows \in Seq(TierRows)
      BY <3>1, <3>2, <2>4, CompactRows
    <3>4. \E e \in [1..Len(rows) -> live] :
            /\ \A i \in 1..Len(rows) : rows[i] = t.main[e[i]]
            /\ \A i, j \in 1..Len(rows) : e[i] = e[j] => i = j
            /\ \A k \in live : \E i \in 1..Len(rows) : e[i] = k
      BY <3>1, <3>2, <2>4, CompactRows
    <3> QED
      BY <3>3, <3>4
  <2>d. DOMAIN rows = 1..M /\ M \in Nat
    BY <2>5
  <2> HIDE DEF rows
  <2>6. PICK e \in [1..M -> live] : /\ \A i \in 1..M : rows[i] = t.main[e[i]]
                                    /\ \A i, j \in 1..M : e[i] = e[j] => i = j
                                    /\ \A k \in live : \E i \in 1..M : e[i] = k
    BY <2>5
  \* Rows have different ids, so the location found is the row's own.
  <2>7. \A i \in 1..M : /\ rows[i].id \in DOMAIN t.loc /\ t.loc[rows[i].id].tier = "main"
                        /\ t.loc[rows[i].id].at = e[i]
    BY <2>3, <2>6
  <2>8. ASSUME NEW i \in 1..M PROVE (CHOOSE j \in DOMAIN rows : rows[j].id = rows[i].id) = i
    <3> DEFINE c == CHOOSE j \in DOMAIN rows : rows[j].id = rows[i].id
    <3>1. c \in 1..M /\ rows[c].id = rows[i].id
      BY <2>d
    <3> HIDE DEF c
    <3>2. c = i
      BY <3>1, <2>6, <2>7
    <3> QED
      BY <3>2 DEF c
  <2>9. /\ DOMAIN to = {rows[i].id : i \in 1..M}
        /\ \A i \in 1..M : /\ to[rows[i].id].tier = "main" /\ to[rows[i].id].at = i
                           /\ to[rows[i].id] \in TierLocs
    <3> DEFINE spot(j) == [tier |-> "main", at |-> j]
    <3>1. DOMAIN to = {rows[i].id : i \in 1..M}
      BY <2>d
    <3>2. \A i \in 1..M : to[rows[i].id] = spot(i)
      BY <2>8, <2>d
    <3>4. \A i \in 1..M : spot(i).tier = "main" /\ spot(i).at = i /\ spot(i) \in TierLocs
      BY <2>d DEF TierLocs
    <3> HIDE DEF spot, to
    <3> QED
      BY <3>1, <3>2, <3>4
  <2> HIDE DEF to
  <2>10. /\ DOMAIN loc = DOMAIN t.loc /\ loc = [x \in DOMAIN loc |-> loc[x]]
         /\ (\A i \in 1..M : loc[rows[i].id] = to[rows[i].id])
         /\ \A k \in DOMAIN t.loc : t.loc[k].tier = "delta" => loc[k] = t.loc[k]
    <3>1. DOMAIN to \subseteq DOMAIN t.loc
      BY <2>7, <2>9
    <3>2. \A k \in DOMAIN t.loc : t.loc[k].tier = "delta" => k \notin DOMAIN to
      BY <2>7, <2>9
    <3>3. \A i \in 1..M : rows[i].id \in DOMAIN to
      BY <2>9
    <3> QED
      BY <3>1, <3>2, <3>3 DEF Over
  <2> HIDE DEF loc
  <2>11. \A k \in DOMAIN t.loc : \/ t.loc[k].tier = "delta" /\ loc[k] = t.loc[k]
                                 \/ \E i \in 1..M : /\ rows[i].id = k /\ rows[i] = t.main[t.loc[k].at]
                                                    /\ t.loc[k].tier = "main"
                                                    /\ loc[k].tier = "main" /\ loc[k].at = i
    <3> TAKE k \in DOMAIN t.loc
    <3>1. CASE t.loc[k].tier = "main" /\ t.loc[k].at \in live /\ t.main[t.loc[k].at].id = k
      <4>1. PICK i \in 1..M : e[i] = t.loc[k].at
        BY <3>1, <2>6
      <4>2. rows[i] = t.main[t.loc[k].at] /\ rows[i].id = k
        BY <4>1, <3>1, <2>6
      <4> QED
        BY <4>2, <3>1, <2>9, <2>10
    <3>2. CASE t.loc[k].tier = "delta"
      BY <3>2, <2>10
    <3> QED
      BY <3>1, <3>2, <2>3
  <2>12. loc \in Partial(TierIds, TierLocs)
    <3>2. ASSUME NEW k \in DOMAIN loc PROVE loc[k] \in TierLocs
      <4>1. CASE loc[k] = t.loc[k]
        BY <4>1, <2>2, <2>10
      <4>2. CASE \E i \in 1..M : rows[i].id = k
        <5>1. PICK i \in 1..M : rows[i].id = k
          BY <4>2
        <5> QED
          BY <5>1, <2>9, <2>10
      <4> QED
        BY <4>1, <4>2, <2>10, <2>11
    <3> QED
      BY <3>2, <2>2, <2>10, PartialFunction
  <2>13. m \in TierShape /\ m.main = rows /\ m.deleted = {} /\ m.delta = t.delta /\ m.loc = loc
    BY <2>2, <2>5, <2>12 DEF TierShape
  <2> HIDE DEF m
  <2>14. MainLive(m) = 1..M
    BY <2>d, <2>13 DEF MainLive
  <2>15. ASSUME NEW k \in DOMAIN m.loc
         PROVE  /\ \/ m.loc[k].tier = "main" /\ m.loc[k].at \in MainLive(m)
                      /\ m.main[m.loc[k].at].id = k
                   \/ m.loc[k].tier = "delta" /\ m.loc[k].at \in DOMAIN m.delta
                      /\ m.delta[m.loc[k].at].id = k
                /\ TierRow(m, k) = TierRow(t, k)
    <3>0. k \in DOMAIN t.loc
      BY <2>10, <2>13, <2>15
    <3>1. CASE t.loc[k].tier = "delta" /\ loc[k] = t.loc[k]
      BY <3>0, <3>1, <2>3, <2>13 DEF TierRow
    <3>2. CASE \E i \in 1..M : /\ rows[i].id = k /\ rows[i] = t.main[t.loc[k].at]
                               /\ t.loc[k].tier = "main" /\ loc[k].tier = "main" /\ loc[k].at = i
      BY <3>2, <2>13, <2>14 DEF TierRow
    <3> QED
      BY <3>0, <3>1, <3>2, <2>11
  <2>16. \A i \in MainLive(m) :
           m.main[i].id \in DOMAIN m.loc /\ m.loc[m.main[i].id].tier = "main"
           /\ m.loc[m.main[i].id].at = i
    BY <2>7, <2>9, <2>10, <2>13, <2>14
  <2>17. \A i \in DOMAIN m.delta :
           m.delta[i].id \in DOMAIN m.loc /\ m.loc[m.delta[i].id].tier = "delta"
           /\ m.loc[m.delta[i].id].at = i
    <3> TAKE i \in DOMAIN m.delta
    <3>1. t.delta[i].id \in DOMAIN t.loc /\ t.loc[t.delta[i].id].tier = "delta"
          /\ t.loc[t.delta[i].id].at = i
      BY <2>3, <2>13
    <3>2. t.loc[t.delta[i].id].tier = "delta"
      BY <3>1
    <3> QED
      BY <3>1, <3>2, <2>10, <2>13
  <2>18. LocationsFit(m)
    BY <2>13, <2>15, <2>16, <2>17 DEF LocationsFit
  <2>19. TierContents(m) = TierContents(t)
    BY <2>10, <2>13, <2>15 DEF TierContents
  <2> QED
    BY <2>1, <2>18, <2>19, RebuildMainIndexFits
<1> QED
  BY <1>1, <1>2

\* An empty store.
LEMMA TierInit ==
  ASSUME TInit
  PROVE  TierInv
<1>1. tiers = EmptyTiers /\ tierOps = 0 /\ tierTruth = <<>>
  BY DEF TInit
<1>2. <<>> \in Seq(TierRows) /\ DOMAIN <<>> = {} /\ <<>> = [x \in DOMAIN <<>> |-> <<>>[x]]
  OBVIOUS
<1>3. <<>> \in Partial(TierIds, TierLocs)
  BY <1>2, PartialFunction
<1>4. /\ tiers \in TierShape /\ tiers.main = <<>> /\ tiers.deleted = {} /\ tiers.index = {}
      /\ tiers.delta = <<>> /\ tiers.loc = <<>>
  BY <1>1, <1>2, <1>3 DEF EmptyTiers, TierShape
<1>5. TiersFit(tiers)
  BY <1>2, <1>4 DEF TiersFit, LocationsFit, IndexReaches, MainLive
<1>6. TierContents(tiers) = <<>>
  BY <1>2, <1>4 DEF TierContents
<1> QED
  BY <1>1, <1>5, <1>6 DEF TierInv

\* The invariant is inductive.  The scheduler may merge and compact at any time.
LEMMA TierNext ==
  ASSUME TierInv, [TNext]_tierVars
  PROVE  TierInv'
<1>i. tierOps \in Nat /\ TiersFit(tiers) /\ tierTruth = TierContents(tiers)
  BY DEF TierInv
<1>u. ASSUME UNCHANGED <<tiers, tierOps, tierTruth>> PROVE TierInv'
  BY <1>u, <1>i DEF TierInv
<1>1. CASE TierAdd
  <2>1. PICK id \in TierIds : /\ tiers' = Add(tiers, id, tierOps + 1)
                              /\ tierTruth' = Assign(tierTruth, id, tierOps + 1)
    BY <1>1 DEF TierAdd
  <2>2. tierOps + 1 \in Nat /\ tierOps' = tierOps + 1
    BY <1>1, <1>i DEF TierAdd
  <2>3. TiersFit(tiers') /\ TierContents(tiers') = Assign(TierContents(tiers), id, tierOps + 1)
    BY <2>1, <2>2, <1>i, AddFits
  <2> QED
    BY <2>1, <2>2, <2>3, <1>i DEF TierInv
<1>2. CASE TierDelete
  <2>1. PICK id \in DOMAIN tiers.loc : /\ tiers' = Delete(tiers, id)
                                       /\ tierTruth' = [k \in DOMAIN tierTruth \ {id} |-> tierTruth[k]]
    BY <1>2 DEF TierDelete
  <2>2. tierOps' \in Nat
    BY <1>2, <1>i DEF TierDelete
  <2>3. TiersFit(tiers')
        /\ TierContents(tiers') = [k \in DOMAIN TierContents(tiers) \ {id} |-> TierContents(tiers)[k]]
    BY <2>1, <1>i, DeleteFits
  <2> QED
    BY <2>1, <2>2, <2>3, <1>i DEF TierInv
<1>3. CASE MergerMerge
  <2>1. tiers' = MergeDeltaToMain(tiers) /\ UNCHANGED <<tierOps, tierTruth>>
    BY <1>3 DEF MergerMerge
  <2>2. TiersFit(tiers') /\ TierContents(tiers') = TierContents(tiers)
    BY <2>1, <1>i, MergeFits
  <2> QED
    BY <2>1, <2>2, <1>i DEF TierInv
<1>4. CASE MergerRebuild
  <2>1. tiers' = RebuildMain(tiers) /\ UNCHANGED <<tierOps, tierTruth>>
    BY <1>4 DEF MergerRebuild
  <2>2. TiersFit(tiers') /\ TierContents(tiers') = TierContents(tiers)
    BY <2>1, <1>i, RebuildMainFits
  <2> QED
    BY <2>1, <2>2, <1>i DEF TierInv
<1>5. CASE MergerStart \/ MergerStop \/ MergerWake \/ MergerCheck \/ UNCHANGED tierVars
  BY <1>5, <1>u DEF MergerStart, MergerStop, MergerWake, MergerCheck, tierVars
<1> QED
  BY <1>1, <1>2, <1>3, <1>4, <1>5 DEF TNext, MergerStep

\* Whatever was merged, compacted or moved by the scheduler thread or an overwrite, a search
\* over both tiers sees every stored id exactly once, with its last embedding, in the row
\* that id_location_ names (TieredVectorStore, MergeScheduler).
THEOREM TiersAgree == TSpec => []TiersHoldTruth
<1>1. TierInv => TiersHoldTruth
  <2> SUFFICES ASSUME TierInv PROVE TiersHoldTruth
    OBVIOUS
  <2> DEFINE t == tiers
             spot(id) == <<t.loc[id].tier, t.loc[id].at>>
  <2>1. TiersFit(t) /\ LocationsFit(t) /\ IndexReaches(t) /\ tierTruth = TierContents(t)
    BY DEF TierInv, TiersFit
  <2>2. /\ \A id \in DOMAIN t.loc :
             \/ t.loc[id].tier = "main" /\ t.loc[id].at \in MainLive(t) /\ t.main[t.loc[id].at].id = id
             \/ t.loc[id].tier = "delta" /\ t.loc[id].at \in DOMAIN t.delta
                /\ t.delta[t.loc[id].at].id = id
        /\ \A i \in MainLive(t) :
             t.main[i].id \in DOMAIN t.loc /\ t.loc[t.main[i].id].tier = "main"
             /\ t.loc[t.main[i].id].at = i
        /\ \A i \in DOMAIN t.delta :
             t.delta[i].id \in DOMAIN t.loc /\ t.loc[t.delta[i].id].tier = "delta"
             /\ t.loc[t.delta[i].id].at = i
    BY <2>1 DEF LocationsFit
  <2>3. SearchMain(t) = {<<"main", i>> : i \in MainLive(t)}
    <3>1. (IF t.index = {} THEN DOMAIN t.main ELSE UNION t.index) \ t.deleted = MainLive(t)
      BY <2>1 DEF IndexReaches, MainLive
    <3> QED
      BY <3>1 DEF SearchMain
  <2>4. \A id \in DOMAIN t.loc : spot(id) \in SearchMain(t) \union SearchDelta(t)
    BY <2>2, <2>3 DEF SearchDelta
  <2>5. \A hit \in SearchMain(t) \union SearchDelta(t) : \E id \in DOMAIN t.loc : hit = spot(id)
    <3>1. \A i \in MainLive(t) : \E id \in DOMAIN t.loc : <<"main", i>> = spot(id)
      BY <2>2
    <3>2. \A i \in DOMAIN t.delta : \E id \in DOMAIN t.loc : <<"delta", i>> = spot(id)
      BY <2>2
    <3> QED
      BY <3>1, <3>2, <2>3 DEF SearchDelta
  <2>6. DOMAIN t.loc = DOMAIN tierTruth /\ \A id \in DOMAIN t.loc : tierTruth[id] = TierRow(t, id).val
    BY <2>1, ContentsPoints
  <2>7. \A id \in DOMAIN t.loc : RowOf(t, spot(id)) = TierRow(t, id)
    BY DEF RowOf, TierRow
  <2>8. \A id \in DOMAIN t.loc : TierRow(t, id) \in TierRows /\ TierRow(t, id).id = id
    <3>1. /\ \A i \in DOMAIN t.main : t.main[i] \in TierRows
          /\ \A i \in DOMAIN t.delta : t.delta[i] \in TierRows
      BY <2>1, TierFields
    <3> QED
      BY <3>1, <2>2 DEF TierRow, MainLive
  <2>9. \A id \in DOMAIN t.loc : TierRow(t, id) = [id |-> id, val |-> tierTruth[id]]
    <3>1. \A r \in TierRows : r = [id |-> r.id, val |-> r.val]
      BY DEF TierRows
    <3> QED
      BY <3>1, <2>6, <2>8
  <2>10. SearchMain(t) \union SearchDelta(t) = {spot(id) : id \in DOMAIN t.loc}
    <3> HIDE DEF spot
    <3> QED
      BY <2>4, <2>5
  <2> QED
    BY <2>6, <2>7, <2>9, <2>10 DEF TiersHoldTruth
<1> QED
  BY <1>1, TierInit, TierNext, PTL DEF TSpec
=============================================================================
