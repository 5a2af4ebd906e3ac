----------------------------- MODULE VectorIndex -----------------------------
(***************************************************************************)
(* The vector store (compact matrix with tombstones, free slots and a      *)
(* generation), the metadata store, the ANN index that labels vectors by   *)
(* their row of that matrix (HNSW graph, or IVF lists with a write buffer   *)
(* and a sealing tier), and the similarity engine that publishes the index  *)
(* against a store generation.                                              *)
(*                                                                          *)
(* One writer at a time runs a mutation (the write serialisation mutex),    *)
(* one background thread trains or seals the IVF index, and a search reads  *)
(* the tiers one lock at a time; a crash at any point is followed by the    *)
(* load of the last image and the replay of the log.  An embedding is the   *)
(* number of the operation that wrote it, so every write has its own.       *)
(***************************************************************************)
EXTENDS Rows, SequencesExt

CONSTANTS
    Ids,             \* external vector identifiers
    Kinds,           \* index types: a subset of {"hnsw", "ivf"}
    IncludeVectors,  \* wal.include_vectors
    TrainThreshold,  \* similarity.ivf_train_threshold
    SealThreshold,   \* IvfConfig::seal_threshold
    CompactMin,      \* HnswConfig::rebuild_min_nodes
    CompactDen,      \* 1 / HnswConfig::rebuild_tombstone_ratio
    SampleSize,      \* similarity.sample_size: rows a sampled scan looks at, 0 = exact
    MaxOps           \* bound: mutations offered in one behaviour

ASSUME VectorIndexConstants ==
    /\ Kinds \subseteq {"hnsw", "ivf"}
    /\ IncludeVectors \in BOOLEAN
    /\ {TrainThreshold, SealThreshold, CompactMin, CompactDen} \subseteq Nat \ {0}
    /\ {SampleSize, MaxOps} \subseteq Nat

VARIABLES
    kind,     \* config_.index_type
    vstore,   \* VectorStore: slots, id_to_idx_, free_slots_, generation_
    meta,     \* MetadataStore: the ids that have metadata
    ann,      \* the index and ann_generation_ (published)
    writer,   \* the mutation in progress and its next step
    thread,   \* ivf_train_thread_; busy iff ivf_training_
    search,   \* one search in progress
    ops,      \* number of mutations offered so far
    vlog,     \* records logged since the image
    vimage,   \* the last snapshot: contents and metadata
    vserver,  \* serving, or replaying the records of todo, or refused
    expected, \* ghost: what the accepted mutations amount to
    leftover  \* ghost: labels a rebuild left behind in the transient tiers

vectorVars == <<kind, vstore, meta, ann, writer, thread, search, ops, vlog,
                vimage, vserver, expected, leftover>>

-----------------------------------------------------------------------------
(* The vector store.                                                        *)

EmptyVectorStore == [slots |-> <<>>, index |-> <<>>, free |-> <<>>, generation |-> 0]

Holds(vs, id) == id \in DOMAIN vs.index

VectorContents(vs) == [id \in DOMAIN vs.index |-> vs.slots[vs.index[id]].val]

Without1(f, keys) == [k \in DOMAIN f \ keys |-> f[k]]

SetVector(vs, id, val) ==
    LET reuse == ~Holds(vs, id) /\ vs.free # <<>>
        slot  == CASE Holds(vs, id) -> vs.index[id]
                   [] reuse         -> Last(vs.free)
                   [] OTHER         -> Len(vs.slots) + 1
        row   == [id |-> id, val |-> val, live |-> TRUE]
    IN  [slots |-> IF slot > Len(vs.slots) THEN Append(vs.slots, row)
                   ELSE [vs.slots EXCEPT ![slot] = row],
         index |-> Assign(vs.index, id, slot),
         free  |-> IF reuse THEN Front(vs.free) ELSE vs.free,
         generation |-> vs.generation + 1]

LiveSlots(vs) == {i \in DOMAIN vs.slots : vs.slots[i].live}

\* Mutant: the list of free slots survives the compaction.
DefragmentKeepsFree(vs) ==
    LET rows == Compact(vs.slots, LiveSlots(vs))
    IN  [vs EXCEPT !.slots = rows,
                   !.index = [id \in {rows[i].id : i \in DOMAIN rows} |->
                                CHOOSE i \in DOMAIN rows : rows[i].id = id]]

DefragmentLocked(vs) ==
    LET rows == Compact(vs.slots, LiveSlots(vs))
    IN  [vs EXCEPT !.slots = rows,
                   !.index = [id \in {rows[i].id : i \in DOMAIN rows} |->
                                CHOOSE i \in DOMAIN rows : rows[i].id = id],
                   !.free = <<>>]

Defragment(vs) == [DefragmentLocked(vs) EXCEPT !.generation = @ + 1]

DeleteVector(vs, id) ==
    LET slot   == vs.index[id]
        marked == [vs EXCEPT !.slots[slot].live = FALSE,
                             !.free = Append(@, slot),
                             !.index = Without1(@, {id})]
        packed == IF 4 * Len(marked.free) > Len(marked.slots)
                  THEN DefragmentLocked(marked) ELSE marked
    IN  [packed EXCEPT !.generation = @ + 1]

SwapState(vs, contents) ==
    LET ids == SetToSeq(DOMAIN contents)
    IN  [slots |-> [i \in DOMAIN ids |-> [id |-> ids[i], val |-> contents[ids[i]], live |-> TRUE]],
         index |-> [id \in DOMAIN contents |-> CHOOSE i \in DOMAIN ids : ids[i] = id],
         free  |-> <<>>,
         generation |-> vs.generation + 1]

-----------------------------------------------------------------------------
(* The IVF index.  Labels are rows; a transient tier maps a label to the    *)
(* copy of the embedding it was given, a list holds labels only.            *)

EmptyAnn == [trained |-> FALSE, lists |-> {}, buffer |-> <<>>, sealing |-> <<>>,
             layout |-> 0, nodes |-> <<>>, published |-> 0]

Train(a, labels) == [a EXCEPT !.trained = TRUE, !.lists = labels, !.layout = @ + 1]

ResetTrained(a) == [a EXCEPT !.trained = FALSE, !.layout = @ + 1]

RemoveVector(a, label) ==
    [a EXCEPT !.buffer = Without1(@, {label}),
              !.sealing = Without1(@, {label}),
              !.lists = IF a.trained THEN @ \ {label} ELSE @]

AppendToBuffer(a, label, val) == [a EXCEPT !.buffer = Assign(@, label, val)]

NeedsSeal(a) == Cardinality(DOMAIN a.buffer) >= SealThreshold

\* A sealing that cannot be committed goes back; a newer buffered entry wins.
ReturnToBuffer(a) == [a EXCEPT !.buffer = Over(@, a.sealing), !.sealing = <<>>]

\* Mutant: the entries being sealed are not searched.
SearchBufferOnly(a) == a.buffer

\* What SearchBuffer scores: both transient tiers, the buffer on top.
SearchBuffer(a) == Over(a.buffer, a.sealing)

-----------------------------------------------------------------------------
(* The HNSW graph: a label has one live node.  The compaction inserts the    *)
(* live nodes anew; in which order, no answer depends on.                   *)

RetireLabel(nodes, label) ==
    [i \in DOMAIN nodes |->
        IF nodes[i].label = label THEN [nodes[i] EXCEPT !.deleted = TRUE] ELSE nodes[i]]

LiveNodes(nodes) == Compact(nodes, {i \in DOMAIN nodes : ~nodes[i].deleted})

MaybeCompactLocked(nodes) ==
    LET dead == Len(nodes) - Len(LiveNodes(nodes))
    IN  IF Len(nodes) >= CompactMin /\ dead * CompactDen >= Len(nodes)
        THEN LiveNodes(nodes) ELSE nodes

AddLocked(nodes, label, val) ==
    Append(RetireLabel(nodes, label), [label |-> label, val |-> val, deleted |-> FALSE])

-----------------------------------------------------------------------------
(* The engine's view of the index.                                          *)

IsAnnIndexReady == IF kind = "hnsw" THEN LiveNodes(ann.nodes) # <<>> ELSE ann.trained

\* HnswIndex::Rebuild, or IvfAnnAdapter::Rebuild: the transient tiers stay.
Rebuild(a, vs) ==
    LET rows == DOMAIN vs.slots
    IN  IF kind = "hnsw"
        THEN [a EXCEPT !.nodes = [i \in rows |->
                 [label |-> i, val |-> vs.slots[i].val, deleted |-> FALSE]]]
        ELSE IF rows = {} THEN ResetTrained(a) ELSE Train(ResetTrained(a), rows)

Publish(a, vs) == [a EXCEPT !.published = vs.generation]

MarkDeleted(a, label) ==
    IF kind = "hnsw" THEN [a EXCEPT !.nodes = MaybeCompactLocked(RetireLabel(@, label))]
    ELSE RemoveVector(a, label)

AnnAdd(a, label, val) ==
    IF kind = "hnsw" THEN [a EXCEPT !.nodes = MaybeCompactLocked(AddLocked(@, label, val))]
    ELSE AppendToBuffer(a, label, val)

TransientLabels(a) == DOMAIN a.buffer \union DOMAIN a.sealing

-----------------------------------------------------------------------------
(* Locks.  A search holds the publication lock shared from its ready check   *)
(* to its mapping, and the store's read lock from its first to its second   *)
(* tier.                                                                    *)

PublicationFree == search.pc \in {"idle", "done"}

StoreFree == search.pc # "lists"

NoSearch == [pc |-> "idle"]
NoOp == [pc |-> "idle"]
IdleThread == [pc |-> "idle"]

-----------------------------------------------------------------------------
(* Mutations.  An operation is checked, logged, then applied step by step.  *)

Operations == [type : {"vecset"}, id : Ids, meta : BOOLEAN]
              \union [type : {"vecdel", "metaset"}, id : Ids]

CanApply(op) == op.type = "vecset" \/ Holds(vstore, op.id)

\* Mutant: a VECSET with metadata is logged as its metadata alone.
LogMetadataOnly(op, val) ==
    {<<[op |-> IF op.type = "vecset" /\ op.meta THEN [type |-> "metaset", id |-> op.id] ELSE op,
        val |-> val]>>}

\* The records a handler may log: with include_vectors off the TCP handler
\* logs nothing for VECSET and the HTTP handler logs its metadata alone.
LogRecords(op, val) ==
    LET record(o) == <<[op |-> o, val |-> val]>>
    IN  IF op.type # "vecset" \/ IncludeVectors THEN {record(op)}
        ELSE {<<>>} \union (IF op.meta THEN {record([type |-> "metaset", id |-> op.id])} ELSE {})

Accepted(e, op, val) ==
    CASE op.type = "vecset" ->
            [vals |-> Assign(e.vals, op.id, val),
             meta |-> IF op.meta THEN e.meta \union {op.id} ELSE e.meta]
      [] op.type = "vecdel" -> [vals |-> Without1(e.vals, {op.id}), meta |-> e.meta \ {op.id}]
      [] OTHER -> [e EXCEPT !.meta = @ \union {op.id}]

Begin(op, val) == writer' = [pc |-> "store", op |-> op, val |-> val]

\* HandleVecset, HandleVecdel, HandleMetaset up to the WAL append.  A command
\* that fails its check is answered with an error and changes nothing.
Offer ==
    /\ vserver.mode = "serving" /\ writer.pc = "idle" /\ ops < MaxOps
    /\ \E op \in Operations :
         /\ CanApply(op)
         /\ \E records \in LogRecords(op, ops + 1) : vlog' = vlog \o records
         /\ Begin(op, ops + 1)
         /\ expected' = Accepted(expected, op, ops + 1)
    /\ ops' = ops + 1
    /\ UNCHANGED <<kind, vstore, meta, ann, thread, search, vimage, vserver, leftover>>

\* MetadataStore::Set and Delete as the handlers call them.
MetadataAfter(op) ==
    CASE op.type = "vecdel" -> meta \ {op.id}
      [] op.type = "metaset" \/ (op.type = "vecset" /\ op.meta) -> meta \union {op.id}
      [] OTHER -> meta

Metaset ==
    /\ writer.pc = "store" /\ writer.op.type = "metaset"
    /\ meta' = MetadataAfter(writer.op)
    /\ writer' = NoOp
    /\ UNCHANGED <<kind, vstore, ann, thread, search, ops, vlog, vimage, vserver, expected, leftover>>

VecsetStore ==
    /\ writer.pc = "store" /\ writer.op.type = "vecset" /\ StoreFree
    /\ vstore' = SetVector(vstore, writer.op.id, writer.val)
    /\ meta' = MetadataAfter(writer.op)
    /\ writer' = [writer EXCEPT !.pc = "notify"]
    /\ UNCHANGED <<kind, ann, thread, search, ops, vlog, vimage, vserver, expected, leftover>>

\* The part of NotifyVectorAdded under the publication lock.
NotifyVectorAdded ==
    /\ writer.pc = "notify" /\ PublicationFree
    /\ LET label == vstore.index[writer.op.id]
           next  == ann.published + 1 = vstore.generation
       IN  /\ ann' = Publish(IF next THEN AnnAdd(ann, label, writer.val)
                                     ELSE Rebuild(ann, vstore), vstore)
           /\ leftover' = IF next THEN leftover \ {label} ELSE TransientLabels(ann)
           /\ writer' = IF next /\ kind = "ivf" THEN [writer EXCEPT !.pc = "launch"] ELSE NoOp
    /\ UNCHANGED <<kind, vstore, meta, thread, search, ops, vlog, vimage, vserver, expected>>

\* Its end: start training, or a seal, unless the flag is already taken.
\* SetNlist changes the layout number before the thread runs.
LaunchBackground ==
    /\ writer.pc = "launch"
    /\ writer' = NoOp
    /\ \/ /\ ~ann.trained /\ thread.pc = "idle"
          /\ Cardinality(DOMAIN vstore.index) >= TrainThreshold
          /\ ann' = [ann EXCEPT !.layout = @ + 1]
          /\ thread' = [pc |-> "train"]
       \/ /\ ann.trained /\ NeedsSeal(ann) /\ thread.pc = "idle"
          /\ thread' = [pc |-> "seal"] /\ ann' = ann
       \/ /\ \/ thread.pc # "idle"
             \/ ~ann.trained /\ Cardinality(DOMAIN vstore.index) < TrainThreshold
             \/ ann.trained /\ ~NeedsSeal(ann)
          /\ UNCHANGED <<ann, thread>>
    /\ UNCHANGED <<kind, vstore, meta, search, ops, vlog, vimage, vserver, expected, leftover>>

VecdelStore ==
    /\ writer.pc = "store" /\ writer.op.type = "vecdel" /\ StoreFree
    /\ vstore' = DeleteVector(vstore, writer.op.id)
    /\ writer' = [pc |-> "defragment", op |-> writer.op, label |-> vstore.index[writer.op.id]]
    /\ UNCHANGED <<kind, meta, ann, thread, search, ops, vlog, vimage, vserver, expected, leftover>>

VecdelDefragment ==
    /\ writer.pc = "defragment" /\ StoreFree
    /\ vstore' = Defragment(vstore)
    /\ meta' = MetadataAfter(writer.op)
    /\ writer' = [writer EXCEPT !.pc = "remove"]
    /\ UNCHANGED <<kind, ann, thread, search, ops, vlog, vimage, vserver, expected, leftover>>

NotifyVectorRemoved ==
    /\ writer.pc = "remove" /\ PublicationFree
    /\ ann' = MarkDeleted(ann, writer.label)
    /\ leftover' = leftover \ {writer.label}
    /\ writer' = [pc |-> "rebuild"]
    /\ UNCHANGED <<kind, vstore, meta, thread, search, ops, vlog, vimage, vserver, expected>>

\* JoinTrainThread, then the rebuild under the publication lock.  It ends a
\* VECDEL, a DUMP LOAD and the start-up of the server.
RebuildAnnFromStore ==
    /\ thread.pc = "idle" /\ PublicationFree
    /\ ann' = Publish(Rebuild(ann, vstore), vstore)
    /\ leftover' = TransientLabels(ann)

VecdelRebuild ==
    /\ writer.pc = "rebuild"
    /\ RebuildAnnFromStore
    /\ writer' = NoOp
    /\ UNCHANGED <<kind, vstore, meta, thread, search, ops, vlog, vimage, vserver, expected>>

-----------------------------------------------------------------------------
(* The background thread: train (centroids only), then seal in three        *)
(* phases; a thread started for a seal has no first step.                   *)

ThreadTrain ==
    /\ thread.pc = "train"
    /\ ann' = Train(ann, {})
    /\ thread' = [pc |-> "seal"]
    /\ UNCHANGED <<kind, vstore, meta, writer, search, ops, vlog, vimage, vserver, expected, leftover>>

SealBegin ==
    /\ thread.pc = "seal"
    /\ IF ann.buffer = <<>> \/ ann.sealing # <<>>
       THEN thread' = IdleThread /\ ann' = ann
       ELSE /\ ann' = [ann EXCEPT !.sealing = ann.buffer, !.buffer = <<>>]
            /\ thread' = [pc |-> "assign", labels |-> DOMAIN ann.buffer]
    /\ UNCHANGED <<kind, vstore, meta, writer, search, ops, vlog, vimage, vserver, expected, leftover>>

SealAssign ==
    /\ thread.pc = "assign"
    /\ IF ann.trained
       THEN /\ thread' = [pc |-> "commit", labels |-> thread.labels, layout |-> ann.layout]
            /\ ann' = ann
       ELSE ann' = ReturnToBuffer(ann) /\ thread' = IdleThread
    /\ UNCHANGED <<kind, vstore, meta, writer, search, ops, vlog, vimage, vserver, expected, leftover>>

\* What phase 3 leaves: the lists gain the labels still being sealed, unless
\* the layout they were assigned against is gone.
SealCommit(a, t) ==
    IF a.trained /\ a.layout = t.layout
    THEN [a EXCEPT !.lists = @ \union (t.labels \intersect DOMAIN a.sealing), !.sealing = <<>>]
    ELSE ReturnToBuffer(a)

SealEnd ==
    /\ thread.pc = "commit"
    /\ ann' = SealCommit(ann, thread)
    /\ thread' = IdleThread
    /\ UNCHANGED <<kind, vstore, meta, writer, search, ops, vlog, vimage, vserver, expected, leftover>>

-----------------------------------------------------------------------------
(* Searches (SIM and SIMV on vectors).  A found candidate is a label with    *)
(* the embedding it was scored by.                                          *)

LiveRows == LiveSlots(vstore)

Answered(pairs, exact) ==
    search' = [pc |-> "done", pairs |-> pairs, exact |-> exact,
               truth |-> VectorContents(vstore), excused |-> leftover]

\* snap.count is the number of rows, tombstones included.
UseSampling == SampleSize > 0 /\ Len(vstore.slots) > 2 * SampleSize

\* The reservoir: any sample_size rows, a tombstone or a live row each.
SampleIndices == kSubset(SampleSize, DOMAIN vstore.slots)

\* The flat scan of one snapshot: the fallback, and the answer while the
\* index is not ready.  Of a large store it looks at a random sample only.
FlatSearch ==
    \E rows \in IF UseSampling THEN SampleIndices ELSE {DOMAIN vstore.slots} :
      Answered({[id |-> vstore.slots[i].id, val |-> vstore.slots[i].val, label |-> i] :
                  i \in rows \intersect LiveRows}, ~UseSampling)

SearchBegin ==
    /\ search.pc = "idle" /\ vstore.slots # <<>>
    /\ vserver.mode = "serving" /\ writer.pc # "reload"
    /\ IF IsAnnIndexReady THEN search' = [pc |-> kind] ELSE FlatSearch
    /\ UNCHANGED <<kind, vstore, meta, ann, writer, thread, ops, vlog, vimage, vserver, expected, leftover>>

\* HnswIndex::Search is approximate: it may miss live nodes.
HnswSearch ==
    /\ search.pc = "hnsw"
    /\ \E found \in SUBSET ToSet(LiveNodes(ann.nodes)) :
         search' = [pc |-> "map", found |-> {[label |-> n.label, val |-> n.val] : n \in found}]
    /\ UNCHANGED <<kind, vstore, meta, ann, writer, thread, ops, vlog, vimage, vserver, expected, leftover>>

\* IvfIndex::Search, first the transient tiers ...
IvfSearchBuffer ==
    /\ search.pc = "ivf"
    /\ search' = IF vstore.slots = <<>> THEN [pc |-> "map", found |-> {}]
                 ELSE [pc |-> "lists", tier |-> SearchBuffer(ann)]
    /\ UNCHANGED <<kind, vstore, meta, ann, writer, thread, ops, vlog, vimage, vserver, expected, leftover>>

\* ... then the lists, scored by the rows of the store snapshot.
ListTier(a) ==
    IF a.trained THEN [l \in a.lists \intersect DOMAIN vstore.slots |-> vstore.slots[l].val] ELSE <<>>

IvfSearchLists ==
    /\ search.pc = "lists"
    /\ LET merged == Over(search.tier, ListTier(ann))
       IN  search' = [pc |-> "map", found |-> {[label |-> l, val |-> merged[l]] : l \in DOMAIN merged}]
    /\ UNCHANGED <<kind, vstore, meta, ann, writer, thread, ops, vlog, vimage, vserver, expected, leftover>>

\* Mutant: the generations are not compared.
MappingNeverStale == FALSE

\* Labels are mapped to ids only in a store of the published generation.
MappingStale == vstore.generation # ann.published

SearchMap ==
    /\ search.pc = "map"
    /\ IF vstore.slots = <<>> THEN search' = NoSearch
       ELSE IF MappingStale THEN FlatSearch
       ELSE Answered({[id |-> vstore.slots[f.label].id, val |-> f.val, label |-> f.label] :
                        f \in {g \in search.found : g.label \in LiveRows}}, kind = "ivf")
    /\ UNCHANGED <<kind, vstore, meta, ann, writer, thread, ops, vlog, vimage, vserver, expected, leftover>>

SearchEnd ==
    /\ search.pc = "done" /\ search' = NoSearch
    /\ UNCHANGED <<kind, vstore, meta, ann, writer, thread, ops, vlog, vimage, vserver, expected, leftover>>

-----------------------------------------------------------------------------
(* Snapshots, DUMP LOAD, crash and recovery.                                *)

VSave ==
    /\ vserver.mode = "serving" /\ writer.pc = "idle" /\ vlog # <<>>
    /\ vimage' = [vals |-> VectorContents(vstore), meta |-> meta]
    /\ vlog' = <<>>
    /\ UNCHANGED <<kind, vstore, meta, ann, writer, thread, search, ops, vserver, expected, leftover>>

\* DUMP LOAD: the stores are swapped, the index is rebuilt, and last the
\* loaded image becomes the base of recovery and the log is emptied.
DumpLoad ==
    /\ vserver.mode = "serving" /\ writer.pc = "idle" /\ StoreFree /\ ops < MaxOps
    /\ ops' = ops + 1
    /\ vstore' = SwapState(vstore, vimage.vals)
    /\ meta' = vimage.meta
    /\ writer' = [pc |-> "reload"]
    /\ UNCHANGED <<kind, ann, thread, search, vlog, vimage, vserver, expected, leftover>>

DumpLoadEnd ==
    /\ writer.pc = "reload"
    /\ RebuildAnnFromStore
    /\ writer' = NoOp
    /\ vlog' = <<>>
    /\ expected' = vimage
    /\ UNCHANGED <<kind, vstore, meta, thread, search, ops, vimage, vserver>>

VCrash ==
    /\ vserver.mode = "serving" /\ vlog # <<>>
    /\ vstore' = IF vimage.vals = <<>> THEN EmptyVectorStore ELSE SwapState(EmptyVectorStore, vimage.vals)
    /\ meta' = vimage.meta
    /\ ann' = EmptyAnn /\ writer' = NoOp /\ thread' = IdleThread /\ search' = NoSearch
    /\ leftover' = {}
    /\ vserver' = [mode |-> "replaying", todo |-> vlog]
    /\ UNCHANGED <<kind, ops, vlog, vimage, expected>>

\* ReplayRecord runs the handler of the record; one it refuses stops the start.
ReplayRecord ==
    /\ vserver.mode = "replaying" /\ writer.pc = "idle" /\ vserver.todo # <<>>
    /\ LET record == Head(vserver.todo)
       IN  IF CanApply(record.op)
           THEN /\ Begin(record.op, record.val)
                /\ vserver' = [vserver EXCEPT !.todo = Tail(@)]
           ELSE vserver' = [mode |-> "refused"] /\ writer' = writer
    /\ UNCHANGED <<kind, vstore, meta, ann, thread, search, ops, vlog, vimage, expected, leftover>>

VServe ==
    /\ vserver.mode = "replaying" /\ writer.pc = "idle" /\ vserver.todo = <<>>
    /\ RebuildAnnFromStore
    /\ vserver' = [mode |-> "serving"]
    /\ UNCHANGED <<kind, vstore, meta, writer, thread, search, ops, vlog, vimage, expected>>

-----------------------------------------------------------------------------
VInit ==
    /\ kind \in Kinds
    /\ vstore = EmptyVectorStore /\ meta = {} /\ ann = EmptyAnn
    /\ writer = NoOp /\ thread = IdleThread /\ search = NoSearch
    /\ ops = 0 /\ vlog = <<>> /\ vimage = [vals |-> <<>>, meta |-> {}]
    /\ vserver = [mode |-> "serving"]
    /\ expected = [vals |-> <<>>, meta |-> {}] /\ leftover = {}

VNext ==
    \/ Offer \/ Metaset \/ VecsetStore \/ NotifyVectorAdded \/ LaunchBackground
    \/ VecdelStore \/ VecdelDefragment \/ NotifyVectorRemoved \/ VecdelRebuild
    \/ ThreadTrain \/ SealBegin \/ SealAssign \/ SealEnd
    \/ SearchBegin \/ HnswSearch \/ IvfSearchBuffer \/ IvfSearchLists \/ SearchMap \/ SearchEnd
    \/ VSave \/ DumpLoad \/ DumpLoadEnd \/ VCrash \/ ReplayRecord \/ VServe

VSpec == VInit /\ [][VNext]_vectorVars

-----------------------------------------------------------------------------
(* Properties.                                                              *)

\* The shape of the state.  Embeddings are operation numbers, labels are
\* positive row numbers.
VTypeOK ==
    /\ kind \in Kinds /\ ops \in 0..MaxOps /\ meta \subseteq Ids
    /\ DOMAIN vstore.index \subseteq Ids
    /\ \A i \in DOMAIN vstore.slots : vstore.slots[i].id \in Ids /\ vstore.slots[i].val \in 1..MaxOps
    /\ {vstore.index[id] : id \in DOMAIN vstore.index} \subseteq DOMAIN vstore.slots
    /\ ToSet(vstore.free) \subseteq DOMAIN vstore.slots
    /\ ann.trained \in BOOLEAN /\ ann.lists \subseteq Nat \ {0}
    /\ vserver.mode \in {"serving", "replaying", "refused"}

\* Between two mutations the vector store maps every id to the embedding of
\* its last accepted VECSET, and the metadata store holds exactly the ids
\* that should have metadata: through reused and compacted slots, a DUMP
\* LOAD, and a crash followed by the replay of the log, which refuses no
\* record a running server has logged.
StoreMatchesWrites ==
    /\ (vserver.mode = "serving" /\ writer.pc = "idle")
         => VectorContents(vstore) = expected.vals /\ meta = expected.meta
    /\ vserver.mode # "refused"

\* A search answers an id with the embedding the store has for it, whatever
\* the writer and the sealing thread did meanwhile.  The one exception is a
\* label that Rebuild left in the write buffer (see AnswersMatchStore).
AnswersCurrent ==
    search.pc = "done" =>
      \A p \in search.pairs :
        \/ p.id \in DOMAIN search.truth /\ p.val = search.truth[p.id]
        \/ p.label \in search.excused

\* Without the exception: "never old ANN labels mapped through a new ID
\* layout" (RebuildAnnFromStore).
AnswersMatchStore ==
    search.pc = "done" =>
      \A p \in search.pairs : p.id \in DOMAIN search.truth /\ p.val = search.truth[p.id]

\* An exact search misses no vector, even while entries move from the buffer
\* to the lists between its reads.  Exact is a flat scan that does not sample
\* (sample_size 0, or no more than twice as many rows as that), and an IVF
\* search with every list probed.
AnswersComplete ==
    (search.pc = "done" /\ search.exact) =>
      DOMAIN search.truth = {p.id : p \in search.pairs}
=============================================================================
