----------------------------- MODULE TieredStore -----------------------------
(***************************************************************************)
(* The two-tier vector store (an indexed main tier with tombstones and an   *)
(* unindexed delta tier) and the scheduler thread that merges the delta     *)
(* into main and compacts main.  Every public operation runs under the      *)
(* store's lock and is one step; the scheduler reads its two conditions and  *)
(* acts on them in steps of its own.  Embeddings are operation numbers.     *)
(***************************************************************************)
EXTENDS Rows, SequencesExt

CONSTANTS
    TierIds,         \* vector identifiers
    MergeThreshold,  \* Config::delta_merge_threshold
    TombstoneNum,    \* Config::tombstone_ratio_threshold, numerator
    TombstoneDen,    \* and denominator
    MaxTierOps       \* bound: mutations in one behaviour

ASSUME TieredStoreConstants ==
    /\ {MergeThreshold, TombstoneDen} \subseteq Nat \ {0}
    /\ TombstoneNum \in 0..TombstoneDen
    /\ MaxTierOps \in Nat

VARIABLES
    tiers,      \* main_ (rows, deleted, index), delta_ and id_location_
    merger,     \* the scheduler thread: running_ and its next step
    tierOps,    \* mutations so far
    tierTruth   \* ghost: id -> embedding, by the accepted mutations

tierVars == <<tiers, merger, tierOps, tierTruth>>

-----------------------------------------------------------------------------
\* main.index is {} for a null index and {labels} otherwise.
EmptyTiers == [main |-> <<>>, deleted |-> {}, index |-> {}, delta |-> <<>>, loc |-> <<>>]

Located(t, id) == id \in DOMAIN t.loc

Forget(t, id) == [t EXCEPT !.loc = [k \in DOMAIN t.loc \ {id} |-> t.loc[k]]]

\* Mutant: the row moved into the hole keeps its old location.
RemoveFromDeltaSilently(t, at) ==
    [t EXCEPT !.delta = Front([t.delta EXCEPT ![at] = Last(t.delta)])]

\* Remove a row of the delta tier by moving the last row into its place.
RemoveFromDelta(t, at) ==
    LET last == Last(t.delta)
        kept == Front([t.delta EXCEPT ![at] = last])
    IN  IF at = Len(t.delta) THEN [t EXCEPT !.delta = kept]
        ELSE [t EXCEPT !.delta = kept, !.loc[last.id] = [tier |-> "delta", at |-> at]]

\* What an existing location needs before its id is placed anew or dropped.
\* An overwrite only records the tombstone, a Delete also marks the index.
Vacate(t, id, mark) ==
    LET at == t.loc[id].at
    IN  IF t.loc[id].tier = "delta" THEN RemoveFromDelta(t, at)
        ELSE [t EXCEPT !.deleted = @ \union {at},
                       !.index = IF mark THEN {labels \ {at} : labels \in @} ELSE @]

Add(t, id, val) ==
    LET room == IF Located(t, id) THEN Forget(Vacate(t, id, FALSE), id) ELSE t
    IN  [room EXCEPT !.delta = Append(@, [id |-> id, val |-> val]),
                     !.loc = Assign(@, id, [tier |-> "delta", at |-> Len(room.delta) + 1])]

Delete(t, id) == Forget(Vacate(t, id, TRUE), id)

RebuildMainIndex(t) ==
    LET live == DOMAIN t.main \ t.deleted
    IN  [t EXCEPT !.index = IF live = {} THEN {} ELSE {live}]

MergeDeltaToMain(t) ==
    IF t.delta = <<>> THEN t
    ELSE LET n == Len(t.main)
             moved == [i \in DOMAIN t.delta |-> t.delta[i].id]
         IN  RebuildMainIndex(
               [t EXCEPT !.main = @ \o t.delta, !.delta = <<>>,
                         !.loc = Over([id \in ToSet(moved) |->
                           [tier |-> "main", at |-> n + (CHOOSE i \in DOMAIN moved : moved[i] = id)]], @)])

RebuildMain(t) ==
    IF t.deleted = {} THEN t
    ELSE LET rows == Compact(t.main, DOMAIN t.main \ t.deleted)
         IN  RebuildMainIndex(
               [t EXCEPT !.main = rows, !.deleted = {},
                         !.loc = Over([id \in {rows[i].id : i \in DOMAIN rows} |->
                           [tier |-> "main", at |-> CHOOSE i \in DOMAIN rows : rows[i].id = id]], @)])

NeedsMerge(t) == Len(t.delta) >= MergeThreshold

NeedsRebuild(t) == t.main # <<>> /\ Cardinality(t.deleted) * TombstoneDen > TombstoneNum * Len(t.main)

\* The rows a search can return: the main rows the index reaches (all live
\* rows when there is no index) that are not tombstones, and the delta rows.
SearchMain(t) ==
    {<<"main", i>> : i \in (IF t.index = {} THEN DOMAIN t.main ELSE UNION t.index) \ t.deleted}

SearchDelta(t) == {<<"delta", i>> : i \in DOMAIN t.delta}

RowOf(t, hit) == IF hit[1] = "main" THEN t.main[hit[2]] ELSE t.delta[hit[2]]

-----------------------------------------------------------------------------
TierAdd ==
    /\ tierOps < MaxTierOps
    /\ \E id \in TierIds : /\ tiers' = Add(tiers, id, tierOps + 1)
                           /\ tierTruth' = Assign(tierTruth, id, tierOps + 1)
    /\ tierOps' = tierOps + 1
    /\ UNCHANGED merger

TierDelete ==
    /\ tierOps < MaxTierOps
    /\ \E id \in DOMAIN tiers.loc :
         /\ tiers' = Delete(tiers, id)
         /\ tierTruth' = [k \in DOMAIN tierTruth \ {id} |-> tierTruth[k]]
    /\ tierOps' = tierOps + 1
    /\ UNCHANGED merger

\* MergeScheduler::Start and Stop.  Stop clears running_ and joins.
MergerStart ==
    /\ ~merger.running /\ merger.pc = "none"
    /\ merger' = [running |-> TRUE, pc |-> "wait"]
    /\ UNCHANGED <<tiers, tierOps, tierTruth>>

MergerStop ==
    /\ merger.running
    /\ merger' = [merger EXCEPT !.running = FALSE]
    /\ UNCHANGED <<tiers, tierOps, tierTruth>>

\* Mutant: the threshold itself is not enough.
MergerWakeLate ==
    /\ merger.pc = "wait"
    /\ merger' = [merger EXCEPT !.pc =
                    IF ~merger.running THEN "none"
                    ELSE IF Len(tiers.delta) > MergeThreshold THEN "merge" ELSE "check"]
    /\ UNCHANGED <<tiers, tierOps, tierTruth>>

\* CheckLoop: the wait ends by its interval or by Stop.
MergerWake ==
    /\ merger.pc = "wait"
    /\ merger' = [merger EXCEPT !.pc =
                    IF ~merger.running THEN "none"
                    ELSE IF NeedsMerge(tiers) THEN "merge" ELSE "check"]
    /\ UNCHANGED <<tiers, tierOps, tierTruth>>

MergerMerge ==
    /\ merger.pc = "merge"
    /\ tiers' = MergeDeltaToMain(tiers)
    /\ merger' = [merger EXCEPT !.pc = "check"]
    /\ UNCHANGED <<tierOps, tierTruth>>

\* The loop condition is read again on the way back to the wait.
BackToWait == IF merger.running THEN "wait" ELSE "none"

MergerCheck ==
    /\ merger.pc = "check"
    /\ merger' = [merger EXCEPT !.pc = IF NeedsRebuild(tiers) THEN "rebuild" ELSE BackToWait]
    /\ UNCHANGED <<tiers, tierOps, tierTruth>>

MergerRebuild ==
    /\ merger.pc = "rebuild"
    /\ tiers' = RebuildMain(tiers)
    /\ merger' = [merger EXCEPT !.pc = BackToWait]
    /\ UNCHANGED <<tierOps, tierTruth>>

MergerStep == MergerWake \/ MergerMerge \/ MergerCheck \/ MergerRebuild

TInit == /\ tiers = EmptyTiers /\ tierOps = 0 /\ tierTruth = <<>>
         /\ merger = [running |-> FALSE, pc |-> "none"]

TNext == TierAdd \/ TierDelete \/ MergerStart \/ MergerStop \/ MergerStep

\* The scheduler thread is always scheduled again: its waits are timed.
TFairness == WF_tierVars(MergerStep)

TSpec == TInit /\ [][TNext]_tierVars /\ TFairness

-----------------------------------------------------------------------------
\* The variables keep their shape.
TTypeOK ==
    /\ DOMAIN tiers.loc \subseteq TierIds /\ tierOps \in 0..MaxTierOps
    /\ merger.pc \in {"none", "wait", "merge", "check", "rebuild"}
    /\ tiers.deleted \subseteq DOMAIN tiers.main

\* Whatever was merged, compacted or moved, a search over both tiers sees
\* every stored id exactly once and with its last embedding, and an id's
\* recorded location is the row it is found in.
TiersHoldTruth ==
    LET hits == SearchMain(tiers) \union SearchDelta(tiers)
    IN  /\ DOMAIN tiers.loc = DOMAIN tierTruth
        /\ hits = {<<tiers.loc[id].tier, tiers.loc[id].at>> : id \in DOMAIN tiers.loc}
        /\ \A id \in DOMAIN tiers.loc :
             RowOf(tiers, <<tiers.loc[id].tier, tiers.loc[id].at>>) = [id |-> id, val |-> tierTruth[id]]

\* A delta at its threshold is merged (or shrinks) as long as the scheduler
\* is not stopped, and a stopped scheduler's thread ends: Stop returns.
MergerProgress ==
    []<>(IF merger.running THEN ~NeedsMerge(tiers) ELSE merger.pc = "none")
=============================================================================
