-------------------------- MODULE SimilarityCache --------------------------
(***************************************************************************)
(* The similarity cache as a data structure (cache/similarity_cache.cpp): a   *)
(* map, an LRU list, a reverse index from items to keys, and a memory limit   *)
(* that covers all three.  Every operation runs under mutex_; a lookup drops   *)
(* its shared lock and takes the exclusive one for the second half, so any     *)
(* operation may come in between.                                            *)
(*                                                                         *)
(* Abstraction.  A result is its size in memory units.  The age of an entry   *)
(* is whether it has expired.  A hash table never returns its buckets, so it   *)
(* counts for the largest number of elements it has held.                     *)
(***************************************************************************)
EXTENDS Rows, Integers, SequencesExt, FiniteSetsExt

CONSTANTS
  Keys,          \* cache keys
  Values,        \* results, as sizes
  ItemIds,         \* item ids
  ItemLists,     \* the item_ids arguments considered
  Readers,       \* threads that look up
  MaxMemory,     \* max_memory_bytes_
  BatchSize,     \* eviction_batch_size_
  MaxTracked,    \* kMaxTrackedItemsPerEntry
  MaxInserts     \* bound: entries created in a run

ASSUME CacheConstants ==
  /\ IsFiniteSet(Keys) /\ IsFiniteSet(ItemIds)
  /\ Values \subseteq Nat
  /\ ItemLists \subseteq Seq(ItemIds)
  /\ {MaxMemory, BatchSize, MaxTracked, MaxInserts} \subseteq Nat

Miss == -1
NoEntry == [size |-> -1, ids |-> <<>>, created_at |-> 0, live |-> FALSE, fresh |-> FALSE]

VARIABLES
  enabled,
  cache,    \* the members guarded by mutex_
  clock,    \* entries created so far: created_at of the newest one
  reader,   \* reader -> its lookup between the two locks
  last      \* history: the last call that has returned, with its result

simVars == <<enabled, cache, clock, reader, last>>

StoredKeys(c) == {k \in Keys : c.cache_map_[k] # NoEntry}
Indexed(c) == {i \in ItemIds : c.item_to_cache_keys_[i] # {}}

-----------------------------------------------------------------------------
(* The private helpers, as functions of the guarded members.                 *)

SumOf(f) == MapThenSumSet(LAMBDA x : f[x], DOMAIN f)

EstimateMemoryLocked(c) ==
  IF StoredKeys(c) = {} /\ Indexed(c) = {} THEN 0
  ELSE c.buckets + SumOf([k \in StoredKeys(c) |-> 1 + c.cache_map_[k].size + Len(c.cache_map_[k].ids)])
                 + SumOf([i \in Indexed(c) |-> Cardinality(c.item_to_cache_keys_[i])])

\* Hash tables only grow.
Grown(c) == [c EXCEPT !.buckets = Max({@, Cardinality(StoredKeys(c)) + Cardinality(Indexed(c))})]

RefreshMemoryLocked(c) == [c EXCEPT !.total_memory_bytes_ = EstimateMemoryLocked(c)]

\* The list without the key.
Unlinked(list, k) == Compact(list, {n \in DOMAIN list : list[n] # k})

\* Mutant: leave the key in the rows of the reverse index.
EraseKeepingIndex(c, k) ==
  IF k \notin StoredKeys(c) THEN c
  ELSE RefreshMemoryLocked([c EXCEPT !.lru_list_ = Unlinked(@, k), !.cache_map_[k] = NoEntry])

EraseLocked(c, k) ==
  IF k \notin StoredKeys(c) THEN c
  ELSE RefreshMemoryLocked(
         [c EXCEPT !.item_to_cache_keys_ =
                     [i \in ItemIds |-> IF i \in ToSet(c.cache_map_[k].ids) THEN @[i] \ {k} ELSE @[i]],
                   !.lru_list_ = Unlinked(@, k),
                   !.cache_map_[k] = NoEntry])

EraseEach(c, keys) ==
  LET after[n \in 0..Len(keys)] == IF n = 0 THEN c ELSE EraseLocked(after[n-1], keys[n])
  IN after[Len(keys)]

EraseAll(c, S) == EraseEach(c, SetToSeq(S))

\* Erase from the tail of the LRU list, at least a batch once anything must go.
EvictNext(at, k, required) ==
  IF at.c.total_memory_bytes_ + required > MaxMemory \/ at.evicted < BatchSize
  THEN [c |-> EraseLocked(at.c, k), evicted |-> at.evicted + 1]
  ELSE at

EvictEach(c, keys, required) ==
  LET after[n \in 0..Len(keys)] ==
        IF n = 0 THEN [c |-> c, evicted |-> 0] ELSE EvictNext(after[n-1], keys[n], required)
  IN after[Len(keys)].c

EvictForSpace(c, required) ==
  IF c.total_memory_bytes_ + required <= MaxMemory THEN c ELSE EvictEach(c, Reverse(c.lru_list_), required)

\* Append the ids not tracked yet, up to the limit.
Track(ids, i) == IF Len(ids) >= MaxTracked \/ i \in ToSet(ids) THEN ids ELSE Append(ids, i)

Tracked(old, item_ids) ==
  LET after[n \in 0..Len(item_ids)] == IF n = 0 THEN old ELSE Track(after[n-1], item_ids[n])
  IN after[Len(item_ids)]

RegisterResultItemsLocked(c, k, item_ids) ==
  LET ids == Tracked(c.cache_map_[k].ids, item_ids) IN
  Grown([c EXCEPT !.cache_map_[k].ids = ids,
                  !.item_to_cache_keys_ =
                    [i \in ItemIds |-> IF i \in ToSet(ids) THEN @[i] \cup {k} ELSE @[i]]])

Touch(c, k) == [c EXCEPT !.lru_list_ = <<k>> \o Unlinked(@, k)]

-----------------------------------------------------------------------------
(* Lookup.                                                                  *)

Quiet == [pc |-> "idle"]

\* Mutant: a miss only if nothing is stored, invalidated or not.
UsableIfStored(e) == e # NoEntry /\ e.fresh

\* The entry is there, not invalidated, and has not expired.
Usable(e) == e # NoEntry /\ e.live /\ e.fresh

\* First half, under the shared lock: find out what there is, copy the result.
LookupWithTtl(r, k) ==
  LET e == cache.cache_map_[k]
      hit == Usable(e) IN
  /\ reader[r].pc = "idle"
  /\ last' = [op |-> "lookup", key |-> k, val |-> IF enabled /\ hit THEN e.size ELSE Miss]
  /\ reader' = [reader EXCEPT ![r] =
                  IF enabled /\ e # NoEntry /\ e.live
                  THEN [pc |-> IF hit THEN "touch" ELSE "erase", key |-> k, created_at |-> e.created_at]
                  ELSE Quiet]
  /\ UNCHANGED <<enabled, cache, clock>>

\* The entry the reader saw is still there, not a new one under its key.
SameEntry(r) == cache.cache_map_[reader[r].key].created_at = reader[r].created_at

\* Second half, under the exclusive lock.
LookupFinish(r) ==
  /\ reader[r].pc # "idle"
  /\ cache' = CASE ~SameEntry(r) -> cache
                [] SameEntry(r) /\ reader[r].pc = "touch" -> Touch(cache, reader[r].key)
                [] OTHER -> EraseLocked(cache, reader[r].key)
  /\ reader' = [reader EXCEPT ![r] = Quiet]
  /\ UNCHANGED <<enabled, clock, last>>

-----------------------------------------------------------------------------
(* Insertion and removal.                                                   *)

Return(result) == last' = result /\ UNCHANGED <<enabled, reader>>

NewEntry(v) == [size |-> v, ids |-> <<>>, created_at |-> clock + 1, live |-> TRUE, fresh |-> TRUE]

\* Account for the structures as they are now, and evict if that is too much.
Settle(c) == EvictForSpace(RefreshMemoryLocked(c), 0)

\* InsertAndRegister: reject, make room, insert, account for everything, and
\* evict again if the index pushed the total over the limit.
InsertWithTtl(k, v, item_ids) ==
  LET room == EvictForSpace(cache, 1 + v)
      fits == room.total_memory_bytes_ + 1 + v <= MaxMemory
      put == Grown([room EXCEPT !.cache_map_[k] = NewEntry(v), !.lru_list_ = <<k>> \o @])
      done == Settle(RegisterResultItemsLocked(put, k, item_ids))
      rejected == ~enabled \/ 1 + v > MaxMemory \/ k \in StoredKeys(cache) IN
  /\ clock < MaxInserts
  /\ cache' = CASE rejected -> cache
                [] ~rejected /\ ~fits -> room
                [] OTHER -> done
  /\ clock' = IF rejected \/ ~fits THEN clock ELSE clock + 1
  /\ Return([op |-> "insert", key |-> k, ok |-> ~rejected /\ fits /\ k \in StoredKeys(done)])

RegisterResultItems(k, item_ids) ==
  /\ k \in StoredKeys(cache)
  /\ cache' = Settle(RegisterResultItemsLocked(cache, k, item_ids))
  /\ Return([op |-> "register", key |-> k])
  /\ UNCHANGED clock

InvalidateByItemId(i) ==
  /\ cache' = EraseAll([cache EXCEPT !.item_to_cache_keys_[i] = {}], cache.item_to_cache_keys_[i])
  /\ Return([op |-> "invalidate", item |-> i])
  /\ UNCHANGED clock

MarkInvalidated(k) ==
  /\ k \in StoredKeys(cache)
  /\ cache' = [cache EXCEPT !.cache_map_[k].live = FALSE]
  /\ Return([op |-> "erase", key |-> k])
  /\ UNCHANGED clock

Erase(k) ==
  /\ cache' = EraseLocked(cache, k)
  /\ Return([op |-> "erase", key |-> k])
  /\ UNCHANGED clock

Clear ==
  /\ cache' = [cache EXCEPT !.cache_map_ = [k \in Keys |-> NoEntry], !.lru_list_ = <<>>,
                            !.item_to_cache_keys_ = [i \in ItemIds |-> {}], !.total_memory_bytes_ = 0]
  /\ Return([op |-> "clear"])
  /\ UNCHANGED clock

\* ClearIf with any predicate on the keys.
ClearIf(S) ==
  /\ S \cap StoredKeys(cache) # {}
  /\ cache' = EraseAll(cache, S \cap StoredKeys(cache))
  /\ UNCHANGED <<enabled, clock, reader, last>>

PurgeExpired ==
  LET gone == {k \in StoredKeys(cache) : ~cache.cache_map_[k].fresh \/ ~cache.cache_map_[k].live} IN
  /\ gone # {}
  /\ cache' = EraseAll(cache, gone)
  /\ UNCHANGED <<enabled, clock, reader, last>>

SetEnabled ==
  /\ enabled' = ~enabled
  /\ UNCHANGED <<cache, clock, reader, last>>

\* The clock passes the expiry of an entry.
Expire(k) ==
  /\ k \in StoredKeys(cache)
  /\ cache.cache_map_[k].fresh
  /\ cache' = [cache EXCEPT !.cache_map_[k].fresh = FALSE]
  /\ UNCHANGED <<enabled, clock, reader, last>>

-----------------------------------------------------------------------------
SimInit ==
  /\ enabled \in BOOLEAN
  /\ cache = [cache_map_ |-> [k \in Keys |-> NoEntry], lru_list_ |-> <<>>,
              item_to_cache_keys_ |-> [i \in ItemIds |-> {}], total_memory_bytes_ |-> 0, buckets |-> 0]
  /\ clock = 0
  /\ reader = [r \in Readers |-> Quiet]
  /\ last = [op |-> "none"]

SimNext ==
  \/ \E r \in Readers : (\E k \in Keys : LookupWithTtl(r, k)) \/ LookupFinish(r)
  \/ \E k \in Keys, v \in Values, item_ids \in ItemLists : InsertWithTtl(k, v, item_ids)
  \/ \E k \in Keys, item_ids \in ItemLists : RegisterResultItems(k, item_ids)
  \/ \E i \in ItemIds : InvalidateByItemId(i)
  \/ \E k \in Keys : MarkInvalidated(k) \/ Erase(k) \/ Expire(k)
  \/ \E S \in SUBSET Keys : ClearIf(S)
  \/ Clear \/ PurgeExpired \/ SetEnabled

SimSpec == SimInit /\ [][SimNext]_simVars

-----------------------------------------------------------------------------
(* Properties.                                                              *)

\* The structures agree: the LRU list holds every cached key once, the reverse
\* index leads from an item to exactly the entries that track it, and the memory
\* accounted for is what both and the entries take, within max_memory_bytes_.
\* EraseLocked keeps them together for InvalidateByItemId, which trusts the index,
\* and for the eviction, which trusts the account.
IndexConsistent ==
  /\ ToSet(cache.lru_list_) = StoredKeys(cache)
  /\ Len(cache.lru_list_) = Cardinality(StoredKeys(cache))
  /\ \A i \in ItemIds :
       cache.item_to_cache_keys_[i] = {k \in StoredKeys(cache) : i \in ToSet(cache.cache_map_[k].ids)}
  /\ cache.total_memory_bytes_ = EstimateMemoryLocked(cache)
  /\ cache.total_memory_bytes_ <= MaxMemory

Abstract == INSTANCE ResultCache WITH Items <- ItemIds,
  entries <- {[key |-> k, val |-> cache.cache_map_[k].size, items |-> ToSet(cache.cache_map_[k].ids)] :
                k \in {j \in StoredKeys(cache) : cache.cache_map_[j].live /\ cache.cache_map_[j].fresh}}

\* The cache implements its abstract specification: a lookup returns what was
\* inserted under the key and not removed, expired or invalidated since, and
\* InvalidateByItemId, Erase and Clear remove what they promise and no more,
\* whatever runs between the two halves of a lookup.
ImplementsResultCache == Abstract!Spec
=============================================================================
