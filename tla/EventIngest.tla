---------------------------- MODULE EventIngest ----------------------------
(***************************************************************************)
(* The EVENT command: deduplication, the per-context ring buffers, the         *)
(* co-occurrence index, and what a restart rebuilds of them from a snapshot    *)
(* and the log (events/event_store.cpp, dedup_cache.cpp, state_cache.cpp,      *)
(* ring_buffer.h, RequestDispatcher::HandleEvent and ReplayRecord).            *)
(*                                                                         *)
(* A handler previews an event, logs it, and applies it.  The write gate keeps *)
(* other writers out, but the clock that deduplication reads moves on between  *)
(* the preview and the application.  A duplicate changes the recency order of  *)
(* a cache and is not logged, so a replay can decide differently.              *)
(*                                                                         *)
(* Abstraction.  An LRU map is the sequence of its entries, most recent first; *)
(* a map with access numbers likewise.  Seconds of the event time and of the   *)
(* monotonic clock are small naturals.  A snapshot and the truncation after it *)
(* are one step (module Recovery has them apart).  Counters are left out.      *)
(***************************************************************************)
EXTENDS CoOccurrence

CONSTANTS
  Offers,          \* the events clients send: [ctx, id, score, type, ts], ts 0 for none
  Configs,         \* the configurations: [max_neighbors, min_support, negative_signals]
  BufferSize,      \* events.ctx_buffer_size
  MaxContexts,     \* events.max_contexts, 0 for no limit
  Window,          \* events.dedup_window_sec
  CacheSize,       \* events.dedup_cache_size
  MaxOffers,       \* bound: events offered
  MaxClock,        \* bound: the monotonic clock
  MaxSaves,        \* bound: snapshots
  MaxRestarts,     \* bound: crashes
  MaxMaintenance   \* bound: runs of the decay scheduler

Events == [ctx : {o.ctx : o \in Offers}, id : Items, score : Int, type : {"ADD", "SET", "DEL"}, ts : Nat]

ASSUME IngestConstants ==
  /\ Offers \subseteq Events
  /\ Configs \subseteq [max_neighbors : Nat, min_support : Nat, negative_signals : BOOLEAN]
  /\ {BufferSize, CacheSize} \subseteq Nat \ {0}
  /\ {MaxContexts, Window, MaxOffers, MaxClock, MaxSaves, MaxRestarts, MaxMaintenance} \subseteq Nat

VARIABLES
  config,     \* chosen at startup
  store,      \* EventStore: contexts, dedup_cache_, state_cache_
  co,         \* CoOccurrenceIndex::co_scores_
  log,        \* the records after the snapshot
  image,      \* the latest snapshot
  now,        \* steady_clock and system_clock
  server,     \* phase of its life, read_only, position of the replay
  pending,    \* the handler between PrepareEvent and AddEventAndGetPrior
  hist,       \* history: context -> for each time it was created, the events stored
  past        \* history: counts for the bounds, and what has happened

ingestVars == <<config, store, co, log, image, now, server, pending, hist, past>>

Contexts == {o.ctx : o \in Offers}
NoEvent == [ctx |-> "none"]
NoPending == [event |-> NoEvent, deduped |-> FALSE]

-----------------------------------------------------------------------------
(* Ring buffers.                                                            *)

NewRing == [buffer |-> [k \in 0..BufferSize-1 |-> NoEvent], head |-> 0, size |-> 0]

Push(r, e) ==
  [buffer |-> [r.buffer EXCEPT ![r.head] = e],
   head |-> (r.head + 1) % BufferSize,
   size |-> IF r.size < BufferSize THEN r.size + 1 ELSE r.size]

GetAll(r) ==
  [k \in 1..r.size |-> IF r.size < BufferSize THEN r.buffer[k - 1]
                       ELSE r.buffer[(r.head + k - 1) % BufferSize]]

-----------------------------------------------------------------------------
(* LRU maps: entries with a field key, most recent first.                    *)

Has(s, k) == \E x \in ToSet(s) : x.key = k
Entry(s, k) == CHOOSE x \in ToSet(s) : x.key = k
Full(s, k, max) == ~Has(s, k) /\ max > 0 /\ Len(s) >= max

\* Move or insert to the front; a new key evicts the last one of a full map.
PutFront(s, x, max) ==
  LET kept == IF Full(s, x.key, max) THEN Front(s) ELSE s
  IN <<x>> \o Compact(kept, {k \in DOMAIN kept : kept[k].key # x.key})

EmptyEventStore == [ctxs |-> <<>>, dedup |-> <<>>, state |-> <<>>]
EventKey(e) == <<e.ctx, e.id, e.score>>
StateKey(e) == <<e.ctx, e.id>>
Deleted == -1
StateOf(e) == IF e.type = "DEL" THEN Deleted ELSE e.score

\* An older timestamp is a duplicate as long as the key was seen recently.
IsWithinWindow(x, ts, t) ==
  \/ Abs(ts - x.ts) <= Window
  \/ ts < x.ts /\ t - x.seen <= Window

\* WouldDeduplicate, WouldDeduplicateSet, WouldDeduplicateDel.
IsDuplicate(s, e, t) ==
  IF e.type = "ADD"
  THEN Window > 0 /\ Has(s.dedup, EventKey(e))
       /\ IsWithinWindow(Entry(s.dedup, EventKey(e)), e.ts, t)
  ELSE Has(s.state, StateKey(e)) /\ Entry(s.state, StateKey(e)).score = StateOf(e)

\* CheckAndInsert: a hit keeps the event time of the entry.
CheckAndInsert(s, e, t) ==
  LET ts == IF IsDuplicate(s, e, t) THEN Entry(s.dedup, EventKey(e)).ts ELSE e.ts
  IN PutFront(s.dedup, [key |-> EventKey(e), ts |-> ts, seen |-> t], CacheSize)

\* CheckAndUpdateSet, CheckAndMarkDeleted, UpdateScore, MarkDeleted.
CheckAndUpdate(s, e) ==
  PutFront(s.state, [key |-> StateKey(e), score |-> StateOf(e)], CacheSize)

\* The caches after the check that AddEventAndGetPrior makes first.
Checked(s, e, t) ==
  IF e.type # "ADD" THEN [s EXCEPT !.state = CheckAndUpdate(s, e)]
  ELSE IF Window = 0 THEN s
  ELSE [s EXCEPT !.dedup = CheckAndInsert(s, e, t)]

RingOf(s, c) == IF Has(s.ctxs, c) THEN Entry(s.ctxs, c).ring ELSE NewRing
GetEvents(s, c) == GetAll(RingOf(s, c))

\* Find or create the buffer, evicting the least recently used; touch; push.
StoreEvent(s, e) ==
  [s EXCEPT !.ctxs = PutFront(s.ctxs, [key |-> e.ctx, ring |-> Push(RingOf(s, e.ctx), e)], MaxContexts)]

\* Mutant: the prior events are read after the push.
PriorAfterPush(s, e) == GetEvents(StoreEvent(s, e), e.ctx)

PriorEvents(s, e) == GetEvents(s, e.ctx)

-----------------------------------------------------------------------------
(* Snapshot and restore.                                                    *)

EmptyImage == [events |-> <<>>, co |-> EmptyMatrix]

ImageOf == [events |-> [k \in DOMAIN store.ctxs |-> GetAll(store.ctxs[k].ring)], co |-> co]

\* RestoreEvent: past the duplicate check, but the last state is remembered.
RestoreEvent(s, e) ==
  LET t == StoreEvent(s, e)
  IN IF e.type = "ADD" THEN t ELSE [t EXCEPT !.state = CheckAndUpdate(s, e)]

RestoreContext(s, events) ==
  LET after[k \in 0..Len(events)] == IF k = 0 THEN s ELSE RestoreEvent(after[k-1], events[k])
  IN after[Len(events)]

RestoreContexts(contexts) ==
  LET after[k \in 0..Len(contexts)] ==
        IF k = 0 THEN EmptyEventStore ELSE RestoreContext(after[k-1], contexts[k])
  IN after[Len(contexts)]

\* The contexts of an image come in the order of a hash map.
RestoredStores(img) ==
  {RestoreContexts([k \in DOMAIN order |-> img.events[order[k]]]) : order \in SetToSeqs(DOMAIN img.events)}

-----------------------------------------------------------------------------
(* History.                                                                 *)

EventContents == [events |-> [c \in Contexts |-> GetEvents(store, c)], co |-> co]

\* The context's history with one more event; a context that is not there starts anew.
Recorded(e) ==
  [hist EXCEPT ![e.ctx] = IF Has(store.ctxs, e.ctx) THEN Append(Front(@), Append(Last(@), e))
                          ELSE Append(@, <<e>>)]

\* What storing an event entails that a replay may not repeat.
Consequences(e) ==
  LET known == e.type = "ADD" /\ Has(store.dedup, EventKey(e))
  IN {x \in {"ctx_evicted", "evicted", "skewed"} :
        \/ x = "ctx_evicted" /\ Full(store.ctxs, e.ctx, MaxContexts)
        \/ x = "evicted" /\ e.type = "ADD" /\ Full(store.dedup, EventKey(e), CacheSize)
        \/ x = "evicted" /\ e.type # "ADD" /\ Full(store.state, StateKey(e), CacheSize)
        \/ x = "skewed" /\ known /\ e.ts < Entry(store.dedup, EventKey(e)).ts}

-----------------------------------------------------------------------------
EInit ==
  /\ config \in Configs
  /\ store = EmptyEventStore
  /\ co = EmptyMatrix
  /\ log = <<>>
  /\ image = EmptyImage
  /\ now = 1
  /\ server = [phase |-> "up", read_only |-> FALSE, at |-> 1]
  /\ pending = NoPending
  /\ hist = [c \in Contexts |-> <<>>]
  /\ past = [offers |-> 0, saves |-> 0, restarts |-> 0, maintenance |-> 0, before |-> EmptyImage,
             hist |-> hist, events |-> {}]

Note(x) == [past EXCEPT !.events = @ \cup x]
Happened(x) == past.events \cap x # {}

\* ResolveTimestamp, then the preview; the write gate admits one handler.
PrepareEvent(e) ==
  /\ pending = NoPending
  /\ LET r == [e EXCEPT !.ts = IF @ = 0 THEN now ELSE @, !.score = IF e.type = "DEL" THEN 0 ELSE @]
     IN pending' = [event |-> r, offered |-> e, deduped |-> IsDuplicate(store, r, now)]
  /\ UNCHANGED <<config, store, co, log, image, now, server, hist>>

\* A client's EVENT over TCP or HTTP reaches the handler.
HandleEvent ==
  /\ server.phase = "up"
  /\ ~server.read_only
  /\ past.offers < MaxOffers
  /\ past' = [past EXCEPT !.offers = @ + 1]
  /\ \E e \in Offers : PrepareEvent(e)

\* During recovery ReplayRecord hands the records to the same handler.
ReplayEvent ==
  /\ server.phase = "replaying"
  /\ server.at <= Len(log)
  /\ log[server.at].type \in {"ADD", "SET", "DEL"}
  /\ PrepareEvent(log[server.at])
  /\ UNCHANGED past

\* Mutant: the record holds the event as the client sent it.
AsOffered(p) == p.offered

\* The record holds the resolved event.
LogRecord(p) == p.event

\* A handler that has finished a record: only a live one has written it to the log.
Finish(rec, ok) ==
  /\ log' = IF server.phase = "up" /\ rec # NoEvent THEN Append(log, rec) ELSE log
  /\ server' = IF server.phase = "up" THEN [server EXCEPT !.read_only = @ \/ ~ok]
               ELSE IF ok THEN [server EXCEPT !.at = @ + 1]
               ELSE [server EXCEPT !.phase = "refused"]
  /\ pending' = NoPending

\* The duplicate check is made again, and what it lets pass is stored.
AddEventAndGetPrior(e, again) ==
  LET checked == Checked(store, e, now)
  IN /\ store' = IF again THEN checked ELSE StoreEvent(checked, e)
     /\ hist' = IF again THEN hist ELSE Recorded(e)

\* The preview found a duplicate: it is not logged.  A check that now lets the event
\* pass has stored it, and the server turns read-only.
CommitDuplicate ==
  /\ pending # NoPending /\ pending.deduped
  /\ LET e == pending.event
         again == IsDuplicate(store, e, now)
     IN /\ AddEventAndGetPrior(e, again)
        /\ past' = IF again THEN past ELSE Note({"raced"})
        /\ Finish(NoEvent, again)
  /\ UNCHANGED <<config, co, image, now>>

\* The preview found a new event: AppendToWal, AddEventAndGetPrior, ApplyIngestedEvent.
CommitEvent ==
  /\ pending # NoPending /\ ~pending.deduped
  /\ LET e == pending.event
         again == IsDuplicate(store, e, now)
     IN /\ AddEventAndGetPrior(e, again)
        /\ co' \in IF again THEN {co} ELSE ApplyIngestedEvent(config, co, PriorEvents(store, e), e)
        /\ past' = Note(Consequences(e))
        /\ Finish(LogRecord(pending), ~again)
  /\ UNCHANGED <<config, image, now>>

\* DecayScheduler's maintenance: logged, then decay and, every few cycles, pruning.
MaintenanceResults(prune) ==
  IF prune THEN Prune(config, ApplyDecay(config, co)) ELSE {ApplyDecay(config, co)}

Maintain ==
  /\ pending = NoPending
  /\ server.phase = "up" /\ ~server.read_only
  /\ past.maintenance < MaxMaintenance
  /\ \E prune \in BOOLEAN :
       /\ co' \in MaintenanceResults(prune)
       /\ log' = Append(log, [type |-> "maintenance", prune |-> prune])
  /\ past' = [Note({"decayed"}) EXCEPT !.maintenance = @ + 1]
  /\ UNCHANGED <<config, store, image, now, server, pending, hist>>

ReplayMaintenance ==
  /\ pending = NoPending
  /\ server.phase = "replaying"
  /\ server.at <= Len(log)
  /\ log[server.at].type = "maintenance"
  /\ co' \in MaintenanceResults(log[server.at].prune)
  /\ Finish(NoEvent, TRUE)
  /\ UNCHANGED <<config, store, image, now, hist, past>>

\* DUMP SAVE under the write gate; the log starts afresh.
Save ==
  /\ pending = NoPending
  /\ server.phase = "up"
  /\ image' = ImageOf
  /\ past.saves < MaxSaves
  /\ log' = <<>>
  /\ past' = [past EXCEPT !.hist = hist, !.saves = @ + 1]
  /\ UNCHANGED <<config, store, co, now, server, pending, hist>>

\* A crash, and the start that loads the snapshot.
Restart ==
  /\ server.phase = "up"
  /\ past.restarts < MaxRestarts
  /\ store' \in RestoredStores(image)
  /\ co' = RestoreScores(image.co)
  /\ server' = [phase |-> "replaying", read_only |-> FALSE, at |-> 1]
  /\ pending' = NoPending
  /\ hist' = past.hist
  /\ past' = [Note(IF image # EmptyImage THEN {"restored"} ELSE {})
                EXCEPT !.restarts = @ + 1, !.before = EventContents]
  /\ UNCHANGED <<config, log, image, now>>

Serve ==
  /\ pending = NoPending
  /\ server.phase = "replaying" /\ server.at > Len(log)
  /\ server' = [server EXCEPT !.phase = "up", !.at = 1]
  /\ UNCHANGED <<config, store, co, log, image, now, pending, hist, past>>

\* Time passes, by more than the window.
Tick ==
  /\ now + Window < MaxClock
  /\ now' = now + Window + 1
  /\ UNCHANGED <<config, store, co, log, image, server, pending, hist, past>>

ENext ==
  \/ HandleEvent \/ ReplayEvent \/ CommitDuplicate \/ CommitEvent
  \/ Maintain \/ ReplayMaintenance \/ Save \/ Restart \/ Serve \/ Tick

ESpec == EInit /\ [][ENext]_ingestVars

-----------------------------------------------------------------------------
(* Properties.                                                              *)

\* The variables keep their shape.
ETypeOK ==
  /\ config \in Configs
  /\ \A k \in DOMAIN store.ctxs : store.ctxs[k].key \in Contexts
  /\ DOMAIN co \subseteq Items \X Items
  /\ \A p \in DOMAIN co : co[p] \in Int
  /\ now \in 1..MaxClock
  /\ server \in [phase : {"up", "replaying", "refused"}, read_only : BOOLEAN, at : 1..Len(log)+1]
  /\ pending.deduped \in BOOLEAN

\* The matrix stays symmetric, entry for entry, whatever is pruned, dampened or
\* decayed: readers look at one direction only (GetSimilar, GetScore).
Symmetric ==
  \A p \in DOMAIN co : <<p[2], p[1]>> \in DOMAIN co /\ co[<<p[2], p[1]>>] = co[p]

\* The sum over a context's history, every pair of events that were in the buffer
\* together counted once: what a batch over the whole history would compute.
BatchScore(i, j) ==
  LET Pairs(h) == {p \in (DOMAIN h) \X (DOMAIN h) : p[1] < p[2] /\ p[2] - p[1] <= BufferSize
                                               /\ {h[p[1]].id, h[p[2]].id} = {i, j}}
      OfHistory(h) == MapThenSumSet(LAMBDA p : PairScore(h[p[1]], h[p[2]]), Pairs(h))
  IN MapThenSumSet(LAMBDA c : MapThenSumSet(LAMBDA k : OfHistory(hist[c][k]), DOMAIN hist[c]), Contexts)

\* Streaming updates add up to the batch result, across restarts too ("keeps a
\* streaming update bit-for-bit equivalent to a batch rebuild"), where no pruning,
\* decay or negative signal has intervened.
StreamingEqualsBatch ==
  (config.max_neighbors = 0 /\ config.min_support = 0 /\ ~config.negative_signals
     /\ ~Happened({"decayed", "raced"}))
    => \A i, j \in Items : i # j => Score(co, <<i, j>>) = BatchScore(i, j)

\* No item keeps more neighbours than max_neighbors_per_item, hubs included, as long
\* as negative signals are off (they are applied after the pruning).
NeighbourLimit ==
  (config.max_neighbors > 0 /\ ~config.negative_signals)
    => \A i \in Items : Cardinality(Neighbours(co, i)) <= config.max_neighbors

Recovered == pending = NoPending /\ server.phase = "replaying" /\ server.at > Len(log)

\* README.md: "on restart, writes since the last snapshot are recovered by replaying
\* the WAL".
ReplayRecovers == (Recovered /\ config.max_neighbors = 0) => EventContents = past.before

\* An event that was previewed as new and written to the log is always applied, and
\* again at a replay: the clock moving on cannot turn it into a duplicate ("Event apply
\* diverged after WAL acceptance"); only the preview of a duplicate can be overtaken.
\* And recovery rebuilds buffers and scores exactly, unless a deduplication cache had to
\* forget, an event older than the window was accepted, or a context was evicted.
ReplayExact ==
  /\ (server.read_only \/ server.phase = "refused") => Happened({"raced"})
  /\ Happened({"evicted", "skewed", "raced", "ctx_evicted"}) \/ ReplayRecovers
=============================================================================
