--------------------------- MODULE CacheCoherence ---------------------------
(***************************************************************************)
(* How SIM and SIMV share a result cache with the commands that change the   *)
(* stores (server/request_dispatcher.cpp, server/http_server.cpp).  A cached  *)
(* result is never looked up by item but by a key that holds the generation   *)
(* counters of the stores; a write changes a store first and bumps its        *)
(* generation later, and a query reads counters, cache and stores at          *)
(* different moments.  The protocol that keeps old results from being served  *)
(* is spread over every handler; this module puts the handlers side by side.  *)
(*                                                                         *)
(* Abstraction.  The content of a store is its version, raised by every       *)
(* change.  A result is the set of versions its computation saw.  Which       *)
(* entries an item invalidation, an eviction or an expiry removes is data:     *)
(* any of them may go (module SimilarityCache says exactly which).            *)
(***************************************************************************)
EXTENDS Integers, Sequences

CONSTANTS
  Clients,      \* connections that may run a SIM or SIMV at the same time
  Requests,     \* the requests they send
  MaxBumps      \* bound: a write or a load begins below this many bumps

Stores == {"co", "vec", "meta"}
Counters == Stores \cup {"data"}

\* The kinds of request: HandleSim in its three modes, and HandleSimv.
Kinds == {"events", "vectors", "fusion", "simv"}

ASSUME CoherenceConstants ==
  /\ Requests \subseteq Kinds
  /\ MaxBumps \in Nat
  /\ \A c \in Clients : c \notin {"free", "writer"}

VARIABLES
  ver,        \* store -> version of its content
  gen,        \* counter -> CoOccurrenceIndex::generation_, vector_generation, ...
  dirty,      \* history: stores changed since their counter was last bumped
  clean,      \* history: store -> version that its counter vouches for
  gate,       \* write_serialization_gate: "free", "writer" or the client in it
  todo,       \* what the handler in the gate has left to do
  loading,    \* HandlerContext::loading and the state of a DUMP LOAD
  enabled,    \* SimilarityCache::enabled_
  published,  \* HandlerContext::cache # nullptr
  entries,    \* cache_map_: set of [key, seen]
  query       \* client -> its SIM or SIMV

vars == <<ver, gen, dirty, clean, gate, todo, loading, enabled, published, entries, query>>
storeVars == <<ver, gen, dirty, clean>>
writerVars == <<gate, todo>>
cacheVars == <<enabled, published, entries>>

-----------------------------------------------------------------------------
(* Queries.                                                                 *)

\* The stores that the search of a request reads, the metadata for its filter.
ReadsOf(r) == {"meta"} \cup (IF r \in {"events", "fusion"} THEN {"co"} ELSE {})
                       \cup (IF r \in {"vectors", "fusion", "simv"} THEN {"vec"} ELSE {})

\* The counters that a request captures for its key, in the order it loads them.
CaptureOrder(r) == IF r = "simv" THEN <<"vec", "meta", "data">>
                                 ELSE <<"co", "vec", "meta", "data">>

CountersOf(r) == IF r = "simv" THEN Counters \ {"co"} ELSE Counters

\* Mutant: a key without the metadata generation.
KeyWithoutMeta(q) == [req |-> q.req, gens |-> [q.cap EXCEPT !["meta"] = 0]]

\* GenerateSimCacheKey, GenerateSimvCacheKey.
KeyOf(q) == [req |-> q.req, gens |-> q.cap]

NothingSeen == [s \in Stores |-> {}]
NoCapture == [d \in Counters |-> 0]

Idle == [pc |-> "idle", req |-> "events", left |-> <<>>, cap |-> NoCapture,
         seen |-> NothingSeen, floor |-> [s \in Stores |-> 0]]

Goto(c, pc) == query' = [query EXCEPT ![c].pc = pc]

\* The answer is settled: what it saw, and what it had to see.
Answer(c, seen) ==
  query' = [query EXCEPT ![c] = [Idle EXCEPT !.pc = "done", !.req = query[c].req,
                                             !.seen = seen, !.floor = query[c].floor]]

\* A query enters: it is refused during a DUMP LOAD, loads the cache pointer
\* and skips the cache if there is none or it is disabled.
QueryBegin(c, r) ==
  /\ query[c].pc = "idle"
  /\ loading = "no"
  /\ query' = [query EXCEPT ![c] =
                 [Idle EXCEPT !.pc = IF published /\ enabled THEN "capture" ELSE "bypass",
                              !.req = r, !.left = CaptureOrder(r), !.floor = clean]]
  /\ UNCHANGED <<storeVars, writerVars, loading, cacheVars>>

\* Load the next generation counter.
Capture(c) ==
  /\ query[c].pc = "capture"
  /\ query[c].left # <<>>
  /\ query' = [query EXCEPT ![c].cap[Head(query[c].left)] = gen[Head(query[c].left)],
                            ![c].left = Tail(query[c].left)]
  /\ UNCHANGED <<storeVars, writerVars, loading, cacheVars>>

LookupHit(c) ==
  /\ query[c].pc = "capture" /\ query[c].left = <<>>
  /\ enabled
  /\ \E e \in entries :
       /\ e.key = KeyOf(query[c])
       /\ Answer(c, e.seen)
  /\ UNCHANGED <<storeVars, writerVars, loading, cacheVars>>

\* A miss: the cache was disabled, has no such entry, or erases an expired one.
LookupMiss(c) ==
  LET found == {e \in entries : e.key = KeyOf(query[c])} IN
  /\ query[c].pc = "capture" /\ query[c].left = <<>>
  /\ Goto(c, "search")
  /\ entries' = IF enabled THEN entries \ found ELSE entries
  /\ UNCHANGED <<storeVars, writerVars, loading, enabled, published>>

\* The search reads each store under that store's own lock, at its own moment
\* and possibly more than once.
Search(c, s) ==
  /\ query[c].pc \in {"search", "bypass"}
  /\ s \in ReadsOf(query[c].req)
  /\ query' = [query EXCEPT ![c].seen[s] = @ \cup {ver[s]}]
  /\ UNCHANGED <<storeVars, writerVars, loading, cacheVars>>

SearchFails(c) ==
  /\ query[c].pc \in {"search", "bypass"}
  /\ query' = [query EXCEPT ![c] = Idle]
  /\ UNCHANGED <<storeVars, writerVars, loading, cacheVars>>

SearchComplete(c) == \A s \in ReadsOf(query[c].req) : query[c].seen[s] # {}

SearchBypassed(c) ==
  /\ query[c].pc = "bypass"
  /\ SearchComplete(c)
  /\ Answer(c, query[c].seen)
  /\ UNCHANGED <<storeVars, writerVars, loading, cacheVars>>

\* The counters that went into the key still have the captured values.
Unchanged(q) == \A d \in CountersOf(q.req) : q.cap[d] = gen[d]

\* Cache store: enter the gate, which waits for a writer to finish, and check
\* that the cache and every captured counter are still the same.
Store(c) ==
  /\ query[c].pc = "search"
  /\ SearchComplete(c)
  /\ gate = "free"
  /\ IF published /\ enabled /\ Unchanged(query[c])
     THEN gate' = c /\ Goto(c, "insert")
     ELSE gate' = gate /\ Answer(c, query[c].seen)
  /\ UNCHANGED <<storeVars, todo, loading, cacheVars>>

\* InsertAndRegister, then leave the gate.  Nothing is inserted if the cache
\* has been disabled meanwhile, the query was cheap, or the key is there; other
\* entries, or the new one, may be evicted for space.
Insert(c) ==
  LET q == query[c]
      new == [key |-> KeyOf(q), seen |-> q.seen] IN
  /\ q.pc = "insert"
  /\ \/ UNCHANGED entries
     \/ /\ enabled
        /\ \A e \in entries : e.key # new.key
        /\ \E gone \in SUBSET (entries \cup {new}) : entries' = (entries \cup {new}) \ gone
  /\ gate' = "free"
  /\ Answer(c, q.seen)
  /\ UNCHANGED <<storeVars, todo, loading, enabled, published>>

QueryEnd(c) ==
  /\ query[c].pc = "done"
  /\ query' = [query EXCEPT ![c] = Idle]
  /\ UNCHANGED <<storeVars, writerVars, loading, cacheVars>>

-----------------------------------------------------------------------------
(* Commands that change the stores: each one holds the gate from before its   *)
(* first change until its last statement.                                    *)

\* What a handler does in the gate, in order.  An entry of Stores is a change of
\* that store; "co" bumps its own counter under the store's lock; "vec" twice is
\* the vector store and then its ANN index, which a search reads beside it.
\* A duplicate EVENT changes nothing, but over HTTP it still invalidates.
EventScripts   == {<<>>, <<"invalidate">>, <<"co", "invalidate">>}
VecsetBumpFirst == {<<"bump_vec", "vec", "vec", "invalidate">>,
                    <<"bump_vec", "bump_meta", "vec", "meta", "vec", "invalidate", "clear">>}   \* mutant
VecsetScripts  == {<<"vec", "vec", "bump_vec", "invalidate">>,
                   <<"vec", "meta", "vec", "bump_vec", "bump_meta", "invalidate", "clear">>}
VecdelScripts  == {<<"vec", "meta", "vec", "bump_vec", "bump_meta", "invalidate">>}
MetasetScripts == {<<"meta", "bump_meta", "clear">>}
DecayScripts   == {<<"co">>, <<"co", "co">>}
LoadScript     == <<"swap", "bump_vec", "bump_meta", "bump_data", "clear">>

\* The bound on what a run may change.
RoomFor == gen["co"] + gen["vec"] + gen["meta"] + gen["data"] < MaxBumps

\* EVENT, VECSET, VECDEL and METASET on either protocol, once their checks and
\* the WAL have accepted them.  The first EVENT of a context has no pair to score.
WriteBegin ==
  /\ gate = "free"
  /\ loading = "no"
  /\ RoomFor
  /\ gate' = "writer"
  /\ todo' \in EventScripts \cup VecsetScripts \cup VecdelScripts \cup MetasetScripts
  /\ UNCHANGED <<storeVars, loading, cacheVars, query>>

\* The decay scheduler's maintenance callback.
DecayBegin ==
  /\ gate = "free"
  /\ loading \in {"no", "staging"}
  /\ RoomFor
  /\ gate' = "writer"
  /\ todo' \in DecayScripts
  /\ UNCHANGED <<storeVars, loading, cacheVars, query>>

\* DUMP LOAD: reserve the load, read the file into staged stores.
LoadBegin ==
  /\ loading = "no"
  /\ loading' = "staging"
  /\ UNCHANGED <<storeVars, writerVars, cacheVars, query>>

LoadRefused ==
  /\ loading = "staging"
  /\ loading' = "no"
  /\ UNCHANGED <<storeVars, writerVars, cacheVars, query>>

\* Mutant: take the snapshot gate in shared mode.
UndrainedQueries == TRUE

\* Publication takes the snapshot gate exclusively: no query is under way.
DrainedQueries == \A c \in Clients : query[c].pc = "idle"

LoadPublish ==
  /\ loading = "staging"
  /\ gate = "free"
  /\ DrainedQueries
  /\ RoomFor
  /\ loading' = "publishing"
  /\ gate' = "writer"
  /\ todo' = LoadScript
  /\ UNCHANGED <<storeVars, cacheVars, query>>

Working(step) == gate = "writer" /\ todo # <<>> /\ Head(todo) = step /\ todo' = Tail(todo)

\* SetVector, DeleteVector, the ANN notification, metadata_store Set or Delete.
Apply(s) ==
  /\ Working(s)
  /\ ver' = [ver EXCEPT ![s] = @ + 1]
  /\ dirty' = dirty \cup {s}
  /\ UNCHANGED <<gen, clean, gate, loading, cacheVars, query>>

\* ApplyIngestedEvent, ApplyDecay, Prune: change and bump under one lock.
ApplyCo ==
  /\ Working("co")
  /\ ver' = [ver EXCEPT !["co"] = @ + 1]
  /\ gen' = [gen EXCEPT !["co"] = @ + 1]
  /\ clean' = [clean EXCEPT !["co"] = ver["co"] + 1]
  /\ UNCHANGED <<dirty, gate, loading, cacheVars, query>>

BumpOf == [vec |-> "bump_vec", meta |-> "bump_meta"]

Bump(s) ==
  /\ Working(BumpOf[s])
  /\ gen' = [gen EXCEPT ![s] = @ + 1]
  /\ dirty' = dirty \ {s}
  /\ clean' = [clean EXCEPT ![s] = ver[s]]
  /\ UNCHANGED <<ver, gate, loading, cacheVars, query>>

\* The SwapState calls: new content everywhere, and the co-occurrence index
\* takes over the counter of the staged index, whatever it is.
Swap ==
  /\ Working("swap")
  /\ ver' = [s \in Stores |-> ver[s] + 1]
  /\ \E g \in 0..MaxBumps : gen' = [gen EXCEPT !["co"] = g]
  /\ dirty' = Stores
  /\ UNCHANGED <<clean, gate, loading, cacheVars, query>>

BumpData ==
  /\ Working("bump_data")
  /\ gen' = [gen EXCEPT !["data"] = @ + 1]
  /\ dirty' = {}
  /\ clean' = ver
  /\ UNCHANGED <<ver, gate, loading, cacheVars, query>>

\* InvalidateByItemId and Clear act through the published pointer, loaded once:
\* with no cache published the handler is done.
Invalidate ==
  /\ gate = "writer"
  /\ todo # <<>> /\ Head(todo) \in {"invalidate", "clear"}
  /\ IF published
     THEN /\ todo' = Tail(todo)
          /\ \E gone \in SUBSET entries :
               /\ Head(todo) = "clear" => gone = entries
               /\ entries' = entries \ gone
     ELSE todo' = <<>> /\ entries' = entries
  /\ UNCHANGED <<storeVars, gate, loading, enabled, published, query>>

\* Leave the gate.  A load that could not make its snapshot the recovery base
\* stops the server for good.
Release ==
  /\ gate = "writer" /\ todo = <<>>
  /\ gate' = "free"
  /\ loading' \in (IF loading = "publishing" THEN {"no", "halted"} ELSE {loading})
  /\ UNCHANGED <<storeVars, todo, cacheVars, query>>

-----------------------------------------------------------------------------
(* Cache administration, outside the gate.                                  *)

\* SimilarityCacheController::SetEnabled: two stores under its mutex.
SetEnabled(on) ==
  /\ enabled = published
  /\ enabled' = on
  /\ on # enabled
  /\ UNCHANGED <<storeVars, writerVars, loading, published, entries, query>>

Publish ==
  /\ published # enabled
  /\ published' = enabled
  /\ UNCHANGED <<storeVars, writerVars, loading, enabled, entries, query>>

CacheClear ==
  /\ entries' = {}
  /\ entries # {}
  /\ UNCHANGED <<storeVars, writerVars, loading, enabled, published, query>>

-----------------------------------------------------------------------------
Init ==
  /\ ver = [s \in Stores |-> 0]
  /\ gen = [d \in Counters |-> 0]
  /\ dirty = {}
  /\ clean = ver
  /\ gate = "free" /\ todo = <<>>
  /\ loading = "no"
  /\ enabled \in BOOLEAN /\ published = enabled
  /\ entries = {}
  /\ query = [c \in Clients |-> Idle]

QueryStep(c) ==
  \/ \E r \in Requests : QueryBegin(c, r)
  \/ Capture(c) \/ LookupHit(c) \/ LookupMiss(c)
  \/ \E s \in Stores : Search(c, s)
  \/ SearchFails(c) \/ SearchBypassed(c) \/ Store(c) \/ Insert(c) \/ QueryEnd(c)

WriterStep ==
  \/ \E s \in {"vec", "meta"} : Apply(s) \/ Bump(s)
  \/ ApplyCo \/ Swap \/ BumpData \/ Invalidate \/ Release

Next ==
  \/ \E c \in Clients : QueryStep(c)
  \/ WriteBegin \/ DecayBegin \/ LoadBegin \/ LoadRefused \/ LoadPublish
  \/ WriterStep
  \/ \E on \in BOOLEAN : SetEnabled(on)
  \/ Publish \/ CacheClear

Spec == Init /\ [][Next]_vars
-----------------------------------------------------------------------------
(* Properties.                                                              *)

Steps == Stores \cup {"swap", "bump_vec", "bump_meta", "bump_data", "invalidate", "clear"}
Results == [Stores -> SUBSET Nat]
Keys == [req : Kinds, gens : [Counters -> Nat]]

\* Types, and the discipline of the two gates: the serialization gate belongs to
\* the handler that has steps to do or to the one query that stores its result,
\* and no query is under way while a DUMP LOAD publishes.
TypeOK ==
  /\ ver \in [Stores -> Nat] /\ gen \in [Counters -> Nat]
  /\ dirty \subseteq Stores /\ clean \in [Stores -> Nat]
  /\ gate \in {"free", "writer"} \cup Clients
  /\ todo \in Seq(Steps)
  /\ loading \in {"no", "staging", "publishing", "halted"}
  /\ enabled \in BOOLEAN /\ published \in BOOLEAN
  /\ entries \subseteq [key : Keys, seen : Results]
  /\ query \in [Clients -> [pc : {"idle", "bypass", "capture", "search", "insert", "done"},
                            req : Kinds, left : Seq(Counters), cap : [Counters -> Nat],
                            seen : Results, floor : [Stores -> Nat]]]
  /\ todo # <<>> => gate = "writer"
  /\ \A c \in Clients : query[c].pc = "insert" <=> gate = c
  /\ loading = "publishing" => \A c \in Clients : query[c].pc = "idle"

\* An entry that a lookup with the present counters can hit is the result of the
\* present content of every store it was computed from, except a store that the
\* handler in the gate is changing at this moment.  It rests on the order of the
\* handlers: HandleSim and HandleSimv capture the counters before they read a
\* store, a write bumps the counter after it has changed the store, and a load
\* waits for the queries.  No handler has to find the entries its write made wrong.
CurrentEntriesExact ==
  \A e \in entries :
    (\A d \in CountersOf(e.key.req) : e.key.gens[d] = gen[d])
      => \A s \in ReadsOf(e.key.req) :
           e.seen[s] = {ver[s]} \/ (s \in dirty /\ gate = "writer")

\* A SIM or SIMV answer, from the cache or computed, contains every write that
\* was complete when the query arrived: no write acknowledged to a client is
\* missing from a later answer, whatever the cache was switched to in between.
FreshAnswers ==
  \A c \in Clients : query[c].pc = "done" =>
    \A s \in ReadsOf(query[c].req) : \A v \in query[c].seen[s] : v >= query[c].floor[s]
=============================================================================
